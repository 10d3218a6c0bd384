-------------------------- MODULE AuthorityEnvelope --------------------------
(***************************************************************************)
(* The stale-authority model of src/authority.cpp, set beside the           *)
(* coordinator whose behaviour it predicts.  The lab decides with           *)
(* authority_is_stale whether a replay should be refused; the coordinator   *)
(* decides with handle_complete.  A field that is 0 is absent.  target_gen  *)
(* is a dimension of the envelope that no message of the runtime carries.   *)
(***************************************************************************)
EXTENDS Coordinator

CONSTANT MaxU64   \* 2^64 - 1

(* Boots and epochs are uint64_t; an epoch counts launches.                  *)
ASSUME WideAssumption ==
  MaxU64 \in Nat /\ (\A b \in Boots : b <= MaxU64) /\ MaxLaunches <= MaxU64

Envelope(grant, targetGen) ==
  [epoch |-> grant.epoch, worker |-> grant.worker, boot |-> grant.boot, attempt |-> grant.attempt,
   attempt_gen |-> grant.gen, dispatch |-> grant.dispatch, target_gen |-> targetGen]

Dimensions == {"epoch", "boot", "attempt", "attempt_gen", "dispatch", "target_gen"}

\* Mutant: an absent field is older than every field.
OlderAbsent(current, candidate) == candidate < current

Older(current, candidate) == candidate # 0 /\ candidate < current

(* authority_is_stale and stale_dimension, which is empty for a candidate    *)
(* that is not stale.  The worker id takes no part.                          *)
StaleDimensions(current, candidate) == {d \in Dimensions : Older(current[d], candidate[d])}
AuthorityIsStale(current, candidate) == StaleDimensions(current, candidate) # {}
AuthorityMatches(current, candidate) == current = candidate

Minus1(v) == IF v = 0 THEN MaxU64 ELSE v - 1

(* stale_combination.                                                        *)
StaleCombination(kind, current) ==
  CASE kind = 0 -> [current EXCEPT !.boot = Minus1(@)]
    [] kind = 1 -> [current EXCEPT !.attempt = Minus1(@)]
    [] kind = 2 -> [current EXCEPT !.dispatch = Minus1(@)]
    [] kind = 3 -> [current EXCEPT !.target_gen = Minus1(@)]
    [] kind = 4 -> current
    [] kind = 5 -> [current EXCEPT !.epoch = (@ + 1) % (MaxU64 + 1)]

(* The COMPLETE a controller would send for an envelope.                     *)
CompletionOf(e, result) ==
  [epoch |-> e.epoch, attempt |-> e.attempt, gen |-> e.attempt_gen, dispatch |-> e.dispatch,
   worker |-> e.worker, boot |-> e.boot, result |-> result]
-----------------------------------------------------------------------------
(* Every authority the coordinator ever assigned, by this or an earlier      *)
(* process, is stale for the lab as soon as another one is in force.  It     *)
(* rests on counters that start at 1, since a counter 0 counts as absent.    *)
SupersededIsStale ==
  up /\ hasSubmitted =>
    \A a \in assigned :
      a # CurrentGrant => AuthorityIsStale(Envelope(CurrentGrant, 0), Envelope(a, 0))

(* What the lab calls stale, or moves to another epoch, the coordinator      *)
(* refuses; the exact duplicate it refuses when it has committed already.    *)
(* The lab misses a combination it made itself exactly when the field was 1  *)
(* (the first attempt or dispatch): one less than 1 is an absent field.      *)
CombinationsAreRefused ==
  LET current == Envelope(CurrentGrant, 0)
      combo(kind) == StaleCombination(kind, current)
      accepted(kind) == \E v \in Results : Accepts(CompletionOf(combo(kind), v))
  IN up /\ hasSubmitted =>
       /\ \A kind \in {0, 1, 2, 5} : ~accepted(kind)
       /\ accepted(4) => CurrentGrant \notin committed
       /\ AuthorityIsStale(current, combo(0)) <=> current.boot > 1
       /\ AuthorityIsStale(current, combo(1)) <=> current.attempt > 1
       /\ AuthorityIsStale(current, combo(2)) <=> current.dispatch > 1
       /\ ~AuthorityIsStale(current, combo(4)) /\ AuthorityMatches(current, combo(4))
       /\ ~AuthorityIsStale(current, combo(5)) /\ ~AuthorityMatches(current, combo(5))

(* The lab's model of staleness predicts the coordinator: what was           *)
(* superseded is stale, and what is stale or moved is refused.               *)
StalenessIsPredicted == SupersededIsStale /\ CombinationsAreRefused

(* What it rests on beyond CoordInv: no authority has a counter 0, which the *)
(* lab would read as absent, and the epoch fits its 64 bits.                 *)
CountersStartAtOne ==
  /\ epoch = launches
  /\ launches <= MaxLaunches
  /\ up => epoch >= 1
  /\ \A a \in assigned : a.epoch >= 1 /\ a.attempt >= 1
=============================================================================
