---------------------------- MODULE AuthorityProofs ----------------------------
(***************************************************************************)
(* The lab's model of staleness predicts the coordinator, for any number   *)
(* of launches, submissions, workers and boots.                            *)
(***************************************************************************)
EXTENDS AuthorityEnvelope, CoordinatorProofs

USE IdAssumption, BoundAssumption, WideAssumption

(* Counters are raised before they are assigned, and a process is launched *)
(* at the epoch after its predecessor's.                                   *)
LEMMA CountersStep ==
  ASSUME CoordInv, CountersStartAtOne, [CoordNext]_coordVars
  PROVE  CountersStartAtOne'
<1>0. /\ launches \in Nat /\ epoch \in Nat /\ next.attempt \in Nat
      /\ ~up => next = Zero
  BY DEF CoordInv, CoordTypeOK, AuthorityInv
<1>1. CASE UNCHANGED <<up, epoch, launches, assigned>>
  BY <1>1 DEF CountersStartAtOne
<1>2. CASE Launch(epoch + 1)
  BY <1>0, <1>2 DEF Launch, authVars, CountersStartAtOne
<1>3. CASE LoseMemory
  BY <1>3 DEF LoseMemory, CountersStartAtOne
<1>4. ASSUME NEW c \in Controllers, NEW id \in WorkerIds, SubmitAccepted(c, id)
      PROVE  CountersStartAtOne'
  BY <1>0, <1>4 DEF SubmitAccepted, CountersStartAtOne
<1>5. ASSUME NEW k \in Conns,
             \/ Accept(k)
             \/ ConnectionLost(k)
             \/ \E req \in OpenRequests : CompleteAccepted(k, req)
      PROVE  UNCHANGED <<up, epoch, launches, assigned>>
  BY <1>5 DEF Accept, ConnectionLost, CompleteAccepted, authVars
<1>6. ASSUME NEW c \in Controllers,
             \/ \E id \in WorkerIds : SubmitRejected(c, id)
             \/ SubmitDispatch(c)
             \/ SubmitRespond(c)
             \/ Shutdown(c)
      PROVE  UNCHANGED <<up, epoch, launches, assigned>>
  BY <1>6 DEF SubmitRejected, SubmitDispatch, SubmitRespond, Shutdown, authVars
<1>7. ASSUME NEW f \in Fds, NEW id \in WorkerIds, NEW boot \in Boots, HandleRegister(f, id, boot)
      PROVE  UNCHANGED <<up, epoch, launches, assigned>>
  BY <1>7 DEF HandleRegister, authVars
<1>8. CASE UNCHANGED coordVars
  BY <1>1, <1>8 DEF coordVars
<1> QED
  BY <1>1, <1>2, <1>3, <1>4, <1>5, <1>6, <1>7, <1>8 DEF CoordNext, Crash, Exit

(* The authority in force: its counters are at least 1 and fit.            *)
LEMMA GrantInForce ==
  ASSUME CoordInv, CountersStartAtOne, up, hasSubmitted
  PROVE  /\ CurrentGrant \in assigned
         /\ CurrentGrant.epoch = epoch /\ epoch \in Nat /\ epoch >= 1 /\ epoch <= MaxU64
         /\ CurrentGrant.attempt = cur.attempt /\ cur.attempt \in Nat /\ cur.attempt >= 1
         /\ CurrentGrant.gen = cur.attempt
         /\ CurrentGrant.dispatch = cur.attempt
         /\ CurrentGrant.boot = cur.boot /\ cur.boot \in Nat /\ cur.boot >= 1
<1>1. CurrentGrant \in assigned /\ cur.gen = cur.attempt /\ cur.dispatch = cur.attempt
  BY DEF CoordInv, AuthorityInv
<1>2. CurrentGrant \in Authority
  BY <1>1 DEF CoordInv, CoordTypeOK
<1>3. cur.boot \in Boots
  BY <1>2 DEF CurrentGrant, Authority
<1>4. CurrentGrant.epoch >= 1 /\ CurrentGrant.attempt >= 1
  BY <1>1 DEF CountersStartAtOne
<1>5. epoch \in Nat /\ launches \in Nat /\ cur.attempt \in Nat
  BY DEF CoordInv, CoordTypeOK
<1>6. epoch <= MaxU64
  BY <1>5 DEF CountersStartAtOne
<1>7. cur.boot \in Nat /\ cur.boot >= 1
  <2>1. cur.boot \in Nat \ {0}
    BY <1>3
  <2> QED
    BY <2>1
<1> QED
  BY <1>1, <1>4, <1>5, <1>6, <1>7 DEF CurrentGrant

(* Whatever else was assigned has an older epoch, or an older attempt of   *)
(* the same epoch.                                                         *)
LEMMA InvImpliesSuperseded ==
  ASSUME CoordInv, CountersStartAtOne
  PROVE  SupersededIsStale
<1> SUFFICES ASSUME up, hasSubmitted, NEW a \in assigned, a # CurrentGrant
             PROVE  AuthorityIsStale(Envelope(CurrentGrant, 0), Envelope(a, 0))
  BY DEF SupersededIsStale
<1>1. a.epoch \in Nat /\ a.attempt \in Nat /\ a.epoch >= 1 /\ a.attempt >= 1
  BY DEF CoordInv, CoordTypeOK, Authority, CountersStartAtOne
<1>2. /\ CurrentGrant \in assigned
      /\ CurrentGrant.epoch = epoch /\ epoch \in Nat
      /\ CurrentGrant.attempt = cur.attempt /\ cur.attempt \in Nat
  BY GrantInForce
<1>3. a.epoch <= epoch /\ (a.epoch = epoch => a.attempt <= cur.attempt)
  BY DEF CoordInv, AuthorityInv
<1>4. ~(a.epoch = epoch /\ a.attempt = cur.attempt)
  BY <1>2 DEF CoordInv, AuthorityInv
<1>5. CASE a.epoch < epoch
  <2>1. "epoch" \in StaleDimensions(Envelope(CurrentGrant, 0), Envelope(a, 0))
    BY <1>1, <1>2, <1>5 DEF StaleDimensions, Dimensions, Older, Envelope
  <2> QED
    BY <2>1 DEF AuthorityIsStale
<1>6. CASE a.epoch = epoch
  <2>1. "attempt" \in StaleDimensions(Envelope(CurrentGrant, 0), Envelope(a, 0))
    BY <1>1, <1>2, <1>3, <1>4, <1>6 DEF StaleDimensions, Dimensions, Older, Envelope
  <2> QED
    BY <2>1 DEF AuthorityIsStale
<1> QED
  BY <1>1, <1>2, <1>3, <1>5, <1>6

(* The epoch of kind 5 is another one, and never one the lab calls older:  *)
(* at the top of its range it wraps to 0, which is absent.                 *)
LEMMA MovedEpoch ==
  ASSUME NEW e \in Nat, e >= 1, e <= MaxU64
  PROVE  LET m == (e + 1) % (MaxU64 + 1) IN m # e /\ ~Older(e, m)
<1>1. CASE e < MaxU64
  <2>1. (e + 1) % (MaxU64 + 1) = e + 1
    BY <1>1
  <2> QED
    BY <2>1 DEF Older
<1>2. CASE e = MaxU64
  <2>1. (e + 1) % (MaxU64 + 1) = 0
    BY <1>2
  <2> QED
    BY <2>1 DEF Older
<1> QED
  BY <1>1, <1>2

(* One less than a counter that is not 0 is another counter, and the lab   *)
(* calls it older unless it became 0.                                      *)
LEMMA OneLess ==
  ASSUME NEW n \in Nat, n >= 1
  PROVE  Minus1(n) # n /\ (Older(n, Minus1(n)) <=> n > 1)
BY DEF Minus1, Older

(* No dimension of an envelope is older than itself.                       *)
LEMMA OneDimension ==
  ASSUME NEW current, NEW d \in Dimensions, NEW candidate,
         \A x \in Dimensions : current[x] \in Nat,
         \A x \in Dimensions \ {d} : candidate[x] = current[x]
  PROVE  AuthorityIsStale(current, candidate) <=> Older(current[d], candidate[d])
<1>1. \A x \in Dimensions \ {d} : ~Older(current[x], candidate[x])
  BY DEF Older
<1> QED
  BY <1>1 DEF AuthorityIsStale, StaleDimensions

(* The coordinator refuses each combination by the field it changed, and   *)
(* the lab calls it stale exactly when that field is still present.        *)
LEMMA InvImpliesRefused ==
  ASSUME CoordInv, CountersStartAtOne
  PROVE  CombinationsAreRefused
<1> DEFINE current == Envelope(CurrentGrant, 0)
<1> DEFINE combo(kind) == StaleCombination(kind, current)
<1> DEFINE accepted(kind) == \E v \in Results : Accepts(CompletionOf(combo(kind), v))
<1> SUFFICES ASSUME up, hasSubmitted
             PROVE  /\ \A kind \in {0, 1, 2, 5} : ~accepted(kind)
                    /\ accepted(4) => CurrentGrant \notin committed
                    /\ AuthorityIsStale(current, combo(0)) <=> current.boot > 1
                    /\ AuthorityIsStale(current, combo(1)) <=> current.attempt > 1
                    /\ AuthorityIsStale(current, combo(2)) <=> current.dispatch > 1
                    /\ ~AuthorityIsStale(current, combo(4)) /\ AuthorityMatches(current, combo(4))
                    /\ ~AuthorityIsStale(current, combo(5)) /\ ~AuthorityMatches(current, combo(5))
  BY DEF CombinationsAreRefused
<1>1. /\ current = [epoch |-> epoch, worker |-> CurrentGrant.worker, boot |-> cur.boot,
                    attempt |-> cur.attempt, attempt_gen |-> cur.attempt,
                    dispatch |-> cur.attempt, target_gen |-> 0]
      /\ epoch \in Nat /\ epoch >= 1 /\ epoch <= MaxU64
      /\ cur.attempt \in Nat /\ cur.attempt >= 1
      /\ cur.boot \in Nat /\ cur.boot >= 1
      /\ cur.dispatch = cur.attempt
  BY GrantInForce DEF Envelope, CoordInv, AuthorityInv
<1>2. /\ combo(0) = [current EXCEPT !.boot = Minus1(@)]
      /\ combo(1) = [current EXCEPT !.attempt = Minus1(@)]
      /\ combo(2) = [current EXCEPT !.dispatch = Minus1(@)]
      /\ combo(4) = current
      /\ combo(5) = [current EXCEPT !.epoch = (@ + 1) % (MaxU64 + 1)]
  BY DEF StaleCombination
<1>3. \A x \in Dimensions : current[x] \in Nat
  BY <1>1 DEF Dimensions
<1> HIDE DEF current, combo
<1>4. /\ combo(0) = [epoch |-> epoch, worker |-> CurrentGrant.worker, boot |-> Minus1(cur.boot),
                     attempt |-> cur.attempt, attempt_gen |-> cur.attempt,
                     dispatch |-> cur.attempt, target_gen |-> 0]
      /\ combo(1) = [epoch |-> epoch, worker |-> CurrentGrant.worker, boot |-> cur.boot,
                     attempt |-> Minus1(cur.attempt), attempt_gen |-> cur.attempt,
                     dispatch |-> cur.attempt, target_gen |-> 0]
      /\ combo(2) = [epoch |-> epoch, worker |-> CurrentGrant.worker, boot |-> cur.boot,
                     attempt |-> cur.attempt, attempt_gen |-> cur.attempt,
                     dispatch |-> Minus1(cur.attempt), target_gen |-> 0]
      /\ combo(5) = [epoch |-> (epoch + 1) % (MaxU64 + 1), worker |-> CurrentGrant.worker,
                     boot |-> cur.boot, attempt |-> cur.attempt, attempt_gen |-> cur.attempt,
                     dispatch |-> cur.attempt, target_gen |-> 0]
  BY <1>1, <1>2
<1>5. /\ (epoch + 1) % (MaxU64 + 1) # epoch /\ ~Older(epoch, (epoch + 1) % (MaxU64 + 1))
      /\ Minus1(cur.boot) # cur.boot /\ (Older(cur.boot, Minus1(cur.boot)) <=> cur.boot > 1)
      /\ Minus1(cur.attempt) # cur.attempt
      /\ Older(cur.attempt, Minus1(cur.attempt)) <=> cur.attempt > 1
  BY <1>1, MovedEpoch, OneLess
<1>6. \A kind \in {0, 1, 2, 5} : ~accepted(kind)
  <2>1. \A v : ~Accepts(CompletionOf(combo(0), v))
    BY <1>4, <1>5 DEF Accepts, CurrentAuthority, CompletionOf
  <2>2. \A v : ~Accepts(CompletionOf(combo(1), v))
    BY <1>4, <1>5 DEF Accepts, CurrentAuthority, CompletionOf
  <2>3. \A v : ~Accepts(CompletionOf(combo(2), v))
    BY <1>1, <1>4, <1>5 DEF Accepts, CurrentAuthority, CompletionOf
  <2>4. \A v : ~Accepts(CompletionOf(combo(5), v))
    BY <1>4, <1>5 DEF Accepts, CurrentAuthority, CompletionOf
  <2> QED
    BY <2>1, <2>2, <2>3, <2>4
<1>7. accepted(4) => CurrentGrant \notin committed
  <2>1. \A v : Sig(CompletionOf(combo(4), v)) = CurrentGrant
    BY <1>2 DEF current, Envelope, CompletionOf, Sig, CurrentGrant
  <2> QED
    BY <2>1 DEF Accepts
<1>8. AuthorityIsStale(current, combo(0)) <=> current.boot > 1
  <2>1. \A x \in Dimensions \ {"boot"} : combo(0)[x] = current[x]
    BY <1>1, <1>4 DEF Dimensions
  <2>2. current["boot"] = cur.boot /\ combo(0)["boot"] = Minus1(cur.boot)
    BY <1>1, <1>4
  <2>3. AuthorityIsStale(current, combo(0)) <=> Older(current["boot"], combo(0)["boot"])
    BY <1>3, <2>1, OneDimension DEF Dimensions
  <2> QED
    BY <1>5, <2>2, <2>3
<1>9. AuthorityIsStale(current, combo(1)) <=> current.attempt > 1
  <2>1. \A x \in Dimensions \ {"attempt"} : combo(1)[x] = current[x]
    BY <1>1, <1>4 DEF Dimensions
  <2>2. current["attempt"] = cur.attempt /\ combo(1)["attempt"] = Minus1(cur.attempt)
    BY <1>1, <1>4
  <2>3. AuthorityIsStale(current, combo(1)) <=> Older(current["attempt"], combo(1)["attempt"])
    BY <1>3, <2>1, OneDimension DEF Dimensions
  <2> QED
    BY <1>5, <2>2, <2>3
<1>10. AuthorityIsStale(current, combo(2)) <=> current.dispatch > 1
  <2>1. \A x \in Dimensions \ {"dispatch"} : combo(2)[x] = current[x]
    BY <1>1, <1>4 DEF Dimensions
  <2>2. current["dispatch"] = cur.attempt /\ combo(2)["dispatch"] = Minus1(cur.attempt)
    BY <1>1, <1>4
  <2>3. AuthorityIsStale(current, combo(2)) <=> Older(current["dispatch"], combo(2)["dispatch"])
    BY <1>3, <2>1, OneDimension DEF Dimensions
  <2> QED
    BY <1>5, <2>2, <2>3
<1>11. ~AuthorityIsStale(current, combo(4)) /\ AuthorityMatches(current, combo(4))
  BY <1>2, <1>3 DEF AuthorityIsStale, StaleDimensions, Older, AuthorityMatches
<1>12. ~AuthorityIsStale(current, combo(5)) /\ ~AuthorityMatches(current, combo(5))
  <2>1. \A x \in Dimensions \ {"epoch"} : combo(5)[x] = current[x]
    BY <1>1, <1>4 DEF Dimensions
  <2>2. current["epoch"] = epoch /\ combo(5)["epoch"] = (epoch + 1) % (MaxU64 + 1)
    BY <1>1, <1>4
  <2>3. AuthorityIsStale(current, combo(5)) <=> Older(current["epoch"], combo(5)["epoch"])
    BY <1>3, <2>1, OneDimension DEF Dimensions
  <2> QED
    BY <1>5, <2>2, <2>3 DEF AuthorityMatches
<1> QED
  BY <1>6, <1>7, <1>8, <1>9, <1>10, <1>11, <1>12

(* What the lab's authority model calls stale, or moves to another epoch,  *)
(* the coordinator refuses, and it calls stale whatever the coordinator    *)
(* has superseded: a replay that is accepted is a finding, in campaigns of *)
(* any length.                                                             *)
THEOREM StalenessIsPredictedAlways == CoordSpec => []StalenessIsPredicted
<1>1. CoordInit => CountersStartAtOne
  BY DEF CoordInit, CountersStartAtOne
<1>2. CoordInv /\ CountersStartAtOne /\ [CoordNext]_coordVars => CountersStartAtOne'
  BY CountersStep
<1>3. CoordInv /\ [CoordNext]_coordVars => CoordInv'
  BY StepInv
<1>4. CoordInv /\ CountersStartAtOne => StalenessIsPredicted
  BY InvImpliesSuperseded, InvImpliesRefused DEF StalenessIsPredicted
<1> QED
  BY <1>1, <1>2, <1>3, <1>4, InitInv, PTL DEF CoordSpec
=============================================================================
