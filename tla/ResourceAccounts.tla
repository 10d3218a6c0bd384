-------------------------- MODULE ResourceAccounts --------------------------
(***************************************************************************)
(* The counters that bound a campaign: SafetyEnvelope (src/safety.cpp),     *)
(* ResourceGovernor, ResourceBaselineTracker and apply_host_pressure        *)
(* (src/resource.cpp).  The code keeps only numbers; the model also keeps   *)
(* what the numbers are meant to count.                                     *)
(*                                                                          *)
(* Unsigned 64-bit arithmetic is modulo Word.  A cap of 0 is unlimited.     *)
(* acquire_socket and release_socket are acquire_child and release_child    *)
(* with another counter, so Classes ranges over the two.                    *)
(***************************************************************************)
EXTENDS Integers, FiniteSets, Sequences, FiniteSetsExt

CONSTANTS
  Classes,        \* what the envelope caps: children, sockets
  Units,          \* the children or sockets a campaign may hold
  Caps,           \* envelope caps tried
  MaxRestarts,    \* the envelope's max_restarts
  Word,           \* 2^64
  Requests,       \* amounts asked of the governor
  MallocLimit,    \* the largest block malloc can return
  Chunk,          \* kChunk of apply_host_pressure
  Targets,        \* targets of apply_host_pressure
  MaxCalls        \* governor calls and observations, a bound of the model

ASSUME WordAssumption == Word \in Nat \ {0} /\ Requests \subseteq 0 .. Word - 1
ASSUME MallocAssumption == MallocLimit \in Nat /\ \A c \in Caps : MallocLimit + c < Word
ASSUME CapsAssumption == Caps \subseteq Nat /\ MaxRestarts \in Nat
ASSUME ChunkAssumption == Chunk \in Nat \ {0} /\ Targets \subseteq Nat

VARIABLES
  cap,         \* the cap of the envelope that is in force
  count,       \* child_count_ and socket_count_
  peak,        \* peak_child_count_ and peak_socket_count_
  restarts,    \* restart_count_
  held,        \* history: the units that are really held
  highest,     \* history: the most that were held at once
  released2,   \* history: something was released that was not held
  allocated,   \* allocated_
  reserved,    \* reserved_
  inUse,       \* history: what was granted less what was given back, as true sums
               \* [allocated, reserved], and the largest reservation
  overFreed,   \* history: the accounts that were given back more than was granted
  governorCalls, \* governor calls so far
  pressure,    \* apply_host_pressure: [target, total, blocks, done, failed]
  baseline,    \* [before, peak, after, leak], and whether it is captured
  snapshots    \* history: what observe() was shown

envelopeVars == <<count, peak, restarts, held, highest, released2>>
governorVars == <<allocated, reserved, inUse, overFreed, governorCalls>>
accountVars == <<cap, envelopeVars, governorVars, pressure, baseline, snapshots>>

Zero == [c \in Classes |-> 0]

AccountTypeOK ==
  /\ cap \in Caps
  /\ count \in [Classes -> Nat] /\ peak \in [Classes -> Nat]
  /\ restarts \in 0 .. MaxRestarts
  /\ held \in [Classes -> SUBSET Units]
  /\ {allocated, reserved} \subseteq 0 .. Word - 1
  /\ \A i \in DOMAIN pressure.blocks : pressure.blocks[i] \in 1 .. Chunk
  /\ baseline.leak \in BOOLEAN /\ baseline.captured \in BOOLEAN

AccountInit ==
  /\ cap \in Caps
  /\ count = Zero /\ peak = Zero /\ restarts = 0
  /\ held = [c \in Classes |-> {}] /\ highest = Zero /\ released2 = FALSE
  /\ allocated = 0 /\ reserved = 0
  /\ inUse = [allocated |-> 0, reserved |-> 0, largest |-> 0]
  /\ overFreed = {}
  /\ governorCalls = 0
  /\ pressure = [target |-> 0, total |-> 0, blocks |-> <<>>, done |-> TRUE, failed |-> FALSE]
  /\ baseline = [before |-> Zero, peak |-> Zero, after |-> Zero, leak |-> FALSE, captured |-> FALSE]
  /\ snapshots = <<>>

-----------------------------------------------------------------------------
(* SafetyEnvelope *)
\* Mutant: one more than the cap is let in.
UnderOrAtCap(c) == count[c] <= cap
\* can_spawn_more
UnderCap(c) == count[c] < cap

\* acquire_child, and acquire_socket with its own counter.  A refused acquire
\* changes nothing.
Acquire(c, u) ==
  /\ u \notin held[c]
  /\ UnderCap(c)
  /\ count' = [count EXCEPT ![c] = @ + 1]
  /\ peak' = [peak EXCEPT ![c] = Max({@, count[c] + 1})]
  /\ held' = [held EXCEPT ![c] = @ \cup {u}]
  /\ highest' = [highest EXCEPT ![c] = Max({@, Cardinality(held[c]) + 1})]
  /\ UNCHANGED <<cap, restarts, released2, governorVars, pressure, baseline, snapshots>>

\* release_child and release_socket of a unit; cleanup may release one twice, and
\* the counter only knows that it is not below zero.
Release(c, u) ==
  /\ count' = [count EXCEPT ![c] = IF @ > 0 THEN @ - 1 ELSE 0]
  /\ held' = [held EXCEPT ![c] = @ \ {u}]
  /\ released2' = (released2 \/ u \notin held[c])
  /\ UNCHANGED <<cap, peak, restarts, highest, governorVars, pressure, baseline, snapshots>>

\* acquire_restart
Restart ==
  /\ restarts < MaxRestarts
  /\ restarts' = restarts + 1
  /\ UNCHANGED <<cap, count, peak, held, highest, released2, governorVars, pressure,
                 baseline, snapshots>>

EnvelopeNext ==
  \/ \E c \in Classes, u \in Units : Acquire(c, u) \/ Release(c, u)
  \/ Restart

-----------------------------------------------------------------------------
(* ResourceGovernor *)
\* Mutant: the sum is compared before the amount is added.
FitsBefore(sum, n) == cap = 0 \/ sum <= cap
\* The check that try_allocate and reserve share: the sum may wrap.
Fits(sum, n) == cap = 0 \/ (sum + n) % Word <= cap
Subtract(sum, n) == IF n > sum THEN 0 ELSE sum - n

GovernorCall ==
  /\ governorCalls < MaxCalls
  /\ governorCalls' = governorCalls + 1
  /\ UNCHANGED <<cap, envelopeVars, pressure, baseline, snapshots>>

\* try_allocate probes malloc, which no amount that makes the sum wrap survives.
TryAllocate(n) ==
  /\ GovernorCall
  /\ Fits(allocated, n) /\ n <= MallocLimit
  /\ allocated' = (allocated + n) % Word
  /\ inUse' = [inUse EXCEPT !.allocated = @ + n]
  /\ UNCHANGED <<reserved, overFreed>>

\* A free of more than is allocated leaves allocated_ at 0.
AccountFree(n) ==
  /\ GovernorCall
  /\ allocated' = Subtract(allocated, n)
  /\ inUse' = [inUse EXCEPT !.allocated = @ - n]
  /\ overFreed' = overFreed \cup (IF n > inUse.allocated THEN {"allocated"} ELSE {})
  /\ UNCHANGED reserved

\* reserve has nothing to probe.
Reserve(n) ==
  /\ GovernorCall
  /\ Fits(reserved, n)
  /\ reserved' = (reserved + n) % Word
  /\ inUse' = [inUse EXCEPT !.reserved = @ + n, !.largest = Max({@, n})]
  /\ UNCHANGED <<allocated, overFreed>>

ReleaseReservation(n) ==
  /\ GovernorCall
  /\ reserved' = Subtract(reserved, n)
  /\ inUse' = [inUse EXCEPT !.reserved = @ - n]
  /\ overFreed' = overFreed \cup (IF n > inUse.reserved THEN {"reserved"} ELSE {})
  /\ UNCHANGED allocated

GovernorNext ==
  \E n \in Requests : TryAllocate(n) \/ AccountFree(n) \/ Reserve(n) \/ ReleaseReservation(n)

-----------------------------------------------------------------------------
(* apply_host_pressure *)
\* out.clear() releases the blocks of an earlier call.
ApplyPressure(t) ==
  /\ pressure.done
  /\ pressure' = [target |-> t, total |-> 0, blocks |-> <<>>, done |-> FALSE, failed |-> FALSE]
  /\ UNCHANGED <<cap, envelopeVars, governorVars, baseline, snapshots>>

\* HostAllocation::allocate of n bytes may succeed; malloc may always refuse.
Allocates(n) == (cap = 0 \/ n <= cap) /\ n <= MallocLimit

\* Mutant: everything that is left is one block.
StepWhole == pressure.target - pressure.total
\* The size of the next block: a chunk, cut to what the cap and the target leave.
Step ==
  LET total == pressure.total
      byCap == IF cap # 0 /\ total + Chunk > cap THEN cap - total ELSE Chunk
  IN  IF total + byCap > pressure.target THEN pressure.target - total ELSE byCap

MorePressure ==
  /\ ~pressure.done
  /\ pressure.total < pressure.target
  /\ cap # 0 => pressure.total < cap

\* One block; a failed allocation ends the loop without an error.
PressureBlock ==
  /\ MorePressure
  /\ \/ /\ Allocates(Step)
        /\ pressure' = [pressure EXCEPT !.total = @ + Step, !.blocks = Append(@, Step)]
     \/ pressure' = [pressure EXCEPT !.done = TRUE, !.failed = TRUE]
  /\ UNCHANGED <<cap, envelopeVars, governorVars, baseline, snapshots>>

PressureDone ==
  /\ ~pressure.done /\ ~MorePressure
  /\ pressure' = [pressure EXCEPT !.done = TRUE]
  /\ UNCHANGED <<cap, envelopeVars, governorVars, baseline, snapshots>>

\* cmd_resource releases every block and returns.
ReleaseBlocks ==
  /\ pressure.done /\ pressure.blocks # <<>>
  /\ pressure' = [target |-> 0, total |-> 0, blocks |-> <<>>, done |-> TRUE,
                  failed |-> pressure.failed]
  /\ UNCHANGED <<cap, envelopeVars, governorVars, baseline, snapshots>>

PressureNext ==
  \/ \E t \in Targets : ApplyPressure(t)
  \/ PressureBlock
  \/ PressureDone
  \/ ReleaseBlocks

-----------------------------------------------------------------------------
(* ResourceBaselineTracker *)
\* Mutant: the verdict is against the peak instead of the first snapshot.
LeakedFromPeak(b, now) == \E c \in Classes : now[c] >= b.peak[c] /\ now[c] # 0
Leaked(b, now) == \E c \in Classes : now[c] > b.before[c] /\ now[c] # 0

Observe(now) ==
  /\ Len(snapshots) < MaxCalls
  /\ LET b == IF baseline.captured THEN baseline ELSE [baseline EXCEPT !.before = now, !.captured = TRUE]
     IN  baseline' = [before |-> b.before,
                      peak |-> [c \in Classes |-> Max({b.peak[c], now[c]})],
                      after |-> now, leak |-> Leaked(b, now), captured |-> b.captured]
  /\ snapshots' = Append(snapshots, now)
  /\ UNCHANGED <<cap, envelopeVars, governorVars, pressure>>

BaselineNext == \E now \in [Classes -> 0 .. 2] : Observe(now)

-----------------------------------------------------------------------------
(* Properties *)

\* The envelope's counters tell the truth as long as nothing is released twice:
\* what is held never exceeds the cap, and the peak is the most
\* that was ever held at once.  A second release of one unit makes the counter
\* forget another that is still held, and the cap may then be exceeded.
CapsHold ==
  ~released2 =>
    \A c \in Classes :
      /\ count[c] = Cardinality(held[c])
      /\ Cardinality(held[c]) <= cap
      /\ peak[c] = highest[c]

\* The governor keeps what it has granted within the cap for every sequence of
\* allocations and frees: its sum is what was granted less what was freed as
\* long as no free was larger than what was outstanding, and never less than
\* that afterwards, when the clamp at 0 has forgotten the excess.  For
\* reservations that needs requests that leave the cap room below 2^64: the sum
\* of a larger one wraps, passes the check and makes reserved_ forget what is
\* outstanding, with no malloc to stop it.
Keeps(account, sum, net) ==
  /\ net <= sum /\ sum <= cap
  /\ account \notin overFreed => sum = net

GrantedWithinCap ==
  cap # 0 =>
    /\ Keeps("allocated", allocated, inUse.allocated)
    /\ inUse.largest + cap < Word => Keeps("reserved", reserved, inUse.reserved)

\* t is the sum of the sequence s: there are partial sums that lead from 0 to t.
SumsTo(s, t) ==
  \E sum \in [0 .. Len(s) -> 0 .. t] :
    /\ sum[0] = 0
    /\ \A i \in 1 .. Len(s) : sum[i] = sum[i - 1] + s[i]
    /\ sum[Len(s)] = t

\* Host pressure never passes the target or the cap, block by block; the total
\* it reports is what its blocks hold, and when it ends without a failed
\* allocation it has reached the smaller of the two.
PressureBounded ==
  LET limit == IF cap = 0 THEN pressure.target ELSE Min({cap, pressure.target})
  IN  /\ SumsTo(pressure.blocks, pressure.total)
      /\ pressure.total <= limit
      /\ pressure.done /\ ~pressure.failed /\ pressure.blocks # <<>> => pressure.total = limit

\* Memory the lab takes on purpose stays within the cap, in both of its ways.
MemoryWithinCap == GrantedWithinCap /\ PressureBounded

\* The verdict is about the whole campaign: it says LEAK exactly when some count
\* of the last snapshot is above the first one, whatever came between, and the
\* peak is the highest of them all.
VerdictIsFirstToLast ==
  baseline.captured =>
    LET first == snapshots[1]
        last  == snapshots[Len(snapshots)]
    IN  /\ baseline.leak <=> \E c \in Classes : last[c] > first[c]
        /\ baseline.peak = [c \in Classes |-> Max({snapshots[i][c] : i \in DOMAIN snapshots})]

-----------------------------------------------------------------------------
\* The inductive invariants behind these properties, one per object.
EnvelopeInv ==
  /\ cap \in Caps
  /\ count \in [Classes -> Nat] /\ peak \in [Classes -> Nat] /\ highest \in [Classes -> Nat]
  /\ restarts \in 0 .. MaxRestarts
  /\ released2 \in BOOLEAN
  /\ held \in [Classes -> SUBSET Units] /\ \A c \in Classes : IsFiniteSet(held[c])
  /\ CapsHold

GovernorInv ==
  /\ allocated \in 0 .. Word - 1 /\ reserved \in 0 .. Word - 1
  /\ inUse \in [allocated : Int, reserved : Int, largest : Nat]
  /\ GrantedWithinCap

PressureInv ==
  /\ pressure \in [target : Nat, total : Nat, blocks : Seq(1 .. Chunk), done : BOOLEAN,
                   failed : BOOLEAN]
  /\ PressureBounded

\* The first snapshot is the baseline until the end, the verdict is about the
\* last one, and the peak is one of them and none is higher.
BaselineInv ==
  /\ baseline \in [before : [Classes -> Nat], peak : [Classes -> Nat], after : [Classes -> Nat],
                   leak : BOOLEAN, captured : BOOLEAN]
  /\ snapshots \in Seq([Classes -> Nat])
  /\ baseline.captured <=> snapshots # <<>>
  /\ ~baseline.captured => baseline.peak = Zero
  /\ baseline.captured =>
       /\ baseline.before = snapshots[1]
       /\ baseline.leak <=> \E c \in Classes : snapshots[Len(snapshots)][c] > snapshots[1][c]
       /\ \A c \in Classes : \E i \in DOMAIN snapshots : baseline.peak[c] = snapshots[i][c]
       /\ \A c \in Classes, i \in DOMAIN snapshots : baseline.peak[c] >= snapshots[i][c]

AccountInv == EnvelopeInv /\ GovernorInv /\ PressureInv /\ BaselineInv
=============================================================================
