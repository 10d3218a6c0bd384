------------------------------ MODULE OwnedProofs ------------------------------
(***************************************************************************)
(* Proofs about the resources a campaign owns: process handles, the safety *)
(* envelope, the resource governor, host pressure and the baseline, for    *)
(* any number of objects, processes, calls and snapshots.                  *)
(***************************************************************************)
EXTENDS OwnedResources, FiniteSetTheorems, TLAPS

USE NoPidAssumption, ExitCodesAssumption

HandleType == [process : Pids \cup {NoPid}, pid : Pids \cup {NoPid},
               exited : BOOLEAN, code : ExitCodes \cup {0, KilledCode}]

(* What ProcessInv says of one object.                                     *)
HandleOK(h) ==
  LET p == handle[h].process IN
  Owns(h) =>
    /\ os[p] # "new"
    /\ handle[h].exited => os[p] \in {"dying", "gone"}
    /\ handle[h].code # 0 => os[p] = "gone" /\ handle[h].code = code[p]
KillingOK(h) ==
  killing[h] # "no" => Owns(h) /\ os[handle[h].process] \in {"dying", "gone"}

(* force_kill moves on with h, and may return from its process.            *)
KillStep(h) ==
  /\ killing' \in [Handles -> {"no", "wait", "check"}]
  /\ \A g \in Handles : g # h => killing'[g] = killing[g]
  /\ killed' \subseteq killed \cup {handle[h].process}

(* ProcessInv is what it says of each object.                              *)
LEMMA ProcessParts ==
  ProcessInv <=> /\ ProcessTypeOK /\ OneOwner /\ ForceKillEnds
                 /\ \A h \in Handles : HandleOK(h) /\ KillingOK(h)
BY DEF ProcessInv, HandleOK, KillingOK

(* Only object h changes: it gives up its process, or learns about its     *)
(* end.                                                                    *)
LEMMA ObjectStep ==
  ASSUME ProcessInv, NEW h \in Handles, NEW new \in HandleType,
         handle' = [handle EXCEPT ![h] = new],
         UNCHANGED <<os, code>>, KillStep(h),
         \/ new.process = NoPid /\ killing'[h] = "no" /\ UNCHANGED killed
         \/ /\ new.process = handle[h].process
            /\ Owns(h)
            /\ os[handle[h].process] = "gone"
            /\ new.code \in {handle[h].code, code[handle[h].process]}
  PROVE  ProcessInv'
<1>0. handle \in [Handles -> HandleType] /\ handle' \in [Handles -> HandleType]
  BY DEF ProcessInv, ProcessTypeOK, HandleType
<1>1. ProcessTypeOK'
  <2>1. killed' \subseteq Pids
    BY DEF ProcessInv, ProcessTypeOK, KillStep, Owns
  <2> QED
    BY <1>0, <2>1 DEF ProcessInv, ProcessTypeOK, HandleType, KillStep
<1>2. \A g \in Handles : handle'[g] = IF g = h THEN new ELSE handle[g]
  BY <1>0
<1>3. OneOwner'
  BY <1>2 DEF ProcessInv, OneOwner, Owns
<1>4. ForceKillEnds'
  BY DEF ProcessInv, ForceKillEnds, KillStep
<1>5. \A g \in Handles : HandleOK(g)' /\ KillingOK(g)'
  BY <1>2 DEF ProcessInv, HandleOK, KillingOK, Owns, KillStep
<1> QED
  BY <1>1, <1>3, <1>4, <1>5 DEF ProcessInv, HandleOK, KillingOK

(* A process that goes on to "dying" or "gone" never contradicts what the  *)
(* objects say of it.                                                      *)
LEMMA EndStep ==
  ASSUME ProcessInv, NEW p \in Pids, os[p] \in {"running", "dying"},
         UNCHANGED <<handle, killing, killed>>,
         NEW c \in ExitCodes \cup {0, KilledCode},
         NEW s \in {"dying", "gone"},
         os' = [os EXCEPT ![p] = s],
         code' = [code EXCEPT ![p] = c]
  PROVE  ProcessInv'
<1>0. os \in [Pids -> {"new", "running", "dying", "gone"}]
      /\ code \in [Pids -> ExitCodes \cup {0, KilledCode}]
  BY DEF ProcessInv, ProcessTypeOK
<1>1. ProcessTypeOK'
  BY <1>0 DEF ProcessInv, ProcessTypeOK
<1>2. /\ \A q \in Pids : q # p => os'[q] = os[q] /\ code'[q] = code[q]
      /\ os'[p] = s
  BY <1>0
<1>3. OneOwner'
  BY DEF ProcessInv, OneOwner, Owns
<1>4. ForceKillEnds'
  BY <1>2 DEF ProcessInv, ForceKillEnds
<1>5. \A g \in Handles : Owns(g) => handle[g].process \in Pids
  BY DEF ProcessInv, ProcessTypeOK, Owns
<1>6. \A g \in Handles : HandleOK(g)' /\ KillingOK(g)'
  BY <1>2, <1>5 DEF ProcessInv, HandleOK, KillingOK, Owns
<1> QED
  BY <1>1, <1>3, <1>4, <1>6 DEF ProcessInv, HandleOK, KillingOK

(* TerminateProcess through h: the process is told to end, or was gone.    *)
LEMMA TerminatedStep ==
  ASSUME ProcessInv, NEW h \in Handles, Owns(h), Terminated(h),
         UNCHANGED code, KillStep(h)
  PROVE  ProcessInv'
<1> DEFINE p == handle[h].process
<1>0. /\ handle \in [Handles -> HandleType] /\ p \in Pids
      /\ os \in [Pids -> {"new", "running", "dying", "gone"}]
  BY DEF ProcessInv, ProcessTypeOK, HandleType, Owns
<1>1. CASE os[p] \in {"dying", "gone"} /\ UNCHANGED <<os, handle>>
  <2>1. ProcessTypeOK'
    BY <1>0, <1>1 DEF ProcessInv, ProcessTypeOK, KillStep
  <2>2. OneOwner' /\ ForceKillEnds'
    BY <1>1 DEF ProcessInv, OneOwner, ForceKillEnds, Owns, KillStep
  <2>3. \A g \in Handles : HandleOK(g)' /\ KillingOK(g)'
    BY <1>1 DEF ProcessInv, HandleOK, KillingOK, Owns, KillStep
  <2> QED
    BY <2>1, <2>2, <2>3 DEF ProcessInv, HandleOK, KillingOK
<1>2. CASE /\ os[p] \in {"running", "dying"}
           /\ os' = [os EXCEPT ![p] = "dying"]
           /\ handle' = [handle EXCEPT ![h].exited = TRUE]
  <2>1. /\ \A g \in Handles : g # h => handle'[g] = handle[g]
        /\ \A g \in Handles : /\ handle'[g].process = handle[g].process
                              /\ handle'[g].code = handle[g].code
        /\ handle' \in [Handles -> HandleType]
    BY <1>0, <1>2, ZenonT(30) DEF HandleType
  <2>2. /\ \A q \in Pids : q # p => os'[q] = os[q]
        /\ os'[p] = "dying"
        /\ os' \in [Pids -> {"new", "running", "dying", "gone"}]
    BY <1>0, <1>2
  <2>3. ProcessTypeOK'
    BY <1>0, <2>1, <2>2 DEF ProcessInv, ProcessTypeOK, HandleType, KillStep
  <2>4. OneOwner'
    BY <2>1 DEF ProcessInv, OneOwner, Owns
  <2>5. ForceKillEnds'
    BY <1>0, <2>2 DEF ProcessInv, ForceKillEnds, ProcessTypeOK, KillStep
  <2>6. \A g \in Handles : Owns(g) => handle[g].process \in Pids
    BY DEF ProcessInv, ProcessTypeOK, Owns
  <2>7. \A g \in Handles : HandleOK(g)' /\ KillingOK(g)'
    BY <1>0, <1>2, <2>1, <2>2, <2>6 DEF ProcessInv, HandleOK, KillingOK, Owns, OneOwner,
                                           KillStep
  <2> QED
    BY <2>3, <2>4, <2>5, <2>7 DEF ProcessInv, HandleOK, KillingOK
<1> QED
  BY <1>1, <1>2 DEF Terminated

(* Process::launch gives the object a process no object has owned.         *)
LEMMA LaunchStep ==
  ASSUME ProcessInv, NEW h \in Handles, NEW p \in Pids, Launch(h, p)
  PROVE  ProcessInv'
<1> DEFINE new == [process |-> p, pid |-> p, exited |-> FALSE, code |-> 0]
<1>0. /\ handle \in [Handles -> HandleType]
      /\ os \in [Pids -> {"new", "running", "dying", "gone"}]
      /\ handle' = [handle EXCEPT ![h] = new]
      /\ os[p] = "new" /\ os' = [os EXCEPT ![p] = "running"]
      /\ killing[h] = "no" /\ UNCHANGED <<code, killing, killed>>
  BY DEF ProcessInv, ProcessTypeOK, HandleType, Launch, Free
<1>1. /\ \A g \in Handles : handle'[g] = IF g = h THEN new ELSE handle[g]
      /\ \A q \in Pids : os'[q] = IF q = p THEN "running" ELSE os[q]
  BY <1>0
<1>2. ProcessTypeOK'
  <2>1. new \in HandleType
    BY DEF HandleType
  <2>2. handle' \in [Handles -> HandleType]
    BY <1>0, <2>1
  <2> QED
    BY <1>0, <2>2 DEF ProcessInv, ProcessTypeOK, HandleType
<1>3. \A g \in Handles : Owns(g) => handle[g].process # p /\ handle[g].process \in Pids
  BY <1>0 DEF ProcessInv, ProcessTypeOK, Owns
<1>4. OneOwner'
  BY <1>1, <1>3 DEF ProcessInv, OneOwner, Owns
<1>5. ForceKillEnds'
  BY <1>0, <1>1 DEF ProcessInv, ProcessTypeOK, ForceKillEnds
<1>6. \A g \in Handles : HandleOK(g)' /\ KillingOK(g)'
  BY <1>0, <1>1, <1>3 DEF ProcessInv, HandleOK, KillingOK, Owns
<1> QED
  BY <1>2, <1>4, <1>5, <1>6 DEF ProcessInv, HandleOK, KillingOK

(* Move assignment passes the process on, with what is known of its end.   *)
LEMMA MoveStep ==
  ASSUME ProcessInv, NEW h \in Handles, NEW g \in Handles, Move(h, g)
  PROVE  ProcessInv'
<1>0. handle \in [Handles -> HandleType]
  BY DEF ProcessInv, ProcessTypeOK, HandleType
<1>1. /\ h # g /\ killing[h] = "no" /\ killing[g] = "no"
      /\ UNCHANGED <<os, code, killing, killed>>
      /\ \A x \in Handles : x # h /\ x # g => handle'[x] = handle[x]
      /\ handle'[h] = handle[g]
      /\ handle'[g].process = NoPid
      /\ handle' \in [Handles -> HandleType]
  BY <1>0 DEF Move, Free, HandleType
<1>3. ProcessTypeOK'
  BY <1>1 DEF ProcessInv, ProcessTypeOK, HandleType
<1>4. OneOwner'
  BY <1>1 DEF ProcessInv, OneOwner, Owns
<1>5. ForceKillEnds'
  BY <1>1 DEF ProcessInv, ForceKillEnds
<1>6. \A x \in Handles : HandleOK(x)' /\ KillingOK(x)'
  BY <1>1 DEF ProcessInv, HandleOK, KillingOK, Owns
<1> QED
  BY <1>3, <1>4, <1>5, <1>6 DEF ProcessInv, HandleOK, KillingOK

(* Every call of a controller and every end of a process keeps ProcessInv. *)
LEMMA ProcessStep == ProcessInv /\ ProcessNext => ProcessInv'
<1> SUFFICES ASSUME ProcessInv, ProcessNext PROVE ProcessInv'
  OBVIOUS
<1>0. /\ handle \in [Handles -> HandleType]
      /\ os \in [Pids -> {"new", "running", "dying", "gone"}]
      /\ code \in [Pids -> ExitCodes \cup {0, KilledCode}]
      /\ killing \in [Handles -> {"no", "wait", "check"}]
  BY DEF ProcessInv, ProcessTypeOK, HandleType
<1>1. ASSUME NEW h \in Handles, NEW p \in Pids, Launch(h, p) PROVE ProcessInv'
  BY <1>1, LaunchStep
<1>2. ASSUME NEW h \in Handles, LaunchFails(h) \/ CloseHandles(h) PROVE ProcessInv'
  <2>1. Closed \in HandleType /\ Closed.process = NoPid
    BY DEF Closed, HandleType
  <2> QED
    BY <1>0, <1>2, <2>1, ObjectStep DEF LaunchFails, CloseHandles, Free, KillStep
<1>3. ASSUME NEW h \in Handles, NEW g \in Handles, Move(h, g) PROVE ProcessInv'
  BY <1>3, MoveStep
<1>4. ASSUME NEW h \in Handles, Owns(h), os[handle[h].process] = "gone",
             handle' = [handle EXCEPT ![h] = Collected(h)], UNCHANGED <<os, code>>, KillStep(h)
      PROVE  ProcessInv'
  <2>1. handle[h].process \in Pids
    BY <1>0, <1>4 DEF Owns, HandleType
  <2>2. code[handle[h].process] \in ExitCodes \cup {0, KilledCode}
    BY <1>0, <2>1
  <2>3. Collected(h) \in HandleType
    BY <1>0, <2>2 DEF Collected, HandleType
  <2>4. Collected(h).process = handle[h].process /\ Collected(h).code = code[handle[h].process]
    BY DEF Collected
  <2> QED
    BY <1>4, <2>3, <2>4, ObjectStep
<1>5. ASSUME NEW h \in Handles, CheckAlive(h) \/ Wait(h) PROVE ProcessInv'
  BY <1>0, <1>4, <1>5 DEF CheckAlive, Alive, Wait, KillStep
<1>6. ASSUME NEW h \in Handles, TerminateGraceful(h) PROVE ProcessInv'
  <2> DEFINE new == [handle[h] EXCEPT !.exited = TRUE]
  <2>1. new \in HandleType /\ new.process = handle[h].process /\ new.code = handle[h].code
    BY <1>0, ZenonT(30) DEF HandleType
  <2>2. handle' = [handle EXCEPT ![h] = new]
    BY <1>6 DEF TerminateGraceful
  <2> HIDE DEF new
  <2> QED
    BY <1>0, <1>6, <2>1, <2>2, ObjectStep DEF TerminateGraceful, KillStep
<1>7. ASSUME NEW h \in Handles, Terminate(h) \/ ForceKill(h) PROVE ProcessInv'
  <2>1. KillStep(h)
    BY <1>0, <1>7 DEF Terminate, ForceKill, KillStep
  <2> QED
    BY <1>7, <2>1, TerminatedStep DEF Terminate, ForceKill
<1>8. ASSUME NEW h \in Handles, ForceKillWait(h) PROVE ProcessInv'
  <2>1. KillStep(h) /\ Owns(h) /\ killing[h] # "no" /\ killing'[h] # "no"
    BY <1>0, <1>8 DEF ForceKillWait, KillStep, ProcessInv
  <2>2. CASE os[handle[h].process] = "gone"
    BY <1>4, <1>8, <2>1, <2>2 DEF ForceKillWait
  <2>3. CASE os[handle[h].process] # "gone"
    <3>1. UNCHANGED <<handle, os, code, killed>>
      BY <1>8, <2>3 DEF ForceKillWait
    <3>2. \A g \in Handles : killing'[g] # "no" => killing[g] # "no"
      BY <2>1 DEF KillStep
    <3>3. ProcessTypeOK' /\ OneOwner' /\ ForceKillEnds'
      BY <2>1, <3>1 DEF ProcessInv, ProcessTypeOK, OneOwner, ForceKillEnds, Owns, KillStep
    <3>4. \A g \in Handles : HandleOK(g)' /\ KillingOK(g)'
      BY <3>1, <3>2 DEF ProcessInv, HandleOK, KillingOK, Owns
    <3> QED
      BY <3>3, <3>4 DEF ProcessInv, HandleOK, KillingOK
  <2> QED
    BY <2>2, <2>3
<1>9. ASSUME NEW h \in Handles, ForceKillCheck(h) PROVE ProcessInv'
  <2>1. KillStep(h) /\ Owns(h)
    BY <1>0, <1>9 DEF ForceKillCheck, KillStep, ProcessInv
  <2>2. CASE Alive(h) /\ Terminated(h)
    BY <1>9, <2>1, <2>2, TerminatedStep DEF ForceKillCheck
  <2>3. CASE ~Alive(h)
    BY <1>4, <1>9, <2>1, <2>3 DEF ForceKillCheck, Alive
  <2> QED
    BY <1>9, <2>2, <2>3 DEF ForceKillCheck
<1>10. ASSUME NEW p \in Pids, ChildExits(p) \/ ChildDies(p) PROVE ProcessInv'
  BY <1>0, <1>10, EndStep DEF ChildExits, ChildDies
<1> QED
  BY <1>1, <1>2, <1>3, <1>5, <1>6, <1>7, <1>8, <1>9, <1>10 DEF ProcessNext, ControllerStep

(* The invariant holds before anything is launched.                        *)
LEMMA ProcessInitInv == ProcessInit => ProcessInv
BY DEF ProcessInit, ProcessInv, ProcessTypeOK, OneOwner, ForceKillEnds, Owns, Closed

(* A behaviour exercises one object: either the processes or the accounts  *)
(* move.                                                                   *)
LEMMA ProcessOrAccounts ==
  ASSUME [ResourceNext]_resourceVars
  PROVE  \/ ProcessNext /\ UNCHANGED accountVars
         \/ UNCHANGED processVars
BY DEF ResourceNext, resourceVars

(* The same over the whole of OwnedResources.                              *)
LEMMA ProcessInvStep == ProcessInv /\ [ResourceNext]_resourceVars => ProcessInv'
<1> SUFFICES ASSUME ProcessInv, [ResourceNext]_resourceVars PROVE ProcessInv'
  OBVIOUS
<1>1. CASE ProcessNext
  BY <1>1, ProcessStep
<1>2. CASE UNCHANGED processVars
  BY <1>2 DEF processVars, ProcessInv, ProcessTypeOK, OneOwner, ForceKillEnds, Owns
<1> QED
  BY <1>1, <1>2, ProcessOrAccounts

(* Two Process objects never own one process, however handles are moved,   *)
(* closed, reused and killed.                                              *)
THEOREM OneOwnerAlways == ResourceSpec => []OneOwner
<1>1. ResourceInit => ProcessInv
  BY ProcessInitInv DEF ResourceInit
<1>2. ProcessInv => OneOwner
  BY DEF ProcessInv
<1> QED
  BY <1>1, <1>2, ProcessInvStep, PTL DEF ResourceSpec

(* A Process object never says exited of a process that goes on running,   *)
(* nor reports a code other than 0 that the process did not leave with, and *)
(* a process that force_kill has returned from has been told to end, for   *)
(* every schedule of the controller and of the operating system.           *)
THEOREM EndsAreFinalAlways == ResourceSpec => []EndsAreFinal
<1>1. ResourceInit => ProcessInv
  BY ProcessInitInv DEF ResourceInit
<1>2. ProcessInv => EndsAreFinal
  BY DEF ProcessInv, EndsAreFinal, ExitedHasEnded
<1> QED
  BY <1>1, <1>2, ProcessInvStep, PTL DEF ResourceSpec

-----------------------------------------------------------------------------
USE WordAssumption, MallocAssumption, CapsAssumption, ChunkAssumption

(* The greatest element of a set of numbers is its maximum, and the least  *)
(* its minimum.                                                            *)
LEMMA MaxIs ==
  ASSUME NEW S \in SUBSET Int, NEW m \in S, \A y \in S : m >= y
  PROVE  Max(S) = m
<1>1. \E x \in S : \A y \in S : x >= y
  OBVIOUS
<1>2. Max(S) \in S /\ \A y \in S : Max(S) >= y
  BY <1>1, Zenon DEF Max
<1> DEFINE x == Max(S)
<1>3. x \in Int /\ x >= m /\ m >= x
  BY <1>2
<1> HIDE DEF x
<1>4. x = m
  BY <1>3
<1> QED
  BY <1>4 DEF x

LEMMA MinIs ==
  ASSUME NEW S \in SUBSET Int, NEW m \in S, \A y \in S : m <= y
  PROVE  Min(S) = m
<1>1. \E x \in S : \A y \in S : x <= y
  OBVIOUS
<1>2. Min(S) \in S /\ \A y \in S : Min(S) <= y
  BY <1>1, Zenon DEF Min
<1> DEFINE x == Min(S)
<1>3. x \in Int /\ x <= m /\ m <= x
  BY <1>2
<1> HIDE DEF x
<1>4. x = m
  BY <1>3
<1> QED
  BY <1>4 DEF x

(* Of two numbers.                                                         *)
LEMMA MaxOfTwo ==
  ASSUME NEW a \in Int, NEW b \in Int
  PROVE  Max({a, b}) = IF a >= b THEN a ELSE b
<1>1. CASE a >= b
  BY <1>1, MaxIs
<1>2. CASE ~(a >= b)
  BY <1>2, MaxIs
<1> QED
  BY <1>1, <1>2

LEMMA MinOfTwo ==
  ASSUME NEW a \in Int, NEW b \in Int
  PROVE  Min({a, b}) = IF a <= b THEN a ELSE b
<1>1. CASE a <= b
  BY <1>1, MinIs
<1>2. CASE ~(a <= b)
  BY <1>2, MinIs
<1> QED
  BY <1>1, <1>2

(* acquire and release of the safety envelope.                             *)
LEMMA EnvelopeStep ==
  ASSUME EnvelopeInv, EnvelopeNext
  PROVE  EnvelopeInv'
<1> DEFINE Sizes == \A c \in Classes : Cardinality(held[c]) \in Nat
<1>0. Sizes
  BY FS_CardinalityType DEF EnvelopeInv
<1>1. CASE Restart
  BY <1>1 DEF Restart, EnvelopeInv, CapsHold
<1>2. ASSUME NEW c \in Classes, NEW u \in Units, Acquire(c, u) PROVE EnvelopeInv'
  <2>1. /\ IsFiniteSet(held[c] \cup {u})
        /\ Cardinality(held[c] \cup {u}) = Cardinality(held[c]) + 1
    BY <1>2, FS_AddElement DEF Acquire, EnvelopeInv
  <2>2. /\ held' = [held EXCEPT ![c] = held[c] \cup {u}]
        /\ count' = [count EXCEPT ![c] = count[c] + 1]
        /\ peak' = [peak EXCEPT ![c] = Max({peak[c], count[c] + 1})]
        /\ highest' = [highest EXCEPT ![c] = Max({highest[c], Cardinality(held[c]) + 1})]
        /\ count[c] < cap
        /\ UNCHANGED <<cap, restarts, released2>>
    BY <1>2 DEF Acquire, UnderCap
  <2>3. /\ Max({peak[c], count[c] + 1}) \in Nat
        /\ Max({highest[c], Cardinality(held[c]) + 1}) \in Nat
    BY <1>0, MaxOfTwo, SMTT(30) DEF EnvelopeInv
  <2>4. /\ held' \in [Classes -> SUBSET Units]
        /\ count' \in [Classes -> Nat] /\ peak' \in [Classes -> Nat] /\ highest' \in [Classes -> Nat]
        /\ \A d \in Classes : IsFiniteSet(held'[d])
    BY <2>1, <2>2, <2>3 DEF EnvelopeInv
  <2>5. CapsHold'
    <3> SUFFICES ASSUME ~released2, NEW d \in Classes
                 PROVE  /\ count'[d] = Cardinality(held'[d])
                        /\ Cardinality(held'[d]) <= cap
                        /\ peak'[d] = highest'[d]
      BY <2>2 DEF CapsHold
    <3>1. /\ count[d] = Cardinality(held[d]) /\ Cardinality(held[d]) <= cap
          /\ peak[d] = highest[d] /\ count[c] = Cardinality(held[c])
      BY DEF EnvelopeInv, CapsHold
    <3>2. cap \in Nat
      BY DEF EnvelopeInv
    <3>3. CASE d = c
      <4>1. /\ held'[d] = held[c] \cup {u}
            /\ count'[d] = count[c] + 1
            /\ peak'[d] = Max({peak[c], count[c] + 1})
            /\ highest'[d] = Max({highest[c], Cardinality(held[c]) + 1})
        BY <2>2, <3>3 DEF EnvelopeInv
      <4>2. peak'[d] = highest'[d]
        BY <3>1, <3>3, <4>1
      <4>3. count[c] \in Nat /\ count[c] < cap
        BY <2>2 DEF EnvelopeInv
      <4> QED
        BY <2>1, <3>1, <3>2, <4>1, <4>2, <4>3
    <3>4. CASE d # c
      <4>1. held'[d] = held[d] /\ count'[d] = count[d] /\ peak'[d] = peak[d] /\ highest'[d] = highest[d]
        BY <2>2, <3>4 DEF EnvelopeInv
      <4> QED
        BY <3>1, <4>1
    <3> QED
      BY <3>3, <3>4
  <2> QED
    BY <2>2, <2>4, <2>5 DEF EnvelopeInv
<1>3. ASSUME NEW c \in Classes, NEW u \in Units, Release(c, u) PROVE EnvelopeInv'
  <2>1. /\ IsFiniteSet(held[c] \ {u})
        /\ u \in held[c] => Cardinality(held[c] \ {u}) = Cardinality(held[c]) - 1
    BY FS_RemoveElement DEF EnvelopeInv
  <2>2. /\ held' = [held EXCEPT ![c] = held[c] \ {u}]
        /\ count' = [count EXCEPT ![c] = IF count[c] > 0 THEN count[c] - 1 ELSE 0]
        /\ released2' = (released2 \/ u \notin held[c])
        /\ UNCHANGED <<cap, peak, highest, restarts>>
    BY <1>3 DEF Release
  <2>3. /\ held' \in [Classes -> SUBSET Units]
        /\ count' \in [Classes -> Nat]
        /\ \A d \in Classes : IsFiniteSet(held'[d])
    BY <2>1, <2>2 DEF EnvelopeInv
  <2>4. CapsHold'
    <3> SUFFICES ASSUME ~released2, u \in held[c], NEW d \in Classes
                 PROVE  /\ count'[d] = Cardinality(held'[d])
                        /\ Cardinality(held'[d]) <= cap
                        /\ peak'[d] = highest'[d]
      BY <2>2 DEF CapsHold
    <3>1. /\ count[d] = Cardinality(held[d]) /\ Cardinality(held[d]) <= cap
          /\ peak[d] = highest[d]
      BY DEF EnvelopeInv, CapsHold
    <3>2. cap \in Nat
      BY DEF EnvelopeInv
    <3>3. Cardinality(held[c] \ {u}) \in Nat
      BY <2>1, FS_CardinalityType
    <3>4. CASE d = c
      <4>1. held'[d] = held[c] \ {u} /\ count'[d] = IF count[c] > 0 THEN count[c] - 1 ELSE 0
        BY <2>2, <3>4 DEF EnvelopeInv
      <4>2. count[c] = Cardinality(held[c]) /\ Cardinality(held[c]) \in Nat
        BY <1>0, <3>1, <3>4
      <4>3. Cardinality(held[c] \ {u}) = Cardinality(held[c]) - 1
        BY <2>1
      <4>4. count'[d] = Cardinality(held'[d])
        BY <3>3, <4>1, <4>2, <4>3
      <4>5. Cardinality(held'[d]) <= cap
        BY <3>1, <3>2, <3>3, <3>4, <4>1, <4>2, <4>3
      <4> QED
        BY <2>2, <3>1, <4>4, <4>5
    <3>5. CASE d # c
      <4>1. held'[d] = held[d] /\ count'[d] = count[d]
        BY <2>2, <3>5 DEF EnvelopeInv
      <4> QED
        BY <2>2, <3>1, <4>1
    <3> QED
      BY <3>4, <3>5
  <2> QED
    BY <2>2, <2>3, <2>4 DEF EnvelopeInv
<1> QED
  BY <1>1, <1>2, <1>3 DEF EnvelopeNext

(* A sum that stays below the word does not wrap.                          *)
LEMMA NoWrap ==
  ASSUME NEW s \in Nat, s < Word
  PROVE  s % Word = s
OBVIOUS

(* A request is a number below the word, and so is any sum modulo it.      *)
LEMMA Wrapped ==
  ASSUME NEW s \in Nat
  PROVE  s % Word \in 0 .. Word - 1
OBVIOUS

(* try_allocate, account_free, reserve and release of the governor.        *)
LEMMA GovernorStep ==
  ASSUME EnvelopeInv, GovernorInv, GovernorNext
  PROVE  GovernorInv'
<1>0. /\ allocated \in Nat /\ reserved \in Nat /\ Word \in Nat
      /\ allocated < Word /\ reserved < Word
      /\ inUse \in [allocated : Int, reserved : Int, largest : Nat]
      /\ cap \in Nat /\ cap \in Caps
  BY DEF GovernorInv, EnvelopeInv
<1>1. ASSUME NEW n \in Requests, TryAllocate(n) PROVE GovernorInv'
  <2>0. n \in Nat
    OBVIOUS
  <2>1. /\ allocated' = (allocated + n) % Word /\ reserved' = reserved /\ cap' = cap
        /\ Fits(allocated, n) /\ n <= MallocLimit
        /\ inUse' = [inUse EXCEPT !.allocated = inUse.allocated + n] /\ overFreed' = overFreed
    BY <1>1 DEF TryAllocate, GovernorCall
  <2>2. /\ inUse' \in [allocated : Int, reserved : Int, largest : Nat]
        /\ inUse'.allocated = inUse.allocated + n
        /\ inUse'.reserved = inUse.reserved /\ inUse'.largest = inUse.largest
    BY <1>0, <2>0, <2>1
  <2>3. allocated' \in 0 .. Word - 1
    BY <1>0, <2>0, <2>1, Wrapped
  <2>4. ASSUME cap # 0
        PROVE  allocated' = allocated + n /\ allocated' <= cap
    <3>1. allocated <= cap /\ MallocLimit + cap < Word
      BY <1>0, <2>4 DEF GovernorInv, GrantedWithinCap, Keeps
    <3>2. allocated + n \in Nat /\ allocated + n < Word
      BY <1>0, <2>0, <2>1, <3>1
    <3>3. (allocated + n) % Word = allocated + n
      BY <3>2, NoWrap
    <3> QED
      BY <2>1, <2>4, <3>3 DEF Fits
  <2>5. GrantedWithinCap'
    BY <1>0, <2>1, <2>2, <2>4 DEF GovernorInv, GrantedWithinCap, Keeps
  <2> QED
    BY <1>0, <2>1, <2>2, <2>3, <2>5 DEF GovernorInv
<1>2. ASSUME NEW n \in Requests, AccountFree(n) PROVE GovernorInv'
  <2>0. n \in Nat
    OBVIOUS
  <2>1. /\ allocated' = Subtract(allocated, n) /\ reserved' = reserved /\ cap' = cap
        /\ inUse' = [inUse EXCEPT !.allocated = inUse.allocated - n]
        /\ overFreed' = overFreed \cup (IF n > inUse.allocated THEN {"allocated"} ELSE {})
    BY <1>2 DEF AccountFree, GovernorCall
  <2>2. inUse.allocated - n \in Int
    BY <1>0, <2>0
  <2>3. /\ inUse' \in [allocated : Int, reserved : Int, largest : Nat]
        /\ inUse'.allocated = inUse.allocated - n
        /\ inUse'.reserved = inUse.reserved /\ inUse'.largest = inUse.largest
    BY <1>0, <2>1, <2>2
  <2>4. /\ allocated' \in 0 .. Word - 1 /\ allocated' <= allocated /\ allocated' >= allocated - n
        /\ n <= allocated => allocated' = allocated - n
    BY <1>0, <2>0, <2>1 DEF Subtract
  <2>5. GrantedWithinCap'
    BY <1>0, <2>1, <2>3, <2>4 DEF GovernorInv, GrantedWithinCap, Keeps
  <2> QED
    BY <1>0, <2>1, <2>3, <2>4, <2>5 DEF GovernorInv
<1>3. ASSUME NEW n \in Requests, Reserve(n) PROVE GovernorInv'
  <2>0. n \in Nat
    OBVIOUS
  <2> DEFINE most == Max({inUse.largest, n})
  <2>1. /\ reserved' = (reserved + n) % Word /\ allocated' = allocated /\ cap' = cap
        /\ Fits(reserved, n)
        /\ inUse' = [inUse EXCEPT !.reserved = inUse.reserved + n, !.largest = most]
        /\ overFreed' = overFreed
    BY <1>3 DEF Reserve, GovernorCall
  <2>2. most \in Nat /\ most >= inUse.largest /\ most >= n
    BY <1>0, <2>0, MaxOfTwo
  <2> HIDE DEF most
  <2>3. inUse' \in [allocated : Int, reserved : Int, largest : Nat]
    <3> DEFINE sum == inUse.reserved + n
    <3>1. sum \in Int
      BY <1>0, <2>0
    <3>2. inUse' = [inUse EXCEPT !.reserved = sum, !.largest = most]
      BY <2>1
    <3> HIDE DEF sum
    <3> QED
      BY <1>0, <2>2, <3>1, <3>2
  <2>4. inUse'.allocated = inUse.allocated
    BY <1>0, <2>1
  <2>5. inUse'.reserved = inUse.reserved + n
    BY <1>0, <2>1
  <2>6. inUse'.largest = most
    BY <1>0, <2>1
  <2>7. reserved' \in 0 .. Word - 1
    BY <1>0, <2>0, <2>1, Wrapped
  <2>8. ASSUME cap # 0, most + cap < Word
        PROVE  Keeps("reserved", reserved, inUse.reserved)'
    <3>1. Keeps("reserved", reserved, inUse.reserved) /\ reserved <= cap
      BY <1>0, <2>2, <2>8 DEF GovernorInv, GrantedWithinCap, Keeps
    <3>2. reserved + n \in Nat /\ reserved + n < Word
      BY <1>0, <2>0, <2>2, <2>8, <3>1
    <3>3. (reserved + n) % Word = reserved + n
      BY <3>2, NoWrap
    <3> QED
      BY <1>0, <2>0, <2>1, <2>5, <2>8, <3>1, <3>3 DEF Fits, Keeps
  <2>9. GrantedWithinCap'
    <3>1. cap # 0 => Keeps("allocated", allocated, inUse.allocated)
      BY DEF GovernorInv, GrantedWithinCap
    <3>2. Keeps("allocated", allocated, inUse.allocated)
            => Keeps("allocated", allocated, inUse.allocated)'
      BY <2>1, <2>4 DEF Keeps
    <3> QED
      BY <2>1, <2>6, <2>8, <3>1, <3>2 DEF GrantedWithinCap
  <2> QED
    BY <1>0, <2>1, <2>3, <2>7, <2>9 DEF GovernorInv
<1>4. ASSUME NEW n \in Requests, ReleaseReservation(n) PROVE GovernorInv'
  <2>0. n \in Nat
    OBVIOUS
  <2>1. /\ reserved' = Subtract(reserved, n) /\ allocated' = allocated /\ cap' = cap
        /\ inUse' = [inUse EXCEPT !.reserved = inUse.reserved - n]
        /\ overFreed' = overFreed \cup (IF n > inUse.reserved THEN {"reserved"} ELSE {})
    BY <1>4 DEF ReleaseReservation, GovernorCall
  <2>2. inUse.reserved - n \in Int
    BY <1>0, <2>0
  <2>3. /\ inUse' \in [allocated : Int, reserved : Int, largest : Nat]
        /\ inUse'.reserved = inUse.reserved - n
        /\ inUse'.allocated = inUse.allocated /\ inUse'.largest = inUse.largest
    BY <1>0, <2>1, <2>2
  <2>4. /\ reserved' \in 0 .. Word - 1 /\ reserved' <= reserved /\ reserved' >= reserved - n
        /\ n <= reserved => reserved' = reserved - n
    BY <1>0, <2>0, <2>1 DEF Subtract
  <2>5. GrantedWithinCap'
    BY <1>0, <2>1, <2>3, <2>4 DEF GovernorInv, GrantedWithinCap, Keeps
  <2> QED
    BY <1>0, <2>1, <2>3, <2>4, <2>5 DEF GovernorInv
<1> QED
  BY <1>1, <1>2, <1>3, <1>4 DEF GovernorNext

(* What Append does to a sequence.                                         *)
LEMMA AppendFacts ==
  ASSUME NEW S, NEW s \in Seq(S), NEW x \in S
  PROVE  /\ Append(s, x) \in Seq(S) /\ Append(s, x) # <<>>
         /\ Len(s) \in Nat /\ Len(Append(s, x)) = Len(s) + 1
         /\ DOMAIN s = 1 .. Len(s) /\ DOMAIN Append(s, x) = 1 .. Len(s) + 1
         /\ \A i \in 1 .. Len(s) : Append(s, x)[i] = s[i]
         /\ Append(s, x)[Len(s) + 1] = x
OBVIOUS

(* One more block adds its size to the sum.                                *)
LEMMA SumsAppend ==
  ASSUME NEW S \in SUBSET Nat, NEW s \in Seq(S), NEW x \in S, NEW n \in Nat, SumsTo(s, n)
  PROVE  SumsTo(Append(s, x), n + x)
<1>1. PICK sum \in [0 .. Len(s) -> 0 .. n] :
        /\ sum[0] = 0
        /\ \A i \in 1 .. Len(s) : sum[i] = sum[i - 1] + s[i]
        /\ sum[Len(s)] = n
  BY DEF SumsTo
<1>2. /\ Len(s) \in Nat /\ Len(Append(s, x)) = Len(s) + 1
      /\ \A i \in 1 .. Len(s) : Append(s, x)[i] = s[i]
      /\ Append(s, x)[Len(s) + 1] = x
  OBVIOUS
<1> DEFINE more == [i \in 0 .. Len(s) + 1 |-> IF i <= Len(s) THEN sum[i] ELSE n + x]
<1>3. x \in Nat
  OBVIOUS
<1>4. more \in [0 .. Len(s) + 1 -> 0 .. n + x]
  BY <1>1, <1>2, <1>3
<1>5. more[0] = 0 /\ more[Len(s) + 1] = n + x
  BY <1>1, <1>2
<1>6. \A i \in 1 .. Len(s) + 1 : more[i] = more[i - 1] + Append(s, x)[i]
  <2> SUFFICES ASSUME NEW i \in 1 .. Len(s) + 1
               PROVE  more[i] = more[i - 1] + Append(s, x)[i]
    OBVIOUS
  <2>1. CASE i <= Len(s)
    <3>1. i \in 1 .. Len(s) /\ i \in 0 .. Len(s) + 1 /\ i - 1 \in 0 .. Len(s) + 1 /\ i - 1 <= Len(s)
      BY <1>2, <2>1
    <3>2. more[i] = sum[i] /\ more[i - 1] = sum[i - 1] /\ Append(s, x)[i] = s[i]
      BY <1>2, <2>1, <3>1
    <3> QED
      BY <1>1, <3>1, <3>2
  <2>2. CASE i = Len(s) + 1
    <3>1. more[i] = n + x /\ more[i - 1] = sum[Len(s)] /\ Append(s, x)[i] = x
      BY <1>2, <2>2
    <3> QED
      BY <1>1, <3>1
  <2> QED
    BY <1>2, <2>1, <2>2
<1> HIDE DEF more
<1> QED
  BY <1>2, <1>4, <1>5, <1>6 DEF SumsTo

(* No blocks hold nothing.                                                 *)
LEMMA SumsEmpty == SumsTo(<<>>, 0)
<1> DEFINE sum == [i \in 0 .. 0 |-> 0]
<1>1. /\ sum \in [0 .. Len(<<>>) -> 0 .. 0] /\ sum[0] = 0 /\ sum[Len(<<>>)] = 0
      /\ \A i \in 1 .. Len(<<>>) : sum[i] = sum[i - 1] + <<>>[i]
  OBVIOUS
<1> HIDE DEF sum
<1> QED
  BY <1>1 DEF SumsTo

(* The limit of host pressure is the smaller of the cap and the target.    *)
LEMMA LimitIs ==
  ASSUME NEW c \in Nat, NEW t \in Nat, NEW n \in Nat
  PROVE  LET limit == IF c = 0 THEN t ELSE Min({c, t})
         IN  /\ n <= limit <=> n <= t /\ (c # 0 => n <= c)
             /\ n <= limit /\ (n >= t \/ (c # 0 /\ n >= c)) => n = limit
BY MinOfTwo

PressureType == [target : Nat, total : Nat, blocks : Seq(1 .. Chunk), done : BOOLEAN,
                 failed : BOOLEAN]

(* What PressureInv says of a record.                                      *)
PressureOK(c, p) ==
  LET limit == IF c = 0 THEN p.target ELSE Min({c, p.target})
  IN  /\ SumsTo(p.blocks, p.total)
      /\ p.total <= limit
      /\ p.done /\ ~p.failed /\ p.blocks # <<>> => p.total = limit

(* The loop of apply_host_pressure keeps its total within the limit.       *)
LEMMA PressureStep ==
  ASSUME EnvelopeInv, PressureInv, PressureNext
  PROVE  PressureInv'
<1>0. /\ pressure \in PressureType /\ cap \in Nat /\ cap' = cap
      /\ Chunk \in Nat /\ Chunk > 0
      /\ PressureOK(cap, pressure)
  BY DEF PressureInv, PressureType, EnvelopeInv, PressureNext, ApplyPressure, PressureBlock,
         PressureDone, ReleaseBlocks, PressureOK, PressureBounded
<1> SUFFICES pressure' \in PressureType /\ PressureOK(cap, pressure')
  BY <1>0 DEF PressureInv, PressureType, PressureOK, PressureBounded
<1>1. ASSUME NEW t \in Targets, ApplyPressure(t)
      PROVE  pressure' \in PressureType /\ PressureOK(cap, pressure')
  <2>1. /\ pressure' = [target |-> t, total |-> 0, blocks |-> <<>>, done |-> FALSE, failed |-> FALSE]
        /\ t \in Nat
    BY <1>1 DEF ApplyPressure
  <2>2. pressure' \in PressureType
    BY <2>1 DEF PressureType
  <2>3. 0 <= (IF cap = 0 THEN t ELSE Min({cap, t}))
    BY <1>0, <2>1, LimitIs
  <2> QED
    BY <2>1, <2>2, <2>3, SumsEmpty DEF PressureOK
<1>2. CASE PressureBlock
  <2>1. CASE pressure' = [pressure EXCEPT !.done = TRUE, !.failed = TRUE]
    <3>1. pressure' \in PressureType
      BY <1>0, <2>1 DEF PressureType
    <3>2. pressure'.target = pressure.target
      BY <1>0, <2>1 DEF PressureType
    <3>3. pressure'.total = pressure.total
      BY <1>0, <2>1 DEF PressureType
    <3>4. pressure'.blocks = pressure.blocks
      BY <1>0, <2>1 DEF PressureType
    <3>5. pressure'.failed = TRUE
      BY <1>0, <2>1 DEF PressureType
    <3> QED
      BY <1>0, <3>1, <3>2, <3>3, <3>4, <3>5 DEF PressureOK
  <2>2. CASE pressure' = [pressure EXCEPT !.total = pressure.total + Step,
                                          !.blocks = Append(pressure.blocks, Step)]
    <3>1. /\ pressure.total < pressure.target /\ (cap # 0 => pressure.total < cap)
          /\ ~pressure.done
          /\ pressure.target \in Nat /\ pressure.total \in Nat
      BY <1>0, <1>2 DEF PressureBlock, MorePressure, PressureType
    <3>2. /\ Step \in 1 .. Chunk
          /\ pressure.total + Step <= pressure.target
          /\ cap # 0 => pressure.total + Step <= cap
      BY <1>0, <3>1 DEF Step
    <3> DEFINE total == pressure.total + Step
    <3> DEFINE blocks == Append(pressure.blocks, Step)
    <3>3. total \in Nat
      BY <3>1, <3>2
    <3>4. blocks \in Seq(1 .. Chunk)
      BY <1>0, <3>2 DEF PressureType
    <3>5. SumsTo(blocks, total)
      <4>1. pressure.blocks \in Seq(1 .. Chunk) /\ 1 .. Chunk \in SUBSET Nat
        BY <1>0 DEF PressureType
      <4> QED
        BY <1>0, <3>1, <3>2, <4>1, SumsAppend DEF PressureOK
    <3>6. pressure' = [pressure EXCEPT !.total = total, !.blocks = blocks]
      BY <2>2
    <3>7. total <= pressure.target /\ (cap # 0 => total <= cap)
      BY <3>2
    <3> HIDE DEF total, blocks
    <3>8. pressure' \in PressureType
      BY <1>0, <3>3, <3>4, <3>6 DEF PressureType
    <3>9. pressure'.target = pressure.target /\ pressure'.total = total
      BY <1>0, <3>6 DEF PressureType
    <3>10. pressure'.blocks = blocks /\ pressure'.done = pressure.done
      BY <1>0, <3>6 DEF PressureType
    <3>11. total <= (IF cap = 0 THEN pressure.target ELSE Min({cap, pressure.target}))
      BY <1>0, <3>1, <3>3, <3>7, LimitIs
    <3> QED
      BY <3>1, <3>5, <3>8, <3>9, <3>10, <3>11 DEF PressureOK
  <2> QED
    BY <1>2, <2>1, <2>2 DEF PressureBlock
<1>3. CASE PressureDone
  <2>1. /\ pressure' = [pressure EXCEPT !.done = TRUE]
        /\ pressure.total >= pressure.target \/ (cap # 0 /\ pressure.total >= cap)
        /\ pressure.target \in Nat /\ pressure.total \in Nat
    BY <1>0, <1>3 DEF PressureDone, MorePressure, PressureType
  <2>2. /\ pressure' \in PressureType /\ pressure'.target = pressure.target
        /\ pressure'.total = pressure.total /\ pressure'.blocks = pressure.blocks
    BY <1>0, <2>1 DEF PressureType
  <2> DEFINE limit == IF cap = 0 THEN pressure.target ELSE Min({cap, pressure.target})
  <2>3. pressure.total <= limit
    BY <1>0 DEF PressureOK
  <2>4. pressure.total = limit
    BY <1>0, <2>1, <2>3, LimitIs
  <2> QED
    BY <1>0, <2>2, <2>3, <2>4 DEF PressureOK
<1>4. CASE ReleaseBlocks
  <2>1. pressure' = [target |-> 0, total |-> 0, blocks |-> <<>>, done |-> TRUE,
                     failed |-> pressure.failed]
    BY <1>4 DEF ReleaseBlocks
  <2>2. pressure' \in PressureType
    BY <1>0, <2>1 DEF PressureType
  <2>3. 0 <= (IF cap = 0 THEN 0 ELSE Min({cap, 0}))
    BY <1>0, LimitIs
  <2> QED
    BY <2>1, <2>2, <2>3, SumsEmpty DEF PressureOK
<1> QED
  BY <1>1, <1>2, <1>3, <1>4 DEF PressureNext

BaselineType == [before : [Classes -> Nat], peak : [Classes -> Nat], after : [Classes -> Nat],
                 leak : BOOLEAN, captured : BOOLEAN]

(* observe keeps the first snapshot as the baseline, judges the newest     *)
(* against it and raises the peak.                                         *)
LEMMA BaselineStep ==
  ASSUME BaselineInv, BaselineNext
  PROVE  BaselineInv'
<1>0. PICK now \in [Classes -> 0 .. 2] : Observe(now)
  BY DEF BaselineNext
<1> DEFINE first == IF baseline.captured THEN baseline.before ELSE now
<1> DEFINE peak2 == [c \in Classes |-> Max({baseline.peak[c], now[c]})]
<1>1. now \in [Classes -> Nat]
  BY <1>0
<1>2. /\ snapshots \in Seq([Classes -> Nat]) /\ Len(snapshots) \in Nat
      /\ DOMAIN snapshots = 1 .. Len(snapshots)
      /\ baseline \in BaselineType
      /\ baseline.before \in [Classes -> Nat] /\ baseline.peak \in [Classes -> Nat]
      /\ baseline.captured \in BOOLEAN
  BY DEF BaselineInv, BaselineType
<1>3. \A c \in Classes : /\ peak2[c] \in Nat
                         /\ peak2[c] \in {baseline.peak[c], now[c]}
                         /\ peak2[c] >= baseline.peak[c]
                         /\ peak2[c] >= now[c]
  <2> SUFFICES ASSUME NEW c \in Classes
               PROVE  /\ peak2[c] \in Nat
                      /\ peak2[c] \in {baseline.peak[c], now[c]}
                      /\ peak2[c] >= baseline.peak[c]
                      /\ peak2[c] >= now[c]
    OBVIOUS
  <2>1. baseline.peak[c] \in Nat /\ now[c] \in Nat
    BY <1>1, <1>2
  <2>2. peak2[c] = IF baseline.peak[c] >= now[c] THEN baseline.peak[c] ELSE now[c]
    BY <2>1, MaxOfTwo
  <2> HIDE DEF peak2
  <2> QED
    BY <2>1, <2>2
<1>4. peak2 \in [Classes -> Nat] /\ first \in [Classes -> Nat]
  <2>1. first \in [Classes -> Nat]
    BY <1>1, <1>2
  <2>2. peak2 \in [Classes -> Nat]
    BY <1>3
  <2> QED
    BY <2>1, <2>2
<1>5. /\ snapshots' = Append(snapshots, now)
      /\ baseline'.before = first
      /\ baseline'.peak = peak2
      /\ baseline'.leak = (\E c \in Classes : now[c] > first[c] /\ now[c] # 0)
      /\ baseline'.captured = TRUE
      /\ baseline' \in BaselineType
  <2> DEFINE b == IF baseline.captured THEN baseline
                  ELSE [baseline EXCEPT !.before = now, !.captured = TRUE]
  <2>1. /\ snapshots' = Append(snapshots, now)
        /\ baseline' = [before |-> b.before, peak |-> [c \in Classes |-> Max({b.peak[c], now[c]})],
                        after |-> now, leak |-> Leaked(b, now), captured |-> b.captured]
    BY <1>0 DEF Observe
  <2>2. b.before = first
    BY <1>1, <1>2 DEF BaselineType
  <2>3. b.peak = baseline.peak
    BY <1>1, <1>2 DEF BaselineType
  <2>4. b.captured = TRUE
    BY <1>1, <1>2 DEF BaselineType
  <2> HIDE DEF b
  <2>5. Leaked(b, now) = (\E c \in Classes : now[c] > first[c] /\ now[c] # 0)
    BY <2>2 DEF Leaked
  <2>6. baseline' = [before |-> first, peak |-> peak2, after |-> now, leak |-> Leaked(b, now),
                     captured |-> TRUE]
    BY <2>1, <2>2, <2>3, <2>4
  <2>7. Leaked(b, now) \in BOOLEAN
    BY DEF Leaked
  <2> HIDE DEF first, peak2
  <2>8. baseline' \in BaselineType
    BY <1>1, <1>4, <2>6, <2>7 DEF BaselineType
  <2> QED
    BY <2>1, <2>5, <2>6, <2>8
<1> HIDE DEF first, peak2
<1>6. /\ snapshots' \in Seq([Classes -> Nat]) /\ snapshots' # <<>>
      /\ Len(snapshots') = Len(snapshots) + 1
      /\ snapshots'[Len(snapshots')] = now
      /\ \A i \in 1 .. Len(snapshots) : snapshots'[i] = snapshots[i]
      /\ DOMAIN snapshots' = 1 .. Len(snapshots) + 1
  BY <1>1, <1>2, <1>5, AppendFacts
<1>7. first = snapshots'[1]
  <2>1. CASE baseline.captured
    <3>1. Len(snapshots) >= 1 /\ baseline.before = snapshots[1]
      BY <1>2, <2>1 DEF BaselineInv
    <3>2. 1 \in 1 .. Len(snapshots)
      BY <1>2, <3>1
    <3>3. snapshots'[1] = snapshots[1]
      BY <1>6, <3>2
    <3> QED
      BY <2>1, <3>1, <3>3 DEF first
  <2>2. CASE ~baseline.captured
    <3>1. Len(snapshots) = 0
      BY <1>2, <2>2 DEF BaselineInv
    <3> QED
      BY <1>6, <2>2, <3>1 DEF first
  <2> QED
    BY <2>1, <2>2
<1>8. baseline'.leak <=> \E c \in Classes : now[c] > first[c]
  BY <1>1, <1>4, <1>5
<1>9. ASSUME NEW c \in Classes
      PROVE  /\ \E i \in DOMAIN snapshots' : peak2[c] = snapshots'[i][c]
             /\ \A i \in DOMAIN snapshots' : peak2[c] >= snapshots'[i][c]
  <2>1. /\ baseline.peak[c] \in Nat /\ now[c] \in Nat /\ peak2[c] \in Nat
        /\ \A i \in 1 .. Len(snapshots) : snapshots[i][c] \in Nat
    BY <1>1, <1>2, <1>4, <1>9
  <2>2. peak2[c] \in {baseline.peak[c], now[c]} /\ peak2[c] >= baseline.peak[c] /\ peak2[c] >= now[c]
    BY <1>3, <1>9
  <2>3. /\ \A i \in 1 .. Len(snapshots) : baseline.peak[c] >= snapshots[i][c]
        /\ baseline.captured => \E i \in 1 .. Len(snapshots) : baseline.peak[c] = snapshots[i][c]
        /\ ~baseline.captured => baseline.peak[c] = 0
    <3>1. CASE baseline.captured
      BY <1>2, <1>9, <3>1 DEF BaselineInv
    <3>2. CASE ~baseline.captured
      <4>1. Len(snapshots) = 0 /\ baseline.peak = Zero
        BY <1>2, <3>2 DEF BaselineInv
      <4> QED
        BY <1>9, <3>2, <4>1 DEF Zero
    <3> QED
      BY <3>1, <3>2
  <2>4. \A i \in DOMAIN snapshots' : peak2[c] >= snapshots'[i][c]
    <3> SUFFICES ASSUME NEW i \in 1 .. Len(snapshots) + 1 PROVE peak2[c] >= snapshots'[i][c]
      BY <1>6
    <3>1. CASE i = Len(snapshots) + 1
      BY <1>6, <2>2, <3>1
    <3>2. CASE i \in 1 .. Len(snapshots)
      <4>1. snapshots'[i] = snapshots[i] /\ snapshots[i][c] \in Nat
        BY <1>6, <2>1, <3>2
      <4>2. baseline.peak[c] >= snapshots[i][c]
        BY <2>3, <3>2
      <4> QED
        BY <2>1, <2>2, <4>1, <4>2
    <3> QED
      BY <1>2, <3>1, <3>2
  <2>5. \E i \in DOMAIN snapshots' : peak2[c] = snapshots'[i][c]
    <3>1. CASE peak2[c] = now[c]
      <4>1. Len(snapshots') \in DOMAIN snapshots' /\ snapshots'[Len(snapshots')] = now
        BY <1>2, <1>6
      <4> QED
        BY <3>1, <4>1
    <3>2. CASE baseline.captured /\ peak2[c] = baseline.peak[c]
      <4>1. PICK i \in 1 .. Len(snapshots) : baseline.peak[c] = snapshots[i][c]
        BY <2>3, <3>2
      <4>2. snapshots'[i] = snapshots[i]
        BY <1>6, <4>1
      <4>3. i \in DOMAIN snapshots'
        BY <1>2, <1>6, <4>1
      <4> QED
        BY <3>2, <4>1, <4>2, <4>3
    <3>3. CASE ~baseline.captured
      <4>1. baseline.peak[c] = 0
        BY <2>3, <3>3
      <4> QED
        BY <2>1, <2>2, <3>1, <4>1
    <3> QED
      BY <1>2, <2>2, <3>1, <3>2, <3>3
  <2> QED
    BY <2>4, <2>5
<1> QED
  BY <1>5, <1>6, <1>7, <1>8, <1>9 DEF BaselineInv, BaselineType

(* The verdict and the peak, as VerdictIsFirstToLast states them.          *)
LEMMA InvImpliesVerdict ==
  ASSUME BaselineInv
  PROVE  VerdictIsFirstToLast
<1> SUFFICES ASSUME baseline.captured, NEW c \in Classes
             PROVE  baseline.peak[c] = Max({snapshots[i][c] : i \in DOMAIN snapshots})
  BY DEF BaselineInv, VerdictIsFirstToLast
<1> DEFINE S == {snapshots[i][c] : i \in DOMAIN snapshots}
<1>1. S \in SUBSET Int
  BY DEF BaselineInv
<1>2. baseline.peak[c] \in S /\ \A y \in S : baseline.peak[c] >= y
  BY SMTT(30) DEF BaselineInv
<1> HIDE DEF S
<1>3. baseline.peak[c] = Max(S)
  BY <1>1, <1>2, MaxIs
<1> QED
  BY <1>3 DEF S

(* Nothing is held, granted, taken or observed at first.                   *)
LEMMA AccountInitInv == AccountInit => AccountInv
<1> SUFFICES ASSUME AccountInit PROVE AccountInv
  OBVIOUS
<1>1. EnvelopeInv
  <2>1. IsFiniteSet({}) /\ Cardinality({}) = 0
    BY FS_EmptySet
  <2>2. /\ \A c \in Classes : held[c] = {} /\ count[c] = 0 /\ peak[c] = 0 /\ highest[c] = 0
        /\ cap \in Nat
    BY DEF AccountInit, Zero
  <2>3. \A c \in Classes : Cardinality(held[c]) = 0 /\ IsFiniteSet(held[c])
    BY <2>1, <2>2, Zenon
  <2>4. CapsHold
    BY <2>2, <2>3 DEF CapsHold
  <2>5. held \in [Classes -> SUBSET Units]
    BY DEF AccountInit
  <2>6. count \in [Classes -> Nat] /\ peak \in [Classes -> Nat] /\ highest \in [Classes -> Nat]
    BY DEF AccountInit, Zero
  <2>7. cap \in Caps /\ released2 \in BOOLEAN
    BY Zenon DEF AccountInit
  <2>8. restarts = 0
    BY Zenon DEF AccountInit
  <2>9. restarts \in 0 .. MaxRestarts
    BY <2>8, CapsAssumption
  <2> QED
    BY <2>3, <2>4, <2>5, <2>6, <2>7, <2>9, Zenon DEF EnvelopeInv
<1>2. GovernorInv
  BY DEF AccountInit, GovernorInv, GrantedWithinCap, Keeps
<1>3. PressureInv
  <2>1. cap \in Nat
    BY DEF AccountInit
  <2>2. 0 <= (IF cap = 0 THEN 0 ELSE Min({cap, 0}))
    BY <2>1, LimitIs
  <2> QED
    BY <2>2, SumsEmpty DEF AccountInit, PressureInv, PressureBounded
<1>4. BaselineInv
  BY DEF AccountInit, BaselineInv, Zero
<1> QED
  BY <1>1, <1>2, <1>3, <1>4 DEF AccountInv

(* The objects share nothing but the cap, which none of them changes.      *)
LEMMA AccountStep == AccountInv /\ [ResourceNext]_resourceVars => AccountInv'
<1> SUFFICES ASSUME AccountInv, [ResourceNext]_resourceVars PROVE AccountInv'
  OBVIOUS
<1>0. EnvelopeInv /\ GovernorInv /\ PressureInv /\ BaselineInv
  BY DEF AccountInv
<1>1. UNCHANGED <<cap, envelopeVars>> => EnvelopeInv'
  BY <1>0 DEF envelopeVars, EnvelopeInv, CapsHold
<1>2. UNCHANGED <<cap, governorVars>> => GovernorInv'
  BY <1>0 DEF governorVars, GovernorInv, GrantedWithinCap, Keeps
<1>3. UNCHANGED <<cap, pressure>> => PressureInv'
  BY <1>0 DEF PressureInv, PressureBounded
<1>4. UNCHANGED <<baseline, snapshots>> => BaselineInv'
  BY <1>0 DEF BaselineInv
<1>5. CASE EnvelopeNext
  <2>1. UNCHANGED <<cap, governorVars, pressure, baseline, snapshots>>
    BY <1>5 DEF EnvelopeNext, Acquire, Release, Restart
  <2> QED
    BY <1>0, <1>2, <1>3, <1>4, <1>5, <2>1, EnvelopeStep DEF AccountInv
<1>6. CASE GovernorNext
  <2>1. UNCHANGED <<cap, envelopeVars, pressure, baseline, snapshots>>
    BY <1>6 DEF GovernorNext, TryAllocate, AccountFree, Reserve, ReleaseReservation, GovernorCall
  <2> QED
    BY <1>0, <1>1, <1>3, <1>4, <1>6, <2>1, GovernorStep DEF AccountInv
<1>7. CASE PressureNext
  <2>1. UNCHANGED <<cap, envelopeVars, governorVars, baseline, snapshots>>
    BY <1>7 DEF PressureNext, ApplyPressure, PressureBlock, PressureDone, ReleaseBlocks
  <2> QED
    BY <1>0, <1>1, <1>2, <1>4, <1>7, <2>1, PressureStep DEF AccountInv
<1>8. CASE BaselineNext
  <2>1. UNCHANGED <<cap, envelopeVars, governorVars, pressure>>
    BY <1>8 DEF BaselineNext, Observe
  <2> QED
    BY <1>0, <1>1, <1>2, <1>3, <1>8, <2>1, BaselineStep DEF AccountInv
<1>9. CASE UNCHANGED accountVars
  BY <1>1, <1>2, <1>3, <1>4, <1>9 DEF accountVars, AccountInv
<1> QED
  BY <1>5, <1>6, <1>7, <1>8, <1>9 DEF ResourceNext, resourceVars

(* The safety envelope never holds more children or sockets than its cap,  *)
(* its counters are the true counts and its peak the true peak, over every *)
(* sequence of acquires and releases that releases nothing twice.          *)
THEOREM CapsHoldAlways == ResourceSpec => []CapsHold
<1>1. ResourceInit => AccountInv
  BY AccountInitInv DEF ResourceInit
<1>2. AccountInv => CapsHold
  BY DEF AccountInv, EnvelopeInv
<1> QED
  BY <1>1, <1>2, AccountStep, PTL DEF ResourceSpec

(* What the governor grants and what host pressure takes stays within the  *)
(* cap for every sequence of calls, at any word size, chunk and target;    *)
(* the sums are the true ones until more is given back than was taken.     *)
THEOREM MemoryWithinCapAlways == ResourceSpec => []MemoryWithinCap
<1>1. ResourceInit => AccountInv
  BY AccountInitInv DEF ResourceInit
<1>2. AccountInv => MemoryWithinCap
  BY DEF AccountInv, GovernorInv, PressureInv, MemoryWithinCap
<1> QED
  BY <1>1, <1>2, AccountStep, PTL DEF ResourceSpec

(* The leak verdict compares the last snapshot with the first, and the     *)
(* peak is the highest count, however many snapshots came between.         *)
THEOREM VerdictAlways == ResourceSpec => []VerdictIsFirstToLast
<1>1. ResourceInit => AccountInv
  BY AccountInitInv DEF ResourceInit
<1>2. AccountInv => VerdictIsFirstToLast
  BY InvImpliesVerdict DEF AccountInv
<1> QED
  BY <1>1, <1>2, AccountStep, PTL DEF ResourceSpec

OwnedInv == AccountInv /\ ProcessInv /\ object \in Objects

(* The state of every object has its type.                                 *)
THEOREM OwnedTypeCorrect == ResourceSpec => []TypeOK
<1>1. ResourceInit => OwnedInv
  BY AccountInitInv, ProcessInitInv DEF ResourceInit, OwnedInv
<1>2. OwnedInv => TypeOK
  <2> SUFFICES ASSUME AccountInv, ProcessInv PROVE ProcessTypeOK /\ AccountTypeOK
    BY DEF TypeOK, OwnedInv
  <2>1. \A i \in DOMAIN pressure.blocks : pressure.blocks[i] \in 1 .. Chunk
    BY DEF AccountInv, PressureInv
  <2> QED
    BY <2>1 DEF ProcessInv, AccountInv, EnvelopeInv, GovernorInv, BaselineInv, AccountTypeOK
<1>3. OwnedInv /\ [ResourceNext]_resourceVars => OwnedInv'
  <2>1. object \in Objects /\ [ResourceNext]_resourceVars => object' \in Objects
    BY DEF ResourceNext, resourceVars
  <2> QED
    BY <2>1, AccountStep, ProcessInvStep DEF OwnedInv
<1> QED
  BY <1>1, <1>2, <1>3, PTL DEF ResourceSpec
=============================================================================
