--------------------------- MODULE CoordinatorProofs ---------------------------
(***************************************************************************)
(* Proofs about the coordinator, for any number of workers, connections,   *)
(* controllers and launches, and for clients that send anything.           *)
(*                                                                         *)
(* One lemma per handler shows that it preserves CoordInv, whoever calls   *)
(* it; TargetRuntimeProofs uses the same lemmas for the real clients.      *)
(***************************************************************************)
EXTENDS Coordinator, TLAPS

USE IdAssumption, ConnAssumption, BoundAssumption

(* The fresh process state satisfies the invariant.                        *)
LEMMA InitInv == CoordInit => CoordInv
<1> SUFFICES ASSUME CoordInit PROVE CoordInv
  OBVIOUS
<1>1. CoordTypeOK
  BY DEF CoordInit, CoordTypeOK, Zero, NoCurrent, NoEntry, NoLocals, Locals, committed, Conns
<1>2. AuthorityInv
  BY DEF CoordInit, AuthorityInv, Zero, NoCurrent
<1>3. LedgerInv
  BY DEF CoordInit, LedgerInv, CommitsAreAssigned, OncePerSignature
<1>4. CoordRegistered
  BY DEF CoordInit, CoordRegistered, NoEntry
<1> QED
  BY <1>1, <1>2, <1>3, <1>4 DEF CoordInv

(* A step that leaves the authority, the ledger and the process alone      *)
(* keeps the two parts of the invariant that speak of them.                *)
LEMMA FrameInv ==
  ASSUME AuthorityInv, LedgerInv,
         UNCHANGED <<up, epoch, next, cur, hasSubmitted, assigned, sigResult, ledger>>
  PROVE  AuthorityInv' /\ LedgerInv'
<1>1. AuthorityInv'
  BY DEF AuthorityInv, CurrentGrant
<1>2. LedgerInv'
  BY DEF LedgerInv, CommitsAreAssigned, OncePerSignature, committed
<1> QED
  BY <1>1, <1>2

-----------------------------------------------------------------------------
(* The handlers keep the type of the state, and that only registration     *)
(* makes a worker alive, at whatever epoch the process was launched.       *)

(* A launch changes the process and its epoch only.                        *)
LEMMA LaunchType ==
  ASSUME CoordTypeOK, CoordRegistered, NEW e \in Nat, Launch(e)
  PROVE  CoordTypeOK' /\ CoordRegistered'
<1>1. CoordTypeOK'
  BY DEF CoordTypeOK, Launch, tableVars, authVars, committed
<1>2. CoordRegistered'
  BY DEF CoordRegistered, Launch, tableVars
<1> QED
  BY <1>1, <1>2

(* Every part of the memory a crash loses starts again with its zero.      *)
LEMMA LoseMemoryType ==
  ASSUME CoordTypeOK, CoordRegistered, LoseMemory
  PROVE  CoordTypeOK' /\ CoordRegistered'
<1>1. CoordTypeOK'
  BY DEF CoordTypeOK, LoseMemory, Zero, NoCurrent, NoEntry, NoLocals, Locals, committed, Conns
<1>2. CoordRegistered'
  BY DEF CoordRegistered, LoseMemory, NoEntry
<1> QED
  BY <1>1, <1>2

(* main's accept loop adds a connection.                                   *)
LEMMA AcceptType ==
  ASSUME CoordTypeOK, CoordRegistered, NEW k \in Conns, Accept(k)
  PROVE  CoordTypeOK' /\ CoordRegistered'
<1>1. CoordTypeOK'
  BY DEF CoordTypeOK, Accept, tableVars, authVars, committed
<1>2. CoordRegistered'
  BY DEF CoordRegistered, Accept, tableVars
<1> QED
  BY <1>1, <1>2

(* handle_register enters an id, its boot and the connection.              *)
LEMMA RegisterType ==
  ASSUME CoordTypeOK, CoordRegistered,
         NEW k \in Conns, NEW id \in WorkerIds, NEW boot \in Boots,
         HandleRegister(k, id, boot)
  PROVE  CoordTypeOK' /\ CoordRegistered'
<1>1. CoordTypeOK'
  BY DEF CoordTypeOK, HandleRegister, netVars, authVars, committed
<1>2. CoordRegistered'
  BY DEF CoordRegistered, HandleRegister, CoordTypeOK
<1> QED
  BY <1>1, <1>2

(* The end of connection_thread changes only who is alive.                 *)
LEMMA ConnectionLostType ==
  ASSUME CoordTypeOK, CoordRegistered, NEW k \in Conns, ConnectionLost(k)
  PROVE  CoordTypeOK' /\ CoordRegistered'
<1> DEFINE Entry == [boot : Boots \cup {0}, fd : Conns \cup {NoFd}, alive : BOOLEAN]
<1>1. CoordTypeOK'
  <2>1. \A id \in WorkerIds :
          workers[id] \in Entry /\ [workers[id] EXCEPT !.alive = FALSE] \in Entry
    <3>1. \A w \in Entry : [w EXCEPT !.alive = FALSE] \in Entry
      OBVIOUS
    <3>2. workers \in [WorkerIds -> Entry]
      BY DEF CoordTypeOK
    <3> HIDE DEF Entry
    <3> QED
      BY <3>1, <3>2
  <2>2. workers' \in [WorkerIds -> Entry]
    <3> HIDE DEF Entry
    <3> QED
      BY <2>1 DEF ConnectionLost
  <2>3. fdToWorker' \in [Conns -> WorkerIds \cup {0}]
    BY DEF CoordTypeOK, ConnectionLost
  <2> QED
    BY <2>2, <2>3 DEF CoordTypeOK, ConnectionLost, authVars, committed
<1>2. CoordRegistered'
  BY DEF CoordRegistered, ConnectionLost, CoordTypeOK
<1> QED
  BY <1>1, <1>2

(* SHUTDOWN sets its flag and ends the thread.                             *)
LEMMA ShutdownType ==
  ASSUME CoordTypeOK, CoordRegistered, NEW c \in Controllers, Shutdown(c)
  PROVE  CoordTypeOK' /\ CoordRegistered'
<1>1. CoordTypeOK'
  BY DEF CoordTypeOK, Shutdown, tableVars, authVars, committed
<1>2. CoordRegistered'
  BY DEF CoordRegistered, Shutdown, tableVars
<1> QED
  BY <1>1, <1>2

(* The unlocked part of handle_submit, and a refusal, move the thread only.*)
LEMMA SubmitTailType ==
  ASSUME CoordTypeOK, CoordRegistered, NEW c \in Controllers,
         \/ SubmitDispatch(c)
         \/ SubmitRespond(c)
         \/ \E id \in WorkerIds : SubmitRejected(c, id)
  PROVE  /\ CoordTypeOK' /\ CoordRegistered'
         /\ UNCHANGED <<up, launches, epoch, tableVars, authVars, sigResult, shuttingDown,
                        netVars, ledger>>
<1>1. /\ thread' \in [Controllers -> Locals]
      /\ UNCHANGED <<up, launches, epoch, tableVars, authVars, sigResult, shuttingDown,
                     netVars, ledger>>
  <2>1. CASE SubmitDispatch(c)
    BY <2>1 DEF CoordTypeOK, SubmitDispatch, Locals
  <2>2. CASE SubmitRespond(c)
    BY <2>2 DEF CoordTypeOK, SubmitRespond, Locals
  <2>3. CASE \E id \in WorkerIds : SubmitRejected(c, id)
    BY <2>3 DEF CoordTypeOK, SubmitRejected, Locals, NoLocals
  <2> QED
    BY <2>1, <2>2, <2>3
<1>2. CoordTypeOK'
  BY <1>1 DEF CoordTypeOK, tableVars, authVars, netVars, committed
<1>3. CoordRegistered'
  BY <1>1 DEF CoordRegistered, tableVars
<1> QED
  BY <1>1, <1>2, <1>3

(* handle_submit assigns the boot an alive worker registered.              *)
LEMMA SubmitAcceptedType ==
  ASSUME CoordTypeOK, CoordRegistered, NEW c \in Controllers, NEW id \in WorkerIds,
         SubmitAccepted(c, id)
  PROVE  CoordTypeOK' /\ CoordRegistered'
<1>1. /\ workers[id].boot \in Boots
      /\ [epoch |-> epoch, attempt |-> next.attempt + 1, gen |-> next.gen + 1,
          dispatch |-> next.dispatch + 1, worker |-> id, boot |-> workers[id].boot]
           \in Authority
  BY DEF CoordTypeOK, Authority, CoordRegistered, SubmitAccepted
<1>2. thread' \in [Controllers -> Locals]
  BY DEF CoordTypeOK, SubmitAccepted, Locals
<1>3. CoordTypeOK'
  BY <1>1, <1>2 DEF CoordTypeOK, SubmitAccepted, tableVars, netVars, committed
<1>4. CoordRegistered'
  BY DEF CoordRegistered, SubmitAccepted, tableVars
<1> QED
  BY <1>3, <1>4

(* handle_complete records the signature and the result of a request.      *)
LEMMA CompleteAcceptedType ==
  ASSUME CoordTypeOK, CoordRegistered, NEW k \in Conns, NEW req \in Request,
         CompleteAccepted(k, req)
  PROVE  CoordTypeOK' /\ CoordRegistered'
<1>1. Sig(req) \in Authority /\ req.result \in Results
  BY DEF Sig, Request, Authority
<1>2. sigResult' \in [committed \cup {Sig(req)} -> Results]
  BY <1>1 DEF CompleteAccepted, CoordTypeOK
<1>3. committed' = committed \cup {Sig(req)}
  BY DEF CompleteAccepted, committed
<1>4. /\ committed' \subseteq Authority
      /\ sigResult' \in [committed' -> Results]
  BY <1>1, <1>2, <1>3 DEF CoordTypeOK
<1>5. ledger' \subseteq [launch : Nat, sig : Authority, result : Results]
  BY <1>1 DEF CoordTypeOK, CompleteAccepted
<1>6. CoordTypeOK'
  BY <1>4, <1>5 DEF CoordTypeOK, CompleteAccepted, tableVars, authVars, netVars
<1>7. CoordRegistered'
  BY DEF CoordRegistered, CompleteAccepted, tableVars
<1> QED
  BY <1>6, <1>7

-----------------------------------------------------------------------------
(* The handlers keep the whole invariant.                                  *)

(* main: a process launched at an epoch above every one assigned starts    *)
(* with no authority of that epoch on record.                              *)
LEMMA LaunchAboveInv ==
  ASSUME CoordInv, NEW e \in Nat, Launch(e), \A a \in assigned : a.epoch < e
  PROVE  CoordInv'
<1> USE DEF CoordInv
<1>1. CoordTypeOK' /\ CoordRegistered'
  BY LaunchType
<1>2. AuthorityInv'
  <2>1. /\ next' = Zero
        /\ ~hasSubmitted'
        /\ cur' = cur
        /\ assigned' = assigned
        /\ epoch' = e
    BY DEF AuthorityInv, Launch, authVars
  <2>2. \A a \in assigned : a.epoch < e /\ a.epoch \in Nat
    BY DEF CoordTypeOK, Authority
  <2> QED
    BY <2>1, <2>2 DEF AuthorityInv, Launch, authVars, Zero
<1>3. LedgerInv'
  <2>1. \A r \in ledger : r.sig.epoch < e /\ r.sig.epoch \in Nat
    BY DEF LedgerInv, CommitsAreAssigned, SameGrant, CoordTypeOK, Authority
  <2> QED
    BY <2>1 DEF LedgerInv, CommitsAreAssigned, OncePerSignature, Launch, authVars
<1> QED
  BY <1>1, <1>2, <1>3

(* In particular at an epoch above its predecessor's.                      *)
LEMMA LaunchInv ==
  ASSUME CoordInv, NEW e \in Nat, e > epoch, Launch(e)
  PROVE  CoordInv'
<1>1. \A a \in assigned : a.epoch < e
  BY DEF CoordInv, AuthorityInv, CoordTypeOK, Authority
<1> QED
  BY <1>1, LaunchAboveInv

(* A crash loses the commit memory, and with it the right to commit.       *)
LEMMA LoseMemoryInv ==
  ASSUME CoordInv, LoseMemory
  PROVE  CoordInv'
<1> USE DEF CoordInv
<1>1. CoordTypeOK' /\ CoordRegistered'
  BY LoseMemoryType
<1>2. AuthorityInv'
  BY DEF AuthorityInv, LoseMemory, Zero, NoCurrent
<1>3. LedgerInv'
  BY DEF LedgerInv, CommitsAreAssigned, OncePerSignature, LoseMemory
<1> QED
  BY <1>1, <1>2, <1>3

(* main's accept loop does not touch the authority.                       *)
LEMMA AcceptInv ==
  ASSUME CoordInv, NEW k \in Conns, Accept(k)
  PROVE  CoordInv'
BY AcceptType, FrameInv DEF CoordInv, Accept, authVars

(* handle_register gives the worker a boot and no authority.               *)
LEMMA RegisterInv ==
  ASSUME CoordInv, NEW k \in Conns, NEW id \in WorkerIds, NEW boot \in Boots,
         HandleRegister(k, id, boot)
  PROVE  CoordInv'
BY RegisterType, FrameInv DEF CoordInv, HandleRegister, authVars

(* The end of connection_thread only marks a worker dead.                  *)
LEMMA ConnectionLostInv ==
  ASSUME CoordInv, NEW k \in Conns, ConnectionLost(k)
  PROVE  CoordInv'
BY ConnectionLostType, FrameInv DEF CoordInv, ConnectionLost, authVars

(* SHUTDOWN changes no authority.                                          *)
LEMMA ShutdownInv ==
  ASSUME CoordInv, NEW c \in Controllers, Shutdown(c)
  PROVE  CoordInv'
BY ShutdownType, FrameInv DEF CoordInv, Shutdown, authVars

(* The unlocked part of handle_submit, and a refusal, only move the thread. *)
LEMMA SubmitTailInv ==
  ASSUME CoordInv, NEW c \in Controllers,
         \/ SubmitDispatch(c)
         \/ SubmitRespond(c)
         \/ \E id \in WorkerIds : SubmitRejected(c, id)
  PROVE  CoordInv'
BY SubmitTailType, FrameInv DEF CoordInv, authVars

(* The locked part of handle_submit assigns an authority newer than all.   *)
LEMMA SubmitAcceptedInv ==
  ASSUME CoordInv, NEW c \in Controllers, NEW id \in WorkerIds,
         SubmitAccepted(c, id)
  PROVE  CoordInv'
<1> USE DEF CoordInv
<1> DEFINE n == next.attempt + 1
<1> DEFINE g == [epoch |-> epoch, attempt |-> n, gen |-> next.gen + 1,
                 dispatch |-> next.dispatch + 1, worker |-> id, boot |-> workers[id].boot]
<1>1. /\ assigned' = assigned \cup {g}
      /\ cur' = [attempt |-> n, gen |-> next.gen + 1, dispatch |-> next.dispatch + 1,
                 boot |-> workers[id].boot, worker |-> id]
      /\ next' = [attempt |-> n, gen |-> next.gen + 1, dispatch |-> next.dispatch + 1]
      /\ UNCHANGED <<up, launches, epoch, sigResult, ledger>>
      /\ up
    BY DEF SubmitAccepted
<1>2. /\ workers[id].boot \in Boots
      /\ g \in Authority
      /\ epoch \in Nat /\ next.attempt \in Nat
  BY DEF CoordTypeOK, Authority, CoordRegistered, SubmitAccepted
<1>3. CoordTypeOK' /\ CoordRegistered'
  BY SubmitAcceptedType
<1>4. AuthorityInv'
  <2>1. /\ next'.gen = next'.attempt /\ next'.dispatch = next'.attempt
        /\ cur'.attempt = next'.attempt /\ cur'.gen = next'.attempt
        /\ cur'.dispatch = next'.attempt
    BY <1>1, <1>2 DEF AuthorityInv
  <2>2. CurrentGrant' \in assigned'
    BY <1>1 DEF CurrentGrant
  <2>3. \A a \in assigned' : a.epoch <= epoch' /\ (a.epoch = epoch' => a.attempt <= next'.attempt)
    BY <1>1, <1>2 DEF AuthorityInv, CoordTypeOK, Authority
  <2>4. \A a \in assigned : a.epoch = epoch => a.attempt # n
    BY <1>1, <1>2 DEF AuthorityInv, CoordTypeOK, Authority
  <2>5. \A a, b \in assigned' : a.epoch = b.epoch /\ a.attempt = b.attempt => a = b
    BY <1>1, <2>4 DEF AuthorityInv
  <2> QED
    BY <1>1, <2>1, <2>2, <2>3, <2>5 DEF AuthorityInv
<1>5. LedgerInv'
  BY <1>1 DEF LedgerInv, CommitsAreAssigned, OncePerSignature, committed
<1> QED
  BY <1>3, <1>4, <1>5

(* handle_complete accepts only the authority in force, which is on record *)
(* as assigned, and only a signature it does not remember; what was        *)
(* accepted before under this epoch it does remember.                      *)
LEMMA CompleteAcceptedInv ==
  ASSUME CoordInv, NEW k \in Conns, NEW req \in Request, CompleteAccepted(k, req)
  PROVE  CoordInv'
<1> USE DEF CoordInv
<1> DEFINE r == [launch |-> launches, sig |-> Sig(req), result |-> req.result]
<1>2. /\ ledger' = ledger \cup {r}
      /\ committed' = committed \cup {Sig(req)}
      /\ up /\ hasSubmitted
      /\ UNCHANGED <<up, launches, epoch, next, cur, hasSubmitted, assigned>>
  BY DEF CompleteAccepted, committed, Accepts, CurrentAuthority, authVars
<1>3. CoordTypeOK' /\ CoordRegistered'
  BY CompleteAcceptedType
<1>4. AuthorityInv'
  BY <1>2 DEF AuthorityInv, CurrentGrant
<1>5. LedgerInv'
  <2>1. SameGrant(CurrentGrant, Sig(req))
    BY DEF CompleteAccepted, Accepts, CurrentAuthority, CurrentGrant, SameGrant, Sig
  <2>2. CommitsAreAssigned'
    BY <1>2, <2>1 DEF CommitsAreAssigned, LedgerInv, AuthorityInv
  <2>3. Sig(req).epoch = epoch /\ Sig(req) \notin committed
    BY DEF CompleteAccepted, Accepts, CurrentAuthority, Sig
  <2>4. \A s \in ledger : s.sig # Sig(req)
    BY <1>2, <2>3 DEF LedgerInv
  <2>5. OncePerSignature'
    BY <1>2, <2>4 DEF OncePerSignature, LedgerInv
  <2>6. \A s \in ledger' : up' /\ s.sig.epoch = epoch' => s.sig \in committed'
    BY <1>2 DEF LedgerInv
  <2> QED
    BY <2>2, <2>5, <2>6 DEF LedgerInv
<1> QED
  BY <1>3, <1>4, <1>5

(* Every step of the open specification keeps the invariant.               *)
LEMMA StepInv == CoordInv /\ [CoordNext]_coordVars => CoordInv'
<1> SUFFICES ASSUME CoordInv, [CoordNext]_coordVars
             PROVE  CoordInv'
  OBVIOUS
<1>1. CASE Launch(epoch + 1)
  <2>1. epoch + 1 \in Nat /\ epoch + 1 > epoch
    BY DEF CoordInv, CoordTypeOK
  <2> QED
    BY <1>1, <2>1, LaunchInv
<1>2. CASE Crash \/ Exit
  BY <1>2, LoseMemoryInv DEF Crash, Exit
<1>3. ASSUME NEW k \in Conns,
             \/ Accept(k)
             \/ ConnectionLost(k)
             \/ \E id \in WorkerIds, boot \in Boots : HandleRegister(k, id, boot)
      PROVE  CoordInv'
  BY <1>3, AcceptInv, ConnectionLostInv, RegisterInv
<1>4. ASSUME NEW k \in Conns, NEW req \in OpenRequests, CompleteAccepted(k, req)
      PROVE  CoordInv'
  <2>1. req \in Request
    BY DEF OpenRequests, Request
  <2> QED
    BY <1>4, <2>1, CompleteAcceptedInv
<1>5. ASSUME NEW c \in Controllers, NEW id \in WorkerIds, SubmitAccepted(c, id)
      PROVE  CoordInv'
  BY <1>5, SubmitAcceptedInv
<1>6. ASSUME NEW c \in Controllers,
             \/ SubmitDispatch(c)
             \/ SubmitRespond(c)
             \/ \E id \in WorkerIds : SubmitRejected(c, id)
      PROVE  CoordInv'
  BY <1>6, SubmitTailInv
<1>7. ASSUME NEW c \in Controllers, Shutdown(c)
      PROVE  CoordInv'
  BY <1>7, ShutdownInv
<1>8. CASE UNCHANGED coordVars
  BY <1>8 DEF coordVars, CoordInv, CoordRegistered, CoordTypeOK, AuthorityInv, LedgerInv, CurrentGrant,
              CommitsAreAssigned, OncePerSignature, committed
<1> QED
  BY <1>1, <1>2, <1>3, <1>4, <1>5, <1>6, <1>7, <1>8 DEF CoordNext, Conns

(* The coordinator's state has its type in every reachable state.          *)
THEOREM CoordTypeCorrect == CoordSpec => []CoordTypeOK
<1>1. CoordInv => CoordTypeOK
  BY DEF CoordInv
<1> QED
  BY <1>1, InitInv, StepInv, PTL DEF CoordSpec

(* Against any clients, what handle_complete accepts was assigned as one   *)
(* authority, for every number of crashes and relaunches at higher epochs. *)
THEOREM CommitsAreAssignedAlways == CoordSpec => []CommitsAreAssigned
<1>1. CoordInv => CommitsAreAssigned
  BY DEF CoordInv, LedgerInv
<1> QED
  BY <1>1, InitInv, StepInv, PTL DEF CoordSpec

(* Against any clients, handle_complete accepts a signature at most once.  *)
THEOREM OncePerSignatureAlways == CoordSpec => []OncePerSignature
<1>1. CoordInv => OncePerSignature
  BY DEF CoordInv, LedgerInv
<1> QED
  BY <1>1, InitInv, StepInv, PTL DEF CoordSpec

(* The authority in force is the newest ever assigned.                     *)
LEMMA InvImpliesNewest == CoordInv => CurrentIsNewest
BY DEF CoordInv, CoordTypeOK, AuthorityInv, CurrentIsNewest, Newer, Authority

(* handle_submit never puts an older authority in force than one assigned  *)
(* before, by this coordinator process or by an earlier one.               *)
THEOREM CurrentIsNewestAlways == CoordSpec => []CurrentIsNewest
BY InvImpliesNewest, InitInv, StepInv, PTL DEF CoordSpec

(* Only handle_complete writes the ledger, and only for the authority in   *)
(* force, which is the newest: a superseded submission never commits.      *)
THEOREM OnlyNewestCommitsAlways == CoordSpec => OnlyNewestCommits
<1>1. CoordInv /\ [CoordNext]_coordVars =>
        [\A r \in ledger' \ ledger : \A a \in assigned : ~Newer(a, r.sig)]_coordVars
  <2> SUFFICES ASSUME CoordInv, CoordNext, NEW r \in ledger' \ ledger, NEW a \in assigned
               PROVE  ~Newer(a, r.sig)
    OBVIOUS
  <2>1. PICK k \in Conns, req \in OpenRequests : CompleteAccepted(k, req)
    BY DEF CoordNext, Launch, Crash, Exit, LoseMemory, Accept, ConnectionLost, HandleRegister,
           SubmitAccepted, SubmitRejected, SubmitDispatch, SubmitRespond, Shutdown
  <2>2. r.sig = Sig(req) /\ req.epoch = epoch /\ req.attempt = cur.attempt /\ up /\ hasSubmitted
    BY <2>1 DEF CompleteAccepted, Accepts, CurrentAuthority
  <2> QED
    BY <2>2, InvImpliesNewest DEF CurrentIsNewest, Newer, Sig
<1> QED
  BY <1>1, InitInv, StepInv, PTL DEF CoordSpec, OnlyNewestCommits
=============================================================================
