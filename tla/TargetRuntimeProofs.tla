-------------------------- MODULE TargetRuntimeProofs --------------------------
(***************************************************************************)
(* Proofs about the composed target runtime: any number of worker          *)
(* processes, connections, controllers, submissions and coordinator        *)
(* launches, with every interleaving, kill, crash, replay and misdelivered *)
(* DISPATCH of the model.                                                  *)
(***************************************************************************)
EXTENDS TargetRuntime, CoordinatorProofs

USE ProcAssumption, TriesAssumption, ResultAssumption

(* Every step of the runtime is, for the coordinator, one of its handlers  *)
(* run on well-formed input, or nothing.                                   *)
CoordStep ==
  \/ \E e \in Nat : e > epoch /\ Launch(e)
  \/ Crash
  \/ Exit
  \/ \E k \in Conns :
       \/ Accept(k)
       \/ ConnectionLost(k)
       \/ \E id \in WorkerIds, boot \in Boots : HandleRegister(k, id, boot)
       \/ \E req \in Request : CompleteAccepted(k, req)
  \/ \E c \in Controllers :
       \/ \E id \in WorkerIds : SubmitAccepted(c, id)
       \/ \E id \in WorkerIds : SubmitRejected(c, id)
       \/ SubmitDispatch(c)
       \/ SubmitRespond(c)
       \/ Shutdown(c)
  \/ UNCHANGED coordVars

(* The coordinator's invariant survives any of its handlers.               *)
LEMMA CoordStepInv == CoordInv /\ CoordStep => CoordInv'
<1> SUFFICES ASSUME CoordInv, CoordStep PROVE CoordInv'
  OBVIOUS
<1>1. CASE \E e \in Nat : e > epoch /\ Launch(e)
  BY <1>1, LaunchInv
<1>2. CASE Crash \/ Exit
  BY <1>2, LoseMemoryInv DEF Crash, Exit
<1>3. ASSUME NEW k \in Conns,
             \/ Accept(k)
             \/ ConnectionLost(k)
             \/ \E id \in WorkerIds, boot \in Boots : HandleRegister(k, id, boot)
             \/ \E req \in Request : CompleteAccepted(k, req)
      PROVE  CoordInv'
  BY <1>3, AcceptInv, ConnectionLostInv, RegisterInv, CompleteAcceptedInv
<1>4. ASSUME NEW c \in Controllers,
             \/ \E id \in WorkerIds : SubmitAccepted(c, id)
             \/ \E id \in WorkerIds : SubmitRejected(c, id)
             \/ SubmitDispatch(c)
             \/ SubmitRespond(c)
             \/ Shutdown(c)
      PROVE  CoordInv'
  BY <1>4, SubmitAcceptedInv, SubmitTailInv, ShutdownInv
<1>5. CASE UNCHANGED coordVars
  BY <1>5, StepInv
<1> QED
  BY <1>1, <1>2, <1>3, <1>4, <1>5 DEF CoordStep

(* The part of it that does not depend on the epochs also survives a       *)
(* launch at any epoch.                                                    *)
LEMMA CoordBaseStep ==
  ASSUME CoordBase, CoordStep \/ \E e \in Nat : Launch(e)
  PROVE  CoordBase'
<1> USE DEF CoordBase
<1>1. CASE \E e \in Nat : Launch(e)
  BY <1>1, LaunchType DEF Launch, authVars
<1>2. CASE Crash \/ Exit
  <2>1. LoseMemory
    BY <1>2 DEF Crash, Exit
  <2>2. CoordTypeOK' /\ CoordRegistered'
    BY <2>1, LoseMemoryType
  <2> QED
    BY <2>1, <2>2 DEF LoseMemory, Zero, NoCurrent
<1>3. ASSUME NEW k \in Conns, Accept(k) PROVE CoordBase'
  BY <1>3, AcceptType DEF Accept, authVars
<1>4. ASSUME NEW k \in Conns, ConnectionLost(k) PROVE CoordBase'
  BY <1>4, ConnectionLostType DEF ConnectionLost, authVars
<1>5. ASSUME NEW k \in Conns, NEW id \in WorkerIds, NEW boot \in Boots,
             HandleRegister(k, id, boot)
      PROVE  CoordBase'
  BY <1>5, RegisterType DEF HandleRegister, authVars
<1>6. ASSUME NEW k \in Conns, NEW req \in Request, CompleteAccepted(k, req)
      PROVE  CoordBase'
  BY <1>6, CompleteAcceptedType DEF CompleteAccepted, authVars
<1>7. ASSUME NEW c \in Controllers, NEW id \in WorkerIds, SubmitAccepted(c, id)
      PROVE  CoordBase'
  BY <1>7, SubmitAcceptedType DEF SubmitAccepted
<1>8. ASSUME NEW c \in Controllers,
             \/ \E id \in WorkerIds : SubmitRejected(c, id)
             \/ SubmitDispatch(c)
             \/ SubmitRespond(c)
      PROVE  CoordBase'
  BY <1>8, SubmitTailType DEF authVars
<1>9. ASSUME NEW c \in Controllers, Shutdown(c) PROVE CoordBase'
  BY <1>9, ShutdownType DEF Shutdown, authVars
<1>10. CASE UNCHANGED coordVars
  BY <1>10 DEF coordVars, CoordRegistered, CoordTypeOK, committed
<1> QED
  BY <1>1, <1>2, <1>3, <1>4, <1>5, <1>6, <1>7, <1>8, <1>9, <1>10 DEF CoordStep

(* A request that handle_complete accepts is well formed, because it       *)
(* equals the authority in force.                                          *)
LEMMA AcceptedIsRequest ==
  ASSUME CoordTypeOK, NEW e, NEW a, NEW g, NEW d,
         NEW w \in WorkerIds, NEW b \in Boots, NEW v \in Results, NEW k,
         CompleteAccepted(k, [epoch |-> e, attempt |-> a, gen |-> g, dispatch |-> d,
                              worker |-> w, boot |-> b, result |-> v])
  PROVE  [epoch |-> e, attempt |-> a, gen |-> g, dispatch |-> d,
          worker |-> w, boot |-> b, result |-> v] \in Request
<1>1. e = epoch /\ a = cur.attempt /\ g = cur.gen /\ d = cur.dispatch
  BY DEF CompleteAccepted, Accepts, CurrentAuthority
<1>2. e \in Nat /\ a \in Nat /\ g \in Nat /\ d \in Nat
  BY <1>1 DEF CoordTypeOK
<1> QED
  BY <1>2 DEF Request

(* The frames a connection thread reads name an id, a boot and a request.  *)
LEMMA HeadIsKnown ==
  ASSUME IdentityInv, NEW f \in Fds, conn[f].toCoord # <<>>
  PROVE  LET m == Head(conn[f].toCoord)
         IN  /\ m \in KnownMsg
             /\ Tail(conn[f].toCoord) \in Seq(KnownMsg)
             /\ m.type = "REGISTER" =>
                  m.id \in WorkerIds /\ m.boot \in Boots /\ Known(m.id, m.boot)
             /\ m.type = "COMPLETE" =>
                  /\ m.req \in Request
                  /\ Known(m.req.worker, m.req.boot)
                  /\ \E c \in Controllers : m.req.result = DoWork(c, m.req.boot)
<1> DEFINE m == Head(conn[f].toCoord)
<1>1. conn[f].toCoord \in Seq(KnownMsg)
  BY DEF IdentityInv
<1>2. m \in KnownMsg /\ Tail(conn[f].toCoord) \in Seq(KnownMsg)
  BY <1>1
<1>3. m.type = "REGISTER" => m \in RegisterMsg /\ Known(m.id, m.boot)
  BY <1>2 DEF KnownMsg, CompleteMsg, RegisterMsg
<1>4. m.type = "COMPLETE" =>
        /\ m \in CompleteMsg
        /\ Known(m.req.worker, m.req.boot)
        /\ \E c \in Controllers : m.req.result = DoWork(c, m.req.boot)
  BY <1>2 DEF KnownMsg, CompleteMsg, RegisterMsg
<1> QED
  BY <1>2, <1>3, <1>4 DEF RegisterMsg, CompleteMsg

(* What each runtime step does to the coordinator.                         *)
LEMMA NextIsCoordStep ==
  ASSUME CoordTypeOK, IdentityInv, Next
  PROVE  CoordStep
<1> USE DEF CoordStep, Conns
<1>1. ASSUME NEW f \in Fds, ReceiveRegister(f) PROVE CoordStep
  BY <1>1, HeadIsKnown DEF ReceiveRegister
<1>2. ASSUME NEW f \in Fds, ReceiveComplete(f) PROVE CoordStep
  BY <1>2, HeadIsKnown DEF ReceiveComplete, CompleteRejected
<1>3. ASSUME NEW f \in Fds, ConnectionClosed(f) PROVE CoordStep
  BY <1>3 DEF ConnectionClosed
<1>4. ASSUME NEW c \in Controllers, Dispatch(c) \/ Respond(c) PROVE CoordStep
  BY <1>4 DEF Dispatch, Respond
<1>5. CASE CoordinatorExits \/ CoordinatorKilled
  BY <1>5 DEF CoordinatorExits, CoordinatorKilled
<1>6. ASSUME NEW p \in Procs, WorkerStep(p) \/ LaunchWorker(p) \/ Kill(p) PROVE CoordStep
  BY <1>6 DEF WorkerStep, Connect, ConnectBacklog, Retry, HandleDispatch, LaunchWorker, Kill
<1>7. ASSUME NEW c \in Controllers,
             \/ ControllerConnect(c)
             \/ ControllerClose(c)
             \/ \E id \in WorkerIds : Submit(c, id)
             \/ ControllerShutdown(c)
      PROVE  CoordStep
  BY <1>7 DEF ControllerConnect, ControllerClose, Submit, ControllerShutdown
<1>8. ASSUME NEW c \in Controllers, Replay(c) PROVE CoordStep
  <2>1. PICK req \in ReplayedRequests(c) : CompleteAccepted(c, req) \/ CompleteRejected(c, req)
    BY <1>8 DEF Replay
  <2>2. CASE CompleteRejected(c, req)
    BY <2>2 DEF CompleteRejected
  <2>3. CASE CompleteAccepted(c, req)
    <3>1. PICK g \in Replays(c), p \in Procs, v \in ReplayResults :
            req = [epoch |-> g.epoch, attempt |-> g.attempt, gen |-> g.gen,
                   dispatch |-> g.dispatch, worker |-> IdOf[p], boot |-> BootOf[p],
                   result |-> v]
      BY DEF ReplayedRequests
    <3>2. IdOf[p] \in WorkerIds /\ BootOf[p] \in Boots /\ v \in Results
      OBVIOUS
    <3>3. req \in Request
      BY <2>3, <3>1, <3>2, AcceptedIsRequest
    <3> QED
      BY <2>3, <3>3
  <2> QED
    BY <2>1, <2>2, <2>3
<1>9. CASE LaunchCoordinator
  <2>1. epoch + 1 \in Nat /\ epoch + 1 > epoch
    BY DEF CoordTypeOK
  <2> QED
    BY <1>9, <2>1 DEF LaunchCoordinator
<1> QED
  BY <1>1, <1>2, <1>3, <1>4, <1>5, <1>6, <1>7, <1>8, <1>9
     DEF Next, ThreadStep, CampaignStep

(* A worker or a controller names only ids and boots of launched workers,  *)
(* so the coordinator's records stay paired whichever handler runs.        *)
LEMMA IdentityStep ==
  ASSUME CoordTypeOK, IdentityInv,
         \A f \in Fds : conn'[f].toCoord \in Seq(KnownMsg),
         \/ UNCHANGED <<workers, assigned, ledger>>
         \/ \E k \in Conns : ConnectionLost(k)
         \/ LoseMemory
         \/ \E c \in Controllers, id \in WorkerIds : SubmitAccepted(c, id)
         \/ \E k \in Conns, id \in WorkerIds, boot \in Boots :
              Known(id, boot) /\ HandleRegister(k, id, boot)
         \/ \E k \in Conns, req \in Request :
              Known(req.worker, req.boot) /\ CompleteAccepted(k, req)
  PROVE  IdentityInv'
<1>1. CASE UNCHANGED <<workers, assigned, ledger>>
  BY <1>1 DEF IdentityInv
<1>2. ASSUME NEW k \in Conns, ConnectionLost(k) PROVE IdentityInv'
  <2>1. \A id \in WorkerIds : workers'[id].alive =>
          workers[id].alive /\ workers'[id].boot = workers[id].boot
    BY <1>2 DEF ConnectionLost, CoordTypeOK
  <2> QED
    BY <1>2, <2>1 DEF IdentityInv, ConnectionLost, authVars
<1>3. CASE LoseMemory
  BY <1>3 DEF IdentityInv, LoseMemory, NoEntry
<1>4. ASSUME NEW c \in Controllers, NEW id \in WorkerIds, SubmitAccepted(c, id)
      PROVE  IdentityInv'
  BY <1>4 DEF IdentityInv, SubmitAccepted, tableVars
<1>5. ASSUME NEW k \in Conns, NEW id \in WorkerIds, NEW boot \in Boots,
             Known(id, boot), HandleRegister(k, id, boot)
      PROVE  IdentityInv'
  <2>1. \A i \in WorkerIds : workers'[i].alive =>
          \/ i = id /\ workers'[i].boot = boot
          \/ workers[i].alive /\ workers'[i].boot = workers[i].boot
    BY <1>5 DEF HandleRegister, CoordTypeOK
  <2> QED
    BY <1>5, <2>1 DEF IdentityInv, HandleRegister, authVars
<1>6. ASSUME NEW k \in Conns, NEW req \in Request,
             Known(req.worker, req.boot), CompleteAccepted(k, req)
      PROVE  IdentityInv'
  BY <1>6 DEF IdentityInv, CompleteAccepted, tableVars, authVars, Sig
<1> QED
  BY <1>1, <1>2, <1>3, <1>4, <1>5, <1>6

(* The frames in flight to the coordinator name known workers.             *)
LEMMA FramesStep ==
  ASSUME TypeOK, IdentityInv, Next
  PROVE  \A f \in Fds : conn'[f].toCoord \in Seq(KnownMsg)
<1> DEFINE Good == \A f \in Fds : conn'[f].toCoord \in Seq(KnownMsg)
<1>0. \A f \in Fds : conn[f].toCoord \in Seq(KnownMsg)
  BY DEF IdentityInv
<1>1. CASE UNCHANGED conn
  BY <1>0, <1>1
<1>2. ASSUME NEW f \in Fds, Consume(f), conn[f].toCoord # <<>> PROVE Good
  BY <1>0, <1>2, HeadIsKnown DEF Consume, TypeOK
<1>3. ASSUME NEW f \in Fds, ConnectionClosed(f) PROVE Good
  BY <1>0, <1>3 DEF ConnectionClosed, FreeConn, TypeOK
<1>4. ASSUME NEW c \in Controllers, Dispatch(c) PROVE Good
  BY <1>0, <1>4 DEF Dispatch, SendDispatch, TypeOK
<1>5. CASE CoordinatorExits \/ CoordinatorKilled
  <2>1. \A f \in Fds : conn'[f].toCoord = <<>>
    BY <1>5 DEF CoordinatorExits, CoordinatorKilled, LoseConnections, FreeConn
  <2>2. <<>> \in Seq(KnownMsg)
    OBVIOUS
  <2> QED
    BY <2>1, <2>2
<1>6. ASSUME NEW p \in Procs, NEW f \in Fds, Connect(p, f) PROVE Good
  <2>1. Register(p) \in KnownMsg
    BY DEF Register, KnownMsg, RegisterMsg, Known
  <2>2. <<Register(p)>> \in Seq(KnownMsg)
    BY <2>1
  <2> QED
    BY <1>0, <1>6, <2>2 DEF Connect, TypeOK
<1>7. ASSUME NEW p \in Procs, HandleDispatch(p) PROVE Good
  <2> DEFINE f == proc[p].fd
  <2> DEFINE d == Head(conn[f].toWorker)
  <2>1. CASE f \notin Fds
    BY <1>0, <1>7, <2>1 DEF HandleDispatch, TypeOK
  <2>2. CASE f \in Fds
    <3>1. conn[f].toWorker \in Seq(DispatchMsg) /\ conn[f].toWorker # <<>>
      BY <1>7, <2>2 DEF TypeOK, ConnType, HandleDispatch
    <3>2. d \in DispatchMsg
      BY <3>1
    <3>3. DoWork(d.work, BootOf[p]) \in Results
      BY <3>2 DEF DoWork, DispatchMsg
    <3>4. Complete(p, d) \in CompleteMsg
      BY <3>2, <3>3 DEF Complete, CompleteMsg, Request, DispatchMsg
    <3>5. Complete(p, d) \in KnownMsg
      BY <3>2, <3>4 DEF KnownMsg, Known, Complete, DispatchMsg
    <3>6. \A g \in Fds : conn'[g].toCoord =
            IF g = f THEN Append(conn[f].toCoord, Complete(p, d)) ELSE conn[g].toCoord
      BY <1>7, <2>2 DEF HandleDispatch, TypeOK
    <3>7. Append(conn[f].toCoord, Complete(p, d)) \in Seq(KnownMsg)
      <4> DEFINE m == Complete(p, d)
      <4>1. m \in KnownMsg /\ conn[f].toCoord \in Seq(KnownMsg)
        BY <1>0, <2>2, <3>5
      <4> HIDE DEF m, f
      <4> QED
        BY <4>1 DEF m
    <3> QED
      BY <1>0, <3>6, <3>7
  <2> QED
    BY <2>1, <2>2
<1>8. ASSUME NEW p \in Procs, Kill(p) PROVE Good
  BY <1>0, <1>8 DEF Kill, TypeOK
<1> QED
  BY <1>1, <1>2, <1>3, <1>4, <1>5, <1>6, <1>7, <1>8
     DEF Next, ThreadStep, CampaignStep, WorkerStep, ReceiveRegister, ReceiveComplete, Respond,
         ConnectBacklog, Retry, LaunchWorker, ControllerConnect, ControllerClose, Submit, Replay,
         ControllerShutdown, LaunchCoordinator

(* Worker processes keep their type.                                       *)
LEMMA ProcTypeStep ==
  ASSUME proc \in [Procs -> ProcType], Next
  PROVE  proc' \in [Procs -> ProcType]
<1>0. proc \in [Procs -> ProcType]
  OBVIOUS
<1>1. CASE UNCHANGED proc
  BY <1>0, <1>1
<1>2. ASSUME NEW p \in Procs, LaunchWorker(p) \/ ConnectBacklog(p)
      PROVE  proc' \in [Procs -> ProcType]
  BY <1>0, <1>2 DEF LaunchWorker, ConnectBacklog, ProcType
<1>3. ASSUME NEW p \in Procs, NEW f \in Fds, Connect(p, f)
      PROVE  proc' \in [Procs -> ProcType]
  BY <1>0, <1>3 DEF Connect, ProcType
<1>4. ASSUME NEW p \in Procs, Retry(p)
      PROVE  proc' \in [Procs -> ProcType]
  BY <1>0, <1>4 DEF Retry, CountTry, ProcType
<1>5. ASSUME NEW p \in Procs, Kill(p)
      PROVE  proc' \in [Procs -> ProcType]
  BY <1>0, <1>5 DEF Kill, ProcType
<1>6. CASE LoseConnections
  <2>1. \A p \in Procs : [st |-> "lost", fd |-> NoFd, tries |-> proc[p].tries] \in ProcType
    BY <1>0 DEF ProcType
  <2> QED
    BY <1>0, <1>6, <2>1 DEF LoseConnections
<1> QED
  BY <1>1, <1>2, <1>3, <1>4, <1>5, <1>6
     DEF Next, ThreadStep, CampaignStep, WorkerStep, ReceiveRegister, ReceiveComplete, Respond,
         Dispatch, ConnectionClosed, HandleDispatch, ControllerConnect, ControllerClose, Submit,
         Replay, ControllerShutdown, LaunchCoordinator, CoordinatorExits, CoordinatorKilled

(* What the unlocked reads return are natural numbers.                     *)
LEMMA ReadsAreNat ==
  ASSUME CoordTypeOK, NEW c \in Controllers, NEW t \in UnlockedReads(c)
  PROVE  t.attempt \in Nat /\ t.gen \in Nat /\ t.dispatch \in Nat
BY DEF CoordTypeOK, Locals, UnlockedReads

(* Connections keep their type.                                            *)
LEMMA ConnTypeStep ==
  ASSUME TypeOK, IdentityInv, Next
  PROVE  conn' \in [Fds -> ConnType]
<1> DEFINE Msg == RegisterMsg \cup CompleteMsg
<1>0. conn \in [Fds -> ConnType]
  BY DEF TypeOK, ConnType
<1>1. CASE UNCHANGED conn
  BY <1>0, <1>1
<1>2. ASSUME NEW f \in Fds, Consume(f), conn[f].toCoord # <<>>
      PROVE  conn' \in [Fds -> ConnType]
  <2>1. conn[f].toCoord \in Seq(Msg)
    BY <1>0 DEF ConnType
  <2>2. Tail(conn[f].toCoord) \in Seq(Msg)
    BY <1>2, <2>1
  <2>3. [conn[f] EXCEPT !.toCoord = Tail(conn[f].toCoord)] \in ConnType
    BY <1>0, <2>2 DEF ConnType
  <2> QED
    BY <1>0, <1>2, <2>3 DEF Consume
<1>3. FreeConn \in ConnType
  BY DEF FreeConn, ConnType
<1>4. ASSUME NEW f \in Fds, ConnectionClosed(f)
      PROVE  conn' \in [Fds -> ConnType]
  BY <1>0, <1>3, <1>4 DEF ConnectionClosed
<1>5. CASE LoseConnections
  BY <1>3, <1>5 DEF LoseConnections
<1>6. ASSUME NEW c \in Controllers, Dispatch(c)
      PROVE  conn' \in [Fds -> ConnType]
  <2>1. PICK t \in UnlockedReads(c) :
          SendDispatch(thread[c].fd,
                       [epoch |-> epoch, attempt |-> t.attempt, gen |-> t.gen,
                        dispatch |-> t.dispatch, work |-> c])
    BY <1>6 DEF Dispatch
  <2> DEFINE d == [epoch |-> epoch, attempt |-> t.attempt, gen |-> t.gen,
                   dispatch |-> t.dispatch, work |-> c]
  <2> DEFINE f == thread[c].fd
  <2>2. d \in DispatchMsg
    BY ReadsAreNat DEF TypeOK, CoordTypeOK, DispatchMsg
  <2>3. SendDispatch(f, d)
    BY <2>1
  <2> HIDE DEF d, f
  <2>4. CASE f \in Fds
    <3>1. conn[f].toWorker \in Seq(DispatchMsg)
      BY <1>0, <2>4 DEF ConnType
    <3>2. Append(conn[f].toWorker, d) \in Seq(DispatchMsg)
      BY <2>2, <3>1
    <3>3. [conn[f] EXCEPT !.toWorker = Append(conn[f].toWorker, d)] \in ConnType
      BY <1>0, <2>4, <3>2 DEF ConnType
    <3> QED
      BY <1>0, <2>3, <2>4, <3>3 DEF SendDispatch
  <2> QED
    BY <1>0, <2>3, <2>4 DEF SendDispatch
<1>7. ASSUME NEW p \in Procs, NEW f \in Fds, Connect(p, f)
      PROVE  conn' \in [Fds -> ConnType]
  <2>1. Register(p) \in Msg
    BY DEF Register, RegisterMsg
  <2>2. <<Register(p)>> \in Seq(Msg)
    BY <2>1
  <2>3. [st |-> "open", toWorker |-> <<>>, toCoord |-> <<Register(p)>>] \in ConnType
    BY <2>2 DEF ConnType
  <2> QED
    BY <1>0, <1>7, <2>3 DEF Connect
<1>8. ASSUME NEW p \in Procs, HandleDispatch(p)
      PROVE  conn' \in [Fds -> ConnType]
  <2> DEFINE f == proc[p].fd
  <2> DEFINE d == Head(conn[f].toWorker)
  <2> DEFINE new == [st |-> conn[f].st, toWorker |-> Tail(conn[f].toWorker),
                     toCoord |-> Append(conn[f].toCoord, Complete(p, d))]
  <2>1. conn' = [conn EXCEPT ![f] = new] /\ conn[f].toWorker # <<>>
    BY <1>8 DEF HandleDispatch
  <2>2. CASE f \in Fds
    <3>1. conn[f].toWorker \in Seq(DispatchMsg) /\ conn[f].toCoord \in Seq(Msg)
      BY <1>0, <2>2 DEF ConnType
    <3>2. d \in DispatchMsg /\ Tail(conn[f].toWorker) \in Seq(DispatchMsg)
      BY <2>1, <3>1
    <3>3. DoWork(d.work, BootOf[p]) \in Results
      BY <3>2 DEF DoWork, DispatchMsg
    <3>4. Complete(p, d) \in Msg
      BY <3>2, <3>3 DEF Complete, CompleteMsg, Request, DispatchMsg
    <3>5. Append(conn[f].toCoord, Complete(p, d)) \in Seq(Msg)
      <4> DEFINE m == Complete(p, d)
      <4>1. m \in Msg
        BY <3>4
      <4> HIDE DEF m, f, Msg
      <4> QED
        BY <3>1, <4>1 DEF m
    <3>6. new \in ConnType
      BY <1>0, <2>2, <3>2, <3>5 DEF ConnType
    <3> HIDE DEF new, f
    <3> QED
      BY <1>0, <2>1, <3>6
  <2>3. CASE f \notin Fds
    <3> HIDE DEF new, f
    <3> QED
      BY <1>0, <2>1, <2>3
  <2> QED
    BY <2>2, <2>3
<1>9. ASSUME NEW p \in Procs, Kill(p)
      PROVE  conn' \in [Fds -> ConnType]
  <2>1. \A f \in Fds :
          [st |-> "closed", toWorker |-> <<>>, toCoord |-> conn[f].toCoord] \in ConnType
    BY <1>0 DEF ConnType
  <2> QED
    BY <1>0, <1>9, <2>1 DEF Kill
<1> QED
  BY <1>1, <1>2, <1>4, <1>5, <1>6, <1>7, <1>8, <1>9
     DEF Next, ThreadStep, CampaignStep, WorkerStep, ReceiveRegister, ReceiveComplete, Respond,
         ConnectBacklog, Retry, LaunchWorker, ControllerConnect, ControllerClose, Submit, Replay,
         ControllerShutdown, LaunchCoordinator, CoordinatorExits, CoordinatorKilled

(* What the controllers hold keeps its type.                               *)
LEMMA GrantTypeStep ==
  ASSUME TypeOK, Next
  PROVE  grant' \in [Controllers -> GrantType]
<1>0. grant \in [Controllers -> GrantType] /\ epoch \in Nat /\ launches \in Nat
  BY DEF TypeOK, CoordTypeOK, GrantType
<1>1. CASE UNCHANGED grant
  BY <1>0, <1>1
<1>2. NoGrant \in GrantType /\ [NoGrant EXCEPT !.from = launches] \in GrantType
  BY <1>0 DEF NoGrant, GrantType
<1>3. ASSUME NEW c \in Controllers, Respond(c)
      PROVE  grant' \in [Controllers -> GrantType]
  <2>1. PICK t \in UnlockedReads(c) :
          grant' = [grant EXCEPT ![c] =
            [epoch |-> epoch, attempt |-> t.attempt, gen |-> t.gen,
             dispatch |-> t.dispatch, from |-> launches]]
    BY <1>3 DEF Respond
  <2>2. [epoch |-> epoch, attempt |-> t.attempt, gen |-> t.gen,
         dispatch |-> t.dispatch, from |-> launches] \in GrantType
    BY <1>0, ReadsAreNat DEF TypeOK, GrantType
  <2> QED
    BY <1>0, <2>1, <2>2
<1>4. ASSUME NEW c \in Controllers, NEW id \in WorkerIds, Submit(c, id)
      PROVE  grant' \in [Controllers -> GrantType]
  BY <1>0, <1>2, <1>4 DEF Submit
<1>5. CASE LoseConnections
  BY <1>0, <1>2, <1>5 DEF LoseConnections
<1> QED
  BY <1>1, <1>3, <1>4, <1>5
     DEF Next, ThreadStep, CampaignStep, WorkerStep, ReceiveRegister, ReceiveComplete, Dispatch,
         ConnectionClosed, Connect, ConnectBacklog, Retry, HandleDispatch, LaunchWorker, Kill,
         ControllerConnect, ControllerClose, Replay, ControllerShutdown, LaunchCoordinator,
         CoordinatorExits, CoordinatorKilled

(* The invariant holds before anything is launched.                        *)
LEMMA RuntimeInit == Init => RuntimeInv
<1> SUFFICES ASSUME Init PROVE RuntimeInv
  OBVIOUS
<1>1. CoordInv
  BY InitInv DEF Init
<1>2. proc \in [Procs -> ProcType]
  BY DEF Init, ProcType
<1>3. conn \in [Fds -> ConnType] /\ \A f \in Fds : conn[f].toCoord = <<>>
  <2>1. FreeConn \in ConnType /\ FreeConn.toCoord = <<>>
    BY DEF FreeConn, ConnType
  <2> QED
    BY <2>1 DEF Init
<1>4. grant \in [Controllers -> GrantType]
  BY DEF Init, NoGrant, GrantType
<1>5. IdentityInv
  <2>1. <<>> \in Seq(KnownMsg)
    OBVIOUS
  <2> QED
    BY <1>3, <2>1 DEF IdentityInv, Init, CoordInit, NoEntry
<1> QED
  BY <1>1, <1>2, <1>3, <1>4, <1>5
     DEF RuntimeInv, TypeOK, CoordInv, ProcType, ConnType, GrantType

(* Every step leaves the coordinator's records paired with known workers.  *)
LEMMA NextIdentity ==
  ASSUME TypeOK, IdentityInv, Next
  PROVE  IdentityInv'
<1> USE DEF Conns
<1>0. /\ CoordTypeOK
      /\ IdentityInv
      /\ \A f \in Fds : conn'[f].toCoord \in Seq(KnownMsg)
  BY FramesStep DEF TypeOK
<1>1. CASE UNCHANGED <<workers, assigned, ledger>>
  BY <1>0, <1>1, IdentityStep
<1>2. ASSUME NEW f \in Fds, ReceiveRegister(f) PROVE IdentityInv'
  <2> DEFINE m == Head(conn[f].toCoord)
  <2>1. m.id \in WorkerIds /\ m.boot \in Boots /\ Known(m.id, m.boot)
    BY <1>0, <1>2, HeadIsKnown DEF ReceiveRegister
  <2>2. HandleRegister(f, m.id, m.boot)
    BY <1>2 DEF ReceiveRegister
  <2>3. \E k \in Conns, id \in WorkerIds, boot \in Boots :
          Known(id, boot) /\ HandleRegister(k, id, boot)
    BY <2>1, <2>2
  <2> QED
    BY <1>0, <2>3, IdentityStep
<1>3. ASSUME NEW f \in Fds, ReceiveComplete(f) PROVE IdentityInv'
  <2> DEFINE m == Head(conn[f].toCoord)
  <2>1. m.req \in Request /\ Known(m.req.worker, m.req.boot)
    BY <1>0, <1>3, HeadIsKnown DEF ReceiveComplete
  <2>2. CASE CompleteRejected(f, m.req)
    BY <1>1, <2>2 DEF CompleteRejected, coordVars
  <2>3. CASE CompleteAccepted(f, m.req)
    <3>1. \E k \in Conns, req \in Request :
            Known(req.worker, req.boot) /\ CompleteAccepted(k, req)
      BY <2>1, <2>3
    <3> QED
      BY <1>0, <3>1, IdentityStep
  <2> QED
    BY <1>3, <2>2, <2>3 DEF ReceiveComplete
<1>4. ASSUME NEW k \in Conns, ConnectionLost(k) PROVE IdentityInv'
  BY <1>0, <1>4, IdentityStep
<1>5. CASE LoseMemory
  BY <1>0, <1>5, IdentityStep
<1>6. ASSUME NEW c \in Controllers, NEW id \in WorkerIds, SubmitAccepted(c, id)
      PROVE  IdentityInv'
  BY <1>0, <1>6, IdentityStep
<1>7. ASSUME NEW c \in Controllers, Replay(c) PROVE IdentityInv'
  <2>1. PICK req \in ReplayedRequests(c) : CompleteAccepted(c, req) \/ CompleteRejected(c, req)
    BY <1>7 DEF Replay
  <2>2. CASE CompleteRejected(c, req)
    BY <1>1, <2>2 DEF CompleteRejected, coordVars
  <2>3. CASE CompleteAccepted(c, req)
    <3>1. PICK g \in Replays(c), p \in Procs, v \in ReplayResults :
            req = [epoch |-> g.epoch, attempt |-> g.attempt, gen |-> g.gen,
                   dispatch |-> g.dispatch, worker |-> IdOf[p], boot |-> BootOf[p],
                   result |-> v]
      BY DEF ReplayedRequests
    <3>2. IdOf[p] \in WorkerIds /\ BootOf[p] \in Boots /\ v \in Results
      OBVIOUS
    <3>3. req \in Request
      BY <1>0, <2>3, <3>1, <3>2, AcceptedIsRequest
    <3>4. Known(req.worker, req.boot)
      BY <3>1 DEF Known
    <3>5. \E k \in Conns, r \in Request :
            Known(r.worker, r.boot) /\ CompleteAccepted(k, r)
      BY <2>3, <3>3, <3>4
    <3> QED
      BY <1>0, <3>5, IdentityStep
  <2> QED
    BY <2>1, <2>2, <2>3
<1>8. ASSUME NEW p \in Procs, WorkerStep(p) \/ LaunchWorker(p) \/ Kill(p)
      PROVE  UNCHANGED <<workers, assigned, ledger>>
  BY <1>8 DEF WorkerStep, Connect, Accept, ConnectBacklog, Retry, HandleDispatch, LaunchWorker,
              Kill, coordVars, tableVars, authVars
<1>9. ASSUME NEW c \in Controllers,
             \/ Dispatch(c)
             \/ Respond(c)
             \/ ControllerConnect(c)
             \/ ControllerShutdown(c)
             \/ \E id \in WorkerIds : SubmitRejected(c, id)
      PROVE  UNCHANGED <<workers, assigned, ledger>>
  BY <1>9 DEF Dispatch, SubmitDispatch, Respond, SubmitRespond, ControllerConnect, Accept,
              ControllerShutdown, Shutdown, SubmitRejected, tableVars, authVars
<1>10. LaunchCoordinator => UNCHANGED <<workers, assigned, ledger>>
  BY DEF LaunchCoordinator, Launch, tableVars, authVars
<1> QED
  BY <1>1, <1>2, <1>3, <1>4, <1>5, <1>6, <1>7, <1>8, <1>9, <1>10
     DEF Next, ThreadStep, CampaignStep, ConnectionClosed, ControllerClose, Submit,
         CoordinatorExits, CoordinatorKilled, Crash, Exit

(* The part of the invariant that does not depend on the epochs.           *)
LEMMA BaseStep ==
  ASSUME TypeOK, CoordBase, IdentityInv, Next
  PROVE  TypeOK' /\ CoordBase' /\ IdentityInv'
<1>1. CoordBase'
  BY NextIsCoordStep, CoordBaseStep DEF CoordBase
<1>2. IdentityInv'
  BY NextIdentity
<1>3. /\ proc' \in [Procs -> ProcType]
      /\ conn' \in [Fds -> ConnType]
      /\ grant' \in [Controllers -> GrantType]
  BY ProcTypeStep, ConnTypeStep, GrantTypeStep DEF TypeOK
<1>4. TypeOK'
  BY <1>1, <1>3 DEF TypeOK, CoordBase, ProcType, ConnType, GrantType
<1> QED
  BY <1>1, <1>2, <1>4

(* The whole invariant contains it.                                        *)
LEMMA InvImpliesBase == CoordInv => CoordBase
BY DEF CoordInv, CoordBase, AuthorityInv

(* Every step of the runtime keeps the invariant: each coordinator is      *)
(* launched at an epoch above its predecessor's.                           *)
LEMMA RuntimeStep == RuntimeInv /\ [Next]_vars => RuntimeInv'
<1> SUFFICES ASSUME RuntimeInv, [Next]_vars PROVE RuntimeInv'
  OBVIOUS
<1>1. CASE Next
  <2>1. CoordInv'
    BY <1>1, NextIsCoordStep, CoordStepInv DEF RuntimeInv, CoordInv
  <2>2. TypeOK' /\ IdentityInv'
    BY <1>1, BaseStep, InvImpliesBase DEF RuntimeInv
  <2> QED
    BY <2>1, <2>2 DEF RuntimeInv
<1>2. CASE UNCHANGED vars
  <2>1. CoordInv'
    BY <1>2, StepInv DEF vars, RuntimeInv
  <2>2. CoordTypeOK'
    BY <2>1 DEF CoordInv
  <2>3. TypeOK'
    BY <1>2, <2>2 DEF vars, RuntimeInv, TypeOK
  <2>4. IdentityInv'
    BY <1>2 DEF vars, coordVars, RuntimeInv, IdentityInv
  <2> QED
    BY <2>1, <2>3, <2>4 DEF RuntimeInv
<1> QED
  BY <1>1, <1>2

(* The runtime's state has its type in every reachable state.              *)
THEOREM RuntimeTypeCorrect == Spec => []TypeOK
<1>1. RuntimeInv => TypeOK
  BY DEF RuntimeInv
<1>2. RuntimeInv /\ [Next]_vars => RuntimeInv'
  BY RuntimeStep
<1> QED
  BY <1>1, <1>2, RuntimeInit, PTL DEF Spec

(* handle_complete does not compare the worker id, but an accepted one     *)
(* carries the assigned boot, and the boot names its worker.               *)
LEMMA InvImpliesAssignee ==
  ASSUME BootsIdentifyWorkers, RuntimeInv
  PROVE  OnlyAssigneeCommits
<1> SUFFICES ASSUME NEW r \in ledger PROVE r.sig \in assigned
  BY DEF OnlyAssigneeCommits
<1>1. PICK a \in assigned : SameGrant(a, r.sig)
  BY DEF RuntimeInv, CoordInv, LedgerInv, CommitsAreAssigned
<1>2. Known(a.worker, a.boot) /\ Known(r.sig.worker, r.sig.boot)
  BY DEF RuntimeInv, IdentityInv
<1>3. a.worker = r.sig.worker
  BY <1>1, <1>2 DEF Known, BootsIdentifyWorkers, SameGrant
<1>4. a \in Authority /\ r.sig \in Authority
  BY DEF RuntimeInv, CoordInv, CoordTypeOK
<1>5. a = r.sig
  BY <1>1, <1>3, <1>4 DEF SameGrant, Authority
<1> QED
  BY <1>5

(* Two commits of one submission have the same signature, so they are one. *)
LEMMA InvImpliesOneCommit ==
  ASSUME BootsIdentifyWorkers, RuntimeInv
  PROVE  AtMostOneCommit
<1> SUFFICES ASSUME NEW r \in ledger, NEW s \in ledger,
                    r.sig.epoch = s.sig.epoch, r.sig.attempt = s.sig.attempt
             PROVE  r = s
  BY DEF AtMostOneCommit
<1>1. r.sig \in assigned /\ s.sig \in assigned
  BY InvImpliesAssignee DEF OnlyAssigneeCommits
<1>2. r.sig = s.sig
  BY <1>1 DEF RuntimeInv, CoordInv, AuthorityInv
<1> QED
  BY <1>2 DEF RuntimeInv, CoordInv, LedgerInv, OncePerSignature

(* Whatever is killed, replayed, misdelivered or torn, the target runtime  *)
(* commits only what handle_submit assigned, in the assignee's name, as    *)
(* long as workers of different ids have different boots; coordinators are *)
(* launched at increasing epochs in this specification.                    *)
THEOREM OnlyAssigneeCommitsAlways ==
  ASSUME BootsIdentifyWorkers
  PROVE  Spec => []OnlyAssigneeCommits
<1>1. RuntimeInv => OnlyAssigneeCommits
  BY InvImpliesAssignee
<1>2. RuntimeInv /\ [Next]_vars => RuntimeInv'
  BY RuntimeStep
<1> QED
  BY <1>1, <1>2, RuntimeInit, PTL DEF Spec

(* Under the same assumption no submission commits twice: neither          *)
(* handle_complete's duplicate check nor its staleness check can be got    *)
(* round by any order of frames, kills and relaunches.                     *)
THEOREM AtMostOneCommitAlways ==
  ASSUME BootsIdentifyWorkers
  PROVE  Spec => []AtMostOneCommit
<1>1. RuntimeInv => AtMostOneCommit
  BY InvImpliesOneCommit
<1>2. RuntimeInv /\ [Next]_vars => RuntimeInv'
  BY RuntimeStep
<1> QED
  BY <1>1, <1>2, RuntimeInit, PTL DEF Spec

-----------------------------------------------------------------------------
(* The runtime implements the commit ledger: under the refinement mapping  *)
(* of TargetRuntime every step is an Issue, a Commit, a Fence or nothing.  *)

USE IdAssumption

(* The refinement mapping, by name.                                        *)
Current == IF up /\ hasSubmitted
             THEN [epoch |-> epoch, attempt |-> cur.attempt,
                   worker |-> cur.worker, boot |-> cur.boot]
             ELSE NoToken
Issued  == {TokenOf(a) : a \in assigned}
Commits == {[token |-> TokenOf(r.sig), result |-> r.result] : r \in ledger}

(* Nothing has been issued before the first launch.                        *)
LEMMA LedgerInit == Init => Ledger!Init
BY DEF Init, CoordInit, Ledger!Init

(* A step that leaves the authority and the ledger alone changes nothing   *)
(* the ledger can see.                                                     *)
LEMMA LedgerStutter ==
  ASSUME UNCHANGED <<epoch, cur, hasSubmitted, assigned, ledger>>,
         UNCHANGED up \/ ~hasSubmitted
  PROVE  UNCHANGED Ledger!ledgerVars
BY DEF Ledger!ledgerVars

(* The authority in force is the token of a worker, never NoToken.         *)
LEMMA CurrentIsToken ==
  ASSUME RuntimeInv, hasSubmitted
  PROVE  /\ up
         /\ Current = TokenOf(CurrentGrant)
         /\ CurrentGrant \in assigned
         /\ Current \in Ledger!Token
         /\ Current # NoToken
<1>1. up /\ CurrentGrant \in assigned
  BY DEF RuntimeInv, CoordInv, AuthorityInv
<1>2. CurrentGrant \in Authority
  BY <1>1 DEF RuntimeInv, CoordInv, CoordTypeOK
<1>3. /\ epoch \in Nat /\ cur.attempt \in Nat
      /\ cur.worker \in WorkerIds /\ cur.boot \in Boots
  BY <1>2 DEF CurrentGrant, Authority
<1>4. Current = TokenOf(CurrentGrant)
  BY <1>1 DEF Current, TokenOf, CurrentGrant
<1>5. Current.worker # 0
  BY <1>1, <1>3 DEF Current
<1> QED
  BY <1>1, <1>3, <1>4, <1>5 DEF Current, Ledger!Token, NoToken

(* handle_submit's locked section issues an authority later than every     *)
(* other.                                                                  *)
LEMMA SubmitIsIssue ==
  ASSUME RuntimeInv, NEW c \in Controllers, NEW id \in WorkerIds, SubmitAccepted(c, id)
  PROVE  Ledger!Issue
<1> DEFINE a == [epoch |-> epoch, attempt |-> next.attempt + 1, gen |-> next.gen + 1,
                 dispatch |-> next.dispatch + 1, worker |-> id, boot |-> workers[id].boot]
<1>0. /\ epoch \in Nat /\ next.attempt \in Nat
      /\ workers[id].boot \in Boots
      /\ assigned \subseteq Authority
  BY DEF RuntimeInv, CoordInv, CoordTypeOK, CoordRegistered, SubmitAccepted
<1>1. /\ up /\ up' /\ hasSubmitted' /\ epoch' = epoch
      /\ assigned' = assigned \cup {a}
      /\ cur'.attempt = next.attempt + 1 /\ cur'.worker = id /\ cur'.boot = workers[id].boot
      /\ ledger' = ledger
  BY DEF SubmitAccepted
<1>2. Current' = TokenOf(a)
  BY <1>1 DEF Current, TokenOf
<1>3. TokenOf(a) \in Ledger!Token
  BY <1>0 DEF TokenOf, Ledger!Token
<1>4. \A t \in Issued : Ledger!Later(TokenOf(a), t)
  <2> SUFFICES ASSUME NEW x \in assigned PROVE Ledger!Later(TokenOf(a), TokenOf(x))
    BY DEF Issued
  <2>1. x.epoch \in Nat /\ x.attempt \in Nat
    BY <1>0 DEF Authority
  <2>2. x.epoch <= epoch /\ (x.epoch = epoch => x.attempt <= next.attempt)
    BY <1>1 DEF RuntimeInv, CoordInv, AuthorityInv
  <2> QED
    BY <1>0, <2>1, <2>2 DEF Ledger!Later, TokenOf
<1>5. Issued' = Issued \cup {TokenOf(a)}
  BY <1>1 DEF Issued
<1>6. Commits' = Commits
  BY <1>1 DEF Commits
<1> HIDE DEF a
<1> QED
  BY <1>2, <1>3, <1>4, <1>5, <1>6 DEF Ledger!Issue, Current, Issued, Commits

(* A coordinator that dies revokes the authority it had in force.          *)
LEMMA LossIsFence ==
  ASSUME RuntimeInv, LoseMemory
  PROVE  Ledger!Fence \/ UNCHANGED Ledger!ledgerVars
<1>1. CASE hasSubmitted
  <2>1. Current # NoToken
    BY <1>1, CurrentIsToken
  <2>2. Current' = NoToken /\ Issued' = Issued /\ Commits' = Commits
    BY DEF LoseMemory, Current, Issued, Commits
  <2> QED
    BY <2>1, <2>2 DEF Ledger!Fence, Current, Issued, Commits
<1>2. CASE ~hasSubmitted
  BY <1>2 DEF LoseMemory, Ledger!ledgerVars
<1> QED
  BY <1>1, <1>2

(* What handle_complete accepts is the first commit of the authority in    *)
(* force, in the name of the worker it was assigned to: the boot it        *)
(* compares names the worker it does not compare.                          *)
LEMMA CompleteIsCommit ==
  ASSUME BootsIdentifyWorkers, RuntimeInv, NEW k, NEW req \in Request,
         Known(req.worker, req.boot), CompleteAccepted(k, req)
  PROVE  \E v \in Results : Ledger!Commit(v)
<1> DEFINE r == [launch |-> launches, sig |-> Sig(req), result |-> req.result]
<1>1. /\ up /\ CurrentAuthority(req) /\ Sig(req) \notin committed
      /\ ledger' = ledger \cup {r}
      /\ UNCHANGED <<up, hasSubmitted, epoch, cur, assigned>>
  BY DEF CompleteAccepted, Accepts, authVars
<1>2. hasSubmitted
  BY <1>1 DEF CurrentAuthority
<1>3. /\ CurrentGrant \in assigned
      /\ Current = TokenOf(CurrentGrant)
      /\ Current # NoToken
  BY <1>2, CurrentIsToken
<1>4. req.worker = cur.worker
  <2>1. Known(cur.worker, cur.boot)
    BY <1>3 DEF RuntimeInv, IdentityInv, CurrentGrant
  <2> QED
    BY <1>1, <2>1 DEF CurrentAuthority, Known, BootsIdentifyWorkers
<1>5. TokenOf(Sig(req)) = Current
  BY <1>1, <1>3, <1>4 DEF TokenOf, Sig, CurrentGrant, CurrentAuthority
<1>6. \A x \in Commits : x.token # Current
  <2> SUFFICES ASSUME NEW s \in ledger, TokenOf(s.sig) = Current PROVE FALSE
    BY DEF Commits
  <2>1. s.sig.epoch = epoch /\ s.sig.attempt = cur.attempt
    BY <1>3 DEF TokenOf, CurrentGrant
  <2>2. s.sig \in assigned
    BY InvImpliesAssignee DEF OnlyAssigneeCommits
  <2>3. s.sig = CurrentGrant
    BY <1>3, <2>1, <2>2 DEF RuntimeInv, CoordInv, AuthorityInv, CurrentGrant
  <2>4. Sig(req) = CurrentGrant
    BY <1>1, <1>4 DEF Sig, CurrentGrant, CurrentAuthority
  <2>5. s.sig \in committed
    BY <1>1, <2>1 DEF RuntimeInv, CoordInv, LedgerInv
  <2> QED
    BY <1>1, <2>3, <2>4, <2>5
<1>7. Commits' = Commits \cup {[token |-> Current, result |-> req.result]}
  <2>1. r.sig = Sig(req) /\ r.result = req.result
    OBVIOUS
  <2> HIDE DEF r
  <2>2. [token |-> TokenOf(r.sig), result |-> r.result] = [token |-> Current, result |-> req.result]
    BY <1>5, <2>1
  <2> QED
    BY <1>1, <2>2 DEF Commits
<1>8. Current' = Current /\ Issued' = Issued
  BY <1>1 DEF Current, Issued
<1>9. req.result \in Results
  BY DEF Request
<1>10. Ledger!Commit(req.result)
  BY <1>3, <1>6, <1>7, <1>8 DEF Ledger!Commit, Current, Issued, Commits
<1> QED
  BY <1>9, <1>10

(* A replayed completion that is accepted is well formed and names a       *)
(* worker the campaign launched.                                           *)
LEMMA ReplayedIsKnown ==
  ASSUME CoordTypeOK, NEW c \in Controllers, NEW req \in ReplayedRequests(c),
         CompleteAccepted(c, req)
  PROVE  req \in Request /\ Known(req.worker, req.boot)
<1>1. PICK g \in Replays(c), p \in Procs, v \in ReplayResults :
        req = [epoch |-> g.epoch, attempt |-> g.attempt, gen |-> g.gen,
               dispatch |-> g.dispatch, worker |-> IdOf[p], boot |-> BootOf[p],
               result |-> v]
  BY DEF ReplayedRequests
<1>2. IdOf[p] \in WorkerIds /\ BootOf[p] \in Boots /\ v \in Results
  BY ProcAssumption, ResultAssumption
<1>3. req \in Request
  BY <1>1, <1>2, AcceptedIsRequest
<1> QED
  BY <1>1, <1>3 DEF Known

(* Every step of the runtime is a step of the ledger, or a stutter.        *)
LEMMA LedgerStep ==
  ASSUME BootsIdentifyWorkers, RuntimeInv, Next
  PROVE  [Ledger!Next]_(Ledger!ledgerVars)
<1> DEFINE Goal == [Ledger!Next]_(Ledger!ledgerVars)
<1>0. CoordTypeOK /\ IdentityInv
  BY DEF RuntimeInv, CoordInv
<1>1. ASSUME NEW c \in Controllers, NEW id \in WorkerIds, SubmitAccepted(c, id)
      PROVE  Goal
  BY <1>1, SubmitIsIssue DEF Ledger!Next
<1>2. ASSUME LoseMemory PROVE Goal
  BY <1>2, LossIsFence DEF Ledger!Next
<1>3. ASSUME NEW k, NEW req \in Request, Known(req.worker, req.boot), CompleteAccepted(k, req)
      PROVE  Goal
  BY <1>3, CompleteIsCommit DEF Ledger!Next
<1>4. ASSUME UNCHANGED <<epoch, cur, hasSubmitted, assigned, ledger>>,
             UNCHANGED up \/ ~hasSubmitted
      PROVE  Goal
  BY <1>4, LedgerStutter
<1> HIDE DEF Goal
<1>5. ASSUME NEW f \in Fds, ReceiveComplete(f) PROVE Goal
  <2> DEFINE m == Head(conn[f].toCoord)
  <2>1. m.req \in Request /\ Known(m.req.worker, m.req.boot)
    BY <1>0, <1>5, HeadIsKnown DEF ReceiveComplete
  <2>2. CompleteAccepted(f, m.req) \/ CompleteRejected(f, m.req)
    BY <1>5 DEF ReceiveComplete
  <2> HIDE DEF m
  <2>3. CASE CompleteRejected(f, m.req)
    BY <1>4, <2>3 DEF CompleteRejected, coordVars
  <2> QED
    BY <1>3, <2>1, <2>2, <2>3
<1>6. ASSUME NEW c \in Controllers, Replay(c) PROVE Goal
  <2>1. PICK req \in ReplayedRequests(c) : CompleteAccepted(c, req) \/ CompleteRejected(c, req)
    BY <1>6 DEF Replay
  <2>2. CASE CompleteRejected(c, req)
    BY <1>4, <2>2 DEF CompleteRejected, coordVars
  <2>3. CASE CompleteAccepted(c, req)
    BY <1>0, <1>3, <2>3, ReplayedIsKnown
  <2> QED
    BY <2>1, <2>2, <2>3
<1>7. ASSUME NEW f \in Fds, ReceiveRegister(f) \/ ConnectionClosed(f) PROVE Goal
  BY <1>4, <1>7 DEF ReceiveRegister, HandleRegister, ConnectionClosed, ConnectionLost, authVars
<1>8. ASSUME NEW p \in Procs, WorkerStep(p) \/ LaunchWorker(p) \/ Kill(p) PROVE Goal
  BY <1>4, <1>8 DEF WorkerStep, Connect, Accept, ConnectBacklog, Retry, HandleDispatch,
                    LaunchWorker, Kill, coordVars, authVars
<1>9. ASSUME NEW c \in Controllers,
             \/ Dispatch(c)
             \/ Respond(c)
             \/ ControllerConnect(c)
             \/ ControllerClose(c)
             \/ ControllerShutdown(c)
             \/ \E id \in WorkerIds : SubmitRejected(c, id)
      PROVE  Goal
  BY <1>4, <1>9 DEF Dispatch, SubmitDispatch, Respond, SubmitRespond, ControllerConnect, Accept,
                    ControllerClose, ConnectionLost, ControllerShutdown, Shutdown,
                    SubmitRejected, authVars
<1>10. ASSUME LaunchCoordinator PROVE Goal
  <2>1. ~up /\ ~hasSubmitted
    BY <1>10 DEF LaunchCoordinator, Launch, RuntimeInv, CoordInv, AuthorityInv
  <2>2. Current' = Current /\ Issued' = Issued /\ Commits' = Commits
    BY <1>10, <2>1 DEF LaunchCoordinator, Launch, authVars, Current, Issued, Commits
  <2> QED
    BY <2>2 DEF Goal, Current, Issued, Commits, Ledger!ledgerVars
<1> QED
  BY <1>1, <1>2, <1>5, <1>6, <1>7, <1>8, <1>9, <1>10
     DEF Next, ThreadStep, CampaignStep, Submit, CoordinatorExits, CoordinatorKilled, Crash, Exit,
         Goal

(* The target runtime implements the commit ledger, for any number of      *)
(* workers, connections, controllers and launches, as long as workers of   *)
(* different ids have different boots: authority is issued in increasing   *)
(* order and only the current one commits, once, for its assignee.         *)
THEOREM RuntimeImplementsLedger ==
  ASSUME BootsIdentifyWorkers
  PROVE  Spec => ImplementsLedger
<1>1. Init => Ledger!Init
  BY LedgerInit
<1>2. RuntimeInv /\ [Next]_vars => [Ledger!Next]_(Ledger!ledgerVars)
  <2>1. UNCHANGED vars => UNCHANGED Ledger!ledgerVars
    BY LedgerStutter DEF vars, coordVars
  <2> QED
    BY <2>1, LedgerStep
<1>3. RuntimeInv /\ [Next]_vars => RuntimeInv'
  BY RuntimeStep
<1> QED
  BY <1>1, <1>2, <1>3, RuntimeInit, PTL DEF Spec, ImplementsLedger, Ledger!Spec

-----------------------------------------------------------------------------
USE ConnAssumption

(* The two halves of WatchInv: the worker table and the frames in flight.  *)
WatchedTable ==
  /\ AliveIsWatched
  /\ \A id \in WorkerIds : workers[id].alive => workers[id].fd \in Fds
  /\ \A c \in Controllers : fdToWorker[c] = 0

WatchedFrames ==
  \A f \in Fds :
    /\ conn[f].st = "free" => conn[f] = FreeConn /\ fdToWorker[f] = 0
    /\ \A i \in 1 .. Len(conn[f].toCoord) :
         conn[f].toCoord[i].type = "REGISTER" => i = 1 /\ fdToWorker[f] = 0

(* WatchInv is the two of them.                                           *)
LEMMA WatchHalves == WatchInv <=> WatchedTable /\ WatchedFrames
BY DEF WatchInv, WatchedTable, WatchedFrames

(* A handler keeps the table watched: it registers a worker on an unmapped *)
(* connection, marks dead the worker of a lost one, or ends the thread of  *)
(* a connection no worker is mapped to.                                    *)
LEMMA WatchedTableStep ==
  ASSUME CoordTypeOK, WatchedTable,
         \/ UNCHANGED <<workers, fdToWorker, serving>>
         \/ \E k \in Conns : Accept(k)
         \/ LoseMemory
         \/ \E k \in Conns : ConnectionLost(k)
         \/ \E c \in Controllers : Shutdown(c)
         \/ \E f \in Fds, id \in WorkerIds, boot \in Boots :
              fdToWorker[f] = 0 /\ HandleRegister(f, id, boot)
  PROVE  WatchedTable'
<1> USE DEF Conns
<1>0. /\ workers \in [WorkerIds -> [boot : Boots \cup {0}, fd : Conns \cup {NoFd},
                                    alive : BOOLEAN]]
      /\ fdToWorker \in [Conns -> WorkerIds \cup {0}]
  BY DEF CoordTypeOK
<1>1. CASE UNCHANGED <<workers, fdToWorker, serving>>
  BY <1>1 DEF WatchedTable, AliveIsWatched
<1>2. ASSUME NEW k \in Conns, Accept(k) PROVE WatchedTable'
  BY <1>2 DEF WatchedTable, AliveIsWatched, Accept, tableVars
<1>3. CASE LoseMemory
  BY <1>3 DEF WatchedTable, AliveIsWatched, LoseMemory, NoEntry
<1>4. ASSUME NEW k \in Conns, ConnectionLost(k) PROVE WatchedTable'
  <2>1. /\ fdToWorker' = [fdToWorker EXCEPT ![k] = 0]
        /\ serving' = serving \ {k}
    BY <1>4 DEF ConnectionLost
  <2>2. \A id \in WorkerIds : workers'[id].alive =>
          /\ workers[id].alive
          /\ workers'[id].fd = workers[id].fd
          /\ id # fdToWorker[k]
    BY <1>0, <1>4 DEF ConnectionLost
  <2>3. \A id \in WorkerIds : workers'[id].alive => workers[id].fd # k
    BY <2>2 DEF WatchedTable, AliveIsWatched
  <2> QED
    BY <1>0, <2>1, <2>2, <2>3 DEF WatchedTable, AliveIsWatched
<1>5. ASSUME NEW c \in Controllers, Shutdown(c) PROVE WatchedTable'
  BY <1>5 DEF WatchedTable, AliveIsWatched, Shutdown, tableVars
<1>6. ASSUME NEW f \in Fds, NEW id \in WorkerIds, NEW boot \in Boots,
             fdToWorker[f] = 0, HandleRegister(f, id, boot)
      PROVE  WatchedTable'
  <2>1. /\ fdToWorker' = [fdToWorker EXCEPT ![f] = id]
        /\ serving' = serving
        /\ f \in serving
    BY <1>6 DEF HandleRegister, netVars, Reading
  <2>2. \A i \in WorkerIds : i # id => workers'[i] = workers[i]
    BY <1>0, <1>6 DEF HandleRegister
  <2>3. workers'[id].fd = f
    BY <1>0, <1>6 DEF HandleRegister
  <2>4. \A i \in WorkerIds : i # id /\ workers[i].alive => workers[i].fd # f
    BY <1>6 DEF WatchedTable, AliveIsWatched
  <2> QED
    BY <1>0, <2>1, <2>2, <2>3, <2>4 DEF WatchedTable, AliveIsWatched
<1> QED
  BY <1>1, <1>2, <1>3, <1>4, <1>5, <1>6

(* A connection's frames stay in order when its map entry is left alone or *)
(* cleared, and only its first REGISTER maps it.                           *)
LEMMA WatchedFramesStep ==
  ASSUME TypeOK, IdentityInv, WatchInv, Next
  PROVE  WatchedFrames'
<1> USE DEF Conns
<1>0. /\ conn \in [Fds -> ConnType]
      /\ fdToWorker \in [Conns -> WorkerIds \cup {0}]
      /\ WatchedFrames
      /\ \A f \in Fds : conn[f].toCoord \in Seq(RegisterMsg \cup CompleteMsg)
  BY WatchHalves DEF TypeOK, CoordTypeOK, ConnType
<1>1. ASSUME UNCHANGED conn,
             \A f \in Fds : fdToWorker'[f] = fdToWorker[f]
      PROVE  WatchedFrames'
  BY <1>0, <1>1 DEF WatchedFrames
<1>2. ASSUME NEW f \in Fds, conn[f].toCoord # <<>>, Consume(f),
             \A g \in Fds : g # f => fdToWorker'[g] = fdToWorker[g]
      PROVE  WatchedFrames'
  <2>1. /\ conn[f].st # "free"
        /\ \A g \in Fds : conn'[g].st = conn[g].st /\ (g # f => conn'[g] = conn[g])
        /\ conn'[f].toCoord = Tail(conn[f].toCoord)
    BY <1>0, <1>2 DEF Consume, WatchedFrames, FreeConn, ConnType
  <2>2. \A i \in 1 .. Len(Tail(conn[f].toCoord)) :
          Tail(conn[f].toCoord)[i].type # "REGISTER"
    <3>1. \A i \in 1 .. Len(Tail(conn[f].toCoord)) :
            /\ Tail(conn[f].toCoord)[i] = conn[f].toCoord[i + 1]
            /\ i + 1 \in 1 .. Len(conn[f].toCoord)
            /\ i + 1 # 1
      BY <1>0, <1>2
    <3> QED
      BY <1>0, <3>1 DEF WatchedFrames
  <2> QED
    BY <1>0, <1>2, <2>1, <2>2, ZenonT(30) DEF WatchedFrames
<1>3. ASSUME NEW f \in Fds, ReceiveRegister(f) PROVE WatchedFrames'
  BY <1>0, <1>2, <1>3 DEF ReceiveRegister, HandleRegister
<1>4. ASSUME NEW f \in Fds, ReceiveComplete(f) PROVE WatchedFrames'
  BY <1>0, <1>2, <1>4 DEF ReceiveComplete, CompleteAccepted, CompleteRejected, tableVars, coordVars
<1>5. ASSUME NEW f \in Fds, ConnectionClosed(f) PROVE WatchedFrames'
  BY <1>0, <1>5 DEF ConnectionClosed, ConnectionLost, WatchedFrames, FreeConn
<1>6. ASSUME NEW c \in Controllers, Dispatch(c) PROVE WatchedFrames'
  <2>1. \A f \in Fds : /\ fdToWorker'[f] = fdToWorker[f]
                       /\ conn'[f].st = conn[f].st /\ conn'[f].toCoord = conn[f].toCoord
                       /\ conn[f].st = "free" => conn'[f] = conn[f]
    BY <1>0, <1>6 DEF Dispatch, SubmitDispatch, SendDispatch, ConnType, tableVars
  <2> QED
    BY <1>0, <2>1 DEF WatchedFrames
<1>7. ASSUME LoseConnections, LoseMemory PROVE WatchedFrames'
  BY <1>7 DEF LoseConnections, LoseMemory, WatchedFrames, FreeConn
<1>8. ASSUME NEW p \in Procs, NEW f \in Fds, Connect(p, f) PROVE WatchedFrames'
  <2>1. fdToWorker' = fdToWorker /\ fdToWorker[f] = 0
    BY <1>0, <1>8 DEF Connect, Accept, tableVars, WatchedFrames
  <2>2. /\ \A g \in Fds : g # f => conn'[g] = conn[g]
        /\ conn'[f].st = "open" /\ Len(conn'[f].toCoord) = 1
    BY <1>0, <1>8 DEF Connect
  <2> QED
    BY <1>0, <2>1, <2>2 DEF WatchedFrames
<1>9. ASSUME NEW p \in Procs, HandleDispatch(p) PROVE WatchedFrames'
  <2> DEFINE f == proc[p].fd
  <2> DEFINE m == Complete(p, Head(conn[f].toWorker))
  <2>1. fdToWorker' = fdToWorker
    BY <1>9 DEF HandleDispatch, coordVars
  <2>2. m.type # "REGISTER"
    BY DEF Complete
  <2>3. /\ \A g \in Fds : g # f => conn'[g] = conn[g]
        /\ f \in Fds => /\ conn'[f].st = conn[f].st
                        /\ conn'[f].toCoord = Append(conn[f].toCoord, m)
                        /\ conn[f].toWorker # <<>>
    BY <1>0, <1>9 DEF HandleDispatch
  <2> HIDE DEF f, m
  <2>4. CASE f \in Fds
    <3>1. conn[f].st # "free"
      BY <1>0, <2>3, <2>4 DEF WatchedFrames, FreeConn
    <3>2. \A i \in 1 .. Len(Append(conn[f].toCoord, m)) :
            \/ Append(conn[f].toCoord, m)[i] = m
            \/ /\ i \in 1 .. Len(conn[f].toCoord)
               /\ Append(conn[f].toCoord, m)[i] = conn[f].toCoord[i]
      <4> DEFINE S == RegisterMsg \cup CompleteMsg \cup {m}
      <4> DEFINE s == conn[f].toCoord
      <4>1. s \in Seq(S) /\ m \in S
        BY <1>0, <2>4
      <4> HIDE DEF S, s
      <4>2. \A i \in 1 .. Len(Append(s, m)) :
              Append(s, m)[i] = m \/ (i \in 1 .. Len(s) /\ Append(s, m)[i] = s[i])
        BY <4>1
      <4> QED
        BY <4>2 DEF s
    <3>3. \A i \in 1 .. Len(conn'[f].toCoord) :
            conn'[f].toCoord[i].type = "REGISTER" => i = 1 /\ fdToWorker[f] = 0
      BY <1>0, <2>2, <2>3, <2>4, <3>2, SMTT(30) DEF WatchedFrames
    <3>4. \A g \in Fds : g # f => conn'[g] = conn[g]
      BY <2>3
    <3>5. conn'[f].st # "free"
      BY <2>3, <2>4, <3>1
    <3> QED
      BY <1>0, <2>1, <3>3, <3>4, <3>5 DEF WatchedFrames
  <2>5. CASE f \notin Fds
    BY <1>0, <2>1, <2>3, <2>5 DEF WatchedFrames
  <2> QED
    BY <2>4, <2>5
<1>10. ASSUME NEW p \in Procs, Kill(p) PROVE WatchedFrames'
  <2>1. fdToWorker' = fdToWorker
    BY <1>10 DEF Kill, coordVars
  <2>2. \A f \in Fds :
          \/ conn'[f] = conn[f]
          \/ conn'[f].st = "closed" /\ conn'[f].toCoord = conn[f].toCoord
    BY <1>0, <1>10 DEF Kill
  <2> QED
    BY <1>0, <2>1, <2>2 DEF WatchedFrames
<1>11. ASSUME NEW p \in Procs, ConnectBacklog(p) \/ Retry(p) \/ LaunchWorker(p)
       PROVE  WatchedFrames'
  BY <1>1, <1>11 DEF ConnectBacklog, Retry, LaunchWorker, coordVars
<1>12. ASSUME NEW c \in Controllers,
              \/ Respond(c)
              \/ ControllerConnect(c)
              \/ ControllerShutdown(c)
              \/ \E id \in WorkerIds : Submit(c, id)
              \/ Replay(c)
       PROVE  WatchedFrames'
  BY <1>1, <1>12 DEF Respond, SubmitRespond, ControllerConnect, Accept, ControllerShutdown,
                     Shutdown, Submit, SubmitAccepted, SubmitRejected, Replay, CompleteAccepted,
                     CompleteRejected, tableVars, coordVars
<1>13. ASSUME NEW c \in Controllers, ControllerClose(c) PROVE WatchedFrames'
  BY <1>0, <1>1, <1>13 DEF ControllerClose, ConnectionLost
<1>14. ASSUME LaunchCoordinator PROVE WatchedFrames'
  BY <1>1, <1>14 DEF LaunchCoordinator, Launch, tableVars
<1> QED
  BY <1>3, <1>4, <1>5, <1>6, <1>7, <1>8, <1>9, <1>10, <1>11, <1>12, <1>13, <1>14
     DEF Next, ThreadStep, CampaignStep, WorkerStep, CoordinatorExits, CoordinatorKilled, Crash,
         Exit

(* Every step keeps WatchInv: the REGISTER a thread reads is the first     *)
(* frame of its connection, and finds the handle unmapped.                 *)
LEMMA WatchStep ==
  ASSUME RuntimeInv, WatchInv, Next
  PROVE  WatchInv'
<1> USE DEF Conns
<1>0. TypeOK /\ CoordTypeOK /\ IdentityInv /\ WatchedTable /\ WatchedFrames
  BY WatchHalves DEF RuntimeInv, TypeOK
<1>1. WatchedFrames'
  BY <1>0, WatchedFramesStep
<1> DEFINE Goal == WatchedTable'
<1>2. ASSUME UNCHANGED <<workers, fdToWorker, serving>> PROVE Goal
  BY <1>0, <1>2, WatchedTableStep
<1>3. ASSUME NEW k \in Conns, Accept(k) \/ ConnectionLost(k) PROVE Goal
  BY <1>0, <1>3, WatchedTableStep
<1>4. ASSUME LoseMemory PROVE Goal
  BY <1>0, <1>4, WatchedTableStep
<1>5. ASSUME NEW c \in Controllers, Shutdown(c) PROVE Goal
  BY <1>0, <1>5, WatchedTableStep
<1>6. ASSUME NEW f \in Fds, ReceiveRegister(f) PROVE Goal
  <2> DEFINE m == Head(conn[f].toCoord)
  <2>1. m.id \in WorkerIds /\ m.boot \in Boots
    BY <1>0, <1>6, HeadIsKnown DEF ReceiveRegister
  <2>2. HandleRegister(f, m.id, m.boot)
    BY <1>6 DEF ReceiveRegister
  <2>3. conn[f].toCoord \in Seq(RegisterMsg \cup CompleteMsg) /\ conn[f].toCoord # <<>>
    BY <1>0, <1>6 DEF TypeOK, ConnType, ReceiveRegister
  <2>4. 1 \in 1 .. Len(conn[f].toCoord) /\ m = conn[f].toCoord[1]
    BY <2>3
  <2>5. fdToWorker[f] = 0
    BY <1>0, <1>6, <2>4 DEF ReceiveRegister, WatchedFrames
  <2> HIDE DEF m
  <2> QED
    BY <1>0, <2>1, <2>2, <2>5, WatchedTableStep
<1>7. ASSUME NEW f \in Fds, ReceiveComplete(f) PROVE Goal
  BY <1>2, <1>7 DEF ReceiveComplete, CompleteAccepted, CompleteRejected, coordVars, tableVars,
                    netVars
<1>8. ASSUME NEW p \in Procs, LaunchWorker(p) \/ Kill(p) \/ ConnectBacklog(p) \/ Retry(p)
                              \/ HandleDispatch(p)
      PROVE  Goal
  BY <1>2, <1>8 DEF LaunchWorker, Kill, ConnectBacklog, Retry, HandleDispatch, coordVars
<1>9. ASSUME NEW c \in Controllers,
             Dispatch(c) \/ Respond(c) \/ Replay(c) \/ \E id \in WorkerIds : Submit(c, id)
      PROVE  Goal
  BY <1>2, <1>9 DEF Dispatch, SubmitDispatch, Respond, SubmitRespond, Replay, CompleteAccepted,
                    CompleteRejected, Submit, SubmitAccepted, SubmitRejected, coordVars,
                    tableVars, netVars
<1>10. ASSUME LaunchCoordinator PROVE Goal
  BY <1>2, <1>10 DEF LaunchCoordinator, Launch, tableVars
<1> HIDE DEF Goal
<1>11. Goal
  BY <1>3, <1>4, <1>5, <1>6, <1>7, <1>8, <1>9, <1>10
     DEF Next, ThreadStep, CampaignStep, WorkerStep, Connect, ConnectionClosed, ControllerConnect,
         ControllerClose, ControllerShutdown, CoordinatorExits, CoordinatorKilled, Crash, Exit
<1> QED
  BY <1>1, <1>11 DEF Goal, WatchInv, WatchedTable, WatchedFrames

(* A worker the coordinator believes alive always has a thread reading the *)
(* connection it registered on, mapped to its id, however handles are      *)
(* reused: the thread whose recv_frame fails when the worker dies.         *)
THEOREM AliveIsWatchedAlways == Spec => []AliveIsWatched
<1>1. Init => WatchInv
  BY DEF Init, CoordInit, WatchInv, AliveIsWatched, NoEntry, FreeConn, Conns
<1>2. RuntimeInv /\ WatchInv /\ [Next]_vars => WatchInv'
  <2>1. UNCHANGED vars /\ WatchInv => WatchInv'
    <3> SUFFICES ASSUME UNCHANGED vars, WatchInv PROVE WatchInv'
      OBVIOUS
    <3>1. UNCHANGED <<workers, fdToWorker, serving, conn>>
      BY DEF vars, coordVars
    <3> QED
      BY <3>1 DEF WatchInv, AliveIsWatched
  <2> QED
    BY <2>1, WatchStep
<1>3. RuntimeInv /\ [Next]_vars => RuntimeInv'
  BY RuntimeStep
<1>4. WatchInv => AliveIsWatched
  BY DEF WatchInv
<1> QED
  BY <1>1, <1>2, <1>3, <1>4, RuntimeInit, PTL DEF Spec
=============================================================================
