----------------------------- MODULE TargetRuntime -----------------------------
(***************************************************************************)
(* The target runtime a campaign runs against: the coordinator             *)
(* (Coordinator), the worker processes of apps/target_worker.cpp, the TCP  *)
(* connections between them, and the controllers of apps/chaos_cli.cpp     *)
(* that submit work, replay captured authority, kill and relaunch          *)
(* processes.                                                              *)
(*                                                                         *)
(* A connection delivers in order and loses nothing while both ends live.  *)
(* When a worker process dies the coordinator's thread may still read what *)
(* was sent, or lose it to the reset.  Frames that only make the receiver  *)
(* print (REGISTERED, WORK_STARTED, COMPLETE_ACK, COMPLETE_REJECTED to a   *)
(* worker, PING and PONG) and GET_STATE, which changes nothing, are left   *)
(* out.                                                                    *)
(***************************************************************************)
EXTENDS Coordinator, Sequences

CONSTANTS
  Procs,        \* worker processes a campaign launches, each at most once
  IdOf,         \* the --id of each process
  BootOf,       \* the --boot of each process
  MaxTries,     \* bound of the worker's reconnect loop (200)
  ReplayResults \* results the controllers put in the completions they replay

ASSUME ProcAssumption == IdOf \in [Procs -> WorkerIds] /\ BootOf \in [Procs -> Boots]
ASSUME TriesAssumption == MaxTries \in Nat \ {0}
ASSUME ResultAssumption ==
  /\ ReplayResults \subseteq Results
  /\ Controllers \X Boots \subseteq Results

VARIABLES
  proc,   \* worker processes: state, connection, reconnect attempts
  conn,   \* worker connections: state and the frames in flight each way
  grant   \* the SubmitResult each controller holds (zero when not ok), and
          \* the coordinator process that gave it

vars == <<coordVars, proc, conn, grant>>

NoGrant  == [epoch |-> 0, attempt |-> 0, gen |-> 0, dispatch |-> 0, from |-> 0]
FreeConn == [st |-> "free", toWorker |-> <<>>, toCoord |-> <<>>]

(* do_work: the result is a hash of the work and the boot.  The work is    *)
(* named after the controller that submitted it.                           *)
DoWork(work, boot) == <<work, boot>>

Register(p) == [type |-> "REGISTER", id |-> IdOf[p], boot |-> BootOf[p]]
Complete(p, d) ==
  [type |-> "COMPLETE",
   req |-> [epoch |-> d.epoch, attempt |-> d.attempt, gen |-> d.gen,
            dispatch |-> d.dispatch, worker |-> IdOf[p], boot |-> BootOf[p],
            result |-> DoWork(d.work, BootOf[p])]]

Init ==
  /\ CoordInit
  /\ proc = [p \in Procs |-> [st |-> "off", fd |-> NoFd, tries |-> 0]]
  /\ conn = [f \in Fds |-> FreeConn]
  /\ grant = [c \in Controllers |-> NoGrant]

-----------------------------------------------------------------------------
(* Worker processes.                                                       *)

LaunchWorker(p) ==
  /\ proc[p].st = "off"
  /\ proc' = [proc EXCEPT ![p].st = "connecting"]
  /\ UNCHANGED <<coordVars, conn, grant>>

\* Mutant: a worker that reconnects does not send REGISTER again.
ConnectSilently(p, f) ==
  /\ proc[p].st = "connecting"
  /\ conn[f].st = "free"
  /\ Accept(f)
  /\ proc' = [proc EXCEPT ![p] = [st |-> "connected", fd |-> f, tries |-> @.tries]]
  /\ conn' = [conn EXCEPT ![f] =
       [st |-> "open", toWorker |-> <<>>,
        toCoord |-> IF proc[p].tries = 0 THEN <<Register(p)>> ELSE <<>>]]
  /\ UNCHANGED grant

(* tcp_connect succeeds, the coordinator accepts, the worker registers.    *)
Connect(p, f) ==
  /\ proc[p].st = "connecting"
  /\ conn[f].st = "free"
  /\ Accept(f)
  /\ proc' = [proc EXCEPT ![p] = [st |-> "connected", fd |-> f, tries |-> @.tries]]
  /\ conn' = [conn EXCEPT ![f] =
       [st |-> "open", toWorker |-> <<>>, toCoord |-> <<Register(p)>>]]
  /\ UNCHANGED grant

(* The listening socket completes the connection but nobody accepts it.    *)
ConnectBacklog(p) ==
  /\ proc[p].st = "connecting"
  /\ up
  /\ ~accepting
  /\ proc' = [proc EXCEPT ![p].st = "backlog"]
  /\ UNCHANGED <<coordVars, conn, grant>>

(* ++attempts at the end of a failed round; the count is never reset.      *)
CountTry(p) == IF proc[p].tries + 1 < MaxTries THEN "connecting" ELSE "dead"

(* tcp_connect fails, or the connection is lost: the loop goes round while *)
(* attempts < 200 and the process exits afterwards.                        *)
Retry(p) ==
  /\ \/ proc[p].st = "connecting" /\ ~up
     \/ proc[p].st = "lost"
  /\ proc' = [proc EXCEPT ![p] =
       [st |-> CountTry(p), fd |-> NoFd, tries |-> proc[p].tries + 1]]
  /\ UNCHANGED <<coordVars, conn, grant>>

(* handle_dispatch: do the work and send COMPLETE on the same connection.  *)
HandleDispatch(p) ==
  LET f == proc[p].fd IN
  /\ proc[p].st = "connected"
  /\ conn[f].toWorker # <<>>
  /\ conn' = [conn EXCEPT ![f] =
       [st |-> @.st, toWorker |-> Tail(@.toWorker),
        toCoord |-> Append(@.toCoord, Complete(p, Head(@.toWorker)))]]
  /\ UNCHANGED <<coordVars, proc, grant>>

(* force_kill: the process is gone and the OS closes its socket.           *)
Kill(p) ==
  /\ proc[p].st \notin {"off", "dead"}
  /\ proc' = [proc EXCEPT ![p] = [st |-> "dead", fd |-> NoFd, tries |-> @.tries]]
  /\ conn' = [f \in Fds |->
       IF proc[p].st = "connected" /\ proc[p].fd = f
         THEN [st |-> "closed", toWorker |-> <<>>, toCoord |-> conn[f].toCoord]
         ELSE conn[f]]
  /\ UNCHANGED <<coordVars, grant>>

-----------------------------------------------------------------------------
(* The coordinator's connection threads.                                   *)

Consume(f) == conn' = [conn EXCEPT ![f].toCoord = Tail(@)]

ReceiveRegister(f) ==
  /\ conn[f].toCoord # <<>>
  /\ Head(conn[f].toCoord).type = "REGISTER"
  /\ HandleRegister(f, Head(conn[f].toCoord).id, Head(conn[f].toCoord).boot)
  /\ Consume(f)
  /\ UNCHANGED <<proc, grant>>

ReceiveComplete(f) ==
  /\ conn[f].toCoord # <<>>
  /\ Head(conn[f].toCoord).type = "COMPLETE"
  /\ \/ CompleteAccepted(f, Head(conn[f].toCoord).req)
     \/ CompleteRejected(f, Head(conn[f].toCoord).req)
  /\ Consume(f)
  /\ UNCHANGED <<proc, grant>>

(* recv_frame fails on a connection whose worker died; frames not yet read *)
(* are lost with it.                                                       *)
ConnectionClosed(f) ==
  /\ conn[f].st = "closed"
  /\ ConnectionLost(f)
  /\ conn' = [conn EXCEPT ![f] = FreeConn]
  /\ UNCHANGED <<proc, grant>>

\* Mutant: the frame goes nowhere.
SendNothing(f, d) == conn' = conn

(* send_frame(worker_fd, DISPATCH): to whatever connection holds the fd    *)
(* now; the frame is lost when none does.                                  *)
SendDispatch(f, d) ==
  conn' = IF f \in Fds /\ conn[f].st = "open"
            THEN [conn EXCEPT ![f].toWorker = Append(@, d)]
            ELSE conn

Dispatch(c) ==
  /\ \E t \in UnlockedReads(c) :
       SendDispatch(thread[c].fd,
                    [epoch |-> epoch, attempt |-> t.attempt, gen |-> t.gen,
                     dispatch |-> t.dispatch, work |-> c])
  /\ SubmitDispatch(c)
  /\ UNCHANGED <<proc, grant>>

Respond(c) ==
  /\ \E t \in UnlockedReads(c) :
       grant' = [grant EXCEPT ![c] =
         [epoch |-> epoch, attempt |-> t.attempt, gen |-> t.gen,
          dispatch |-> t.dispatch, from |-> launches]]
  /\ SubmitRespond(c)
  /\ UNCHANGED <<proc, conn>>

-----------------------------------------------------------------------------
(* Controllers.                                                            *)

ControllerConnect(c) == Accept(c) /\ UNCHANGED <<proc, conn, grant>>

ControllerClose(c) == ConnectionLost(c) /\ UNCHANGED <<proc, conn, grant>>

Submit(c, id) ==
  \/ SubmitAccepted(c, id) /\ UNCHANGED <<proc, conn, grant>>
  \/ /\ SubmitRejected(c, id)
     /\ grant' = [grant EXCEPT ![c] = [NoGrant EXCEPT !.from = launches]]
     /\ UNCHANGED <<proc, conn>>

(* send_complete replays the captured authority as it is, with one counter *)
(* made stale, or moved to the next epoch with one counter made stale.     *)
StaleCounters(g) ==
  {[g EXCEPT !.attempt = @ - 1], [g EXCEPT !.gen = @ - 1], [g EXCEPT !.dispatch = @ - 1]}

Replays(c) ==
  LET g == grant[c] IN
  {g, [g EXCEPT !.epoch = @ - 1]} \cup StaleCounters(g)
    \cup StaleCounters([g EXCEPT !.epoch = @ + 1])

(* The id and the boot are those of a worker the campaign launched.        *)
ReplayedRequests(c) ==
  {[epoch |-> g.epoch, attempt |-> g.attempt, gen |-> g.gen, dispatch |-> g.dispatch,
    worker |-> IdOf[p], boot |-> BootOf[p], result |-> v] :
      g \in Replays(c), p \in {q \in Procs : proc[q].st # "off"}, v \in ReplayResults}

Replay(c) ==
  /\ grant[c].attempt # 0
  /\ \E req \in ReplayedRequests(c) : CompleteAccepted(c, req) \/ CompleteRejected(c, req)
  /\ UNCHANGED <<proc, conn, grant>>

ControllerShutdown(c) == Shutdown(c) /\ UNCHANGED <<proc, conn, grant>>

-----------------------------------------------------------------------------
(* Coordinator processes.                                                  *)

(* A relaunched coordinator runs at the epoch after its predecessor's.     *)
(* Campaigns has the epochs the campaigns compute.                         *)
LaunchCoordinator ==
  /\ Launch(epoch + 1)
  /\ UNCHANGED <<proc, conn, grant>>

(* Connections die with the process: workers find theirs lost, a           *)
(* controller waiting for SUBMIT_RESPONSE gets a failed SubmitResult.      *)
LoseConnections ==
  /\ proc' = [p \in Procs |->
       IF proc[p].st \in {"connected", "backlog"}
         THEN [st |-> "lost", fd |-> NoFd, tries |-> proc[p].tries] ELSE proc[p]]
  /\ conn' = [f \in Fds |-> FreeConn]
  /\ grant' = [c \in Controllers |->
       IF thread[c].pc = "idle" THEN grant[c] ELSE NoGrant]

CoordinatorKilled == Crash /\ LoseConnections

CoordinatorExits == Exit /\ LoseConnections

-----------------------------------------------------------------------------
WorkerStep(p) ==
  \/ \E f \in Fds : Connect(p, f)
  \/ ConnectBacklog(p)
  \/ Retry(p)
  \/ HandleDispatch(p)

ThreadStep ==
  \/ \E f \in Fds : ReceiveRegister(f) \/ ReceiveComplete(f) \/ ConnectionClosed(f)
  \/ \E c \in Controllers : Dispatch(c) \/ Respond(c)
  \/ CoordinatorExits

CampaignStep ==
  \/ \E p \in Procs : LaunchWorker(p) \/ Kill(p)
  \/ \E c \in Controllers :
       \/ ControllerConnect(c)
       \/ ControllerClose(c)
       \/ \E id \in WorkerIds : Submit(c, id)
       \/ Replay(c)
       \/ ControllerShutdown(c)
  \/ LaunchCoordinator
  \/ CoordinatorKilled

Next == ThreadStep \/ (\E p \in Procs : WorkerStep(p)) \/ CampaignStep

Spec == Init /\ [][Next]_vars

(* The coordinator's threads and the worker processes are scheduled by the *)
(* operating system and every blocking call they make is bounded or waits  *)
(* for input, so an enabled step is taken.  Campaign steps need not happen. *)
Fairness ==
  /\ \A f \in Fds : /\ WF_vars(ReceiveRegister(f))
                    /\ WF_vars(ReceiveComplete(f))
                    /\ WF_vars(ConnectionClosed(f))
  /\ \A c \in Controllers : WF_vars(Dispatch(c)) /\ WF_vars(Respond(c))
  /\ \A p \in Procs : WF_vars(WorkerStep(p))
  /\ WF_vars(CoordinatorExits)

FairSpec == Spec /\ Fairness

-----------------------------------------------------------------------------
(* Properties.                                                             *)

DispatchMsg == [epoch : Nat, attempt : Nat, gen : Nat, dispatch : Nat, work : Controllers]
RegisterMsg == [type : {"REGISTER"}, id : WorkerIds, boot : Boots]
CompleteMsg == [type : {"COMPLETE"}, req : Request]

ProcType  == [st : {"off", "connecting", "connected", "backlog", "lost", "dead"},
              fd : Fds \cup {NoFd}, tries : Nat]
ConnType  == [st : {"free", "open", "closed"}, toWorker : Seq(DispatchMsg),
              toCoord : Seq(RegisterMsg \cup CompleteMsg)]
GrantType == [epoch : Nat, attempt : Nat, gen : Nat, dispatch : Nat, from : Nat]

(* The type of the composed state.                                         *)
TypeOK ==
  /\ CoordTypeOK
  /\ proc \in [Procs -> ProcType]
  /\ conn \in [Fds -> ConnType]
  /\ grant \in [Controllers -> GrantType]

(* Campaigns give worker processes of different ids different boots.       *)
BootsIdentifyWorkers ==
  \A p, q \in Procs : BootOf[p] = BootOf[q] => IdOf[p] = IdOf[q]

(* "A committed op is never double-committed": over every crash, failover, *)
(* replay and misdelivered DISPATCH, one submission commits at most once.  *)
AtMostOneCommit ==
  \A r, s \in ledger :
    r.sig.epoch = s.sig.epoch /\ r.sig.attempt = s.sig.attempt => r = s

(* What commits is exactly what a SUBMIT assigned, in the name of the      *)
(* worker and the boot it was assigned to.                                 *)
OnlyAssigneeCommits == \A r \in ledger : r.sig \in assigned

(* A worker the coordinator believes alive is watched: the connection it   *)
(* registered on has a running thread that will mark it dead.              *)
AliveIsWatched ==
  \A id \in WorkerIds : workers[id].alive =>
    /\ workers[id].fd \in serving
    /\ fdToWorker[workers[id].fd] = id

(* A worker whose connection stands and whose registration is the latest   *)
(* for its id can be given work.                                           *)
RegisteredIsAlive ==
  \A p \in Procs :
    proc[p].st = "connected" /\ workers[IdOf[p]].fd = proc[p].fd
      /\ workers[IdOf[p]].boot = BootOf[p] => workers[IdOf[p]].alive

(* Issue, Commit and Fence of CommitLedger are what the runtime's steps    *)
(* amount to.  A coordinator that was given no work holds the zero         *)
(* authority, which names no worker.                                       *)
TokenOf(a) == [epoch |-> a.epoch, attempt |-> a.attempt, worker |-> a.worker, boot |-> a.boot]
NoToken == [epoch |-> 0, attempt |-> 0, worker |-> 0, boot |-> 0]

Ledger == INSTANCE CommitLedger WITH
  None    <- NoToken,
  current <- IF up /\ hasSubmitted
               THEN [epoch |-> epoch, attempt |-> cur.attempt,
                     worker |-> cur.worker, boot |-> cur.boot]
               ELSE NoToken,
  issued  <- {TokenOf(a) : a \in assigned},
  commits <- {[token |-> TokenOf(r.sig), result |-> r.result] : r \in ledger}

(* The runtime implements the commit ledger.                               *)
ImplementsLedger == Ledger!Spec

(* A submission commits unless another supersedes it, its worker process   *)
(* dies or the coordinator goes.                                           *)
CommitsEventually ==
  \A p \in Procs, n \in 1 .. MaxAttempt, l \in 1 .. MaxLaunches :
    (up /\ launches = l /\ cur.attempt = n /\ cur.boot = BootOf[p] /\ cur.worker = IdOf[p])
      ~> \/ ~up
         \/ launches # l
         \/ cur.attempt # n
         \/ proc[p].st # "connected"
         \/ \E r \in ledger : r.launch = l /\ r.sig.attempt = n

(* The coordinator does not go on believing a dead process alive.          *)
DeathIsNoticed ==
  \A p \in Procs :
    (proc[p].st = "dead" /\ workers[IdOf[p]].alive /\ workers[IdOf[p]].boot = BootOf[p])
      ~> ~(workers[IdOf[p]].alive /\ workers[IdOf[p]].boot = BootOf[p])

(* A worker process that lost its coordinator registers with the next one, *)
(* while that one accepts and the process has attempts left.               *)
Reregisters ==
  \A p \in Procs :
    (up /\ accepting /\ proc[p].st \in {"lost", "connecting"})
      ~> \/ ~up
         \/ ~accepting
         \/ proc[p].st = "dead"
         \/ /\ proc[p].st = "connected"
            /\ workers[IdOf[p]].fd = proc[p].fd
            /\ workers[IdOf[p]].boot = BootOf[p]

-----------------------------------------------------------------------------
(* The inductive invariant behind AtMostOneCommit and OnlyAssigneeCommits. *)

Known(id, boot) == \E p \in Procs : IdOf[p] = id /\ BootOf[p] = boot

KnownMsg == {m \in RegisterMsg : Known(m.id, m.boot)}
              \cup {m \in CompleteMsg : /\ Known(m.req.worker, m.req.boot)
                                         /\ \E c \in Controllers :
                                              m.req.result = DoWork(c, m.req.boot)}

(* Every id travels with a boot of that id: in the frames in flight, in    *)
(* the worker table, in what was assigned and in what was accepted.  A     *)
(* completion in flight carries the work of its boot.                      *)
IdentityInv ==
  /\ \A f \in Fds : conn[f].toCoord \in Seq(KnownMsg)
  /\ \A id \in WorkerIds : workers[id].alive => Known(id, workers[id].boot)
  /\ \A a \in assigned : Known(a.worker, a.boot)
  /\ \A r \in ledger : Known(r.sig.worker, r.sig.boot)

RuntimeInv == TypeOK /\ CoordInv /\ IdentityInv

(* The inductive invariant behind AliveIsWatched: a worker is alive on the *)
(* connection that registered it, no controller connection is mapped to a  *)
(* worker, a reused handle starts unmapped, and a connection carries one   *)
(* REGISTER, before everything else.                                       *)
WatchInv ==
  /\ AliveIsWatched
  /\ \A id \in WorkerIds : workers[id].alive => workers[id].fd \in Fds
  /\ \A c \in Controllers : fdToWorker[c] = 0
  /\ \A f \in Fds : conn[f].st = "free" => conn[f] = FreeConn /\ fdToWorker[f] = 0
  /\ \A f \in Fds : \A i \in 1 .. Len(conn[f].toCoord) :
       conn[f].toCoord[i].type = "REGISTER" => i = 1 /\ fdToWorker[f] = 0
=============================================================================
