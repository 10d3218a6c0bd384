------------------------------ MODULE Coordinator ------------------------------
(***************************************************************************)
(* The target coordinator process (apps/target_coordinator.cpp): the       *)
(* authority state g_state, the worker table, the handlers its connection  *)
(* threads run, the accept loop, and what a crash loses.                   *)
(*                                                                         *)
(* The module is open: CoordNext lets the connected clients send any       *)
(* request at any time.  TargetRuntime composes the same handlers with the *)
(* real clients, the worker processes and the campaign controllers.        *)
(*                                                                         *)
(* g_mtx makes one action of each locked section.  handle_submit releases  *)
(* g_mtx before it builds its two messages, so it is three actions:        *)
(* SubmitAccepted (locked), SubmitDispatch and SubmitRespond (unlocked     *)
(* reads of the authority).                                                *)
(***************************************************************************)
EXTENDS Integers, FiniteSets

CONSTANTS
  WorkerIds,    \* logical worker ids (target_worker --id)
  Boots,        \* worker boot ids (target_worker --boot)
  Fds,          \* socket handles of worker connections; a closed one is reused
  Controllers,  \* campaign controllers, one connection each
  Results,      \* completion results
  NoFd,         \* the fd -1 of a worker that never registered
  MaxAttempt,   \* bound: submissions per coordinator process
  MaxLaunches,  \* bound: coordinator processes launched, one after another
  MaxThreads    \* threads.size() above which the accept loop breaks (64)

ASSUME IdAssumption == WorkerIds \subseteq Nat \ {0} /\ Boots \subseteq Nat \ {0}
ASSUME ConnAssumption == NoFd \notin Fds /\ Fds \cap Controllers = {}
ASSUME BoundAssumption == MaxAttempt \in Nat /\ MaxLaunches \in Nat /\ MaxThreads \in Nat

VARIABLES
  up,            \* a coordinator process is running
  launches,      \* history: coordinator processes launched so far
  epoch,         \* g_state.epoch of the last launched process
  next,          \* next_attempt, next_gen, next_dispatch
  cur,           \* cur_attempt, cur_gen, cur_dispatch, cur_boot, cur_worker
  hasSubmitted,  \* has_submitted
  workers,       \* workers: id -> boot, fd, alive
  fdToWorker,    \* fd_to_worker, 0 where the map has no entry
  sigResult,     \* sig_result; its domain is the set committed
  shuttingDown,  \* shutting_down
  serving,       \* connections whose connection_thread is running
  nthreads,      \* threads.size() in main
  accepting,     \* main is still in its accept loop
  thread,        \* locals of handle_submit in each controller's thread
  assigned,      \* history: every authority a locked section assigned
  ledger         \* history: every ACCEPTED report, over all processes

netVars   == <<serving, nthreads, accepting>>
tableVars == <<workers, fdToWorker>>
authVars  == <<next, cur, hasSubmitted, assigned>>
coordVars == <<up, launches, epoch, next, cur, hasSubmitted, workers,
               fdToWorker, sigResult, shuttingDown, serving, nthreads,
               accepting, thread, assigned, ledger>>

Conns == Fds \cup Controllers

\* Mutant: the counters start one too low.
ZeroTooLow == [attempt |-> -1, gen |-> -1, dispatch |-> -1]

Zero      == [attempt |-> 0, gen |-> 0, dispatch |-> 0]
NoCurrent == [attempt |-> 0, gen |-> 0, dispatch |-> 0, boot |-> 0, worker |-> 0]
NoEntry   == [boot |-> 0, fd |-> NoFd, alive |-> FALSE]
NoLocals  == [pc |-> "idle", attempt |-> 0, gen |-> 0, dispatch |-> 0, fd |-> NoFd]

(* What a COMPLETE frame carries besides its result, and the signature     *)
(* handle_complete builds from it.                                         *)
Authority == [epoch : Nat, attempt : Nat, gen : Nat, dispatch : Nat,
              worker : WorkerIds, boot : Boots]
Request   == [epoch : Nat, attempt : Nat, gen : Nat, dispatch : Nat,
              worker : WorkerIds, boot : Boots, result : Results]

Sig(req) == [epoch |-> req.epoch, attempt |-> req.attempt, gen |-> req.gen,
             dispatch |-> req.dispatch, worker |-> req.worker, boot |-> req.boot]

committed == DOMAIN sigResult

-----------------------------------------------------------------------------
(* Process start and end.                                                  *)

CoordInit ==
  /\ up = FALSE
  /\ launches = 0
  /\ epoch = 0
  /\ next = Zero
  /\ cur = NoCurrent
  /\ hasSubmitted = FALSE
  /\ workers = [id \in WorkerIds |-> NoEntry]
  /\ fdToWorker = [k \in Conns |-> 0]
  /\ sigResult = [s \in {} |-> s]
  /\ shuttingDown = FALSE
  /\ serving = {}
  /\ nthreads = 0
  /\ accepting = FALSE
  /\ thread = [c \in Controllers |-> NoLocals]
  /\ assigned = {}
  /\ ledger = {}

\* Mutant: the --epoch flag is ignored.
LaunchAtEpochOne(e) ==
  /\ ~up
  /\ launches < MaxLaunches
  /\ up' = TRUE
  /\ launches' = launches + 1
  /\ epoch' = 1
  /\ accepting' = TRUE
  /\ UNCHANGED <<tableVars, authVars, sigResult, shuttingDown, serving,
                 nthreads, thread, ledger>>

(* main: a process launched with --epoch e (1 when the flag is absent).    *)
Launch(e) ==
  /\ ~up
  /\ launches < MaxLaunches
  /\ up' = TRUE
  /\ launches' = launches + 1
  /\ epoch' = e
  /\ accepting' = TRUE
  /\ UNCHANGED <<tableVars, authVars, sigResult, shuttingDown, serving,
                 nthreads, thread, ledger>>

(* Everything the process held is gone: no code writes the state file      *)
(* (save_state has no caller) and none reads it.                           *)
LoseMemory ==
  /\ up' = FALSE
  /\ next' = Zero
  /\ cur' = NoCurrent
  /\ hasSubmitted' = FALSE
  /\ workers' = [id \in WorkerIds |-> NoEntry]
  /\ fdToWorker' = [k \in Conns |-> 0]
  /\ sigResult' = [s \in {} |-> s]
  /\ shuttingDown' = FALSE
  /\ serving' = {}
  /\ nthreads' = 0
  /\ accepting' = FALSE
  /\ thread' = [c \in Controllers |-> NoLocals]
  /\ UNCHANGED <<launches, epoch, assigned, ledger>>

(* The campaign terminates the process at any point.                       *)
Crash == up /\ LoseMemory

(* main returns: the accept loop broke and every thread was joined.        *)
Exit == up /\ ~accepting /\ serving = {} /\ LoseMemory

(* main accepts a connection and starts its thread; past the limit it      *)
(* leaves the loop for good.                                               *)
Accept(k) ==
  /\ up
  /\ accepting
  /\ k \notin serving
  /\ serving' = serving \cup {k}
  /\ nthreads' = nthreads + 1
  /\ accepting' = (nthreads + 1 <= MaxThreads)
  /\ UNCHANGED <<up, launches, epoch, tableVars, authVars, sigResult,
                 shuttingDown, thread, ledger>>

-----------------------------------------------------------------------------
(* Handlers.                                                               *)

(* connection_thread of k runs and is back at recv_frame: it serves one    *)
(* request at a time.                                                      *)
Reading(k) == k \in serving /\ (k \in Controllers => thread[k].pc = "idle")

HandleRegister(k, id, boot) ==
  /\ up
  /\ Reading(k)
  /\ workers' = [workers EXCEPT ![id] = [boot |-> boot, fd |-> k, alive |-> TRUE]]
  /\ fdToWorker' = [fdToWorker EXCEPT ![k] = id]
  /\ UNCHANGED <<up, launches, epoch, authVars, sigResult, shuttingDown,
                 netVars, thread, ledger>>

\* Mutants: the epoch or the boot is not compared.
CurrentAuthorityAnyEpoch(req) ==
  /\ hasSubmitted
  /\ req.boot = cur.boot
  /\ req.attempt = cur.attempt
  /\ req.gen = cur.gen
  /\ req.dispatch = cur.dispatch
CurrentAuthorityAnyBoot(req) ==
  /\ hasSubmitted
  /\ req.epoch = epoch
  /\ req.attempt = cur.attempt
  /\ req.gen = cur.gen
  /\ req.dispatch = cur.dispatch

(* current_authority: the worker id of the request takes no part in it.    *)
CurrentAuthority(req) ==
  /\ hasSubmitted
  /\ req.epoch = epoch
  /\ req.boot = cur.boot
  /\ req.attempt = cur.attempt
  /\ req.gen = cur.gen
  /\ req.dispatch = cur.dispatch

\* Mutant: the signature is not looked up.
AcceptsRepeats(req) == CurrentAuthority(req)

(* handle_complete commits unless it finds the request stale (any field    *)
(* differs from the current authority) or its signature committed already, *)
(* with the same result (duplicate) or another (conflict).                 *)
Accepts(req) == CurrentAuthority(req) /\ Sig(req) \notin committed

CompleteAccepted(k, req) ==
  /\ up
  /\ Reading(k)
  /\ Accepts(req)
  /\ sigResult' = [s \in committed \cup {Sig(req)} |->
                     IF s = Sig(req) THEN req.result ELSE sigResult[s]]
  /\ ledger' = ledger \cup {[launch |-> launches, sig |-> Sig(req), result |-> req.result]}
  /\ UNCHANGED <<up, launches, epoch, tableVars, authVars, shuttingDown,
                 netVars, thread>>

CompleteRejected(k, req) ==
  /\ up
  /\ Reading(k)
  /\ ~Accepts(req)
  /\ UNCHANGED coordVars

(* handle_submit, the locked section: a fresh authority is assigned to the *)
(* worker's registered boot, and the thread keeps the worker's fd.         *)
SubmitAccepted(c, id) ==
  /\ up
  /\ Reading(c)
  /\ workers[id].alive
  /\ next.attempt < MaxAttempt
  /\ next' = [attempt |-> next.attempt + 1, gen |-> next.gen + 1,
              dispatch |-> next.dispatch + 1]
  /\ cur' = [attempt |-> next.attempt + 1, gen |-> next.gen + 1,
             dispatch |-> next.dispatch + 1,
             boot |-> workers[id].boot, worker |-> id]
  /\ hasSubmitted' = TRUE
  /\ assigned' = assigned \cup
       {[epoch |-> epoch, attempt |-> next.attempt + 1, gen |-> next.gen + 1,
         dispatch |-> next.dispatch + 1, worker |-> id, boot |-> workers[id].boot]}
  /\ thread' = [thread EXCEPT ![c] =
       [pc |-> "dispatch", attempt |-> next.attempt + 1, gen |-> next.gen + 1,
        dispatch |-> next.dispatch + 1, fd |-> workers[id].fd]]
  /\ UNCHANGED <<up, launches, epoch, tableVars, sigResult, shuttingDown,
                 netVars, ledger>>

(* handle_submit refuses a worker it does not know or believes dead.       *)
SubmitRejected(c, id) ==
  /\ up
  /\ Reading(c)
  /\ ~workers[id].alive
  /\ thread' = [thread EXCEPT ![c] = NoLocals]
  /\ UNCHANGED <<up, launches, epoch, tableVars, authVars, sigResult,
                 shuttingDown, netVars, ledger>>

(* What the unlocked reads of cur_attempt, cur_gen and cur_dispatch may    *)
(* return: each one, independently, any value it had since the unlock.     *)
(* g_state.epoch is read too, but no handler writes it.                    *)
UnlockedReads(c) ==
  [attempt  : thread[c].attempt .. cur.attempt,
   gen      : thread[c].gen .. cur.gen,
   dispatch : thread[c].dispatch .. cur.dispatch]

(* handle_submit builds and sends DISPATCH, then SUBMIT_RESPONSE.          *)
SubmitDispatch(c) ==
  /\ up
  /\ thread[c].pc = "dispatch"
  /\ thread' = [thread EXCEPT ![c].pc = "respond"]
  /\ UNCHANGED <<up, launches, epoch, tableVars, authVars, sigResult,
                 shuttingDown, netVars, ledger>>

SubmitRespond(c) ==
  /\ up
  /\ thread[c].pc = "respond"
  /\ thread' = [thread EXCEPT ![c].pc = "idle"]
  /\ UNCHANGED <<up, launches, epoch, tableVars, authVars, sigResult,
                 shuttingDown, netVars, ledger>>

(* SHUTDOWN sets a flag that nothing reads; the thread returns and leaves  *)
(* its socket open.                                                        *)
Shutdown(c) ==
  /\ up
  /\ Reading(c)
  /\ shuttingDown' = TRUE
  /\ serving' = serving \ {c}
  /\ UNCHANGED <<up, launches, epoch, tableVars, authVars, sigResult,
                 nthreads, accepting, thread, ledger>>

\* Mutant: the fd is forgotten but its worker stays alive.
ConnectionForgotten(k) ==
  /\ up
  /\ Reading(k)
  /\ fdToWorker' = [fdToWorker EXCEPT ![k] = 0]
  /\ serving' = serving \ {k}
  /\ UNCHANGED <<up, launches, epoch, workers, authVars, sigResult, shuttingDown,
                 nthreads, accepting, thread, ledger>>

(* connection_thread after recv_frame failed: the worker mapped to the fd, *)
(* whatever fd it is registered on by now, is marked dead.                 *)
ConnectionLost(k) ==
  /\ up
  /\ Reading(k)
  /\ workers' = [id \in WorkerIds |->
                   IF id = fdToWorker[k] THEN [workers[id] EXCEPT !.alive = FALSE]
                                         ELSE workers[id]]
  /\ fdToWorker' = [fdToWorker EXCEPT ![k] = 0]
  /\ serving' = serving \ {k}
  /\ UNCHANGED <<up, launches, epoch, authVars, sigResult, shuttingDown,
                 nthreads, accepting, thread, ledger>>

-----------------------------------------------------------------------------
(* The open specification.  A replacement process is launched at an        *)
(* advanced epoch; a worker registers any id and boot on its connection,   *)
(* and any client sends any completion.  A completion that is rejected     *)
(* changes nothing, so it is a stuttering step here.                       *)

OpenRequests == [epoch : 0 .. MaxLaunches, attempt : 0 .. MaxAttempt,
                 gen : 0 .. MaxAttempt, dispatch : 0 .. MaxAttempt,
                 worker : WorkerIds, boot : Boots, result : Results]

CoordNext ==
  \/ Launch(epoch + 1)
  \/ Crash
  \/ Exit
  \/ \E k \in Conns :
       \/ Accept(k)
       \/ ConnectionLost(k)
       \/ \E req \in OpenRequests : CompleteAccepted(k, req)
  \/ \E f \in Fds, id \in WorkerIds, boot \in Boots : HandleRegister(f, id, boot)
  \/ \E c \in Controllers :
       \/ \E id \in WorkerIds : SubmitAccepted(c, id)
       \/ \E id \in WorkerIds : SubmitRejected(c, id)
       \/ SubmitDispatch(c)
       \/ SubmitRespond(c)
       \/ Shutdown(c)

CoordSpec == CoordInit /\ [][CoordNext]_coordVars

-----------------------------------------------------------------------------
(* Properties.                                                             *)

Locals == [pc : {"idle", "dispatch", "respond"}, attempt : Nat, gen : Nat,
           dispatch : Nat, fd : Conns \cup {NoFd}]

(* The type of the coordinator's state.                                    *)
CoordTypeOK ==
  /\ up \in BOOLEAN
  /\ launches \in Nat
  /\ epoch \in Nat
  /\ next \in [attempt : Nat, gen : Nat, dispatch : Nat]
  /\ cur \in [attempt : Nat, gen : Nat, dispatch : Nat,
              boot : Boots \cup {0}, worker : WorkerIds \cup {0}]
  /\ hasSubmitted \in BOOLEAN
  /\ workers \in [WorkerIds -> [boot : Boots \cup {0}, fd : Conns \cup {NoFd},
                                alive : BOOLEAN]]
  /\ fdToWorker \in [Conns -> WorkerIds \cup {0}]
  /\ committed \subseteq Authority
  /\ sigResult \in [committed -> Results]
  /\ shuttingDown \in BOOLEAN
  /\ serving \subseteq Conns
  /\ nthreads \in Nat
  /\ accepting \in BOOLEAN
  /\ thread \in [Controllers -> Locals]
  /\ assigned \subseteq Authority
  /\ ledger \subseteq [launch : Nat, sig : Authority, result : Results]

(* The order in which authority is handed out.                             *)
Newer(a, b) == a.epoch > b.epoch \/ (a.epoch = b.epoch /\ a.attempt > b.attempt)

(* a and b are the same authority up to the worker id, the one field       *)
(* handle_complete does not compare.                                       *)
SameGrant(a, b) ==
  /\ a.epoch = b.epoch
  /\ a.attempt = b.attempt
  /\ a.gen = b.gen
  /\ a.dispatch = b.dispatch
  /\ a.boot = b.boot

(* Whatever clients send, and whatever a torn DISPATCH made them send, an  *)
(* ACCEPTED completion carries one authority that one SUBMIT assigned: its *)
(* attempt, generation, dispatch and boot were assigned together.          *)
CommitsAreAssigned == \A r \in ledger : \E a \in assigned : SameGrant(a, r.sig)

(* handle_complete accepts a signature once, across coordinator processes: *)
(* neither a duplicate nor a conflicting result is accepted after it.      *)
OncePerSignature == \A r, s \in ledger : r.sig = s.sig => r = s

(* The authority in force is the newest ever assigned, by this or by an    *)
(* earlier coordinator process: generations never go back.                 *)
CurrentIsNewest ==
  up /\ hasSubmitted =>
    \A a \in assigned : ~Newer(a, [epoch |-> epoch, attempt |-> cur.attempt])

(* A completion is accepted only while its authority is the newest one     *)
(* ever assigned by this or an earlier coordinator process.                *)
OnlyNewestCommits ==
  [][\A r \in ledger' \ ledger : \A a \in assigned : ~Newer(a, r.sig)]_coordVars

-----------------------------------------------------------------------------
(* The inductive invariant behind these properties.                        *)

CurrentGrant == [epoch |-> epoch, attempt |-> cur.attempt, gen |-> cur.gen,
                 dispatch |-> cur.dispatch, worker |-> cur.worker, boot |-> cur.boot]

(* The three counters advance together, the authority in force is the last *)
(* one assigned, and nothing assigned is newer than the counters say.      *)
AuthorityInv ==
  /\ next.gen = next.attempt /\ next.dispatch = next.attempt
  /\ cur.attempt = next.attempt /\ cur.gen = next.attempt /\ cur.dispatch = next.attempt
  /\ hasSubmitted => up /\ CurrentGrant \in assigned
  /\ \A a \in assigned :
       /\ a.epoch <= epoch
       /\ up /\ a.epoch = epoch => a.attempt <= next.attempt
  /\ \A a, b \in assigned : a.epoch = b.epoch /\ a.attempt = b.attempt => a = b
  /\ ~up => next = Zero

(* What was accepted under the epoch in force is still remembered as       *)
(* committed, and every acceptance is covered by an assignment.            *)
LedgerInv ==
  /\ CommitsAreAssigned
  /\ OncePerSignature
  /\ \A r \in ledger : up /\ r.sig.epoch = epoch => r.sig \in committed

(* Only registration makes a worker alive, so handle_submit never assigns  *)
(* the boot 0 of a worker it has not heard from.                           *)
CoordRegistered == \A id \in WorkerIds : workers[id].alive => workers[id].boot \in Boots

(* The part that holds at whatever epochs the processes are launched.      *)
CoordBase ==
  /\ CoordTypeOK
  /\ CoordRegistered
  /\ cur.attempt = next.attempt
  /\ hasSubmitted => up
  /\ ~up => next = Zero

CoordInv == CoordTypeOK /\ CoordRegistered /\ AuthorityInv /\ LedgerInv
=============================================================================
