--------------------------- MODULE OwnedProcesses ---------------------------
(***************************************************************************)
(* The Process handle class (src/process.cpp) and force_kill of             *)
(* apps/chaos_cli.cpp, against the operating system that ends processes in  *)
(* its own time.  A handle owns a process and two pipes; closing a handle,  *)
(* moving another onto it or launching over it gives up the handle and      *)
(* leaves the process running.  The pipes are opened and closed with the    *)
(* handle; what is read from them is in Campaigns.                          *)
(***************************************************************************)
EXTENDS Naturals, FiniteSets

CONSTANTS
  Handles,    \* the Process objects of a controller
  Pids,       \* processes that may be launched, each once
  NoPid,      \* the null handle, and pid 0
  ExitCodes   \* what a process may exit with by itself

StillActive == 259   \* the exit code GetExitCodeProcess reports of a running process
KilledCode == 1      \* the exit code TerminateProcess sets

ASSUME NoPidAssumption == NoPid \notin Pids
ASSUME ExitCodesAssumption == ExitCodes \subseteq Nat

VARIABLES
  handle,    \* [process, pid, exited, code] of each object
  os,        \* the process: "new", "running", "dying" (terminated, not gone), "gone"
  code,      \* its exit code once gone
  killing,   \* where force_kill stands with a handle: "no", "wait", "check"
  killed     \* history: the processes force_kill has returned from

processVars == <<handle, os, code, killing, killed>>

Closed == [process |-> NoPid, pid |-> NoPid, exited |-> FALSE, code |-> 0]

-----------------------------------------------------------------------------
ProcessTypeOK ==
  /\ handle \in [Handles -> [process : Pids \cup {NoPid}, pid : Pids \cup {NoPid},
                             exited : BOOLEAN, code : ExitCodes \cup {0, KilledCode}]]
  /\ os \in [Pids -> {"new", "running", "dying", "gone"}]
  /\ code \in [Pids -> ExitCodes \cup {0, KilledCode}]
  /\ killing \in [Handles -> {"no", "wait", "check"}]
  /\ killed \subseteq Pids

ProcessInit ==
  /\ handle = [h \in Handles |-> Closed]
  /\ os = [p \in Pids |-> "new"]
  /\ code = [p \in Pids |-> 0]
  /\ killing = [h \in Handles |-> "no"]
  /\ killed = {}

\* A controller uses an object while force_kill is not at work on it.
Free(h) == killing[h] = "no"
Owns(h) == handle[h].process # NoPid

\* Process::launch closes what the object held, then creates pipes and process.
Launch(h, p) ==
  /\ Free(h)
  /\ os[p] = "new"
  /\ os' = [os EXCEPT ![p] = "running"]
  /\ handle' = [handle EXCEPT ![h] =
                   [process |-> p, pid |-> p, exited |-> FALSE, code |-> 0]]
  /\ UNCHANGED <<code, killing, killed>>

\* Without a pipe or without a process every handle is closed again.
LaunchFails(h) ==
  /\ Free(h)
  /\ handle' = [handle EXCEPT ![h] = Closed]
  /\ UNCHANGED <<os, code, killing, killed>>

\* Mutant: the source of a move keeps the process.
MoveShares(h, g) ==
  /\ h # g /\ Free(h) /\ Free(g)
  /\ handle' = [handle EXCEPT ![h] = handle[g]]
  /\ UNCHANGED <<os, code, killing, killed>>
\* Move assignment: the target closes what it held, the source gives up its
\* handles and keeps its pid, exited flag and exit code.
Move(h, g) ==
  /\ h # g /\ Free(h) /\ Free(g)
  /\ handle' = [handle EXCEPT ![h] = handle[g], ![g].process = NoPid]
  /\ UNCHANGED <<os, code, killing, killed>>

\* close() and the destructor.
CloseHandles(h) ==
  /\ Free(h)
  /\ handle' = [handle EXCEPT ![h] = Closed]
  /\ UNCHANGED <<os, code, killing, killed>>

\* alive(): the only state it reads is the exit code, and a process that exited
\* with 259 looks like a running one.
Alive(h) == Owns(h) /\ (os[handle[h].process] # "gone" \/ code[handle[h].process] = StillActive)

Collected(h) ==
  LET p == handle[h].process
  IN  [process |-> p, pid |-> handle[h].pid, exited |-> TRUE, code |-> code[p]]

\* alive() on a process that is gone collects its exit code.
CheckAlive(h) ==
  /\ Free(h)
  /\ Owns(h) /\ ~Alive(h)
  /\ handle' = [handle EXCEPT ![h] = Collected(h)]
  /\ UNCHANGED <<os, code, killing, killed>>

\* Mutant: a wait that times out counts as an exit.
WaitTimesOutAsExit(h) ==
  /\ Free(h)
  /\ Owns(h)
  /\ handle' = [handle EXCEPT ![h] = Collected(h)]
  /\ UNCHANGED <<os, code, killing, killed>>
\* wait() that sees the process end; one that times out changes nothing.
Wait(h) ==
  /\ Free(h)
  /\ Owns(h) /\ os[handle[h].process] = "gone"
  /\ handle' = [handle EXCEPT ![h] = Collected(h)]
  /\ UNCHANGED <<os, code, killing, killed>>

\* terminate(true) only notices a process that is already gone.
TerminateGraceful(h) ==
  /\ Free(h)
  /\ Owns(h) /\ os[handle[h].process] = "gone"
  /\ handle' = [handle EXCEPT ![h].exited = TRUE]
  /\ UNCHANGED <<os, code, killing, killed>>

\* terminate(false): TerminateProcess starts the end of a process and fails on
\* one that is gone.  The exit code is not collected.
Terminated(h) ==
  LET p == handle[h].process
  IN  \/ /\ os[p] \in {"running", "dying"}
         /\ os' = [os EXCEPT ![p] = "dying"]
         /\ handle' = [handle EXCEPT ![h].exited = TRUE]
      \/ /\ os[p] \in {"dying", "gone"}
         /\ UNCHANGED <<os, handle>>

Terminate(h) ==
  /\ Free(h)
  /\ Owns(h)
  /\ Terminated(h)
  /\ UNCHANGED <<code, killing, killed>>

\* force_kill: terminate, wait up to two seconds, and terminate again if the
\* process still looks alive.  An object without a process is left alone.
ForceKill(h) ==
  /\ Free(h)
  /\ Owns(h)
  /\ Terminated(h)
  /\ killing' = [killing EXCEPT ![h] = "wait"]
  /\ UNCHANGED <<code, killed>>

ForceKillWait(h) ==
  /\ killing[h] = "wait"
  /\ \/ /\ os[handle[h].process] = "gone"
        /\ handle' = [handle EXCEPT ![h] = Collected(h)]
     \/ /\ os[handle[h].process] # "gone"
        /\ UNCHANGED handle
  /\ killing' = [killing EXCEPT ![h] = "check"]
  /\ UNCHANGED <<os, code, killed>>

ForceKillCheck(h) ==
  /\ killing[h] = "check"
  /\ \/ Alive(h) /\ Terminated(h)
     \/ /\ ~Alive(h)
        /\ handle' = [handle EXCEPT ![h] = Collected(h)]
        /\ UNCHANGED os
  /\ killing' = [killing EXCEPT ![h] = "no"]
  /\ killed' = killed \cup {handle[h].process}
  /\ UNCHANGED <<code>>

-----------------------------------------------------------------------------
(* The operating system and the children. *)
ChildExits(p) ==
  /\ os[p] = "running"
  /\ os' = [os EXCEPT ![p] = "gone"]
  /\ \E c \in ExitCodes : code' = [code EXCEPT ![p] = c]
  /\ UNCHANGED <<handle, killing, killed>>

ChildDies(p) ==
  /\ os[p] = "dying"
  /\ os' = [os EXCEPT ![p] = "gone"]
  /\ code' = [code EXCEPT ![p] = KilledCode]
  /\ UNCHANGED <<handle, killing, killed>>

ControllerStep(h) ==
  \/ \E p \in Pids : Launch(h, p)
  \/ LaunchFails(h)
  \/ \E g \in Handles : Move(h, g)
  \/ CloseHandles(h)
  \/ CheckAlive(h)
  \/ Wait(h)
  \/ TerminateGraceful(h)
  \/ Terminate(h)
  \/ ForceKill(h) \/ ForceKillWait(h) \/ ForceKillCheck(h)

ProcessNext ==
  \/ \E h \in Handles : ControllerStep(h)
  \/ \E p \in Pids : ChildExits(p) \/ ChildDies(p)

-----------------------------------------------------------------------------
(* Properties *)

\* Two objects never own one process, however handles are moved and reused: a
\* handle is closed once, and a kill reaches the process its object launched.
OneOwner ==
  \A h, g \in Handles : h # g /\ Owns(h) => handle[h].process # handle[g].process

\* exited() is never true of an object whose process goes on running: its
\* process is gone or has been told to end.  An exit code other than 0 is the
\* one the process left with.  Code 0 says nothing: terminate and a timed-out
\* wait leave it.
ExitedHasEnded ==
  \A h \in Handles :
    LET p == handle[h].process IN
    Owns(h) /\ handle[h].exited =>
      /\ os[p] \in {"dying", "gone"}
      /\ handle[h].code # 0 => os[p] = "gone" /\ handle[h].code = code[p]

\* A process that force_kill has returned from never runs again: its two-second
\* wait may pass before the system ends it, but it has been told to.
ForceKillEnds == \A p \in killed : os[p] \in {"dying", "gone"}

\* After a wait that timed out, a terminate or a force_kill, an object does not
\* give up for dead a process that goes on, nor report a code it did not leave.
EndsAreFinal == ExitedHasEnded /\ ForceKillEnds

\* What process.h says of exited(): "whether the process has already been
\* collected as exited".  Not so after terminate, which sets exited_ when
\* TerminateProcess was called, while the process may still be there.
ExitedIsCollected ==
  \A h \in Handles : Owns(h) /\ handle[h].exited => os[handle[h].process] = "gone"

\* The inductive invariant behind OneOwner and EndsAreFinal: what an object owns
\* was launched, an exit code it has collected is the one the process left with
\* whether or not exited is set, and force_kill works on a process that has
\* already been told to end.
ProcessInv ==
  /\ ProcessTypeOK
  /\ OneOwner
  /\ ForceKillEnds
  /\ \A h \in Handles :
       LET p == handle[h].process IN
       Owns(h) =>
         /\ os[p] # "new"
         /\ handle[h].exited => os[p] \in {"dying", "gone"}
         /\ handle[h].code # 0 => os[p] = "gone" /\ handle[h].code = code[p]
  /\ \A h \in Handles :
       killing[h] # "no" => Owns(h) /\ os[handle[h].process] \in {"dying", "gone"}
=============================================================================
