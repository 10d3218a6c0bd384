----------------------------- MODULE CampaignProofs -----------------------------
(***************************************************************************)
(* Proofs about the campaigns of apps/chaos_cli.cpp, for any number of     *)
(* processes, connections, submissions and launches, and every moment at   *)
(* which a wait may time out.  What they use of the programs themselves is *)
(* ProgramAssumption, which is evaluated for each of them.                 *)
(***************************************************************************)
EXTENDS Campaigns, TargetRuntimeProofs

(* The calls before the next position are those before this one and the    *)
(* call at it.                                                             *)
LEMMA BeforeNext ==
  ASSUME NEW c \in Campaign, NEW i \in Nat \ {0}, NEW op
  PROVE  Before(c, i + 1, op) = IF Op(c, i) = op THEN Before(c, i, op) \cup {i}
                                                 ELSE Before(c, i, op)
<1>1. 1 .. (i + 1) - 1 = (1 .. i - 1) \cup {i}
  OBVIOUS
<1> QED
  BY <1>1 DEF Before

-----------------------------------------------------------------------------
(* NothingSurvives.                                                        *)

(* Launching into a handle takes it, killing it frees it, and nothing else *)
(* does.                                                                   *)
LEMMA FreeNext ==
  ASSUME NEW c \in Campaign, NEW i \in Nat \ {0}
  PROVE  /\ Op(c, i) = "worker" => Free(c, i + 1) \subseteq Free(c, i) \ {Program[c][i].h}
         /\ Op(c, i) = "kill" => Free(c, i + 1) \subseteq Free(c, i) \cup {Program[c][i].h}
         /\ Op(c, i) \notin {"worker", "kill"} => Free(c, i + 1) = Free(c, i)
<1> DEFINE W == Before(c, i, "worker")
<1> DEFINE K == Before(c, i, "kill")
<1>0. \A j \in W \cup K : j \in 1 .. i - 1
  BY DEF Before
<1>1. CASE Op(c, i) = "worker"
  <2>1. Before(c, i + 1, "worker") = W \cup {i} /\ Before(c, i + 1, "kill") = K
    BY <1>1, BeforeNext
  <2> HIDE DEF W, K
  <2> QED
    BY <1>0, <1>1, <2>1 DEF Free, W, K
<1>2. CASE Op(c, i) = "kill"
  <2>1. Before(c, i + 1, "worker") = W /\ Before(c, i + 1, "kill") = K \cup {i}
    BY <1>2, BeforeNext
  <2> QED
    BY <1>0, <1>2, <2>1 DEF Free
<1>3. CASE Op(c, i) \notin {"worker", "kill"}
  <2>1. Before(c, i + 1, "worker") = W /\ Before(c, i + 1, "kill") = K
    BY <1>3, BeforeNext
  <2> QED
    BY <1>3, <2>1 DEF Free
<1> QED
  BY <1>1, <1>2, <1>3

(* A step of the controller is at a call, and goes on to one that can      *)
(* follow it.                                                              *)
LEMMA ControllerMoves ==
  ASSUME HandleInv, ControllerStep
  PROVE  /\ pc \in 1 .. Len(Program[campaign])
         /\ pc' \in Successors(campaign, pc)
         /\ campaign' = campaign
         /\ thread[Ctl].pc = "idle"
<1>0. Len(Program[campaign]) \in Nat
  BY ProgramAssumption DEF HandleInv
<1>1. ~Done /\ campaign' = campaign /\ thread[Ctl].pc = "idle"
  BY DEF ControllerStep, StartCoordinator, StartWorker, ForceKill, ForceKillCoordinator,
         OpenControl, CallSubmit, CaptureResult, SendAccepted, SendRejected, SendShutdown,
         WaitForExit, WaitSees, WaitTimesOut, Checks, Verdict, At, campaignVars
<1>2. pc \in 1 .. Len(Program[campaign])
  BY <1>0, <1>1 DEF HandleInv, Done
<1>3. ASSUME GoOn PROVE pc' \in Successors(campaign, pc)
  BY <1>3 DEF GoOn, Successors
<1>4. ASSUME CaptureResult PROVE pc' \in Successors(campaign, pc)
  BY <1>4 DEF CaptureResult, At, Call, Successors
<1>5. ASSUME WaitTimesOut PROVE pc' \in Successors(campaign, pc)
  BY <1>5 DEF WaitTimesOut, At, Call, Successors
<1>6. pc' \in Successors(campaign, pc)
  BY <1>3, <1>4, <1>5
     DEF ControllerStep, StartCoordinator, StartWorker, ForceKill, ForceKillCoordinator,
         OpenControl, CallSubmit, SendAccepted, SendRejected, SendShutdown,
         WaitForExit, WaitSees, Checks, Verdict
<1> QED
  BY <1>1, <1>2, <1>6

(* Where that call leaves the handles.                                     *)
LEMMA SuccessorFree ==
  ASSUME HandleInv, pc \in 1 .. Len(Program[campaign]), NEW j \in Successors(campaign, pc)
  PROVE  /\ j \in 1 .. Len(Program[campaign]) + 1
         /\ j = Len(Program[campaign]) + 1 => Op(campaign, pc) = "killcoordinator"
         /\ Free(campaign, j) \subseteq Free(campaign, pc + 1)
BY ProgramAssumption DEF HandleInv, CleansUp
(* Nobody but the controller launches a process, and the dead stay dead.   *)
Settled ==
  \A p \in Procs :
    /\ proc[p].st = "off" <=> proc'[p].st = "off"
    /\ proc[p].st = "dead" => proc'[p].st = "dead"

LEMMA RuntimeSettles ==
  ASSUME proc \in [Procs -> ProcType],
         ThreadStep \/ (\E p \in Procs : WorkerStep(p)) \/ CoordinatorKilled
  PROVE  /\ proc' \in [Procs -> ProcType]
         /\ Settled
         /\ ~up => ~up'
<1>1. proc' \in [Procs -> ProcType]
  BY ProcTypeStep DEF Next, CampaignStep
<1>2. ASSUME NEW p \in Procs, WorkerStep(p) PROVE Settled /\ (~up => ~up')
  <2>1. CASE \E f \in Fds : Connect(p, f)
    BY <2>1 DEF Connect, Settled, ProcType, Accept
  <2>2. CASE ConnectBacklog(p)
    BY <2>2 DEF ConnectBacklog, Settled, ProcType, coordVars
  <2>3. CASE Retry(p)
    BY <2>3 DEF Retry, CountTry, Settled, ProcType, coordVars
  <2>4. CASE HandleDispatch(p)
    BY <2>4 DEF HandleDispatch, Settled, coordVars
  <2> QED
    BY <1>2, <2>1, <2>2, <2>3, <2>4 DEF WorkerStep
<1>3. ASSUME LoseConnections PROVE Settled
  BY <1>3 DEF LoseConnections, Settled, ProcType
<1>4. CASE CoordinatorExits \/ CoordinatorKilled
  BY <1>1, <1>3, <1>4 DEF CoordinatorExits, CoordinatorKilled, Exit, Crash, LoseMemory
<1>5. CASE ThreadStep /\ ~CoordinatorExits
  BY <1>1, <1>5
     DEF ThreadStep, ReceiveRegister, ReceiveComplete, ConnectionClosed, Dispatch, Respond,
         HandleRegister, CompleteAccepted, CompleteRejected, ConnectionLost, SubmitDispatch,
         SubmitRespond, Settled, coordVars
<1> QED
  BY <1>1, <1>2, <1>4, <1>5
(* A step that moves on without launching or killing by a handle.          *)
LEMMA HandlesKept ==
  ASSUME HandleInv, Settled, proc' \in [Procs -> ProcType], UNCHANGED <<hand, campaign>>,
         pc' \in 1 .. Len(Program[campaign]) + 1,
         Free(campaign, pc') \subseteq Free(campaign, pc),
         Done' => ~up'
  PROVE  HandleInv'
<1>1. \A h \in Handles : hand[h] # NoProc => hand[h] \in Procs
  BY DEF HandleInv
<1>2. \A h \in Handles : hand'[h] # NoProc => proc'[hand'[h]].st # "off"
  BY <1>1 DEF HandleInv, Settled
<1>3. Free(campaign, pc) \subseteq Handles
  BY DEF Free
<1>4. \A h \in Free(campaign', pc') : ~(Running(h))'
  BY <1>1, <1>3 DEF HandleInv, Running, Settled
<1>5. campaign' \notin DropHandle =>
        \A p \in Procs : proc'[p].st \in {"off", "dead"} \/ \E h \in Handles : hand'[h] = p
  BY DEF HandleInv, Settled
<1> QED
  BY <1>2, <1>4, <1>5 DEF HandleInv

(* Launching into a handle that is free, but for the campaigns that drop   *)
(* one.                                                                    *)
LEMMA StartWorkerHandles ==
  ASSUME HandleInv, StartWorker
  PROVE  HandleInv'
<1> DEFINE h == Call.h
<1>0. /\ pc \in 1 .. Len(Program[campaign]) /\ pc' \in Successors(campaign, pc)
      /\ campaign' = campaign
  BY ControllerMoves DEF ControllerStep
<1>1. Op(campaign, pc) = "worker" /\ Len(Program[campaign]) \in Nat
  BY ProgramAssumption DEF StartWorker, At, Call, Op, HandleInv
<1>2. PICK p \in Procs :
        /\ proc[p].st = "off"
        /\ proc' = [proc EXCEPT ![p].st = "connecting"]
        /\ hand' = [hand EXCEPT ![h] = p]
  BY DEF StartWorker, LaunchWorker
<1>3. h \in Handles /\ (campaign \notin DropHandle => h \in Free(campaign, pc))
  BY <1>0, <1>1, ProgramAssumption DEF HandleInv, CleansUp, Call
<1>4. /\ pc' \in 1 .. Len(Program[campaign]) + 1 /\ pc' # Len(Program[campaign]) + 1
      /\ Free(campaign, pc') \subseteq Free(campaign, pc) \ {h}
  <2>1. pc \in Nat \ {0}
    BY <1>0, <1>1
  <2> QED
    BY <1>0, <1>1, <2>1, SuccessorFree, FreeNext DEF HandleInv, Call
<1>5. /\ proc' \in [Procs -> ProcType] /\ hand' \in [Handles -> Procs \cup {NoProc}]
      /\ proc'[p].st = "connecting" /\ hand'[h] = p
      /\ \A q \in Procs : q # p => proc'[q] = proc[q]
      /\ \A k \in Handles : k # h => hand'[k] = hand[k]
  BY <1>2, <1>3 DEF HandleInv, ProcType
<1>6. \A k \in Handles : hand[k] # NoProc => hand[k] \in Procs /\ hand[k] # p
  BY <1>2 DEF HandleInv
<1>7. \A k \in Handles : hand'[k] # NoProc => proc'[hand'[k]].st # "off"
  BY <1>5, <1>6 DEF HandleInv
<1>8. \A k \in Free(campaign', pc') : ~(Running(k))'
  BY <1>0, <1>4, <1>5, <1>6 DEF HandleInv, Running, Free
<1>9. campaign' \notin DropHandle =>
        \A q \in Procs : proc'[q].st \in {"off", "dead"} \/ \E k \in Handles : hand'[k] = q
  <2> SUFFICES ASSUME campaign \notin DropHandle, NEW q \in Procs, q # p,
                      proc[q].st \notin {"off", "dead"}
               PROVE  \E k \in Handles : hand'[k] = q
    BY <1>0, <1>3, <1>5
  <2>1. PICK k \in Handles : hand[k] = q
    BY DEF HandleInv
  <2>2. k # h
    BY <1>3, <2>1, HandleAssumption DEF HandleInv, Running
  <2> QED
    BY <1>5, <2>1, <2>2
<1> QED
  BY <1>0, <1>1, <1>4, <1>5, <1>7, <1>8, <1>9 DEF HandleInv, Done

(* force_kill frees the handle.                                            *)
LEMMA ForceKillHandles ==
  ASSUME HandleInv, ForceKill
  PROVE  HandleInv'
<1> DEFINE h == Call.h
<1>0. /\ pc \in 1 .. Len(Program[campaign]) /\ pc' \in Successors(campaign, pc)
      /\ campaign' = campaign /\ hand' = hand
  BY ControllerMoves DEF ControllerStep, ForceKill, campaignVars
<1>1. Op(campaign, pc) = "kill" /\ Len(Program[campaign]) \in Nat
  BY ProgramAssumption DEF ForceKill, At, Call, Op, HandleInv
<1>2. h \in Handles
  BY <1>0, <1>1, ProgramAssumption DEF HandleInv, CleansUp, Call
<1>3. /\ pc' \in 1 .. Len(Program[campaign]) + 1 /\ pc' # Len(Program[campaign]) + 1
      /\ Free(campaign, pc') \subseteq Free(campaign, pc) \cup {h}
  <2>1. pc \in Nat \ {0}
    BY <1>0, <1>1
  <2> QED
    BY <1>0, <1>1, <2>1, SuccessorFree, FreeNext DEF HandleInv, Call
<1>4. /\ proc' \in [Procs -> ProcType]
      /\ Settled
      /\ hand[h] = NoProc \/ proc'[hand[h]].st = "dead"
  <2>1. CASE ~Running(h)
    <3>1. proc' = proc
      BY <2>1 DEF ForceKill, vars
    <3> QED
      BY <2>1, <3>1 DEF Settled, HandleInv, Running
  <2>2. CASE Running(h)
    <3>1. hand[h] \in Procs /\ Kill(hand[h])
      BY <1>2, <2>2 DEF ForceKill, HandleInv, Running
    <3> QED
      BY <3>1 DEF Kill, Settled, HandleInv, ProcType
  <2> QED
    BY <2>1, <2>2
<1>5. \A k \in Handles : hand[k] # NoProc => hand[k] \in Procs
  BY DEF HandleInv
<1>6. \A k \in Handles : hand'[k] # NoProc => proc'[hand'[k]].st # "off"
  BY <1>0, <1>4, <1>5 DEF HandleInv, Settled
<1>7. \A k \in Free(campaign', pc') : ~(Running(k))'
  BY <1>0, <1>3, <1>4, <1>5 DEF HandleInv, Running, Settled, Free
<1>8. campaign' \notin DropHandle =>
        \A p \in Procs : proc'[p].st \in {"off", "dead"} \/ \E k \in Handles : hand'[k] = p
  BY <1>0, <1>4 DEF HandleInv, Settled
<1> QED
  BY <1>0, <1>1, <1>3, <1>4, <1>6, <1>7, <1>8 DEF HandleInv, Done

(* Every step of a campaign keeps its processes owned.                     *)
LEMMA HandleStep == HandleInv /\ [CampaignNext]_allVars => HandleInv'
<1> SUFFICES ASSUME HandleInv, [CampaignNext]_allVars PROVE HandleInv'
  OBVIOUS
<1>0. campaign \in Campaign /\ Len(Program[campaign]) \in Nat /\ proc \in [Procs -> ProcType]
  BY ProgramAssumption DEF HandleInv
<1>1. CASE StartWorker \/ ForceKill
  BY <1>1, StartWorkerHandles, ForceKillHandles
<1>2. CASE ForceKillCoordinator
  <2>1. ~up' /\ Op(campaign, pc) = "killcoordinator" /\ hand' = hand
    BY <1>2 DEF ForceKillCoordinator, CoordinatorKilled, Crash, LoseMemory, vars, coordVars,
                At, Call, Op, campaignVars
  <2>2. proc' \in [Procs -> ProcType] /\ Settled
    BY <1>0, <1>2, RuntimeSettles DEF ForceKillCoordinator, Settled, vars
  <2>3. pc \in Nat \ {0} /\ pc' \in Successors(campaign, pc) /\ campaign' = campaign
        /\ pc \in 1 .. Len(Program[campaign])
    BY <1>0, <1>2, ControllerMoves DEF ControllerStep
  <2> QED
    BY <1>0, <2>1, <2>2, <2>3, SuccessorFree, FreeNext, HandlesKept
<1>3. ASSUME ControllerStep, ~StartWorker, ~ForceKill, ~ForceKillCoordinator
      PROVE  HandleInv'
  <2>1. Op(campaign, pc) \notin {"worker", "kill", "killcoordinator"}
    BY <1>3 DEF ControllerStep, StartCoordinator, OpenControl, CallSubmit, CaptureResult,
                SendAccepted, SendRejected, SendShutdown, WaitForExit, WaitSees, WaitTimesOut,
                Checks, Verdict, At, Call, Op
  <2>2. proc' = proc /\ hand' = hand
    BY <1>3 DEF ControllerStep, StartCoordinator, OpenControl, CallSubmit, CaptureResult,
                SendAccepted, SendRejected, SendShutdown, WaitForExit, WaitSees, WaitTimesOut,
                Checks, Verdict, ControllerConnect, Submit, ControllerShutdown, vars,
                campaignVars
  <2>3. pc \in Nat \ {0} /\ pc' \in Successors(campaign, pc) /\ campaign' = campaign
        /\ pc \in 1 .. Len(Program[campaign])
    BY <1>0, <1>3, ControllerMoves
  <2>4. /\ pc' \in 1 .. Len(Program[campaign]) + 1
        /\ Free(campaign, pc') \subseteq Free(campaign, pc)
        /\ pc' # Len(Program[campaign]) + 1
    BY <1>0, <2>1, <2>3, SuccessorFree, FreeNext
  <2>5. ~Done'
    BY <1>0, <2>3, <2>4 DEF Done
  <2> QED
    BY <1>0, <2>2, <2>3, <2>4, <2>5, HandlesKept DEF Settled
<1>4. CASE RuntimeRuns
  <2>1. proc' \in [Procs -> ProcType] /\ Settled /\ (~up => ~up')
    BY <1>0, <1>4, RuntimeSettles DEF RuntimeRuns
  <2>2. UNCHANGED <<hand, campaign, pc>>
    BY <1>4 DEF RuntimeRuns, campaignVars
  <2> QED
    BY <2>1, <2>2, HandlesKept DEF HandleInv, Done
<1>5. CASE UNCHANGED allVars
  BY <1>5 DEF allVars, vars, coordVars, campaignVars, HandleInv, Running, Done
<1> QED
  BY <1>1, <1>2, <1>3, <1>4, <1>5 DEF CampaignNext

(* A campaign starts with no process and no call made.                     *)
LEMMA HandleInit == CampaignInit => HandleInv
<1> SUFFICES ASSUME CampaignInit PROVE HandleInv
  OBVIOUS
<1>1. campaign \in Campaign /\ Len(Program[campaign]) \in Nat
  BY ProgramAssumption DEF CampaignInit
<1>2. pc \in 1 .. Len(Program[campaign]) + 1
  BY <1>1 DEF CampaignInit
<1>3. proc \in [Procs -> ProcType] /\ \A p \in Procs : proc[p].st = "off"
  BY DEF CampaignInit, Init, ProcType
<1>4. hand \in [Handles -> Procs \cup {NoProc}] /\ \A h \in Handles : hand[h] = NoProc
  BY DEF CampaignInit
<1>5. ~up
  BY DEF CampaignInit, Init, CoordInit
<1> QED
  BY <1>1, <1>2, <1>3, <1>4, <1>5 DEF HandleInv, Running, Free

(* "All owned processes killed", whatever a campaign's waits miss and      *)
(* wherever it gives up: at its end no coordinator runs, and no worker but *)
(* one whose handle was dropped while it ran.                              *)
THEOREM NothingSurvivesAlways == CampaignSpec => []NothingSurvives
<1>1. HandleInv => NothingSurvives
  <2> SUFFICES ASSUME HandleInv, Done PROVE NothingSurvives
    BY DEF NothingSurvives
  <2>1. Len(Program[campaign]) \in Nat /\ CleansUp(campaign)
    BY ProgramAssumption DEF HandleInv
  <2>2. pc = Len(Program[campaign]) + 1
    BY <2>1 DEF HandleInv, Done
  <2>3. \A h \in Handles : ~Running(h)
    BY <2>1, <2>2 DEF HandleInv, CleansUp
  <2>4. \A p \in Procs : \A h \in Handles : hand[h] = p => proc[p].st = "dead"
    BY <2>3, HandleAssumption DEF Running
  <2> QED
    BY <2>4 DEF NothingSurvives, HandleInv, Handles
<1> QED
  BY <1>1, HandleInit, HandleStep, PTL DEF CampaignSpec
-----------------------------------------------------------------------------
(* PassIsEarned.  The steps of a campaign that nothing has failed yet.     *)

USE CtlAssumption

(* What ProgramAssumption says of the call a campaign is at.               *)
LEMMA CallIsPlanned ==
  ASSUME HandleInv, pc \in 1 .. Len(Program[campaign])
  PROVE  /\ campaign \in Campaign
         /\ pc \in Nat \ {0}
         /\ WellFormed(campaign, pc)
         /\ ReplaysInOrder(campaign, pc)
BY ProgramAssumption DEF HandleInv

(* Requirements once found not to hold stay unmet, and while all are met   *)
(* no call is skipped.                                                     *)
LEMMA StraightOn ==
  ASSUME HandleInv, ControllerStep, unmet' = {}
  PROVE  unmet = {} /\ pc' = pc + 1
<1>1. pc \in 1 .. Len(Program[campaign]) /\ pc \in Nat
  BY ControllerMoves, CallIsPlanned
<1>2. ASSUME CaptureResult PROVE unmet = {} /\ pc' = pc + 1
  BY <1>2 DEF CaptureResult
<1>3. ASSUME WaitTimesOut PROVE unmet = {} /\ pc' = pc + 1
  <2>1. Call.op = "await" /\ Call.then = "ignore" /\ unmet = {}
    BY <1>3 DEF WaitTimesOut, At
  <2>2. Call.skip = 0
    BY <1>1, <2>1, CallIsPlanned DEF WellFormed, Call
  <2> QED
    BY <1>1, <1>3, <2>1, <2>2 DEF WaitTimesOut
<1>4. ASSUME GoOn, unmet \subseteq unmet' PROVE unmet = {} /\ pc' = pc + 1
  BY <1>4 DEF GoOn
<1>5. \/ CaptureResult
      \/ WaitTimesOut
      \/ GoOn /\ unmet \subseteq unmet'
  BY DEF ControllerStep, StartCoordinator, StartWorker, ForceKill, ForceKillCoordinator,
         OpenControl, CallSubmit, SendAccepted, SendRejected, SendShutdown,
         WaitForExit, WaitSees, Checks, Verdict, campaignVars
<1> QED
  BY <1>2, <1>3, <1>4, <1>5

(* What the next position knows of the calls before it.                    *)
LEMMA HeldNext ==
  ASSUME NEW c \in Campaign, NEW i \in Nat \ {0}, NEW h \in Held(c, i + 1)
  PROVE  h \in Held(c, i) \/ (Op(c, i) = "worker" /\ Program[c][i].h = h)
<1>1. PICK j \in Before(c, i + 1, "worker") : h = Program[c][j].h
  BY DEF Held
<1>2. j \in Before(c, i, "worker") \/ (j = i /\ Op(c, i) = "worker")
  <2>1. Before(c, i + 1, "worker") = IF Op(c, i) = "worker" THEN Before(c, i, "worker") \cup {i}
                                                            ELSE Before(c, i, "worker")
    BY BeforeNext
  <2> QED
    BY <2>1
<1> QED
  BY <1>1, <1>2 DEF Held

(* Nothing was submitted before the next call nor at this one.             *)
LEMMA UnassignedNext ==
  ASSUME NEW c \in Campaign, NEW i \in Nat \ {0}, Unassigned(c, i + 1)
  PROVE  Unassigned(c, i) /\ Op(c, i) # "submit"
BY BeforeNext DEF Unassigned

(* Nothing was submitted since a launch, at this call or before it.        *)
LEMMA UnsubmittedNext ==
  ASSUME NEW c \in Campaign, NEW i \in Nat \ {0}, Unsubmitted(c, i + 1)
  PROVE  Op(c, i) = "coordinator" \/ (Unsubmitted(c, i) /\ Op(c, i) # "submit")
<1> SUFFICES ASSUME Op(c, i) # "coordinator"
             PROVE  Unsubmitted(c, i) /\ Op(c, i) # "submit"
  OBVIOUS
<1>1. Before(c, i + 1, "coordinator") = Before(c, i, "coordinator")
  BY BeforeNext
<1>2. PICK j \in Before(c, i, "coordinator") : \A k \in Before(c, i + 1, "submit") : k < j
  BY <1>1 DEF Unsubmitted
<1>3. j \in 1 .. i - 1
  BY DEF Before
<1>4. Op(c, i) # "submit"
  <2> SUFFICES ASSUME Op(c, i) = "submit" PROVE FALSE
    OBVIOUS
  <2>1. i \in Before(c, i + 1, "submit")
    BY BeforeNext
  <2> QED
    BY <1>2, <1>3, <2>1
<1>5. Before(c, i + 1, "submit") = Before(c, i, "submit")
  BY <1>4, BeforeNext
<1> QED
  BY <1>2, <1>4, <1>5 DEF Unsubmitted

(* A SubmitResult is captured by one of the calls so far.                  *)
LEMMA CapturedNext ==
  ASSUME NEW c \in Campaign, NEW i \in Nat \ {0}, NEW l
  PROVE  Captured(c, i + 1, l) <=>
           Captured(c, i, l) \/ (Op(c, i) = "capture" /\ Program[c][i].label = l)
BY BeforeNext DEF Captured

(* Its acceptance is awaited by one of the calls so far.                   *)
LEMMA AwaitedNext ==
  ASSUME NEW c \in Campaign, NEW i \in Nat \ {0}, NEW l
  PROVE  Awaited(c, i + 1, l) <=>
           \/ Awaited(c, i, l)
           \/ /\ Op(c, i) = "await" /\ Program[c][i].what = "accepted"
              /\ Program[c][i].x = l /\ Program[c][i].then = "fail"
<1>1. CASE Op(c, i) = "await"
  <2>1. Before(c, i + 1, "await") = Before(c, i, "await") \cup {i}
    BY <1>1, BeforeNext
  <2> QED
    BY <1>1, <2>1 DEF Awaited
<1>2. CASE Op(c, i) # "await"
  <2>1. Before(c, i + 1, "await") = Before(c, i, "await")
    BY <1>2, BeforeNext
  <2> QED
    BY <1>2, <2>1 DEF Awaited
<1> QED
  BY <1>1, <1>2

(* A capture follows its submission, so the newest SubmitResult is the one *)
(* just captured or stays the newest until another submission.             *)
LEMMA NewestNext ==
  ASSUME NEW c \in Campaign, NEW i \in 1 .. Len(Program[c]), NEW l, Newest(c, i + 1, l)
  PROVE  \/ Newest(c, i, l) /\ Op(c, i) \notin {"submit", "coordinator", "capture"}
         \/ /\ Op(c, i) = "capture" /\ Program[c][i].label = l
            /\ Program[c][i].must \/ Unassigned(c, i - 1)
<1>0. Len(Program[c]) \in Nat /\ i \in Nat \ {0}
  BY ProgramAssumption
<1>1. PICK j \in Before(c, i + 1, "capture") :
        /\ Program[c][j].label = l
        /\ Program[c][j].must \/ Unassigned(c, j - 1)
        /\ \A k \in Before(c, i + 1, "submit") \cup Before(c, i + 1, "coordinator") : k < j
  BY DEF Newest
<1>2. j \in 1 .. i /\ Op(c, j) = "capture"
  BY <1>0 DEF Before
<1>3. CASE j = i
  BY <1>1, <1>2, <1>3
<1>4. CASE j # i
  <2>1. Op(c, i) \notin {"submit", "coordinator"}
    <3>1. ASSUME Op(c, i) = "submit" PROVE FALSE
      <4>1. i \in Before(c, i + 1, "submit")
        BY <1>0, <3>1, BeforeNext
      <4> QED
        BY <1>0, <1>1, <1>2, <4>1
    <3>2. ASSUME Op(c, i) = "coordinator" PROVE FALSE
      <4>1. i \in Before(c, i + 1, "coordinator")
        BY <1>0, <3>2, BeforeNext
      <4> QED
        BY <1>0, <1>1, <1>2, <4>1
    <3> QED
      BY <3>1, <3>2
  <2>2. Op(c, i) # "capture"
    <3> SUFFICES ASSUME Op(c, i) = "capture" PROVE FALSE
      OBVIOUS
    <3>1. i - 1 \in 1 .. Len(Program[c]) /\ i - 1 \in 1 .. (i + 1) - 1
      BY <1>0, <1>2, <1>4
    <3>2. Op(c, i - 1) = "submit"
      BY <1>0, <3>1, ProgramAssumption DEF WellFormed, Op
    <3>3. i - 1 \in Before(c, i + 1, "submit")
      BY <3>1, <3>2 DEF Before
    <3>4. j = i - 1
      BY <1>0, <1>1, <1>2, <1>4, <3>3
    <3> QED
      BY <1>2, <3>2, <3>4
  <2>3. /\ j \in Before(c, i, "capture")
        /\ Before(c, i + 1, "submit") = Before(c, i, "submit")
        /\ Before(c, i + 1, "coordinator") = Before(c, i, "coordinator")
    BY <1>0, <1>2, <2>1, <2>2, BeforeNext
  <2> QED
    BY <1>1, <2>1, <2>2, <2>3 DEF Newest
<1> QED
  BY <1>3, <1>4
-----------------------------------------------------------------------------
(* What a step does to the authority and the ledger.                       *)

(* Nothing is assigned or launched, and only a worker commits.             *)
Quiet ==
  /\ UNCHANGED <<assigned, launches, epoch>>
  /\ hasSubmitted' => hasSubmitted
  /\ up' => up /\ next' = next /\ cur' = cur
  /\ ledger \subseteq ledger'
  /\ \A r \in ledger' \ ledger :
       /\ up /\ up'
       /\ r.launch = launches
       /\ r.sig.attempt = cur.attempt
       /\ r.result = DoWork(Ctl, r.sig.boot)

(* The runtime by itself is quiet: what a connection thread reads is the   *)
(* work of the worker that sent it.                                        *)
LEMMA RuntimeIsQuiet ==
  ASSUME IdentityInv, RuntimeRuns
  PROVE  Quiet
<1>1. ASSUME NEW p \in Procs, WorkerStep(p) PROVE Quiet
  BY <1>1 DEF WorkerStep, Connect, Accept, ConnectBacklog, Retry, HandleDispatch, coordVars,
              tableVars, authVars, Quiet
<1>2. ASSUME NEW f \in Fds, ReceiveRegister(f) \/ ConnectionClosed(f) PROVE Quiet
  BY <1>2 DEF ReceiveRegister, HandleRegister, ConnectionClosed, ConnectionLost, authVars, Quiet
<1>3. ASSUME NEW f \in Fds, ReceiveComplete(f) PROVE Quiet
  <2> DEFINE m == Head(conn[f].toCoord)
  <2>1. m.req.result = DoWork(Ctl, m.req.boot)
    BY <1>3, HeadIsKnown DEF ReceiveComplete
  <2>2. CASE CompleteRejected(f, m.req)
    BY <2>2 DEF CompleteRejected, coordVars, Quiet
  <2>3. CASE CompleteAccepted(f, m.req)
    <3>1. /\ UNCHANGED <<assigned, launches, epoch, hasSubmitted, up, next, cur>>
          /\ up
          /\ m.req.attempt = cur.attempt
          /\ ledger' = ledger \cup
               {[launch |-> launches, sig |-> Sig(m.req), result |-> m.req.result]}
      BY <2>3 DEF CompleteAccepted, Accepts, CurrentAuthority, authVars
    <3>2. Sig(m.req).attempt = m.req.attempt /\ Sig(m.req).boot = m.req.boot
      BY DEF Sig
    <3> HIDE DEF m
    <3> QED
      BY <2>1, <3>1, <3>2 DEF Quiet
  <2> QED
    BY <1>3, <2>2, <2>3 DEF ReceiveComplete
<1>4. ASSUME NEW c \in Controllers, Dispatch(c) \/ Respond(c) PROVE Quiet
  BY <1>4 DEF Dispatch, SubmitDispatch, Respond, SubmitRespond, authVars, Quiet
<1>5. CASE CoordinatorExits
  BY <1>5 DEF CoordinatorExits, Exit, LoseMemory, Quiet
<1> QED
  BY <1>1, <1>2, <1>3, <1>4, <1>5 DEF RuntimeRuns, ThreadStep

(* So are the calls that do not submit, replay or launch a coordinator.    *)
LEMMA CallIsQuiet ==
  ASSUME HandleInv, ControllerStep, thread[Ctl].pc = "idle",
         Op(campaign, pc) \notin {"submit", "send", "coordinator"}
  PROVE  /\ Quiet /\ ledger' = ledger
         /\ thread'[Ctl].pc = "idle"
         /\ resurrected' = resurrected
         /\ Op(campaign, pc) # "worker" => hand' = hand
         /\ Op(campaign, pc) # "capture" => kept' = kept
         /\ UNCHANGED vars \/ Next
<1> DEFINE Good == /\ Quiet /\ ledger' = ledger
                   /\ thread'[Ctl].pc = "idle"
                   /\ resurrected' = resurrected
                   /\ Op(campaign, pc) # "worker" => hand' = hand
                   /\ Op(campaign, pc) # "capture" => kept' = kept
                   /\ UNCHANGED vars \/ Next
<1>1. ASSUME StartWorker PROVE Good
  <2>1. Op(campaign, pc) = "worker"
    BY <1>1 DEF StartWorker, At, Call, Op
  <2>2. UNCHANGED <<coordVars, kept, resurrected>> /\ \E p \in Procs : LaunchWorker(p)
    BY <1>1 DEF StartWorker, LaunchWorker
  <2> QED
    BY <2>1, <2>2 DEF coordVars, Quiet, Next, CampaignStep
<1>2. ASSUME ForceKill PROVE Good
  <2>1. Op(campaign, pc) = "kill" /\ UNCHANGED campaignVars
    BY <1>2 DEF ForceKill, At, Call, Op
  <2>2. UNCHANGED vars \/ \E p \in Procs : Kill(p)
    <3>1. CASE Running(Call.h)
      <4>1. pc \in 1 .. Len(Program[campaign])
        BY <1>2, ControllerMoves DEF ControllerStep
      <4>2. Call.h \in Handles
        BY <2>1, <4>1, ProgramAssumption DEF HandleInv, CleansUp, Call, Op
      <4>3. hand[Call.h] \in Procs
        BY <3>1, <4>2 DEF HandleInv, Running
      <4> QED
        BY <1>2, <3>1, <4>3 DEF ForceKill
    <3>2. CASE ~Running(Call.h)
      BY <1>2, <3>2 DEF ForceKill
    <3> QED
      BY <3>1, <3>2
  <2>3. UNCHANGED coordVars
    BY <2>2 DEF vars, Kill
  <2> QED
    BY <2>1, <2>2, <2>3 DEF coordVars, campaignVars, Quiet, Next, CampaignStep
<1>3. ASSUME ForceKillCoordinator PROVE Good
  <2>1. UNCHANGED campaignVars /\ (CoordinatorKilled \/ UNCHANGED vars)
    BY <1>3 DEF ForceKillCoordinator
  <2>2. CASE CoordinatorKilled
    BY <2>1, <2>2 DEF CoordinatorKilled, Crash, LoseMemory, NoLocals, campaignVars, Quiet,
                      Next, CampaignStep
  <2>3. CASE UNCHANGED vars
    BY <2>1, <2>3 DEF vars, coordVars, campaignVars, Quiet
  <2> QED
    BY <2>1, <2>2, <2>3
<1>4. ASSUME OpenControl PROVE Good
  BY <1>4 DEF OpenControl, ControllerConnect, Accept, authVars, campaignVars, Quiet, Next,
              CampaignStep
<1>5. ASSUME SendShutdown PROVE Good
  <2>1. UNCHANGED campaignVars /\ (ControllerShutdown(Ctl) \/ UNCHANGED vars)
    BY <1>5 DEF SendShutdown
  <2>2. CASE ControllerShutdown(Ctl)
    BY <2>1, <2>2 DEF ControllerShutdown, Shutdown, authVars, campaignVars, Quiet, Next,
                      CampaignStep
  <2>3. CASE UNCHANGED vars
    BY <2>1, <2>3 DEF vars, coordVars, campaignVars, Quiet
  <2> QED
    BY <2>1, <2>2, <2>3
<1>6. ASSUME CaptureResult \/ WaitForExit \/ WaitSees \/ WaitTimesOut \/ Checks PROVE Good
  <2>1. UNCHANGED <<vars, hand, resurrected>> /\ (Op(campaign, pc) # "capture" => kept' = kept)
    BY <1>6 DEF CaptureResult, WaitForExit, WaitSees, WaitTimesOut, Checks, Verdict, At, Call,
                Op, campaignVars
  <2> QED
    BY <2>1 DEF vars, coordVars, Quiet
<1>7. ~StartCoordinator /\ ~CallSubmit /\ ~SendAccepted /\ ~SendRejected
  BY DEF StartCoordinator, CallSubmit, SendAccepted, SendRejected, At, Call, Op
<1> QED
  BY <1>1, <1>2, <1>3, <1>4, <1>5, <1>6, <1>7 DEF ControllerStep
(* Quiet steps keep the ledger's order.                                    *)
LEMMA QuietLedger ==
  ASSUME Quiet, CoordBase, LaunchLedgerInv
  PROVE  LaunchLedgerInv'
<1>1. launches \in Nat /\ next.attempt \in Nat /\ cur.attempt = next.attempt
  BY DEF CoordBase, CoordTypeOK
<1>2. ASSUME NEW r \in ledger PROVE
        r.launch <= launches' /\ (up' /\ r.launch = launches' => r.sig.attempt <= next'.attempt)
  BY DEF Quiet, LaunchLedgerInv
<1>3. ASSUME NEW r \in ledger' \ ledger PROVE
        r.launch <= launches' /\ (up' /\ r.launch = launches' => r.sig.attempt <= next'.attempt)
  BY <1>1 DEF Quiet
<1> QED
  BY <1>2, <1>3 DEF LaunchLedgerInv

(* A submission that only workers have committed stays one.                *)
LEMMA QuietWorkers ==
  ASSUME Quiet, NEW l, NEW n, OnlyWorkersCommit(l, n)
  PROVE  \A r \in ledger' : r.launch = l /\ r.sig.attempt = n => r \in WorkersOwn'
BY DEF Quiet, OnlyWorkersCommit, WorkersOwn

(* What a call establishes for the calls after it.                         *)
LEMMA ProgressCall ==
  ASSUME HandleInv, StraightInv, pc \in 1 .. Len(Program[campaign]),
         pc' = pc + 1, campaign' = campaign,
         \A h \in Held(campaign, pc + 1) : hand'[h] \in Procs,
         Op(campaign, pc) # "capture" => kept' = kept,
         Op(campaign, pc) = "capture" =>
           /\ kept' = [kept EXCEPT ![Call.label] = grant[Ctl]]
           /\ Call.must => grant[Ctl].attempt # 0
           /\ thread[Ctl].pc = "idle",
         Op(campaign, pc) = "await" /\ Call.what = "accepted" /\ Call.x = "fresh"
           /\ Call.then = "fail" => AcceptedLines(kept["fresh"]) # {},
         Op(campaign, pc) # "submit" => assigned' = assigned,
         Op(campaign, pc) # "coordinator" => launches' = launches,
         Op(campaign, pc) = "coordinator" => ~hasSubmitted',
         Op(campaign, pc) \notin {"submit", "coordinator"} => (hasSubmitted' => hasSubmitted),
         ledger \subseteq ledger',
         Captured(campaign, pc + 1, "fresh") => ledger' = ledger,
         resurrected' = 0
  PROVE  ProgressInv'
<1> DEFINE c == campaign
<1>0. /\ c \in Campaign /\ pc \in Nat \ {0}
      /\ WellFormed(c, pc) /\ ReplaysInOrder(c, pc)
      /\ Call = Program[c][pc] /\ Op(c, pc) = Call.op
  BY CallIsPlanned DEF Call, Op
<1>1. /\ ProgressInv /\ SubmissionInv
      /\ grant[Ctl] \in GrantType
      /\ kept \in [Labels -> GrantType]
      /\ ~Done
  BY <1>0, ProgramAssumption DEF StraightInv, TypeOK, ProgressInv, Done
<1>2. Op(c, pc) = "capture" => Call.label \in Labels
  BY <1>0 DEF WellFormed
<1>3. kept' \in [Labels -> GrantType]
  BY <1>1, <1>2
<1>4. Unassigned(campaign', pc') => assigned' = {}
  BY <1>0, <1>1, UnassignedNext DEF ProgressInv
<1>5. Unsubmitted(campaign', pc') => ~hasSubmitted'
  BY <1>0, <1>1, UnsubmittedNext DEF ProgressInv
<1>6. ASSUME campaign # "persistence_recovery", NEW l \in Labels, Newest(c, pc + 1, l),
             NEW a \in assigned'
      PROVE  a.epoch <= kept'[l].epoch
  <2>1. CASE Newest(c, pc, l) /\ Op(c, pc) \notin {"submit", "coordinator", "capture"}
    BY <1>1, <1>6, <2>1 DEF ProgressInv
  <2>2. CASE /\ Op(c, pc) = "capture" /\ Call.label = l
             /\ Call.must \/ Unassigned(c, pc - 1)
    <3>1. kept'[l] = grant[Ctl] /\ a \in assigned
      BY <1>1, <2>2
    <3>2. grant[Ctl].attempt # 0
      BY <1>1, <2>2, <3>1 DEF SubmissionInv
    <3>3. grant[Ctl].epoch = epoch
      BY <1>1, <2>2, <3>2 DEF SubmissionInv
    <3>4. a.epoch <= epoch
      BY <1>6, <3>1 DEF StraightInv, CoordInv, AuthorityInv
    <3> QED
      BY <3>1, <3>3, <3>4
  <2> QED
    BY <1>0, <1>6, <2>1, <2>2, NewestNext
<1>7. ASSUME Captured(c, pc, "fresh")
      PROVE  kept'["fresh"] = kept["fresh"] /\ ledger' = ledger
  <2>1. ~(Op(c, pc) = "capture" /\ Call.label = "fresh")
    BY <1>0, <1>7 DEF ReplaysInOrder
  <2>2. Captured(c, pc + 1, "fresh")
    BY <1>0, <1>7, CapturedNext
  <2> QED
    BY <1>1, <1>2, <2>1, <2>2 DEF Labels
<1>8. ledger' = ledger => WorkersOwn' = WorkersOwn
  BY DEF WorkersOwn
<1>9. ASSUME Captured(c, pc + 1, "fresh")
      PROVE  /\ ~Awaited(c, pc + 1, "fresh") => kept'["fresh"].from = launches'
             /\ OnlyWorkersCommit(kept["fresh"].from, kept["fresh"].attempt)'
  <2>1. CASE Captured(c, pc, "fresh")
    <3>1. OnlyWorkersCommit(kept["fresh"].from, kept["fresh"].attempt)'
      BY <1>1, <1>7, <1>8, <2>1 DEF ProgressInv, OnlyWorkersCommit
    <3>2. ~Awaited(c, pc + 1, "fresh") => ~Awaited(c, pc, "fresh")
      BY <1>0, AwaitedNext
    <3>3. ~Awaited(c, pc, "fresh") => Op(c, pc) # "coordinator"
      BY <1>0, <2>1 DEF ReplaysInOrder
    <3> QED
      BY <1>1, <1>7, <2>1, <3>1, <3>2, <3>3 DEF ProgressInv
  <2>2. CASE ~Captured(c, pc, "fresh")
    <3>1. Op(c, pc) = "capture" /\ Call.label = "fresh"
      BY <1>0, <1>9, <2>2, CapturedNext
    <3>2. grant[Ctl].attempt # 0
      BY <1>0, <3>1 DEF ReplaysInOrder
    <3>3. kept'["fresh"] = grant[Ctl] /\ launches' = launches /\ ledger' = ledger
      BY <1>1, <1>9, <3>1 DEF Labels
    <3>4. grant[Ctl].from = launches /\ OnlyWorkersCommit(launches, grant[Ctl].attempt)
      BY <1>1, <3>1, <3>2 DEF SubmissionInv
    <3> QED
      BY <1>8, <3>3, <3>4 DEF OnlyWorkersCommit
  <2> QED
    BY <2>1, <2>2
<1>10. ASSUME Awaited(c, pc + 1, "fresh")
       PROVE  /\ Captured(c, pc + 1, "fresh")
              /\ \E r \in WorkersOwn' :
                   r.launch = kept'["fresh"].from /\ r.sig.attempt = kept'["fresh"].attempt
  <2>1. Captured(c, pc, "fresh")
    BY <1>0, <1>1, <1>10, AwaitedNext DEF ProgressInv, ReplaysInOrder
  <2>2. Captured(c, pc + 1, "fresh")
    BY <1>0, <2>1, CapturedNext
  <2>3. kept'["fresh"] = kept["fresh"] /\ WorkersOwn' = WorkersOwn
    BY <1>7, <1>8, <2>1
  <2>4. CASE Awaited(c, pc, "fresh")
    BY <1>1, <2>2, <2>3, <2>4 DEF ProgressInv
  <2>5. CASE ~Awaited(c, pc, "fresh")
    <3>1. AcceptedLines(kept["fresh"]) # {}
      BY <1>0, <1>10, <2>5, AwaitedNext
    <3>2. PICK r \in ledger : r.launch = launches /\ r.sig.attempt = kept["fresh"].attempt
      BY <3>1 DEF AcceptedLines
    <3>3. /\ kept["fresh"].from = launches
          /\ OnlyWorkersCommit(kept["fresh"].from, kept["fresh"].attempt)
      BY <1>1, <2>1, <2>5 DEF ProgressInv
    <3>4. r \in WorkersOwn
      BY <3>2, <3>3 DEF OnlyWorkersCommit
    <3> QED
      BY <2>2, <2>3, <3>2, <3>3, <3>4
  <2> QED
    BY <2>4, <2>5
<1> QED
  BY <1>3, <1>4, <1>5, <1>6, <1>9, <1>10 DEF ProgressInv
-----------------------------------------------------------------------------
(* The steps between calls.                                                *)

(* Steps of the runtime and of handle_submit's caller, on the invariant of *)
(* the runtime.                                                            *)
LEMMA StraightRuntime ==
  ASSUME StraightInv, campaign' = campaign, Next \/ UNCHANGED vars
  PROVE  /\ TypeOK' /\ CoordBase' /\ IdentityInv'
         /\ campaign' # "persistence_recovery" => CoordInv'
<1>1. TypeOK /\ CoordBase /\ IdentityInv
  BY DEF StraightInv
<1>2. campaign # "persistence_recovery" => RuntimeInv
  BY <1>1 DEF StraightInv, RuntimeInv
<1>3. campaign' # "persistence_recovery" => CoordInv'
  BY <1>2, RuntimeStep DEF RuntimeInv
<1>4. CASE Next
  BY <1>1, <1>3, <1>4, BaseStep
<1>5. CASE UNCHANGED vars
  <2>1. UNCHANGED coordVars
    BY <1>5 DEF vars
  <2>2. CoordBase'
    BY <1>1, <2>1, CoordBaseStep DEF CoordStep
  <2>3. TypeOK'
    BY <1>1, <1>5, <2>2 DEF TypeOK, CoordBase, vars
  <2>4. IdentityInv'
    BY <1>1, <1>5, <2>1 DEF IdentityInv, vars, coordVars
  <2> QED
    BY <1>3, <2>2, <2>3, <2>4
<1> QED
  BY <1>4, <1>5

(* While a submission is in its thread, the coordinator cannot exit and    *)
(* nobody answers it but that thread.                                      *)
LEMMA RuntimeThread ==
  ASSUME StraightInv, RuntimeRuns
  PROVE  \/ /\ UNCHANGED <<thread, grant, cur>>
            /\ Ctl \in serving => Ctl \in serving'
         \/ Dispatch(Ctl)
         \/ Respond(Ctl)
         \/ CoordinatorExits /\ thread[Ctl].pc = "idle"
<1>1. ASSUME NEW p \in Procs, WorkerStep(p)
      PROVE  UNCHANGED <<thread, grant, cur>> /\ serving \subseteq serving'
  BY <1>1 DEF WorkerStep, Connect, Accept, ConnectBacklog, Retry, HandleDispatch, coordVars,
              authVars
<1>2. ASSUME NEW f \in Fds, ReceiveRegister(f) \/ ReceiveComplete(f)
      PROVE  UNCHANGED <<thread, grant, cur, serving>>
  BY <1>2 DEF ReceiveRegister, HandleRegister, ReceiveComplete, CompleteAccepted,
              CompleteRejected, coordVars, netVars, authVars
<1>3. ASSUME NEW f \in Fds, ConnectionClosed(f)
      PROVE  UNCHANGED <<thread, grant, cur>> /\ (Ctl \in serving => Ctl \in serving')
  <2>1. f # Ctl
    BY ConnAssumption
  <2> QED
    BY <1>3, <2>1 DEF ConnectionClosed, ConnectionLost, authVars
<1>4. ASSUME CoordinatorExits PROVE thread[Ctl].pc = "idle"
  BY <1>4 DEF CoordinatorExits, Exit, StraightInv, SubmissionInv
<1> QED
  BY <1>1, <1>2, <1>3, <1>4 DEF RuntimeRuns, ThreadStep

(* The runtime keeps what the calls have established.                      *)
LEMMA RuntimeStraight ==
  ASSUME HandleInv, StraightInv, RuntimeRuns
  PROVE  StraightInv'
<1>0. /\ UNCHANGED <<campaign, hand, kept, resurrected, pc>>
      /\ Next
  BY DEF RuntimeRuns, campaignVars, Next
<1>1. /\ TypeOK' /\ CoordBase' /\ IdentityInv'
      /\ campaign' # "persistence_recovery" => CoordInv'
  BY <1>0, StraightRuntime
<1>2. Quiet
  BY RuntimeIsQuiet DEF StraightInv
<1>3. LaunchLedgerInv'
  BY <1>2, QuietLedger DEF StraightInv
<1>4. UNCHANGED <<assigned, launches, epoch>>
  BY <1>2 DEF Quiet
<1>5. SubmissionInv'
  <2> DEFINE c == campaign
  <2>0. /\ SubmissionInv /\ Done' = Done
        /\ thread \in [Controllers -> Locals] /\ cur.attempt \in Nat
        /\ grant \in [Controllers -> GrantType]
        /\ Ctl \in Controllers
    BY <1>0 DEF StraightInv, TypeOK, CoordTypeOK, Done
  <2>1. CASE UNCHANGED <<thread, grant, cur>> /\ (Ctl \in serving => Ctl \in serving')
    BY <1>0, <1>2, <1>4, <2>0, <2>1, QuietWorkers DEF SubmissionInv, OnlyWorkersCommit
  <2>2. CASE Dispatch(Ctl)
    <3>1. /\ thread[Ctl].pc = "dispatch" /\ thread'[Ctl].pc = "respond"
          /\ thread'[Ctl].attempt = thread[Ctl].attempt
          /\ UNCHANGED <<cur, serving>>
      BY <2>0, <2>2 DEF Dispatch, SubmitDispatch, Locals, authVars, netVars
    <3> QED
      BY <1>0, <1>2, <1>4, <2>0, <3>1, QuietWorkers DEF SubmissionInv, OnlyWorkersCommit
  <2>3. CASE Respond(Ctl)
    <3>1. /\ thread[Ctl].pc = "respond" /\ thread'[Ctl].pc = "idle"
      BY <2>0, <2>3 DEF Respond, SubmitRespond, Locals
    <3>2. PICK t \in UnlockedReads(Ctl) :
            grant' = [grant EXCEPT ![Ctl] =
              [epoch |-> epoch, attempt |-> t.attempt, gen |-> t.gen,
               dispatch |-> t.dispatch, from |-> launches]]
      BY <2>3 DEF Respond
    <3>3. thread[Ctl].attempt = cur.attempt /\ cur.attempt > 0
          /\ OnlyWorkersCommit(launches, cur.attempt)
      BY <2>0, <3>1 DEF SubmissionInv
    <3>4. t.attempt = cur.attempt
      BY <2>0, <3>3 DEF UnlockedReads
    <3>5. /\ grant'[Ctl].attempt = cur.attempt
          /\ grant'[Ctl].epoch = epoch /\ grant'[Ctl].from = launches
      BY <2>0, <3>2, <3>4
    <3>6. \A r \in ledger' : r.launch = launches /\ r.sig.attempt = cur.attempt
            => r \in WorkersOwn'
      BY <1>2, <3>3, QuietWorkers
    <3> QED
      BY <1>4, <2>0, <3>1, <3>3, <3>5, <3>6 DEF SubmissionInv, OnlyWorkersCommit
  <2>4. CASE CoordinatorExits /\ thread[Ctl].pc = "idle"
    <3>1. thread'[Ctl].pc = "idle" /\ grant'[Ctl] = grant[Ctl]
      BY <2>0, <2>4 DEF CoordinatorExits, Exit, LoseMemory, LoseConnections, NoLocals
    <3> QED
      BY <1>0, <1>2, <1>4, <2>0, <2>4, <3>1, QuietWorkers DEF SubmissionInv, OnlyWorkersCommit
  <2> QED
    BY <2>1, <2>2, <2>3, <2>4, RuntimeThread
<1>6. ProgressInv'
  <2>0. ProgressInv
    BY DEF StraightInv
  <2>1. WorkersOwn \subseteq WorkersOwn'
    BY <1>2 DEF Quiet, WorkersOwn
  <2>2. hasSubmitted' => hasSubmitted
    BY <1>2 DEF Quiet
  <2>3. Captured(campaign, pc, "fresh") =>
          OnlyWorkersCommit(kept["fresh"].from, kept["fresh"].attempt)'
    BY <1>0, <1>2, <2>0, QuietWorkers DEF ProgressInv, OnlyWorkersCommit
  <2> QED
    BY <1>0, <1>4, <2>0, <2>1, <2>2, <2>3 DEF ProgressInv
<1> QED
  BY <1>1, <1>3, <1>5, <1>6 DEF StraightInv
-----------------------------------------------------------------------------
(* The calls.                                                              *)

(* After a call other than a submission no answer is pending.              *)
LEMMA NoAnswerPending ==
  ASSUME HandleInv, pc \in 1 .. Len(Program[campaign]), pc' = pc + 1, campaign' = campaign,
         thread'[Ctl].pc = "idle", Op(campaign, pc) # "submit"
  PROVE  SubmissionInv'
<1>1. /\ WellFormed(campaign, pc) /\ Len(Program[campaign]) \in Nat
      /\ Op(campaign, pc) = Program[campaign][pc].op
  BY CallIsPlanned, ProgramAssumption DEF HandleInv, Op
<1>2. ~Done' => Op(campaign', pc') # "capture"
  BY <1>1 DEF WellFormed, Done
<1> QED
  BY <1>2 DEF SubmissionInv

(* Calls that neither submit, replay nor launch a coordinator.             *)
LEMMA QuietCallStraight ==
  ASSUME HandleInv, StraightInv, ControllerStep, unmet' = {},
         Op(campaign, pc) \notin {"submit", "send", "coordinator"}
  PROVE  StraightInv'
<1>0. /\ pc \in 1 .. Len(Program[campaign]) /\ campaign' = campaign
      /\ thread[Ctl].pc = "idle" /\ pc' = pc + 1
      /\ campaign \in Campaign /\ pc \in Nat \ {0}
  BY ControllerMoves, StraightOn, CallIsPlanned
<1>1. /\ Quiet /\ ledger' = ledger
      /\ thread'[Ctl].pc = "idle"
      /\ resurrected' = resurrected
      /\ Op(campaign, pc) # "worker" => hand' = hand
      /\ Op(campaign, pc) # "capture" => kept' = kept
      /\ UNCHANGED vars \/ Next
  BY <1>0, CallIsQuiet
<1>2. /\ TypeOK' /\ CoordBase' /\ IdentityInv'
      /\ campaign' # "persistence_recovery" => CoordInv'
  BY <1>0, <1>1, StraightRuntime
<1>3. LaunchLedgerInv'
  BY <1>1, QuietLedger DEF StraightInv
<1>4. SubmissionInv'
  BY <1>0, <1>1, NoAnswerPending
<1>5. \A h \in Held(campaign, pc + 1) : hand'[h] \in Procs
  <2>1. CASE Op(campaign, pc) # "worker"
    BY <1>0, <1>1, <2>1, HeldNext DEF StraightInv, ProgressInv
  <2>2. CASE Op(campaign, pc) = "worker"
    <3>1. StartWorker
      BY <2>2 DEF ControllerStep, StartCoordinator, ForceKill, ForceKillCoordinator,
                  OpenControl, CallSubmit, CaptureResult, SendAccepted, SendRejected,
                  SendShutdown, WaitForExit, WaitSees, WaitTimesOut, Checks, Verdict, At,
                  Call, Op
    <3>2. PICK p \in Procs : hand' = [hand EXCEPT ![Call.h] = p]
      BY <3>1 DEF StartWorker
    <3>3. Call.h \in Handles /\ Call = Program[campaign][pc]
      BY <1>0, <2>2, ProgramAssumption DEF CleansUp, Call
    <3>4. hand \in [Handles -> Procs \cup {NoProc}]
      BY DEF HandleInv
    <3>5. ASSUME NEW h \in Held(campaign, pc + 1) PROVE hand'[h] \in Procs
      <4>1. h = Call.h \/ (h \in Held(campaign, pc) /\ h # Call.h)
        BY <1>0, <3>3, HeldNext
      <4>2. CASE h = Call.h
        BY <3>2, <3>3, <3>4, <4>2
      <4>3. CASE h \in Held(campaign, pc) /\ h # Call.h
        <5>1. hand[h] \in Procs
          BY <4>3 DEF StraightInv, ProgressInv
        <5>2. hand'[h] = hand[h]
          BY <3>2, <3>4, <4>3
        <5> QED
          BY <5>1, <5>2
      <4> QED
        BY <4>1, <4>2, <4>3
    <3> QED
      BY <3>5
  <2> QED
    BY <2>1, <2>2
<1>6. Op(campaign, pc) = "capture" =>
        /\ kept' = [kept EXCEPT ![Call.label] = grant[Ctl]]
        /\ Call.must => grant[Ctl].attempt # 0
  <2> SUFFICES ASSUME Op(campaign, pc) = "capture"
               PROVE  /\ kept' = [kept EXCEPT ![Call.label] = grant[Ctl]]
                      /\ Call.must => grant[Ctl].attempt # 0
    OBVIOUS
  <2>1. CaptureResult
    BY DEF ControllerStep, StartCoordinator, StartWorker, ForceKill, ForceKillCoordinator,
           OpenControl, CallSubmit, SendAccepted, SendRejected, SendShutdown, WaitForExit,
           WaitSees, WaitTimesOut, Checks, Verdict, At, Call, Op
  <2> QED
    BY <2>1 DEF CaptureResult
<1>7. Op(campaign, pc) = "await" /\ Call.what = "accepted" /\ Call.x = "fresh"
        /\ Call.then = "fail" => AcceptedLines(kept["fresh"]) # {}
  <2> SUFFICES ASSUME Op(campaign, pc) = "await", Call.what = "accepted", Call.x = "fresh",
                      Call.then = "fail"
               PROVE  AcceptedLines(kept["fresh"]) # {}
    OBVIOUS
  <2>1. WaitSees \/ WaitTimesOut
    BY DEF ControllerStep, StartCoordinator, StartWorker, ForceKill, ForceKillCoordinator,
           OpenControl, CallSubmit, CaptureResult, SendAccepted, SendRejected, SendShutdown,
           WaitForExit, Checks, Verdict, At, Call, Op
  <2>2. ~WaitTimesOut
    BY DEF WaitTimesOut
  <2> QED
    BY <2>1, <2>2 DEF WaitSees, Appeared
<1>8. ProgressInv'
  <2>1. UNCHANGED <<assigned, launches>> /\ (hasSubmitted' => hasSubmitted)
        /\ ledger \subseteq ledger' /\ resurrected' = 0
    BY <1>1 DEF Quiet, StraightInv, ProgressInv
  <2> QED
    BY <1>0, <1>1, <1>5, <1>6, <1>7, <2>1, ProgressCall
<1> QED
  BY <1>2, <1>3, <1>4, <1>8 DEF StraightInv

(* submit: the attempt it is given has no commit yet, and a refused one    *)
(* leaves nothing assigned.                                                *)
LEMMA SubmitStraight ==
  ASSUME HandleInv, StraightInv, CallSubmit, unmet' = {}
  PROVE  StraightInv'
<1>0. /\ pc \in 1 .. Len(Program[campaign]) /\ campaign' = campaign
      /\ thread[Ctl].pc = "idle" /\ pc' = pc + 1
      /\ campaign \in Campaign /\ pc \in Nat \ {0}
      /\ WellFormed(campaign, pc)
  BY ControllerMoves, StraightOn, CallIsPlanned DEF ControllerStep
<1>1. /\ Op(campaign, pc) = "submit" /\ Call = Program[campaign][pc]
      /\ Submit(Ctl, Call.id) /\ UNCHANGED campaignVars
  BY DEF CallSubmit, At, Call, Op
<1>2. Call.id \in WorkerIds /\ Op(campaign, pc + 1) = "capture"
  BY <1>0, <1>1 DEF WellFormed, Op
<1>3. /\ TypeOK' /\ CoordBase' /\ IdentityInv'
      /\ campaign' # "persistence_recovery" => CoordInv'
  <2>1. Next
    BY <1>1, <1>2 DEF Next, CampaignStep
  <2> QED
    BY <1>0, <2>1, StraightRuntime
<1>4. /\ CoordBase /\ LaunchLedgerInv /\ ProgressInv
      /\ cur.attempt = next.attempt /\ next.attempt \in Nat /\ launches \in Nat
      /\ ledger \subseteq [launch : Nat, sig : Authority, result : Results]
      /\ thread \in [Controllers -> Locals] /\ grant \in [Controllers -> GrantType]
      /\ Ctl \in Controllers
  BY DEF StraightInv, CoordBase, CoordTypeOK, TypeOK
<1>5. /\ UNCHANGED <<up, launches, epoch, ledger, serving>>
      /\ \/ SubmitAccepted(Ctl, Call.id)
         \/ /\ SubmitRejected(Ctl, Call.id)
            /\ grant' = [grant EXCEPT ![Ctl] = [NoGrant EXCEPT !.from = launches]]
  BY <1>1 DEF Submit, SubmitAccepted, SubmitRejected, netVars
<1>6. next'.attempt \in Nat /\ next'.attempt >= next.attempt
  <2>1. CASE SubmitAccepted(Ctl, Call.id)
    BY <1>4, <2>1 DEF SubmitAccepted
  <2>2. CASE SubmitRejected(Ctl, Call.id)
    BY <1>4, <2>2 DEF SubmitRejected, authVars
  <2> QED
    BY <1>5, <2>1, <2>2
<1>7. LaunchLedgerInv'
  <2>1. \A r \in ledger : r.sig.attempt \in Nat
    BY <1>4 DEF Authority
  <2> QED
    BY <1>4, <1>5, <1>6, <2>1 DEF LaunchLedgerInv
<1>8. SubmissionInv'
  <2>1. CASE SubmitAccepted(Ctl, Call.id)
    <3>1. /\ thread'[Ctl].pc = "dispatch" /\ thread'[Ctl].attempt = next.attempt + 1
          /\ cur'.attempt = next.attempt + 1 /\ Ctl \in serving /\ up
      BY <1>4, <2>1 DEF SubmitAccepted, Reading
    <3>2. \A r \in ledger : r.launch = launches => r.sig.attempt # next.attempt + 1
      BY <1>4, <3>1 DEF LaunchLedgerInv, Authority
    <3> QED
      BY <1>0, <1>2, <1>4, <1>5, <3>1, <3>2 DEF SubmissionInv, OnlyWorkersCommit
  <2>2. CASE /\ SubmitRejected(Ctl, Call.id)
             /\ grant' = [grant EXCEPT ![Ctl] = [NoGrant EXCEPT !.from = launches]]
    <3>1. /\ thread'[Ctl].pc = "idle" /\ grant'[Ctl].attempt = 0 /\ assigned' = assigned
      BY <1>4, <2>2 DEF SubmitRejected, NoLocals, NoGrant, authVars
    <3>2. pc' - 1 = pc
      BY <1>0
    <3> QED
      BY <1>0, <1>4, <3>1, <3>2 DEF SubmissionInv, ProgressInv
  <2> QED
    BY <1>5, <2>1, <2>2
<1>9. ProgressInv'
  <2>1. UNCHANGED <<hand, kept, resurrected>> /\ resurrected' = 0
    BY <1>1, <1>4 DEF campaignVars, ProgressInv
  <2>2. \A h \in Held(campaign, pc + 1) : hand'[h] \in Procs
    BY <1>0, <1>1, <1>4, <2>1, HeldNext DEF ProgressInv
  <2> QED
    BY <1>0, <1>1, <1>5, <2>1, <2>2, ProgressCall
<1> QED
  BY <1>3, <1>7, <1>8, <1>9 DEF StraightInv

(* send_complete: the one replay that is accepted is of the authority in   *)
(* force, in the name of the worker it was assigned to, and before the     *)
(* fresh work.                                                             *)
LEMMA SendStraight ==
  ASSUME HandleInv, StraightInv, SendAccepted \/ SendRejected, unmet' = {}
  PROVE  StraightInv'
<1>0. /\ pc \in 1 .. Len(Program[campaign]) /\ campaign' = campaign
      /\ thread[Ctl].pc = "idle" /\ pc' = pc + 1
      /\ campaign \in Campaign /\ pc \in Nat \ {0}
      /\ WellFormed(campaign, pc) /\ ReplaysInOrder(campaign, pc)
  BY ControllerMoves, StraightOn, CallIsPlanned DEF ControllerStep
<1>1. /\ Op(campaign, pc) = "send" /\ Call = Program[campaign][pc] /\ Call.op = "send"
      /\ UNCHANGED <<proc, conn, grant, hand, kept>>
      /\ UNCHANGED <<thread, assigned, launches, hasSubmitted, epoch, workers, up, next>>
      /\ ledger \subseteq ledger'
  BY DEF SendAccepted, SendRejected, CompleteAccepted, CompleteRejected, At, Call, Op,
         tableVars, authVars, coordVars
<1>2. /\ Call.h \in Held(campaign, pc) /\ Call.back \in 0 .. 2
      /\ Call.result \in ReplayResults
      /\ Call.want \in {"accepted", "rejected", "counted"}
  BY <1>0, <1>1 DEF WellFormed
<1>3. /\ TypeOK /\ CoordBase /\ IdentityInv /\ LaunchLedgerInv /\ ProgressInv
      /\ Ctl \in Controllers /\ Ctl \in Conns
  BY DEF StraightInv, Conns
<1>4. SubmissionInv'
  BY <1>0, <1>1, NoAnswerPending
<1>5. \A h \in Held(campaign, pc + 1) : hand'[h] \in Procs
  BY <1>0, <1>1, <1>3, HeldNext DEF ProgressInv
<1>6. ASSUME SendRejected
      PROVE  StraightInv'
  <2>1. UNCHANGED vars /\ resurrected' = 0 /\ ledger' = ledger
    BY <1>3, <1>6 DEF SendRejected, CompleteRejected, vars, coordVars, ProgressInv
  <2>2. /\ TypeOK' /\ CoordBase' /\ IdentityInv'
        /\ campaign' # "persistence_recovery" => CoordInv'
    BY <1>0, <2>1, StraightRuntime
  <2>3. LaunchLedgerInv'
    BY <1>1, <1>3, <2>1 DEF LaunchLedgerInv
  <2>4. ProgressInv'
    BY <1>0, <1>1, <1>5, <2>1, ProgressCall
  <2> QED
    BY <1>4, <2>2, <2>3, <2>4 DEF StraightInv
<1>7. ASSUME SendAccepted
      PROVE  StraightInv'
  <2>1. /\ Call.want # "rejected"
        /\ CompleteAccepted(Ctl, Completion)
        /\ CurrentAuthority(Completion) /\ hasSubmitted
    BY <1>7 DEF SendAccepted, CompleteAccepted, Accepts, CurrentAuthority
  <2>2. Call.want = "accepted" /\ campaign # "persistence_recovery"
    BY <1>0, <1>1, <1>2, <1>3, <2>1 DEF ReplaysInOrder, ProgressInv
  <2>3. ~Captured(campaign, pc + 1, "fresh")
    BY <1>0, <1>1, <2>1, CapturedNext DEF ReplaysInOrder
  <2>4. PICK p \in Procs : p = hand[Call.h]
    BY <1>2, <1>3 DEF ProgressInv
  <2>5. CoordInv /\ CurrentGrant \in assigned /\ assigned \subseteq Authority
    BY <2>1, <2>2 DEF StraightInv, CoordInv, AuthorityInv, CoordTypeOK
  <2>6. PICK q \in Procs : BootOf[q] = cur.boot
    BY <1>3, <2>5 DEF IdentityInv, CurrentGrant, Known
  <2>7. /\ Completion.boot = BootOf[p] - Call.back /\ Completion.worker = IdOf[p]
        /\ Completion.result = Call.result
    BY <2>4 DEF Completion
  <2>8. Completion.boot = BootOf[q] /\ Completion.worker = IdOf[q]
    BY <1>2, <2>1, <2>6, <2>7, HandleAssumption DEF CurrentAuthority
  <2>9. Completion \in Request /\ Known(Completion.worker, Completion.boot)
    <3>1. /\ epoch \in Nat /\ cur.attempt \in Nat /\ cur.gen \in Nat /\ cur.dispatch \in Nat
      BY <1>3 DEF TypeOK, CoordTypeOK
    <3>2. /\ Completion.epoch \in Nat /\ Completion.attempt \in Nat
          /\ Completion.gen \in Nat /\ Completion.dispatch \in Nat
      BY <2>1, <3>1 DEF CurrentAuthority
    <3>3. IdOf[q] \in WorkerIds /\ BootOf[q] \in Boots
      BY ProcAssumption
    <3>4. Completion.result \in Results
      BY <1>2, <2>7, ResultAssumption
    <3>5. Completion = [epoch |-> Completion.epoch, attempt |-> Completion.attempt,
                        gen |-> Completion.gen, dispatch |-> Completion.dispatch,
                        worker |-> Completion.worker, boot |-> Completion.boot,
                        result |-> Completion.result]
      BY DEF Completion
    <3>6. Completion \in Request
      BY <2>8, <3>2, <3>3, <3>4, <3>5 DEF Request
    <3> QED
      BY <2>8, <3>6 DEF Known
  <2>10. CoordBase' /\ CoordInv'
    <3>1. CoordInv'
      BY <1>3, <2>1, <2>5, <2>9, CompleteAcceptedInv
    <3> QED
      BY <3>1 DEF CoordInv, CoordBase, AuthorityInv
  <2>11. TypeOK'
    BY <1>1, <1>3, <2>10 DEF TypeOK, CoordBase
  <2>12. IdentityInv'
    <3>1. \A f \in Fds : conn'[f].toCoord \in Seq(KnownMsg)
      BY <1>1, <1>3 DEF IdentityInv
    <3> QED
      BY <1>3, <2>1, <2>9, <3>1, IdentityStep DEF TypeOK
  <2>13. LaunchLedgerInv'
    <3>1. ledger' = ledger \cup {[launch |-> launches, sig |-> Sig(Completion),
                                  result |-> Completion.result]}
      BY <2>1 DEF CompleteAccepted
    <3>2. Sig(Completion).attempt = next.attempt
      BY <1>3, <2>1 DEF Sig, CurrentAuthority, CoordBase
    <3>3. launches \in Nat /\ next.attempt \in Nat
      BY <1>3 DEF TypeOK, CoordTypeOK
    <3> QED
      BY <1>1, <1>3, <3>1, <3>2, <3>3 DEF LaunchLedgerInv
  <2>14. ProgressInv'
    <3>1. resurrected' = 0
      BY <1>3, <1>7, <2>2 DEF SendAccepted, ProgressInv
    <3> QED
      BY <1>0, <1>1, <1>5, <2>3, <3>1, ProgressCall
  <2> QED
    BY <1>4, <2>10, <2>11, <2>12, <2>13, <2>14 DEF StraightInv
<1> QED
  BY <1>6, <1>7

(* A coordinator is launched at the first epoch, or above the epoch of     *)
(* everything that was assigned.                                           *)
LEMMA LaunchStraight ==
  ASSUME HandleInv, StraightInv, StartCoordinator, unmet' = {}
  PROVE  StraightInv'
<1> DEFINE e == IF Call.from = "default" THEN 1 ELSE kept[Call.from].epoch + 1
<1>0. /\ pc \in 1 .. Len(Program[campaign]) /\ campaign' = campaign
      /\ thread[Ctl].pc = "idle" /\ pc' = pc + 1
      /\ campaign \in Campaign /\ pc \in Nat \ {0}
      /\ WellFormed(campaign, pc) /\ ReplaysInOrder(campaign, pc)
  BY ControllerMoves, StraightOn, CallIsPlanned DEF ControllerStep
<1>1. /\ Op(campaign, pc) = "coordinator" /\ Call = Program[campaign][pc]
      /\ Call.op = "coordinator" /\ Launch(e)
      /\ UNCHANGED <<proc, conn, grant, hand, kept, resurrected>>
  BY DEF StartCoordinator, At, Call, Op, campaignVars
<1>2. /\ UNCHANGED <<thread, assigned, hasSubmitted, workers, ledger>>
      /\ ~up /\ launches' = launches + 1
  BY <1>1 DEF Launch, tableVars, authVars
<1>3. /\ TypeOK /\ CoordBase /\ IdentityInv /\ LaunchLedgerInv /\ ProgressInv
      /\ kept \in [Labels -> GrantType]
      /\ assigned \subseteq Authority /\ launches \in Nat
      /\ ledger \subseteq [launch : Nat, sig : Authority, result : Results]
  BY DEF StraightInv, ProgressInv, TypeOK, CoordTypeOK
<1>4. Call.from \in Labels \cup {"default"}
  BY <1>0, <1>1 DEF ReplaysInOrder
<1>5. /\ e \in Nat
      /\ Call.from \in Labels =>
           kept[Call.from].epoch \in Nat /\ (Call.from # "default" => e = kept[Call.from].epoch + 1)
  BY <1>3, <1>4 DEF GrantType
<1>6. CoordBase'
  BY <1>1, <1>3, <1>5, CoordBaseStep
<1>7. TypeOK' /\ IdentityInv'
  BY <1>1, <1>2, <1>3, <1>6 DEF TypeOK, CoordBase, IdentityInv
<1>8. LaunchLedgerInv'
  BY <1>2, <1>3 DEF LaunchLedgerInv
<1>9. SubmissionInv'
  BY <1>0, <1>1, <1>2, NoAnswerPending
<1>10. ProgressInv'
  <2>1. \A h \in Held(campaign, pc + 1) : hand'[h] \in Procs
    BY <1>0, <1>1, <1>3, HeldNext DEF ProgressInv
  <2>2. ~hasSubmitted' /\ resurrected' = 0
    BY <1>1, <1>2, <1>3 DEF CoordBase, ProgressInv
  <2> QED
    BY <1>0, <1>1, <1>2, <2>1, <2>2, ProgressCall
<1>11. ASSUME campaign # "persistence_recovery" PROVE CoordInv'
  <2>1. \A a \in assigned : a.epoch < e
    <3>1. CASE Call.from = "default"
      BY <1>0, <1>1, <1>3, <1>11, <3>1 DEF ReplaysInOrder, ProgressInv
    <3>2. CASE Call.from # "default"
      <4>1. Call.from \in Labels /\ Newest(campaign, pc, Call.from)
        BY <1>0, <1>1, <1>4, <1>11, <3>2 DEF ReplaysInOrder
      <4>2. \A a \in assigned : a.epoch <= kept[Call.from].epoch
        BY <1>3, <1>11, <4>1 DEF ProgressInv
      <4>3. \A a \in assigned : a.epoch \in Nat
        BY <1>3 DEF Authority
      <4> QED
        BY <1>5, <3>2, <4>1, <4>2, <4>3
    <3> QED
      BY <3>1, <3>2
  <2>2. CoordInv
    BY <1>11 DEF StraightInv
  <2> QED
    BY <1>1, <1>5, <2>1, <2>2, LaunchAboveInv
<1> QED
  BY <1>0, <1>6, <1>7, <1>8, <1>9, <1>10, <1>11 DEF StraightInv
-----------------------------------------------------------------------------
(* PassInv is inductive.                                                   *)

(* At the start nothing is promised yet.                                   *)
LEMMA PassInit == CampaignInit => PassInv
<1> SUFFICES ASSUME CampaignInit PROVE StraightInv
  BY DEF PassInv
<1>1. /\ Init /\ campaign \in Campaign /\ pc = 1
      /\ kept = [l \in Labels |-> NoGrant] /\ resurrected = 0
  BY DEF CampaignInit
<1>2. TypeOK /\ CoordInv /\ IdentityInv
  BY <1>1, RuntimeInit DEF RuntimeInv
<1>3. CoordBase
  BY <1>2, InvImpliesBase
<1>4. /\ ledger = {} /\ assigned = {} /\ ~hasSubmitted
      /\ thread = [c \in Controllers |-> NoLocals]
      /\ grant = [c \in Controllers |-> NoGrant]
  BY <1>1 DEF Init, CoordInit
<1>5. \A op : Before(campaign, pc, op) = {}
  BY <1>1 DEF Before
<1>6. ~Done => Op(campaign, pc) # "capture"
  <2>1. ASSUME ~Done, Op(campaign, 1) = "capture" PROVE FALSE
    <3>1. 1 \in 1 .. Len(Program[campaign])
      BY <1>1, <2>1, ProgramAssumption DEF Done
    <3>2. WellFormed(campaign, 1)
      BY <1>1, <3>1, ProgramAssumption
    <3> QED
      BY <2>1, <3>2 DEF WellFormed, Op
  <2> QED
    BY <1>1, <2>1
<1>7. thread[Ctl].pc = "idle"
  BY <1>4 DEF NoLocals
<1>8. SubmissionInv
  BY <1>6, <1>7 DEF SubmissionInv
<1>9. ProgressInv
  <2>1. NoGrant \in GrantType
    BY DEF NoGrant, GrantType
  <2> QED
    BY <1>1, <1>4, <1>5, <2>1 DEF ProgressInv, Held, Captured, Newest, Awaited
<1> QED
  BY <1>2, <1>3, <1>4, <1>8, <1>9 DEF StraightInv, LaunchLedgerInv

(* Whatever step is taken, a campaign that still has nothing against it is *)
(* where its program says; HandleInv gives its position and its handles.   *)
LEMMA PassStep ==
  HandleInv /\ PassInv /\ [CampaignNext]_allVars => PassInv'
<1> SUFFICES ASSUME HandleInv, PassInv, [CampaignNext]_allVars, unmet' = {}
             PROVE  StraightInv'
  BY DEF PassInv
<1>1. CASE UNCHANGED allVars
  <2>1. UNCHANGED <<vars, campaign, hand, kept, unmet, resurrected, pc>>
    BY <1>1 DEF allVars, campaignVars
  <2>2. StraightInv
    BY <2>1 DEF PassInv
  <2>3. /\ TypeOK' /\ CoordBase' /\ IdentityInv'
        /\ campaign' # "persistence_recovery" => CoordInv'
    BY <2>1, <2>2, StraightRuntime
  <2>4. /\ UNCHANGED <<up, launches, epoch, next, cur, hasSubmitted, serving, thread>>
        /\ UNCHANGED <<assigned, ledger, grant>>
    BY <2>1 DEF vars, coordVars
  <2>5. LaunchLedgerInv'
    BY <2>2, <2>4 DEF StraightInv, LaunchLedgerInv
  <2>6. SubmissionInv'
    BY <2>1, <2>2, <2>4 DEF StraightInv, SubmissionInv, OnlyWorkersCommit, WorkersOwn, Done
  <2>7. ProgressInv'
    BY <2>1, <2>2, <2>4 DEF StraightInv, ProgressInv, OnlyWorkersCommit, WorkersOwn
  <2> QED
    BY <2>3, <2>5, <2>6, <2>7 DEF StraightInv
<1>2. CASE RuntimeRuns
  BY <1>2, RuntimeStraight DEF PassInv, RuntimeRuns, campaignVars
<1>3. CASE ControllerStep
  <2>1. StraightInv
    BY <1>3, StraightOn DEF PassInv
  <2>2. \/ CallSubmit
        \/ SendAccepted \/ SendRejected
        \/ StartCoordinator
        \/ Op(campaign, pc) \notin {"submit", "send", "coordinator"}
    BY <1>3 DEF ControllerStep, StartWorker, ForceKill, ForceKillCoordinator, OpenControl,
                CaptureResult, SendShutdown, WaitForExit, WaitSees, WaitTimesOut, Checks,
                Verdict, At, Call, Op
  <2> QED
    BY <1>3, <2>1, <2>2, QuietCallStraight, SubmitStraight, SendStraight, LaunchStraight
<1> QED
  BY <1>1, <1>2, <1>3 DEF CampaignNext

(* PASS is earned: whatever the waits missed, the fresh work was committed *)
(* by a worker of the coordinator that assigned it, no stale completion    *)
(* was accepted and nothing was committed twice.                           *)
THEOREM PassIsEarnedAlways == CampaignSpec => []PassIsEarned
<1>1. HandleInv /\ PassInv => PassIsEarned
  <2> SUFFICES ASSUME HandleInv, PassInv, Passed
               PROVE  /\ \E r \in WorkersOwn : r.launch = kept["fresh"].from
                                               /\ r.sig.attempt = kept["fresh"].attempt
                      /\ resurrected = 0
                      /\ campaign # "persistence_recovery" => AtMostOneCommit
    BY DEF PassIsEarned
  <2>1. StraightInv /\ pc = Len(Program[campaign]) + 1 /\ campaign \in Campaign
    BY ProgramAssumption DEF Passed, PassInv, HandleInv, Done
  <2>2. Awaited(campaign, pc, "fresh")
    BY <2>1, ProgramAssumption
  <2>3. BootsIdentifyWorkers
    <3>1. \A p, q \in Procs : BootOf[p] - 0 = BootOf[q] => IdOf[p] = IdOf[q]
      BY HandleAssumption
    <3>2. ASSUME NEW p \in Procs PROVE BootOf[p] - 0 = BootOf[p]
      <4>1. BootOf[p] \in Nat
        BY ProcAssumption, IdAssumption
      <4> QED
        BY <4>1
    <3> QED
      BY <3>1, <3>2 DEF BootsIdentifyWorkers
  <2>4. campaign # "persistence_recovery" => AtMostOneCommit
    BY <2>1, <2>3, InvImpliesOneCommit DEF StraightInv, RuntimeInv
  <2> QED
    BY <2>1, <2>2, <2>4 DEF StraightInv, ProgressInv
<1>2. CampaignInit => HandleInv /\ PassInv
  BY HandleInit, PassInit
<1>3. HandleInv /\ PassInv /\ [CampaignNext]_allVars => (HandleInv /\ PassInv)'
  BY HandleStep, PassStep
<1> QED
  BY <1>1, <1>2, <1>3, PTL DEF CampaignSpec
=============================================================================
