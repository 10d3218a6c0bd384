------------------------------- MODULE Campaigns -------------------------------
(***************************************************************************)
(* The campaigns of apps/chaos_cli.cpp against the target runtime: what    *)
(* each one does in order, what it waits for in the coordinator's output,  *)
(* and how it arrives at its verdict.                                      *)
(*                                                                         *)
(* A campaign is a program, a sequence of the calls its function makes;    *)
(* the actions below are those calls.  The runtime runs on between and     *)
(* during them.  A wait ends when its text is in the output or, at any     *)
(* moment, because its attempts are used up.  Process::launch, tcp_connect *)
(* and the wait for LISTEN succeed.  run_multiprocess also waits for       *)
(* WORK_STARTED, which decides nothing and excludes no order once it times *)
(* out; it is left out, as are the printed diagnostics.                    *)
(***************************************************************************)
EXTENDS TargetRuntime

CONSTANTS
  Ctl,           \* the connection ctl of the campaign
  Campaign,      \* names of the campaigns to run
  NoProc,        \* a handle that owns no process
  Same, Other    \* the results the campaigns replay

ASSUME CtlAssumption == Controllers = {Ctl} /\ ReplayResults = {Same, Other}

(* Handles own processes.  A relaunched worker has the boot after its      *)
(* predecessor's, and boots of different workers are far apart (1000 and   *)
(* up, 2000 and up), so a replay with an earlier boot names the same       *)
(* worker.                                                                 *)
ASSUME HandleAssumption ==
  /\ NoProc \notin Procs
  /\ \A p, q \in Procs, k \in 0 .. 2 : BootOf[p] - k = BootOf[q] => IdOf[p] = IdOf[q]

VARIABLES
  campaign,      \* which campaign this behaviour runs
  pc,            \* the next call of its program
  hand,          \* Process handles: the process each one owns
  kept,          \* the SubmitResult values it has captured
  printed,       \* what the running coordinator printed
  late,          \* history: a wait used up its attempts
  unmet,         \* requirements of the verdict found not to hold
  resurrected    \* stale completions that were accepted

campaignVars == <<campaign, hand, kept, late, unmet, resurrected>>
allVars == <<vars, campaignVars, pc, printed>>

-----------------------------------------------------------------------------
(* The calls a campaign makes.                                             *)

Handles == {"A", "B"}
Labels  == {"sr", "fresh"}

NewCoordinator(from) == [op |-> "coordinator", from |-> from]
NewWorker(h, id)     == [op |-> "worker", h |-> h, id |-> id]
ConnectCtl        == [op |-> "connect"]
Submits(l, id)    == <<[op |-> "submit", id |-> id],
                       [op |-> "capture", label |-> l, must |-> FALSE, skip |-> 0]>>
KillWorker(h)     == [op |-> "kill", h |-> h]
KillCoordinator   == [op |-> "killcoordinator"]
ShutDown          == [op |-> "shutdown"]
WaitExit          == [op |-> "waitexit"]
EpochAfter(l)     == [op |-> "epoch", label |-> l]
CountOf(l)        == [op |-> "count", label |-> l]
AtMostAccepted(n) == [op |-> "tolerate", n |-> n]

(* wait_stdout for a text; timing out is ignored, fails the verdict, ends  *)
(* an iteration of skip calls, or ends the campaign.                       *)
Await(what, x, then, skip) ==
  [op |-> "await", what |-> what, x |-> x, then |-> then, skip |-> skip]

(* A submission whose refusal fails the verdict and skips some calls.      *)
MustSubmit(l, id, skip) ==
  <<[op |-> "submit", id |-> id],
    [op |-> "capture", label |-> l, must |-> TRUE, skip |-> skip]>>

(* send_complete of captured authority, with one field made stale, in the  *)
(* name of the worker of a handle or of an earlier boot of it.             *)
Send(l, change, h, back, result, want) ==
  [op |-> "send", label |-> l, change |-> change, h |-> h, back |-> back,
   result |-> result, want |-> want]

-----------------------------------------------------------------------------
(* The programs: what a campaign does, and the processes it kills at the   *)
(* end or when it gives up.                                                *)

BothWorkers(then) ==
  <<NewWorker("A", 1), NewWorker("B", 2),
    Await("worker", 1, then, 0), Await("worker", 2, then, 0), ConnectCtl>>

OneWorker == <<NewWorker("A", 1), Await("worker", 1, "ignore", 0), ConnectCtl>>

(* run_multiprocess: kill a worker under its submission, relaunch it, and  *)
(* replay the captured authority, as it is and with each field stale.      *)
Multiprocess ==
  <<NewCoordinator("default")>> \o BothWorkers("leave") \o Submits("sr", 1)
  \o <<KillWorker("A"), Await("dead", 1, "ignore", 0),
       NewWorker("A", 1), Await("boot", "A", "ignore", 0),
       Send("sr", "none", "A", 1, Same, "accepted"),
       Send("sr", "none", "A", 1, Same, "rejected"),
       Send("sr", "none", "A", 1, Other, "rejected"),
       Send("sr", "epoch", "A", 1, Other, "rejected"),
       Send("sr", "attempt", "A", 1, Other, "rejected"),
       Send("sr", "gen", "A", 1, Other, "rejected"),
       Send("sr", "dispatch", "A", 1, Other, "rejected"),
       Send("sr", "none", "A", 2, Other, "rejected")>>
  \o MustSubmit("fresh", 1, 2)
  \o <<Await("accepted", "fresh", "fail", 0),
       Send("fresh", "none", "A", 1, Same, "rejected")>>

(* cmd_coordinator_death: replace the coordinator under the submission,    *)
(* then replay what was captured from the first one.                       *)
CoordinatorDeath ==
  <<NewCoordinator("default")>> \o BothWorkers("leave") \o Submits("sr", 1)
  \o <<KillCoordinator, NewCoordinator("sr"),
       Await("worker", 1, "fail", 1), Await("worker", 2, "fail", 0), ConnectCtl,
       Send("sr", "none", "A", 0, Other, "counted"),
       Send("sr", "attempt+", "A", 0, Other, "counted"),
       Send("sr", "gen+", "A", 0, Other, "counted"),
       Send("sr", "dispatch+", "A", 0, Other, "counted"),
       AtMostAccepted(1)>>
  \o MustSubmit("fresh", 1, 1)
  \o <<Await("accepted", "fresh", "fail", 0), EpochAfter("sr")>>

(* storm_worker_iter: work commits, the worker is replaced without waiting *)
(* for its death to be noticed, and its authority is replayed.             *)
StormIteration(l) ==
  MustSubmit(l, 1, 5)
  \o <<Await("accepted", l, "fail", 4), KillWorker("A"), NewWorker("A", 1),
       Await("boot", "A", "ignore", 0), Send(l, "none", "A", 1, Other, "rejected")>>

StormWorker ==
  <<NewCoordinator("default")>> \o OneWorker \o StormIteration("sr") \o StormIteration("fresh")

(* cmd_storm_coordinator: the coordinator is replaced after each commit.   *)
StormCoordinatorIteration(l) ==
  MustSubmit(l, 1, 1)
  \o <<Await("accepted", l, "fail", 0), KillCoordinator, NewCoordinator(l),
       Await("worker", 1, "fail", 0), ConnectCtl,
       Send(l, "none", "A", 0, Other, "rejected")>>

StormCoordinator ==
  <<NewCoordinator("default")>> \o OneWorker
  \o StormCoordinatorIteration("sr") \o StormCoordinatorIteration("fresh")

(* cmd_storm_alternate: one worker works while the other is replaced.      *)
AlternateIteration(l, target, other, id) ==
  MustSubmit(l, other, 1)
  \o <<Await("accepted", l, "fail", 0), KillWorker(target), NewWorker(target, id),
       Await("boot", target, "ignore", 0), Send(l, "none", target, 1, Other, "rejected")>>

StormAlternate ==
  <<NewCoordinator("default")>> \o BothWorkers("ignore")
  \o AlternateIteration("sr", "A", 2, 1) \o AlternateIteration("fresh", "B", 1, 2)

(* cmd_race: fresh work, then the replay of what was captured before the   *)
(* race, and the count of the times that was accepted.                     *)
RaceEnd ==
  <<NewWorker("A", 1), Await("boot", "A", "ignore", 0)>>
  \o MustSubmit("fresh", 1, 1)
  \o <<Await("accepted", "fresh", "fail", 0),
       CountOf("sr"), Send("sr", "none", "A", 1, Other, "rejected")>>

RaceStart == <<NewCoordinator("default")>> \o OneWorker \o Submits("sr", 1)

RaceDuplicate ==
  RaceStart
  \o <<Await("accepted", "sr", "fail", 0),
       Send("sr", "none", "A", 0, Other, "rejected"), KillWorker("A")>>
  \o RaceEnd

RaceEpochRoll ==
  RaceStart
  \o <<KillCoordinator, NewCoordinator("sr"), ConnectCtl, Await("boot", "A", "ignore", 0)>>
  \o RaceEnd

RaceDeath == RaceStart \o <<KillWorker("A")>> \o RaceEnd

(* cmd_persistence_recovery: the coordinator is replaced by one with the   *)
(* same command line, and a second worker is launched into the handle of   *)
(* the first, which goes on running.                                       *)
PersistenceRecovery ==
  <<NewCoordinator("default")>> \o OneWorker \o MustSubmit("sr", 1, 1)
  \o <<Await("accepted", "sr", "fail", 0), KillCoordinator, NewCoordinator("default"),
       NewWorker("A", 1), Await("boot", "A", "ignore", 0), ConnectCtl>>
  \o MustSubmit("fresh", 1, 1)
  \o <<Await("accepted", "fresh", "fail", 0),
       Send("sr", "none", "A", 1, Other, "rejected")>>

Body(c) ==
  CASE c = "multiprocess"         -> Multiprocess
    [] c = "coordinator_death"    -> CoordinatorDeath
    [] c = "storm_worker"         -> StormWorker
    [] c = "storm_coordinator"    -> StormCoordinator
    [] c = "storm_alternate"      -> StormAlternate
    [] c = "race_duplicate"       -> RaceDuplicate
    [] c = "race_epoch_roll"      -> RaceEpochRoll
    [] c = "race_death"           -> RaceDeath
    [] c = "persistence_recovery" -> PersistenceRecovery

Cleanup(c) ==
  (IF c = "multiprocess" THEN <<KillWorker("A"), KillWorker("B"), ShutDown, WaitExit>>
                         ELSE <<KillWorker("A"), KillWorker("B")>>)
  \o <<KillCoordinator>>

Program == [c \in Campaign |-> Body(c) \o Cleanup(c)]

CampaignInit ==
  /\ Init
  /\ campaign \in Campaign
  /\ pc = 1
  /\ hand = [h \in Handles |-> NoProc]
  /\ kept = [l \in Labels |-> NoGrant]
  /\ printed = {}
  /\ late = FALSE
  /\ unmet = {}
  /\ resurrected = 0

Done == pc > Len(Program[campaign])
Call == Program[campaign][pc]

(* The controller is at a call of this kind; it waits for the answer of a  *)
(* submission before it makes another one.                                 *)
At(op) == ~Done /\ thread[Ctl].pc = "idle" /\ Call.op = op

GoOn == pc' = pc + 1

-----------------------------------------------------------------------------
(* Processes.                                                              *)

(* The epoch of a relaunched coordinator: that of a captured SubmitResult, *)
(* which is zero when the submission failed, plus one.                     *)
StartCoordinator ==
  /\ At("coordinator")
  /\ Launch(IF Call.from = "default" THEN 1 ELSE kept[Call.from].epoch + 1)
  /\ GoOn
  /\ UNCHANGED <<proc, conn, grant, campaignVars>>

(* The first process of an id that is left to launch.                      *)
NextProcess(p, id) ==
  /\ IdOf[p] = id
  /\ proc[p].st = "off"
  /\ \A q \in Procs : IdOf[q] = id /\ proc[q].st = "off" => BootOf[p] <= BootOf[q]

StartWorker ==
  /\ At("worker")
  /\ \E p \in Procs :
       /\ NextProcess(p, Call.id)
       /\ LaunchWorker(p)
       /\ hand' = [hand EXCEPT ![Call.h] = p]
  /\ GoOn
  /\ UNCHANGED <<campaign, kept, late, unmet, resurrected>>

Running(h) == hand[h] # NoProc /\ proc[hand[h]].st # "dead"

\* Mutant: the process is left to end by itself.
LeaveWorker == At("kill") /\ GoOn /\ UNCHANGED <<vars, campaignVars>>

(* force_kill of a handle; nothing happens when its process has ended.     *)
ForceKill ==
  /\ At("kill")
  /\ IF Running(Call.h) THEN Kill(hand[Call.h]) ELSE UNCHANGED vars
  /\ GoOn
  /\ UNCHANGED campaignVars

ForceKillCoordinator ==
  /\ At("killcoordinator")
  /\ IF up THEN CoordinatorKilled ELSE UNCHANGED vars
  /\ GoOn
  /\ UNCHANGED campaignVars

-----------------------------------------------------------------------------
(* The control connection.                                                 *)

OpenControl ==
  /\ At("connect")
  /\ ControllerConnect(Ctl)
  /\ GoOn
  /\ UNCHANGED campaignVars

CallSubmit ==
  /\ At("submit")
  /\ Submit(Ctl, Call.id)
  /\ GoOn
  /\ UNCHANGED campaignVars

(* submit returns.  A refused submission leaves the SubmitResult zero.     *)
CaptureResult ==
  LET failed == Call.must /\ grant[Ctl].attempt = 0 IN
  /\ At("capture")
  /\ kept' = [kept EXCEPT ![Call.label] = grant[Ctl]]
  /\ unmet' = IF failed THEN unmet \cup {"refused"} ELSE unmet
  /\ pc' = IF failed THEN pc + 1 + Call.skip ELSE pc + 1
  /\ UNCHANGED <<vars, campaign, hand, late, resurrected>>

(* The authority a replay carries.  "x" is one below the captured x, "x+"  *)
(* the same at the next epoch.  Zero minus one wraps to a value that is    *)
(* nobody's; -1 stands for it.                                             *)
Changed(g, change) ==
  CASE change = "none"      -> g
    [] change = "epoch"     -> [g EXCEPT !.epoch = @ - 1]
    [] change = "attempt"   -> [g EXCEPT !.attempt = @ - 1]
    [] change = "gen"       -> [g EXCEPT !.gen = @ - 1]
    [] change = "dispatch"  -> [g EXCEPT !.dispatch = @ - 1]
    [] change = "attempt+"  -> [g EXCEPT !.epoch = @ + 1, !.attempt = @ - 1]
    [] change = "gen+"      -> [g EXCEPT !.epoch = @ + 1, !.gen = @ - 1]
    [] change = "dispatch+" -> [g EXCEPT !.epoch = @ + 1, !.dispatch = @ - 1]

Completion ==
  LET g == Changed(kept[Call.label], Call.change)
      p == hand[Call.h]
  IN [epoch |-> g.epoch, attempt |-> g.attempt, gen |-> g.gen, dispatch |-> g.dispatch,
      worker |-> IdOf[p], boot |-> BootOf[p] - Call.back, result |-> Call.result]

SendAccepted ==
  /\ At("send")
  /\ CompleteAccepted(Ctl, Completion)
  /\ resurrected' = resurrected + (IF Call.want = "accepted" THEN 0 ELSE 1)
  /\ unmet' = IF Call.want = "rejected" THEN unmet \cup {"resurrected"} ELSE unmet
  /\ GoOn
  /\ UNCHANGED <<proc, conn, grant, campaign, hand, kept, late>>

SendRejected ==
  /\ At("send")
  /\ CompleteRejected(Ctl, Completion)
  /\ unmet' = IF Call.want = "accepted" THEN unmet \cup {"raced"} ELSE unmet
  /\ GoOn
  /\ UNCHANGED <<proc, conn, grant, campaign, hand, kept, late, resurrected>>

(* SHUTDOWN; the connection is closed after it.                            *)
SendShutdown ==
  /\ At("shutdown")
  /\ IF Ctl \in serving THEN ControllerShutdown(Ctl) ELSE UNCHANGED vars
  /\ GoOn
  /\ UNCHANGED campaignVars

\* Mutant: the wait for the coordinator to exit has no limit.
WaitForExitForever ==
  /\ At("waitexit")
  /\ ~up
  /\ GoOn
  /\ UNCHANGED <<vars, campaignVars>>

(* coord.wait(3000): returns when the process ended or the time is over.   *)
WaitForExit ==
  /\ At("waitexit")
  /\ GoOn
  /\ UNCHANGED <<vars, campaignVars>>

-----------------------------------------------------------------------------
(* The coordinator's output.                                               *)

(* What a step of the coordinator prints: BOOT for a worker that is new or *)
(* has a new boot, DEAD for one whose connection ended.                    *)
NewLines ==
  LET changed == {id \in WorkerIds : workers'[id] # workers[id]} IN
  {<<"boot", id, workers'[id].boot>> :
     id \in {i \in changed : /\ workers'[i].alive
                             /\ workers[i].fd = NoFd \/ workers[i].boot # workers'[i].boot}}
  \cup {<<"dead", id, 0>> : id \in {i \in changed : ~workers'[i].alive}}

Printing ==
  printed' = CASE ~up' -> {}
               [] up' /\ up  -> printed \cup NewLines
               [] up' /\ ~up -> {}

(* The line ACCEPTED carries the attempt and the generation.               *)
AcceptedLines(g) ==
  {r \in ledger : r.launch = launches /\ r.sig.attempt = g.attempt /\ r.sig.gen = g.gen}

Appeared ==
  CASE Call.what = "worker"   -> \E l \in printed : l[1] = "boot" /\ l[2] = Call.x
    [] Call.what = "boot"     -> \E l \in printed : l[1] = "boot" /\ l[3] = BootOf[hand[Call.x]]
    [] Call.what = "dead"     -> <<"dead", Call.x, 0>> \in printed
    [] Call.what = "accepted" -> AcceptedLines(kept[Call.x]) # {}

WaitSees ==
  /\ At("await")
  /\ Appeared
  /\ GoOn
  /\ UNCHANGED <<vars, campaignVars>>

\* Mutant: what wait_stdout returns is not looked at.
WaitIgnored ==
  /\ At("await")
  /\ ~Appeared
  /\ late' = TRUE
  /\ GoOn
  /\ UNCHANGED <<vars, campaign, hand, kept, unmet, resurrected>>

WaitTimesOut ==
  /\ At("await")
  /\ ~Appeared
  /\ late' = TRUE
  /\ unmet' = IF Call.then = "ignore" THEN unmet ELSE unmet \cup {"late"}
  /\ pc' = IF Call.then = "leave" THEN Len(Body(campaign)) + 1 ELSE pc + 1 + Call.skip
  /\ UNCHANGED <<vars, campaign, hand, kept, resurrected>>

-----------------------------------------------------------------------------
(* Parts of the verdict that look at more than one answer.                 *)

Verdict(op, holds, name) ==
  /\ At(op)
  /\ unmet' = IF holds THEN unmet ELSE unmet \cup {name}
  /\ GoOn
  /\ UNCHANGED <<vars, campaign, hand, kept, late, resurrected>>

(* rejected >= 3 of the four replays; the epoch GET_STATE reports; the     *)
(* times the raced submission appears in the output.                       *)
Checks ==
  \/ Verdict("tolerate", resurrected <= Call.n, "resurrected")
  \/ Verdict("epoch", epoch = kept[Call.label].epoch + 1, "epoch")
  \/ Verdict("count", Cardinality(AcceptedLines(kept[Call.label])) <= 1, "double")

-----------------------------------------------------------------------------
ControllerStep ==
  \/ StartCoordinator
  \/ StartWorker
  \/ ForceKill
  \/ ForceKillCoordinator
  \/ OpenControl
  \/ CallSubmit
  \/ CaptureResult
  \/ SendAccepted
  \/ SendRejected
  \/ SendShutdown
  \/ WaitForExit
  \/ WaitSees
  \/ WaitTimesOut
  \/ Checks

RuntimeRuns ==
  /\ ThreadStep \/ \E p \in Procs : WorkerStep(p)
  /\ UNCHANGED <<campaignVars, pc>>

CampaignNext == (ControllerStep \/ RuntimeRuns) /\ Printing

(* The controller is a thread of its own and every wait it makes is        *)
(* bounded, except those for an answer of the coordinator.                 *)
CampaignSpec ==
  /\ CampaignInit
  /\ [][CampaignNext]_allVars
  /\ WF_allVars(ControllerStep /\ Printing)
  /\ WF_allVars(Dispatch(Ctl) /\ UNCHANGED <<campaignVars, pc>> /\ Printing)
  /\ WF_allVars(Respond(Ctl) /\ UNCHANGED <<campaignVars, pc>> /\ Printing)

-----------------------------------------------------------------------------
(* Properties.                                                             *)

Passed == Done /\ unmet = {}

(* Commits a worker process made, as opposed to a replay.                  *)
WorkersOwn == {r \in ledger : r.result = DoWork(Ctl, r.sig.boot)}

(* A campaign that reports PASS earned it: whatever its waits missed, the  *)
(* fresh work was committed by a worker of the coordinator that assigned   *)
(* it, no stale completion was ever accepted, also none that               *)
(* coordinator_death would tolerate, and nothing was committed twice.  The *)
(* last does not hold of persistence_recovery, which starts its second     *)
(* coordinator at the first one's epoch.                                   *)
PassIsEarned ==
  Passed =>
    /\ \E r \in WorkersOwn : r.launch = kept["fresh"].from /\ r.sig.attempt = kept["fresh"].attempt
    /\ resurrected = 0
    /\ campaign # "persistence_recovery" => AtMostOneCommit

(* Without a timeout a campaign reports FAIL for two reasons only.  A      *)
(* refused submission: the campaigns that replace a worker without waiting *)
(* for DEAD can have its successor marked dead, and race_death then finds  *)
(* the old authority still current.  And a lost race: run_multiprocess     *)
(* expects its replay to be the first completion of the submission, which  *)
(* fails when the worker it kills has completed.                           *)
FailureIsExplained ==
  Done /\ ~late =>
    /\ unmet \subseteq {"refused", "raced", "resurrected"}
    /\ "refused" \in unmet =>
         campaign \in {"storm_worker", "storm_alternate", "race_duplicate", "race_death"}
    /\ "resurrected" \in unmet => campaign = "race_death" /\ "refused" \in unmet
    /\ "raced" \in unmet => campaign = "multiprocess" /\ WorkersOwn # {}

(* Campaigns that drop the handle of a worker that runs.                   *)
DropHandle == {"race_epoch_roll", "persistence_recovery"}

(* "All owned processes killed": at the end neither a coordinator nor a    *)
(* worker runs.  Two campaigns drop the handle of their first worker while *)
(* it runs, and only its bounded reconnection ends it.                     *)
NothingSurvives ==
  Done =>
    /\ ~up
    /\ \A p \in Procs :
         \/ proc[p].st \in {"off", "dead"}
         \/ campaign \in DropHandle /\ hand["A"] # p

(* A campaign ends: it waits for nothing without a limit but the answers   *)
(* of a coordinator that serves it, though SHUTDOWN never ends that one.   *)
CampaignEnds == <>Done

-----------------------------------------------------------------------------
(* The shape of the programs that the properties rest on.                  *)

Op(c, i) == Program[c][i].op
Before(c, i, op) == {j \in 1 .. i - 1 : Op(c, j) = op}

(* The calls that can follow call i.                                       *)
Successors(c, i) ==
  LET k == Program[c][i] IN
  {i + 1}
    \cup (IF k.op = "capture" THEN {i + 1 + k.skip} ELSE {})
    \cup (IF k.op = "await"
            THEN {IF k.then = "leave" THEN Len(Body(c)) + 1 ELSE i + 1 + k.skip} ELSE {})

(* Handles launched before call i, and those whose last process the calls  *)
(* before it killed.                                                       *)
Held(c, i) == {Program[c][j].h : j \in Before(c, i, "worker")}
Free(c, i) ==
  {h \in Handles : \A j \in Before(c, i, "worker") : Program[c][j].h = h =>
                     \E k \in Before(c, i, "kill") : k > j /\ Program[c][k].h = h}

(* No submission at all, or none since the coordinator was launched.       *)
Unassigned(c, i) == Before(c, i, "submit") = {}
Unsubmitted(c, i) ==
  \E j \in Before(c, i, "coordinator") : \A k \in Before(c, i, "submit") : k < j

(* The SubmitResult l is captured, and is that of the last submission,     *)
(* which was accepted or the first one; its acceptance has been awaited.   *)
Captured(c, i, l) == \E j \in Before(c, i, "capture") : Program[c][j].label = l
Newest(c, i, l) ==
  \E j \in Before(c, i, "capture") :
    /\ Program[c][j].label = l
    /\ Program[c][j].must \/ Unassigned(c, j - 1)
    /\ \A k \in Before(c, i, "submit") \cup Before(c, i, "coordinator") : k < j
Awaited(c, i, l) ==
  \E j \in Before(c, i, "await") :
    Program[c][j].what = "accepted" /\ Program[c][j].x = l /\ Program[c][j].then = "fail"

(* Whichever calls are skipped, a handle is killed before it is launched   *)
(* into again and at the end, and the coordinator is killed last.          *)
CleansUp(c) ==
  /\ Free(c, Len(Program[c]) + 1) = Handles
  /\ \A i \in 1 .. Len(Program[c]) :
       /\ Op(c, i) \in {"worker", "kill"} => Program[c][i].h \in Handles
       /\ Op(c, i) = "worker" /\ c \notin DropHandle => Program[c][i].h \in Free(c, i)
       /\ \A j \in Successors(c, i) :
            /\ j \in 1 .. Len(Program[c]) + 1
            /\ j = Len(Program[c]) + 1 => Op(c, i) = "killcoordinator"
            /\ Free(c, j) \subseteq Free(c, i + 1)

(* Calls are well formed; only waits that matter skip calls; a submission  *)
(* is captured at once.                                                    *)
WellFormed(c, i) ==
  LET k == Program[c][i] IN
  /\ k.op = "submit" => k.id \in WorkerIds
  /\ k.op = "submit" <=> i < Len(Program[c]) /\ Op(c, i + 1) = "capture"
  /\ k.op = "capture" => i > 1 /\ k.label \in Labels /\ k.must \in BOOLEAN
  /\ k.op = "await" /\ k.then = "ignore" => k.skip = 0
  /\ k.op = "send" => /\ k.label \in Labels
                      /\ k.h \in Held(c, i)
                      /\ k.back \in 0 .. 2
                      /\ k.result \in ReplayResults
                      /\ k.want \in {"accepted", "rejected", "counted"}

(* The fresh work is submitted once, to the coordinator that is asked for  *)
(* its acceptance; only replays made before it are expected to be accepted *)
(* or tolerated, and those only by a coordinator without work of its own.  *)
(* Relaunches follow the capture of the last submission.                   *)
ReplaysInOrder(c, i) ==
  LET k == Program[c][i] IN
  /\ k.op = "capture" /\ k.label = "fresh" => k.must /\ ~Captured(c, i, "fresh")
  /\ k.op = "send" /\ k.want # "rejected" => ~Captured(c, i, "fresh")
  /\ k.op = "send" /\ k.want = "counted" => Unsubmitted(c, i)
  /\ k.op = "send" /\ k.want = "accepted" => c # "persistence_recovery"
  /\ k.op = "await" /\ k.what = "accepted" /\ k.x = "fresh" => Captured(c, i, "fresh")
  /\ k.op = "coordinator" /\ Captured(c, i, "fresh") => Awaited(c, i, "fresh")
  /\ k.op = "coordinator" => k.from \in Labels \cup {"default"}
  /\ k.op = "coordinator" /\ c # "persistence_recovery" =>
       IF k.from = "default" THEN Unassigned(c, i) ELSE Newest(c, i, k.from)

ASSUME ProgramAssumption ==
  \A c \in Campaign :
    /\ Len(Program[c]) \in Nat
    /\ CleansUp(c)
    /\ \A i \in 1 .. Len(Program[c]) : WellFormed(c, i) /\ ReplaysInOrder(c, i)
    /\ Awaited(c, Len(Program[c]) + 1, "fresh")
-----------------------------------------------------------------------------
(* The inductive invariant behind NothingSurvives: a free handle owns no   *)
(* running process, and but for the campaigns that drop one, every running *)
(* process is owned by a handle.                                           *)
HandleInv ==
  /\ campaign \in Campaign
  /\ pc \in 1 .. Len(Program[campaign]) + 1
  /\ proc \in [Procs -> ProcType]
  /\ hand \in [Handles -> Procs \cup {NoProc}]
  /\ \A h \in Handles : hand[h] # NoProc => proc[hand[h]].st # "off"
  /\ \A h \in Free(campaign, pc) : ~Running(h)
  /\ campaign \notin DropHandle =>
       \A p \in Procs : proc[p].st \in {"off", "dead"} \/ \E h \in Handles : hand[h] = p
  /\ Done => ~up

(* The one behind PassIsEarned.  It describes the campaigns that nothing   *)
(* has failed yet: those have skipped no call.                             *)

(* No replay committed this submission.                                    *)
OnlyWorkersCommit(launch, attempt) ==
  \A r \in ledger : r.launch = launch /\ r.sig.attempt = attempt => r \in WorkersOwn

(* The answer to a submission, while its thread works and once it is there.*)
SubmissionInv ==
  /\ thread[Ctl].pc # "idle" =>
       /\ Op(campaign, pc) = "capture"
       /\ Ctl \in serving
       /\ thread[Ctl].attempt = cur.attempt /\ cur.attempt > 0
       /\ OnlyWorkersCommit(launches, cur.attempt)
  /\ ~Done /\ Op(campaign, pc) = "capture" /\ thread[Ctl].pc = "idle" =>
       IF grant[Ctl].attempt = 0
         THEN Unassigned(campaign, pc - 1) => assigned = {}
         ELSE /\ grant[Ctl].epoch = epoch
              /\ grant[Ctl].from = launches
              /\ OnlyWorkersCommit(launches, grant[Ctl].attempt)

(* What the calls made so far have established.                            *)
ProgressInv ==
  /\ kept \in [Labels -> GrantType]
  /\ \A h \in Held(campaign, pc) : hand[h] \in Procs
  /\ Unassigned(campaign, pc) => assigned = {}
  /\ Unsubmitted(campaign, pc) => ~hasSubmitted
  /\ campaign # "persistence_recovery" =>
       \A l \in Labels : Newest(campaign, pc, l) =>
         \A a \in assigned : a.epoch <= kept[l].epoch
  /\ Captured(campaign, pc, "fresh") =>
       /\ ~Awaited(campaign, pc, "fresh") => kept["fresh"].from = launches
       /\ OnlyWorkersCommit(kept["fresh"].from, kept["fresh"].attempt)
  /\ Awaited(campaign, pc, "fresh") =>
       /\ Captured(campaign, pc, "fresh")
       /\ \E r \in WorkersOwn :
            r.launch = kept["fresh"].from /\ r.sig.attempt = kept["fresh"].attempt
  /\ resurrected = 0

(* Commits are of coordinators launched so far, and of their submissions.  *)
LaunchLedgerInv ==
  \A r \in ledger :
    /\ r.launch <= launches
    /\ up /\ r.launch = launches => r.sig.attempt <= next.attempt

StraightInv ==
  /\ TypeOK
  /\ CoordBase
  /\ IdentityInv
  /\ LaunchLedgerInv
  /\ SubmissionInv
  /\ ProgressInv
  /\ campaign # "persistence_recovery" => CoordInv

PassInv == unmet = {} => StraightInv
=============================================================================
