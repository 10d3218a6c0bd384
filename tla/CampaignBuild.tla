---------------------------- MODULE CampaignBuild ----------------------------
(***************************************************************************)
(* How a campaign definition comes to be: ScenarioBuilder and the named     *)
(* scenarios of the command line, CampaignFuzzer, reduce_campaign, the      *)
(* check ChaosCampaign::validate, and the graph of campaign phases.         *)
(*                                                                          *)
(* Every target id of the code carries the owned bit, which is left out: a  *)
(* target id is its counter, and 0 is kGlobal.  Fault categories, scopes,   *)
(* parameters, names and texts decide nothing here and are left out.        *)
(***************************************************************************)
EXTENDS Integers, FiniteSets, Sequences, SequencesExt

CONSTANTS
  Kinds,           \* kinds of target the builder's caller declares
  Ops,             \* builder calls its caller makes
  PassedIds,       \* target ids its caller passes, declared or not
  Seeds,
  Names,           \* names given to the scenario commands
  MaxBuilder,      \* builder calls, a bound of the model
  MaxWorkers,      \* max_workers and max_faults of generate()
  MaxFaults,
  CoordinatorId    \* the id 0x8001 the fuzzer gives its coordinator

ASSUME FuzzAssumption ==
  /\ MaxWorkers \in Nat \ {0} /\ MaxFaults \in Nat \ {0}
  /\ CoordinatorId \in Nat /\ CoordinatorId > MaxWorkers /\ CoordinatorId > 3

VARIABLES
  maker,      \* "builder", "named", "fuzzer" or "phases": what this behaviour does
  draft,      \* the builder: s_, seed_ and the three counters
  calls,      \* builder calls so far
  earlier,    \* history: targets that went into an earlier scenario of the builder
  campaign,   \* the finished campaign: of build(), of generate(), being reduced
  stage,      \* "making", "made", or the loop reduce_campaign is in
  original,   \* the campaign reduce_campaign was given
  predicate,  \* still_fails: the faults and the targets the failure needs
  cursor,     \* i of the loop, from 1
  phase,      \* the phase of a campaign that runs
  trail       \* history: the phases it has been in

reduceVars == <<original, predicate, cursor>>
phaseVars == <<phase, trail>>
buildVars == <<maker, draft, calls, earlier, campaign, stage, reduceVars, phaseVars>>

Empty == [seed |-> 0, targets |-> <<>>, faults |-> <<>>, assertions |-> <<>>,
          steps |-> <<>>, cleanups |-> {}, children |-> 1, precondition |-> 0]

TargetIds(c) == {c.targets[i].id : i \in DOMAIN c.targets}
FaultIds(c) == {c.faults[i].id : i \in DOMAIN c.faults}

OwningKinds == {"PROCESS", "WORKER", "COORDINATOR"}
DestructiveOps == {"KILL_PROCESS", "CLOSE_SOCKET", "CORRUPT_FRAME",
                   "TRUNCATE_FILE", "REDUCE_CAPACITY", "INJECT_FAULT"}
CheckedOps == {"ASSERT_STATE", "ASSERT_REJECTED"}
GlobalAssertions == {"EXACTLY_ONE_AUTHORITY", "NO_DOUBLE_COMMIT"}
AssertionOps == GlobalAssertions \cup
  {"NO_LEAK", "PROCESS_ALIVE", "PROCESS_EXIT", "ACCOUNTING_ZERO", "RECOVERY_COMPLETE"}

Phases == {"SETUP", "BASELINE", "ARMED", "INJECTING", "OBSERVING", "RECOVERING",
           "VERIFYING", "CLEANUP", "COMPLETE", "FAILED", "ABORTED"}
-----------------------------------------------------------------------------
(* ChaosCampaign::validate.  No maker sets the other limits it looks at.     *)
Validate(c) ==
  /\ c.children >= 1 /\ c.seed # 0
  /\ \A i, j \in DOMAIN c.targets : i # j => c.targets[i].id # c.targets[j].id
  /\ \A i \in DOMAIN c.targets : c.targets[i].kind = "PROCESS" => c.targets[i].executable
  /\ \A i \in DOMAIN c.faults : c.faults[i].target \in TargetIds(c)
-----------------------------------------------------------------------------
(* ScenarioBuilder: what each call makes of the draft.                       *)

NewBuilder(s) ==
  [seed |-> s, targets |-> <<>>, faults |-> <<>>, assertions |-> <<>>, steps |-> <<>>,
   cleanups |-> {}, children |-> 1, precondition |-> 0, target |-> 1, fault |-> 1, assertion |-> 1]

WithTarget(d, kind, exe) ==
  [d EXCEPT !.targets = Append(@, [id |-> d.target, kind |-> kind, executable |-> exe,
                                   owns |-> kind \in OwningKinds]),
            !.target = @ + 1]

AddStep(d, op, t) == [d EXCEPT !.steps = Append(@, [op |-> op, target |-> t])]

AddFault(d, t) ==
  [d EXCEPT !.faults = Append(@, [id |-> d.fault, target |-> t]), !.fault = @ + 1]

AddAssertion(d, kind, t) ==
  [d EXCEPT !.assertions = Append(@, [id |-> d.assertion, kind |-> kind, target |-> t]),
            !.assertion = @ + 1]

Call(d, op, t) ==
  LET s == IF op \in AssertionOps THEN d ELSE AddStep(d, op, t)
      f == IF op \in DestructiveOps THEN AddFault(s, t) ELSE s
  IN IF op \in AssertionOps \cup CheckedOps THEN AddAssertion(f, op, t) ELSE f

(* build() moves s_ out: its vectors are empty afterwards, its numbers stay. *)
Scenario(d) ==
  [seed |-> d.seed, targets |-> d.targets, faults |-> d.faults, assertions |-> d.assertions,
   steps |-> d.steps, cleanups |-> d.cleanups, children |-> d.children,
   precondition |-> d.precondition]

\* Mutant: a second scenario is built by a builder that starts over.
MovedFromFresh(d) == NewBuilder(d.seed)

MovedFrom(d) ==
  [d EXCEPT !.targets = <<>>, !.faults = <<>>, !.assertions = <<>>, !.steps = <<>>]

BuilderCall(d) ==
  /\ maker = "builder" /\ calls < MaxBuilder
  /\ calls' = calls + 1 /\ draft' = d /\ stage' = "making"
  /\ UNCHANGED <<maker, reduceVars, phaseVars>>

Seed(s) == BuilderCall([draft EXCEPT !.seed = s]) /\ UNCHANGED <<earlier, campaign>>

Envelope(n) == BuilderCall([draft EXCEPT !.children = n]) /\ UNCHANGED <<earlier, campaign>>

Target(kind, exe) ==
  BuilderCall(WithTarget(draft, kind, exe)) /\ UNCHANGED <<earlier, campaign>>

Schedule(op, t) ==
  BuilderCall(Call(draft, op, IF op \in GlobalAssertions THEN 0 ELSE t))
    /\ UNCHANGED <<earlier, campaign>>

Build ==
  /\ BuilderCall(MovedFrom(draft)) /\ calls > 0
  /\ campaign' = Scenario(draft)
  /\ earlier' = earlier \cup TargetIds(campaign)
-----------------------------------------------------------------------------
(* make_named_scenario, which knows the ids the builder will hand out.       *)
Coord == 1
WorkerA == 2

NamedTargets(d) ==
  WithTarget(WithTarget(WithTarget(d, "COORDINATOR", TRUE), "WORKER", TRUE), "WORKER", TRUE)

NamedCalls(name) ==
  LET onA(ops) == [i \in DOMAIN ops |-> <<ops[i], WorkerA>>]
  IN <<<<"START_PROCESS", Coord>>>>
     \o onA(<<"START_PROCESS", "WAIT_FOR_REGISTRATION", "DISPATCH_WORK", "CAPTURE_AUTHORITY">>)
     \o CASE name \in {"worker-death", "cuda-worker-death"} ->
               onA(<<"KILL_PROCESS", "RESTART_PROCESS">>)
               \o <<<<"EXACTLY_ONE_AUTHORITY", 0>>, <<"NO_DOUBLE_COMMIT", 0>>>>
          [] name = "transport-cut" -> onA(<<"INJECT_FAULT", "ASSERT_STATE">>)
          [] name = "persistence-corruption" -> onA(<<"TRUNCATE_FILE", "ASSERT_STATE">>)
          [] name = "stale-authority" -> onA(<<"INJECT_FAULT", "INJECT_FAULT", "ASSERT_REJECTED">>)
          [] OTHER -> <<>>

MakeNamed(name) ==
  /\ maker = "named" /\ stage = "making"
  /\ campaign' = Scenario(FoldLeft(LAMBDA d, c : Call(d, c[1], c[2]),
                                   NamedTargets(NewBuilder(1)), NamedCalls(name)))
  /\ stage' = "made"
  /\ UNCHANGED <<maker, draft, calls, earlier, reduceVars, phaseVars>>
-----------------------------------------------------------------------------
(* CampaignFuzzer::generate: w workers and k faults, each drawn from its     *)
(* range.  Fault number i is aimed at worker (i % 3) + 1 whether or not      *)
(* there is one.                                                             *)

FuzzTarget(i) == (i % 3) + 1

\* Mutant: the coordinator is declared after the cleanup actions are listed.
FuzzCleanupWorkers(ts) == {ts[i].id : i \in {j \in DOMAIN ts : ts[j].kind = "WORKER"}}

FuzzCleanup(ts) == {ts[i].id : i \in {j \in DOMAIN ts : ts[j].owns}}

FuzzCampaign(s, w, k) ==
  LET spec(n, kind) == [id |-> n, kind |-> kind, executable |-> TRUE, owns |-> TRUE]
      ts == Append([i \in 1 .. w |-> spec(i, "WORKER")], spec(CoordinatorId, "COORDINATOR"))
  IN [seed |-> s, targets |-> ts, children |-> w + 2, precondition |-> CoordinatorId,
      faults |-> [i \in 1 .. k |-> [id |-> i, target |-> FuzzTarget(i - 1)]],
      assertions |-> <<[id |-> 1, kind |-> "EXACTLY_ONE_AUTHORITY", target |-> 0]>>,
      steps |-> <<>>, cleanups |-> FuzzCleanup(ts)]

Generate(s) ==
  /\ maker = "fuzzer" /\ stage = "making"
  /\ \E w \in 1 .. MaxWorkers, k \in 1 .. MaxFaults : campaign' = FuzzCampaign(s, w, k)
  /\ stage' = "made"
  /\ UNCHANGED <<maker, draft, calls, earlier, reduceVars, phaseVars>>
-----------------------------------------------------------------------------
(* reduce_campaign.  still_fails holds of a campaign that has the targets in *)
(* needs and all the faults of one of the cores: what a failure depends on.  *)
StillFails(c) ==
  /\ predicate.needs \subseteq TargetIds(c)
  /\ \E s \in predicate.cores : s \subseteq FaultIds(c)

(* The predicate of cmd_fuzz and cmd_reduce: any fault is left.              *)
CliPredicate(c) == [cores |-> {{f} : f \in FaultIds(c)}, needs |-> {}]

Reduce(p) ==
  /\ maker = "fuzzer" /\ stage = "made"
  /\ original' = campaign /\ predicate' = p
  /\ stage' = "faults" /\ cursor' = 1
  /\ UNCHANGED <<maker, draft, calls, earlier, campaign, phaseVars>>

WithoutFault(c, i) == [c EXCEPT !.faults = RemoveAt(@, i)]
WithoutTarget(c, i) == [c EXCEPT !.targets = RemoveAt(@, i)]

(* A trial that still fails is kept, and the tail has moved to the cursor.   *)
Try(trial) ==
  IF StillFails(trial)
  THEN campaign' = trial /\ UNCHANGED cursor
  ELSE cursor' = cursor + 1 /\ UNCHANGED campaign

\* Mutant: the cursor moves on when the trial is kept, over the next fault.
TryFaultSkips ==
  /\ stage = "faults" /\ cursor <= Len(campaign.faults)
  /\ cursor' = cursor + 1
  /\ campaign' = IF StillFails(WithoutFault(campaign, cursor))
                 THEN WithoutFault(campaign, cursor) ELSE campaign
  /\ UNCHANGED stage

TryFault ==
  /\ stage = "faults" /\ cursor <= Len(campaign.faults)
  /\ Try(WithoutFault(campaign, cursor))
  /\ UNCHANGED stage

Removable(c, i) ==
  /\ c.targets[i].kind # "COORDINATOR"
  /\ \A f \in DOMAIN c.faults : c.faults[f].target # c.targets[i].id

TryTarget ==
  /\ stage = "targets" /\ cursor <= Len(campaign.targets)
  /\ IF Removable(campaign, cursor)
     THEN Try(WithoutTarget(campaign, cursor))
     ELSE cursor' = cursor + 1 /\ UNCHANGED campaign
  /\ UNCHANGED stage

LoopEnds ==
  /\ UNCHANGED campaign /\ cursor' = 1
  /\ \/ stage = "faults" /\ cursor > Len(campaign.faults) /\ stage' = "targets"
     \/ stage = "targets" /\ cursor > Len(campaign.targets) /\ stage' = "reduced"

ReduceStep ==
  /\ TryFault \/ TryTarget \/ LoopEnds
  /\ UNCHANGED <<maker, draft, calls, earlier, original, predicate, phaseVars>>
-----------------------------------------------------------------------------
(* edge() of src/campaign.cpp: every phase but the last three may also fail  *)
(* or be aborted.                                                            *)
IsTerminal(p) == p \in {"COMPLETE", "FAILED", "ABORTED"}

\* Mutant: what was observed is not verified.
CanTransitionEarly(from, to) ==
  /\ ~IsTerminal(from)
  /\ \/ to \in {"FAILED", "ABORTED"}
     \/ <<from, to>> \in {<<"SETUP", "BASELINE">>, <<"BASELINE", "ARMED">>, <<"ARMED", "INJECTING">>,
                          <<"INJECTING", "OBSERVING">>, <<"OBSERVING", "CLEANUP">>,
                          <<"CLEANUP", "COMPLETE">>}

CanTransition(from, to) ==
  /\ ~IsTerminal(from)
  /\ \/ to \in {"FAILED", "ABORTED"}
     \/ <<from, to>> \in {<<"SETUP", "BASELINE">>, <<"BASELINE", "ARMED">>, <<"ARMED", "INJECTING">>,
                          <<"INJECTING", "OBSERVING">>, <<"INJECTING", "RECOVERING">>,
                          <<"OBSERVING", "RECOVERING">>, <<"OBSERVING", "VERIFYING">>,
                          <<"RECOVERING", "VERIFYING">>, <<"VERIFYING", "CLEANUP">>,
                          <<"CLEANUP", "COMPLETE">>}

Transition(to) ==
  /\ maker = "phases" /\ CanTransition(phase, to)
  /\ phase' = to /\ trail' = Append(trail, to)
  /\ UNCHANGED <<maker, draft, calls, earlier, campaign, stage, reduceVars>>
-----------------------------------------------------------------------------
BuildInit ==
  /\ maker \in {"builder", "named", "fuzzer", "phases"}
  /\ draft = NewBuilder(1) /\ calls = 0 /\ earlier = {}
  /\ campaign = Empty /\ original = Empty /\ stage = "making"
  /\ predicate = [cores |-> {}, needs |-> {}] /\ cursor = 1
  /\ phase = "SETUP" /\ trail = <<"SETUP">>

BuildNext ==
  \/ \E s \in Seeds : Seed(s) \/ Generate(s)
  \/ \E n \in {0, 1} : Envelope(n)
  \/ \E kind \in Kinds, exe \in BOOLEAN : Target(kind, exe)
  \/ \E op \in Ops, t \in PassedIds : Schedule(op, t)
  \/ Build
  \/ \E name \in Names : MakeNamed(name)
  \/ Reduce(CliPredicate(campaign))
  \/ \E s1, s2 \in SUBSET FaultIds(campaign), needs \in SUBSET TargetIds(campaign) :
       Reduce([cores |-> {s1, s2}, needs |-> needs])
  \/ ReduceStep
  \/ \E to \in Phases : Transition(to)
-----------------------------------------------------------------------------
(* ScenarioBuilder keeps its counters when build() takes the scenario away.  *)
(* A handle of an earlier scenario then never names a target of a later one: *)
(* a scenario that passes the other checks of validate() is valid exactly    *)
(* when what it destroys was declared for it.                                *)
StaleHandlesAreCaught ==
  LET built == maker = "builder" /\ campaign.steps # <<>> /\ campaign.seed # 0 /\ campaign.children >= 1
      runnable == \A i \in DOMAIN campaign.targets :
                    campaign.targets[i].kind = "PROCESS" => campaign.targets[i].executable
      destroyed == {campaign.steps[i].target :
                      i \in {j \in DOMAIN campaign.steps : campaign.steps[j].op \in DestructiveOps}}
  IN built /\ runnable => (Validate(campaign) <=> destroyed \subseteq TargetIds(campaign) \ earlier)

(* make_named_scenario writes target ids down as numbers.  They are the      *)
(* coordinator and worker A that the declarations above them produce, every  *)
(* named scenario validates, and nothing is destroyed that was not started.  *)
NamedScenariosAreSound ==
  LET kind(t) == {campaign.targets[i].kind : i \in {j \in DOMAIN campaign.targets : campaign.targets[j].id = t}}
      started(t, n) == \E i \in 1 .. n - 1 : campaign.steps[i] = [op |-> "START_PROCESS", target |-> t]
  IN maker = "named" /\ stage = "made" =>
       /\ Validate(campaign)
       /\ kind(Coord) = {"COORDINATOR"} /\ kind(WorkerA) = {"WORKER"}
       /\ \A n \in DOMAIN campaign.steps :
            campaign.steps[n].op \in DestructiveOps => started(campaign.steps[n].target, n)

(* generate() promises a campaign that can be run.  Every process it owns is *)
(* killed in cleanup and fits the envelope; but it aims the first three      *)
(* faults at workers 1 to 3, so validate() accepts it exactly when there are *)
(* as many workers as the faults reach.                                      *)
GeneratedIsRunnable ==
  maker = "fuzzer" /\ stage = "made" =>
    /\ \A i \in DOMAIN campaign.targets :
         campaign.targets[i].owns => campaign.targets[i].id \in campaign.cleanups
    /\ Len(campaign.targets) <= campaign.children
    /\ Validate(campaign) <=>
         /\ campaign.seed # 0
         /\ \A n \in 1 .. 3 : Len(campaign.faults) >= n => Len(campaign.targets) - 1 >= n

(* reduce_campaign "Minimize[s] a campaign while preserving the failure      *)
(* predicate": at every moment the reduced campaign fails when the original  *)
(* does, keeps its order and its coordinator, and stays valid if it was.     *)
ReductionPreserves ==
  stage \in {"faults", "targets", "reduced"} =>
    /\ StillFails(campaign) <=> StillFails(original)
    /\ campaign.precondition \in TargetIds(campaign)
    /\ Validate(original) => Validate(campaign)
    /\ \A i \in 1 .. Len(campaign.faults) - 1 : campaign.faults[i].id < campaign.faults[i + 1].id

(* One pass over the faults and one over the targets is enough: nothing that *)
(* the reducer may remove is left that could go without losing the failure.  *)
(* The faults left are a smallest set that fails; with the predicate of the  *)
(* command line exactly one fault is left.                                   *)
ReductionIsMinimal ==
  stage = "reduced" /\ StillFails(original) =>
    /\ \A i \in DOMAIN campaign.faults : ~StillFails(WithoutFault(campaign, i))
    /\ \A i \in DOMAIN campaign.targets :
         Removable(campaign, i) => ~StillFails(WithoutTarget(campaign, i))
    /\ FaultIds(campaign) \in predicate.cores
    /\ predicate = CliPredicate(original) => Len(campaign.faults) = 1

(* The phase graph: no phase comes twice, and a campaign is complete only    *)
(* after it injected, verified and cleaned up, in that order.                *)
CompleteIsEarned ==
  /\ \A i, j \in DOMAIN trail : i # j => trail[i] # trail[j]
  /\ phase = "COMPLETE" =>
       \E i, j, k \in DOMAIN trail :
         /\ i < j /\ j < k
         /\ trail[i] = "INJECTING" /\ trail[j] = "VERIFYING" /\ trail[k] = "CLEANUP"

(* What a maker of campaigns hands on can be run: the named scenarios        *)
(* always, a generated one under the condition above.                        *)
MadeIsRunnable == NamedScenariosAreSound /\ GeneratedIsRunnable

(* The contract of reduce_campaign: the failure survives every step, and at  *)
(* the end nothing removable is left.                                        *)
ReductionIsSound == ReductionPreserves /\ ReductionIsMinimal

(* Why the phase graph has no way round: each edge climbs, and a phase past  *)
(* injection, verification or cleanup has been through it.                   *)
Rank == [p \in Phases |->
  CASE p = "SETUP" -> 0 [] p = "BASELINE" -> 1 [] p = "ARMED" -> 2 [] p = "INJECTING" -> 3
    [] p = "OBSERVING" -> 4 [] p = "RECOVERING" -> 5 [] p = "VERIFYING" -> 6
    [] p = "CLEANUP" -> 7 [] p = "COMPLETE" -> 8 [] OTHER -> 9]

BeenIn(p) == \E i \in DOMAIN trail : trail[i] = p

PhaseInv ==
  /\ trail \in Seq(Phases) /\ Len(trail) > 0 /\ phase = trail[Len(trail)]
  /\ \A i, j \in DOMAIN trail : i < j => Rank[trail[i]] < Rank[trail[j]]
  /\ ~IsTerminal(phase) \/ phase = "COMPLETE" =>
       /\ Rank[phase] >= 3 => BeenIn("INJECTING")
       /\ Rank[phase] >= 6 => BeenIn("VERIFYING")
       /\ Rank[phase] >= 7 => BeenIn("CLEANUP")

(* What the fuzzer hands to the reducer.                                     *)
GeneratedInv ==
  maker = "fuzzer" /\ stage = "made" =>
    \E s \in Seeds, w \in 1 .. MaxWorkers, k \in 1 .. MaxFaults : campaign = FuzzCampaign(s, w, k)

(* What one pass of the reducer rests on: the campaign only loses faults and *)
(* targets, keeps its coordinator and the order of both, and what lies       *)
(* behind the cursor cannot go, now or after more has gone.                  *)
GeneratedTarget ==
  [id : Nat, kind : {"WORKER", "COORDINATOR"}, executable : {TRUE}, owns : {TRUE}]
GeneratedFault == [id : Nat, target : Nat]

ReducibleCampaign ==
  [seed : Seeds, children : Nat, precondition : {CoordinatorId}, steps : {<<>>},
   targets : Seq(GeneratedTarget), faults : Seq(GeneratedFault),
   assertions : {<<[id |-> 1, kind |-> "EXACTLY_ONE_AUTHORITY", target |-> 0]>>},
   cleanups : SUBSET Nat]

Ascending(s) == \A i, j \in DOMAIN s : i < j => s[i].id < s[j].id

Reducible(c) ==
  /\ c \in ReducibleCampaign
  /\ Ascending(c.faults) /\ Ascending(c.targets)
  /\ \E i \in DOMAIN c.targets :
       c.targets[i].id = c.precondition /\ c.targets[i].kind = "COORDINATOR"

FaultsTried(n) == \A i \in DOMAIN campaign.faults : i < n => ~StillFails(WithoutFault(campaign, i))

TargetsTried(n) ==
  \A i \in DOMAIN campaign.targets :
    i < n /\ Removable(campaign, i) => ~StillFails(WithoutTarget(campaign, i))

ReduceInv ==
  /\ stage \in {"making", "made", "faults", "targets", "reduced"}
  /\ stage \in {"faults", "targets", "reduced"} =>
       /\ maker = "fuzzer" /\ cursor \in Nat \ {0}
       /\ Reducible(campaign)
       /\ TargetIds(campaign) \subseteq TargetIds(original)
       /\ FaultIds(campaign) \subseteq FaultIds(original)
       /\ StillFails(original) => StillFails(campaign)
       /\ Validate(original) => Validate(campaign)
  /\ stage = "faults" => FaultsTried(cursor)
  /\ stage \in {"targets", "reduced"} => FaultsTried(Len(campaign.faults) + 1)
  /\ stage = "targets" => TargetsTried(cursor)
  /\ stage = "reduced" => TargetsTried(Len(campaign.targets) + 1)

(* Why a handle of an earlier scenario is stale: the counter of target ids   *)
(* is past every id given out, and each destructive step has its fault.      *)
DeclaredTarget == [id : Nat, kind : Kinds, executable : BOOLEAN, owns : BOOLEAN]
PlannedFault == [id : Nat, target : PassedIds \cup {0}]
PlannedStep == [op : Ops, target : PassedIds \cup {0}]
PlannedAssertion == [id : Nat, kind : Ops, target : PassedIds \cup {0}]

BuilderDraft ==
  [seed : Seeds \cup {0, 1}, children : {0, 1}, precondition : {0}, cleanups : {{}},
   targets : Seq(DeclaredTarget), faults : Seq(PlannedFault), assertions : Seq(PlannedAssertion),
   steps : Seq(PlannedStep), target : Nat, fault : Nat, assertion : Nat]

BuiltScenario ==
  [seed : Seeds \cup {0, 1}, children : {0, 1}, precondition : {0}, cleanups : {{}},
   targets : Seq(DeclaredTarget), faults : Seq(PlannedFault), assertions : Seq(PlannedAssertion),
   steps : Seq(PlannedStep)]

Distinct(c) == \A i, j \in DOMAIN c.targets : i # j => c.targets[i].id # c.targets[j].id

FaultsMatchSteps(c) ==
  \A t \in PassedIds \cup {0} :
    (\E i \in DOMAIN c.steps : c.steps[i].op \in DestructiveOps /\ c.steps[i].target = t)
    <=> (\E i \in DOMAIN c.faults : c.faults[i].target = t)

BuilderInv ==
  maker = "builder" =>
    /\ draft \in BuilderDraft
    /\ campaign \in BuiltScenario
    /\ \A t \in earlier \cup TargetIds(campaign) \cup TargetIds(draft) : t \in Nat /\ t < draft.target
    /\ Distinct(draft) /\ Distinct(campaign)
    /\ TargetIds(campaign) \cap earlier = {}
    /\ TargetIds(draft) \cap (earlier \cup TargetIds(campaign)) = {}
    /\ FaultsMatchSteps(draft) /\ FaultsMatchSteps(campaign)
=============================================================================
