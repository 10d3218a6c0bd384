--------------------------- MODULE FaultScheduler ---------------------------
(***************************************************************************)
(* FaultScheduler (src/scheduler.cpp) and the plan replay that drives a     *)
(* fresh one over a recorded event sequence (src/replay.cpp).               *)
(*                                                                          *)
(* A campaign is the sequence of its faults.  Of a FaultSpec the scheduler  *)
(* reads the category and the parameters trigger, trigger_name and          *)
(* at_count; an absent parameter is NoParam.  at_count is kept as the       *)
(* sequence of its characters, a hexadecimal digit as its value and any     *)
(* other character as NotHex, because from_hex decides what it means.       *)
(* Injection ids come from the seeded generator one per fault, so the index *)
(* of a fault stands for its id.                                            *)
(***************************************************************************)
EXTENDS Naturals, Sequences, FiniteSets, SequencesExt

CONSTANTS
  Campaigns,         \* the fault schedules a scheduler may be given
  Names,             \* names of observed events, states and messages
  Word,              \* 2^w, the range of the at_count integer
  MaxObservations    \* observations between two plans, a bound of the model

NoParam == "no param"
NotHex == 16

VARIABLES
  campaign,   \* the schedule last given to plan()
  schedule,   \* schedule_: what is armed, in order
  counts,     \* counts_: event name -> occurrences; absent names are not in its domain
  seen,       \* history: observations since plan(), [via, name]
  fired       \* history: the injections each try_fire pass returned since plan()

vars == <<campaign, schedule, counts, seen, fired>>

-----------------------------------------------------------------------------
TriggerKinds == <<"event_count", "state_transition", "protocol_message",
  "operation_phase", "process_registration", "dispatch", "completion_boundary",
  "persistence_phase", "explicit_barrier", "resource_threshold", "none">>

\* The spellings plan() accepts for the trigger parameter: every kind that an
\* observation can name but OPERATION_PHASE.
OverridableKinds == ToSet(TriggerKinds) \ {"operation_phase", "none"}

BoundaryFaults == {"process_termination", "process_crash", "process_stall",
  "worker_death", "coordinator_death", "recovery_failure", "rollback_failure"}
MessageFaults == {"socket_close", "socket_reset", "socket_half_close",
  "connection_drop", "frame_truncation", "frame_corruption", "frame_duplication",
  "frame_reorder", "frame_delay", "duplicate_message", "conflicting_duplicate"}
AuthorityFaults == {"stale_epoch", "stale_boot", "stale_attempt",
  "stale_generation", "stale_dispatch"}
FileFaults == {"partial_file_write", "persistence_truncation",
  "persistence_corruption", "bad_checksum", "bad_version", "disk_write_failure"}
PressureFaults == {"resource_exhaustion", "host_memory_pressure",
  "device_memory_pressure", "reservation_exhaustion", "capacity_reduction",
  "cuda_allocation_failure"}
StateFaults == {"shutdown_race", "restart_race", "clock_skew_simulation",
  "invalid_state_injection"}

\* default_trigger: the kind of observation a category waits for.
DefaultTrigger(category) ==
  CASE category \in BoundaryFaults  -> "completion_boundary"
    [] category \in MessageFaults   -> "protocol_message"
    [] category \in AuthorityFaults -> "explicit_barrier"
    [] category \in FileFaults      -> "persistence_phase"
    [] category \in PressureFaults  -> "resource_threshold"
    [] category \in StateFaults     -> "state_transition"
    [] OTHER                        -> "event_count"

\* from_hex succeeds on a nonempty text of hexadecimal digits and keeps the
\* low bits of the number.
IsHex(text) == text # <<>> /\ NotHex \notin ToSet(text)
FromHex(text) == FoldLeft(LAMBDA v, d : (v * 16 + d) % Word, 0, text)

AtCount(f) == IF f.at_count # NoParam /\ IsHex(f.at_count) THEN FromHex(f.at_count) ELSE 1

Armed(f) ==
  LET kind == IF f.trigger \in OverridableKinds THEN f.trigger
                                                ELSE DefaultTrigger(f.category)
  IN [trigger |-> kind,
      name    |-> IF f.trigger_name = NoParam THEN kind ELSE f.trigger_name,
      at      |-> AtCount(f),
      fired   |-> FALSE]

Planned(c) == [i \in DOMAIN c |-> Armed(c[i])]

-----------------------------------------------------------------------------
(* One try_fire pass over a schedule releases the injections of one kind    *)
(* that an observation of that kind and name makes due.  They come out in   *)
(* schedule order, so the set of them is the whole answer of a pass, and    *)
(* what a scheduler hands out is a sequence of such sets.  An empty         *)
(* trigger_name matches every name.                                         *)
\* Mutant: one occurrence too many is waited for.
ReleasesLate(si, kind, name, count) ==
  /\ ~si.fired
  /\ si.trigger = kind
  /\ si.name \in {"", name}
  /\ kind = "event_count" => count > si.at
Releases(si, kind, name, count) ==
  /\ ~si.fired
  /\ si.trigger = kind
  /\ si.name \in {"", name}
  /\ kind = "event_count" => count >= si.at

TryFire(s, kind, name, count) == {i \in DOMAIN s : Releases(s[i], kind, name, count)}

HandedOut(passes) == UNION ToSet(passes)

MarkFired(s, passes) ==
  [i \in DOMAIN s |-> [trigger |-> s[i].trigger, name |-> s[i].name, at |-> s[i].at,
                       fired |-> s[i].fired \/ i \in HandedOut(passes)]]

\* observe_event counts the event, then tries every kind of trigger in turn.
Bumped(c, e) == [n \in DOMAIN c \cup {e} |-> (IF n \in DOMAIN c THEN c[n] ELSE 0)
                                             + (IF n = e THEN 1 ELSE 0)]
EventFires(s, c, e) ==
  [k \in 1 .. Len(TriggerKinds) |-> TryFire(s, TriggerKinds[k], e, Bumped(c, e)[e])]

NoCounts == [n \in {} |-> 0]

-----------------------------------------------------------------------------
Init ==
  /\ campaign = <<>>
  /\ schedule = <<>>
  /\ counts = NoCounts
  /\ seen = <<>>
  /\ fired = <<>>

\* Mutant: plan() keeps the event counts of the campaign before.
PlanKeepsCounts(c) ==
  /\ campaign' = c
  /\ schedule' = Planned(c)
  /\ seen' = <<>>
  /\ fired' = <<>>
  /\ UNCHANGED counts
\* plan() forgets what the scheduler knew; it may be called again on one object.
Plan(c) ==
  /\ campaign' = c
  /\ schedule' = Planned(c)
  /\ counts' = NoCounts
  /\ seen' = <<>>
  /\ fired' = <<>>

Observe(via, name, passes) ==
  /\ Len(seen) < MaxObservations
  /\ schedule' = MarkFired(schedule, passes)
  /\ fired' = fired \o passes
  /\ seen' = Append(seen, [via |-> via, name |-> name])
  /\ UNCHANGED campaign

ObserveEvent(e) ==
  /\ Observe("event", e, EventFires(schedule, counts, e))
  /\ counts' = Bumped(counts, e)

\* observe_state and observe_message count nothing and try one kind only.
ObserveState(s) ==
  /\ Observe("state", s, <<TryFire(schedule, "state_transition", s, 1)>>)
  /\ UNCHANGED counts

ObserveMessage(m) ==
  /\ Observe("message", m, <<TryFire(schedule, "protocol_message", m, 1)>>)
  /\ UNCHANGED counts

Next ==
  \/ \E c \in Campaigns : Plan(c)
  \/ \E n \in Names : ObserveEvent(n) \/ ObserveState(n) \/ ObserveMessage(n)

Spec == Init /\ [][Next]_vars

-----------------------------------------------------------------------------
AllFired == \A i \in DOMAIN schedule : schedule[i].fired
FiredCount == Cardinality({i \in DOMAIN schedule : schedule[i].fired})

\* replay_plan: a fresh scheduler is planned and stepped over the events; with
\* no events the whole plan counts as fired.
ReplayStep(r, e) ==
  LET passes == EventFires(r.schedule, r.counts, e)
  IN [schedule |-> MarkFired(r.schedule, passes),
      counts   |-> Bumped(r.counts, e),
      fired    |-> r.fired \o passes]

Fresh(c) == [schedule |-> Planned(c), counts |-> NoCounts, fired |-> <<>>]

ReplayPlan(c, events) ==
  LET after[k \in 0 .. Len(events)] ==
        IF k = 0 THEN Fresh(c) ELSE ReplayStep(after[k - 1], events[k])
  IN IF events = <<>> THEN <<DOMAIN c>> ELSE after[Len(events)].fired

\* The code compares the ids in one list; pass by pass is the finer comparison.
SameInjections(c, events, expected) == ReplayPlan(c, events) = expected

-----------------------------------------------------------------------------
(* Properties *)

\* Which occurrence of its kind and name since plan() observation k is, told
\* from the history alone.
Nth(k) == Cardinality({j \in 1 .. k : seen[j] = seen[k]})

\* The n-th observation ob of its kind and name is what injection si waits for:
\* an event may stand for anything, a state or a message only for itself.
Wants(si, ob, n) ==
  /\ \/ ob.via = "event"
     \/ ob.via = "state" /\ si.trigger = "state_transition"
     \/ ob.via = "message" /\ si.trigger = "protocol_message"
  /\ si.name \in {"", ob.name}
  /\ si.trigger = "event_count" => n >= si.at

\* What the plan of injection i asks for has happened since plan().
IsDue(i) == \E k \in DOMAIN seen : Wants(schedule[i], seen[k], Nth(k))

\* An injection has fired exactly when the observations since the last plan()
\* contain what its trigger asks for: never early, never missed, whatever
\* mixture of events, states and messages came before, and however often the
\* scheduler was planned anew (try_fire, observe_event).
FiredWhenDue == \A i \in DOMAIN schedule : schedule[i].fired <=> IsDue(i)

\* Every injection is handed out at most once between two plans, and all_fired
\* and fired_count agree with what was handed out: a controller that acts on the
\* returned ids injects each fault once.
HandedOutOnce ==
  /\ \A j, k \in DOMAIN fired : j # k => fired[j] \cap fired[k] = {}
  /\ HandedOut(fired) = {i \in DOMAIN schedule : schedule[i].fired}
  /\ FiredCount = Cardinality(HandedOut(fired))
  /\ AllFired <=> HandedOut(fired) = DOMAIN campaign

\* The promise of the scheduler to a controller: an injection is handed out
\* exactly when it is due, and once.
FiredOnceWhenDue == FiredWhenDue /\ HandedOutOnce

\* "The same seed + event sequence always yields the same firing decisions":
\* replaying the recorded events of a run that was driven by observe_event alone
\* reproduces its injections in their order, also on a scheduler that was used
\* for another campaign before.  The two exceptions are the code's: a run that
\* observed nothing replays as if everything had fired, and states and messages
\* are not replayed.
ReplayReproduces ==
  (seen # <<>> /\ \A k \in DOMAIN seen : seen[k].via = "event")
    => SameInjections(campaign, [k \in DOMAIN seen |-> seen[k].name], fired)

=============================================================================
