-------------------------- MODULE SchedulerProofs --------------------------
(***************************************************************************)
(* The fault scheduler hands out an injection exactly when it is due and    *)
(* once, for every set of campaigns and names and however long it observes. *)
(*                                                                          *)
(* FiredOnceWhenDue speaks of the history of observations and the code of   *)
(* counters it keeps beside it, so the invariant joins the two: the counter *)
(* of an event is the number of its occurrences in the history.             *)
(*                                                                          *)
(* A replay of a run's events then hands out the same.  That needs no       *)
(* induction over the events: the run is the induction.  After every event  *)
(* the replay of those recorded so far can be carried out in one way, and   *)
(* stands where the scheduler stands.                                       *)
(***************************************************************************)
EXTENDS FaultScheduler, FiniteSetTheorems, SequenceTheorems, TLAPS

Observation == [via : {"event", "state", "message"}, name : Names]

EventSeen(e) == {j \in DOMAIN seen : seen[j] = [via |-> "event", name |-> e]}

CountOf(c, e) == IF e \in DOMAIN c THEN c[e] ELSE 0

ScheduleOK ==
  /\ DOMAIN schedule = DOMAIN campaign
  /\ \A i \in DOMAIN schedule :
       /\ schedule[i].trigger \in ToSet(TriggerKinds)
       /\ schedule[i].fired \in BOOLEAN
  /\ seen \in Seq(Observation)
  /\ fired \in Seq(SUBSET DOMAIN campaign)

CountsAreHonest == \A e \in Names : CountOf(counts, e) = Cardinality(EventSeen(e))

PassesDisjoint == \A j, k \in DOMAIN fired : j # k => fired[j] \cap fired[k] = {}

PassesMarked == HandedOut(fired) = {i \in DOMAIN schedule : schedule[i].fired}

SchedulerInv == ScheduleOK /\ CountsAreHonest /\ FiredWhenDue /\ PassesDisjoint /\ PassesMarked

-----------------------------------------------------------------------------
(* Triggers *)

\* The kinds observe_event tries in turn are eleven different ones.
LEMMA KindsDiffer ==
  /\ Len(TriggerKinds) = 11
  /\ DOMAIN TriggerKinds = 1 .. 11
  /\ \A j, k \in 1 .. 11 : TriggerKinds[j] = TriggerKinds[k] => j = k
BY DEF TriggerKinds

\* Every category has a kind of trigger that observe_event tries (default_trigger).
LEMMA DefaultIsAKind ==
  ASSUME NEW category
  PROVE  DefaultTrigger(category) \in ToSet(TriggerKinds)
<1>1. \A n \in 1 .. 11 : TriggerKinds[n] \in ToSet(TriggerKinds)
  BY KindsDiffer DEF ToSet
<1>2. {"completion_boundary", "protocol_message", "explicit_barrier", "persistence_phase",
       "resource_threshold", "state_transition", "event_count"} \subseteq ToSet(TriggerKinds)
  BY <1>1 DEF TriggerKinds
<1> QED
  BY <1>2 DEF DefaultTrigger

\* What plan() arms waits for such a kind and has not fired.
LEMMA ArmedWaits ==
  ASSUME NEW f
  PROVE  Armed(f).trigger \in ToSet(TriggerKinds) /\ Armed(f).fired = FALSE
<1> DEFINE kind == IF f.trigger \in OverridableKinds THEN f.trigger
                                                     ELSE DefaultTrigger(f.category)
<1>1. kind \in ToSet(TriggerKinds)
  BY DefaultIsAKind DEF OverridableKinds
<1>2. Armed(f).trigger = kind /\ Armed(f).fired = FALSE
  BY DEF Armed
<1> QED
  BY <1>1, <1>2

-----------------------------------------------------------------------------
(* Counting observations *)

\* A further observation leaves the rank of the earlier ones.
LEMMA RanksStay ==
  ASSUME NEW ob \in Observation, seen \in Seq(Observation), seen' = Append(seen, ob)
  PROVE  /\ DOMAIN seen' = DOMAIN seen \cup {Len(seen) + 1}
         /\ seen'[Len(seen) + 1] = ob
         /\ \A k \in DOMAIN seen : seen'[k] = seen[k] /\ Nth(k)' = Nth(k)
<1>1. /\ DOMAIN seen = 1 .. Len(seen) /\ Len(seen) \in Nat
      /\ DOMAIN seen' = 1 .. Len(seen) + 1
      /\ seen'[Len(seen) + 1] = ob
      /\ \A k \in 1 .. Len(seen) : seen'[k] = seen[k]
  OBVIOUS
<1>2. ASSUME NEW k \in DOMAIN seen PROVE Nth(k)' = Nth(k)
  <2>1. {j \in 1 .. k : seen'[j] = seen'[k]} = {j \in 1 .. k : seen[j] = seen[k]}
    BY <1>1, <1>2
  <2> QED
    BY <2>1 DEF Nth
<1> QED
  BY <1>1, <1>2

\* An observed event adds one to its occurrences and to no others, and is the
\* last of them; a state or a message adds to none.
LEMMA OccurrencesGrow ==
  ASSUME NEW ob \in Observation, seen \in Seq(Observation), seen' = Append(seen, ob),
         NEW e \in Names, NEW n, n = Len(seen)
  PROVE  /\ Cardinality(EventSeen(e)) \in Nat
         /\ ob = [via |-> "event", name |-> e]
              => /\ Cardinality(EventSeen(e))' = Cardinality(EventSeen(e)) + 1
                 /\ Nth(n + 1)' = Cardinality(EventSeen(e)) + 1
         /\ ob # [via |-> "event", name |-> e]
              => Cardinality(EventSeen(e))' = Cardinality(EventSeen(e))
<1> DEFINE E == [via |-> "event", name |-> e]
<1>1. /\ n \in Nat /\ DOMAIN seen = 1 .. n /\ DOMAIN seen' = 1 .. n + 1
      /\ seen'[n + 1] = ob /\ n + 1 \notin DOMAIN seen
      /\ \A k \in DOMAIN seen : seen'[k] = seen[k]
  OBVIOUS
<1>2. IsFiniteSet(EventSeen(e)) /\ Cardinality(EventSeen(e)) \in Nat
  <2>1. IsFiniteSet(1 .. n)
    BY <1>1, FS_Interval
  <2>2. EventSeen(e) \subseteq 1 .. n
    BY <1>1 DEF EventSeen
  <2> QED
    BY <2>1, <2>2, FS_Subset, FS_CardinalityType
<1>3. CASE ob = E
  <2>1. EventSeen(e)' = EventSeen(e) \cup {n + 1}
    BY <1>1, <1>3 DEF EventSeen
  <2>2. n + 1 \notin EventSeen(e)
    BY <1>1 DEF EventSeen
  <2>3. Cardinality(EventSeen(e) \cup {n + 1}) = Cardinality(EventSeen(e)) + 1
    BY <1>2, <2>2, FS_AddElement
  <2>4. {j \in 1 .. n + 1 : seen'[j] = seen'[n + 1]} = EventSeen(e) \cup {n + 1}
    BY <1>1, <1>3 DEF EventSeen
  <2>5. Nth(n + 1)' = Cardinality(EventSeen(e) \cup {n + 1})
    BY <2>4 DEF Nth
  <2>6. Cardinality(EventSeen(e))' = Cardinality(EventSeen(e) \cup {n + 1})
    BY <2>1
  <2> QED
    BY <1>2, <1>3, <2>3, <2>5, <2>6
<1>4. CASE ob # E
  <2>1. EventSeen(e)' = EventSeen(e)
    BY <1>1, <1>4 DEF EventSeen
  <2> QED
    BY <1>2, <1>4, <2>1
<1> QED
  BY <1>3, <1>4

-----------------------------------------------------------------------------
(* Observing *)

\* An observation whose passes release what it makes due, and nothing else and
\* nothing twice, keeps what was promised: the fired injections are the due
\* ones, and those handed out before are not handed out again.
LEMMA ObservationKeepsPromise ==
  ASSUME SchedulerInv, NEW via \in {"event", "state", "message"}, NEW name \in Names,
         NEW passes \in Seq(SUBSET DOMAIN schedule), Observe(via, name, passes),
         \A j, k \in DOMAIN passes : j # k => passes[j] \cap passes[k] = {},
         NEW n, n = Len(seen),
         \A i \in DOMAIN schedule :
           i \in HandedOut(passes)
             <=> /\ ~schedule[i].fired
                 /\ Wants(schedule[i], [via |-> via, name |-> name], Nth(n + 1)')
  PROVE  ScheduleOK' /\ FiredWhenDue' /\ PassesDisjoint' /\ PassesMarked'
<1> DEFINE ob == [via |-> via, name |-> name]
           d == DOMAIN campaign
<1>1. /\ schedule' = MarkFired(schedule, passes) /\ fired' = fired \o passes
      /\ seen' = Append(seen, ob) /\ campaign' = campaign
  BY DEF Observe
<1>2. ob \in Observation /\ seen \in Seq(Observation)
  BY DEF Observation, SchedulerInv, ScheduleOK
<1>3. /\ DOMAIN seen' = DOMAIN seen \cup {n + 1} /\ seen'[n + 1] = ob
      /\ \A k \in DOMAIN seen : seen'[k] = seen[k] /\ Nth(k)' = Nth(k)
  BY <1>1, <1>2, RanksStay
<1>4. /\ DOMAIN schedule' = DOMAIN schedule
      /\ \A i \in DOMAIN schedule :
           /\ schedule'[i].trigger = schedule[i].trigger
           /\ schedule'[i].name = schedule[i].name
           /\ schedule'[i].at = schedule[i].at
           /\ schedule'[i].fired = (schedule[i].fired \/ i \in HandedOut(passes))
  BY <1>1 DEF MarkFired
<1>5. DOMAIN schedule = d /\ passes \in Seq(SUBSET d) /\ fired \in Seq(SUBSET d)
  BY DEF SchedulerInv, ScheduleOK
<1>6. ScheduleOK'
  <2>1. seen' \in Seq(Observation)
    BY <1>1, <1>2
  <2>2. fired' \in Seq(SUBSET d)
    BY <1>1, <1>5
  <2>3. ASSUME NEW i \in DOMAIN schedule
        PROVE  schedule'[i].trigger \in ToSet(TriggerKinds) /\ schedule'[i].fired \in BOOLEAN
    BY <1>4, <2>3, Zenon DEF SchedulerInv, ScheduleOK
  <2> QED
    BY <1>1, <1>4, <1>5, <2>1, <2>2, <2>3 DEF ScheduleOK
<1>7. FiredWhenDue'
  <2>1. ASSUME NEW i \in DOMAIN schedule PROVE schedule'[i].fired <=> IsDue(i)'
    <3>1. \A o, r : Wants(schedule'[i], o, r) <=> Wants(schedule[i], o, r)
      BY <1>4, <2>1 DEF Wants
    <3>2. IsDue(i)' <=> IsDue(i) \/ Wants(schedule[i], ob, Nth(n + 1)')
      BY <1>3, <3>1 DEF IsDue
    <3>3. schedule[i].fired <=> IsDue(i)
      BY <2>1 DEF SchedulerInv, FiredWhenDue
    <3> QED
      BY <1>4, <2>1, <3>2, <3>3
  <2> QED
    BY <1>4, <2>1 DEF FiredWhenDue
<1>8. DOMAIN fired = 1 .. Len(fired) /\ DOMAIN passes = 1 .. Len(passes)
      /\ Len(fired) \in Nat /\ Len(passes) \in Nat
  BY <1>5
<1>9. /\ DOMAIN fired' = 1 .. Len(fired) + Len(passes)
      /\ \A k \in 1 .. Len(fired) : fired'[k] = fired[k]
      /\ \A k \in Len(fired) + 1 .. Len(fired) + Len(passes) :
           fired'[k] = passes[k - Len(fired)] /\ k - Len(fired) \in 1 .. Len(passes)
  BY <1>1, <1>5, <1>8
<1>10. \A j \in DOMAIN fired : fired[j] \subseteq HandedOut(fired)
  BY DEF HandedOut, ToSet
<1>11. \A k \in DOMAIN passes : passes[k] \subseteq HandedOut(passes)
  BY DEF HandedOut, ToSet
<1>12. HandedOut(fired) \cap HandedOut(passes) = {}
  <2>1. HandedOut(fired) \subseteq {i \in DOMAIN schedule : schedule[i].fired}
    BY DEF SchedulerInv, PassesMarked
  <2> QED
    BY <2>1
<1>13. PassesDisjoint'
  <2> DEFINE m == Len(fired)
  <2>1. ASSUME NEW j \in DOMAIN fired', NEW k \in DOMAIN fired', j # k
        PROVE  fired'[j] \cap fired'[k] = {}
    <3>1. CASE j <= m /\ k <= m
      BY <1>8, <1>9, <2>1, <3>1 DEF SchedulerInv, PassesDisjoint
    <3>2. CASE j <= m /\ k > m
      <4>1. fired'[j] = fired[j] /\ j \in DOMAIN fired
        BY <1>8, <1>9, <2>1, <3>2
      <4>2. fired'[k] = passes[k - m] /\ k - m \in DOMAIN passes
        BY <1>8, <1>9, <2>1, <3>2
      <4> QED
        BY <1>10, <1>11, <1>12, <4>1, <4>2
    <3>3. CASE j > m /\ k <= m
      <4>1. fired'[k] = fired[k] /\ k \in DOMAIN fired
        BY <1>8, <1>9, <2>1, <3>3
      <4>2. fired'[j] = passes[j - m] /\ j - m \in DOMAIN passes
        BY <1>8, <1>9, <2>1, <3>3
      <4> QED
        BY <1>10, <1>11, <1>12, <4>1, <4>2
    <3>4. CASE j > m /\ k > m
      <4>1. fired'[k] = passes[k - m] /\ k - m \in DOMAIN passes
        BY <1>8, <1>9, <2>1, <3>4
      <4>2. fired'[j] = passes[j - m] /\ j - m \in DOMAIN passes
        BY <1>8, <1>9, <2>1, <3>4
      <4>3. j - m # k - m
        BY <1>8, <1>9, <2>1
      <4> QED
        BY <4>1, <4>2, <4>3
    <3> QED
      BY <1>8, <1>9, <2>1, <3>1, <3>2, <3>3, <3>4
  <2> QED
    BY <2>1 DEF PassesDisjoint
<1>14. PassesMarked'
  <2>1. HandedOut(fired') = HandedOut(fired) \cup HandedOut(passes)
    <3>1. ToSet(fired') \subseteq ToSet(fired) \cup ToSet(passes)
      <4>1. ASSUME NEW k \in DOMAIN fired'
            PROVE  \/ k \in DOMAIN fired /\ fired'[k] = fired[k]
                   \/ \E j \in DOMAIN passes : fired'[k] = passes[j]
        <5>1. CASE k <= Len(fired)
          BY <1>8, <1>9, <4>1, <5>1
        <5>2. CASE k > Len(fired)
          <6>1. k \in Len(fired) + 1 .. Len(fired) + Len(passes)
            BY <1>8, <1>9, <4>1, <5>2
          <6> QED
            BY <1>8, <1>9, <6>1
        <5> QED
          BY <1>8, <1>9, <4>1, <5>1, <5>2
      <4> QED
        BY <4>1 DEF ToSet
    <3>2. ToSet(fired) \subseteq ToSet(fired')
      BY <1>8, <1>9 DEF ToSet
    <3>3. ToSet(passes) \subseteq ToSet(fired')
      <4>1. ASSUME NEW k \in DOMAIN passes PROVE passes[k] \in ToSet(fired')
        <5>1. k + Len(fired) \in DOMAIN fired' /\ fired'[k + Len(fired)] = passes[k]
          <6>1. k + Len(fired) \in Len(fired) + 1 .. Len(fired) + Len(passes)
            BY <1>8, <4>1
          <6>2. k + Len(fired) - Len(fired) = k
            BY <1>8, <4>1
          <6> QED
            BY <1>8, <1>9, <6>1, <6>2
        <5> QED
          BY <5>1 DEF ToSet
      <4> QED
        BY <4>1 DEF ToSet
    <3> QED
      BY <3>1, <3>2, <3>3 DEF HandedOut
  <2>2. HandedOut(passes) \subseteq DOMAIN schedule
    BY DEF HandedOut, ToSet
  <2>3. HandedOut(fired) = {i \in DOMAIN schedule : schedule[i].fired}
    BY DEF SchedulerInv, PassesMarked
  <2>4. {i \in DOMAIN schedule' : schedule'[i].fired} = HandedOut(fired) \cup HandedOut(passes)
    BY <1>4, <2>2, <2>3
  <2> QED
    BY <2>1, <2>4 DEF PassesMarked, HandedOut
<1> QED
  BY <1>6, <1>7, <1>13, <1>14

\* The passes of an event take every kind in turn, so together they release what
\* the event makes due, each injection in the one pass of its kind.
LEMMA EventPasses ==
  ASSUME SchedulerInv, NEW e, NEW c, c = Bumped(counts, e)[e]
  PROVE  /\ EventFires(schedule, counts, e) \in Seq(SUBSET DOMAIN schedule)
         /\ \A j, k \in DOMAIN EventFires(schedule, counts, e) :
              j # k => EventFires(schedule, counts, e)[j]
                         \cap EventFires(schedule, counts, e)[k] = {}
         /\ \A i \in DOMAIN schedule :
              i \in HandedOut(EventFires(schedule, counts, e))
                <=> /\ ~schedule[i].fired
                    /\ Wants(schedule[i], [via |-> "event", name |-> e], c)
<1> DEFINE P == EventFires(schedule, counts, e)
           pass(k) == TryFire(schedule, TriggerKinds[k], e, c)
<1>1. P = [k \in 1 .. 11 |-> pass(k)]
  BY KindsDiffer DEF EventFires
<1>2. \A k : pass(k) \subseteq DOMAIN schedule
  BY DEF TryFire
<1>3. P \in Seq(SUBSET DOMAIN schedule)
  BY <1>1, <1>2
<1>4. ASSUME NEW j \in 1 .. 11, NEW k \in 1 .. 11, j # k PROVE pass(j) \cap pass(k) = {}
  <2>1. TriggerKinds[j] # TriggerKinds[k]
    BY <1>4, KindsDiffer
  <2> QED
    BY <2>1 DEF TryFire, Releases
<1>5. ASSUME NEW i \in DOMAIN schedule
      PROVE  i \in HandedOut(P)
               <=> ~schedule[i].fired /\ Wants(schedule[i], [via |-> "event", name |-> e], c)
  <2>1. i \in HandedOut(P) <=> \E k \in 1 .. 11 : i \in pass(k)
    BY <1>1 DEF HandedOut, ToSet
  <2>2. \E k \in 1 .. 11 : schedule[i].trigger = TriggerKinds[k]
    BY <1>5, KindsDiffer DEF SchedulerInv, ScheduleOK, ToSet
  <2>3. (\E k \in 1 .. 11 : i \in pass(k))
          <=> /\ ~schedule[i].fired
              /\ schedule[i].name \in {"", e}
              /\ schedule[i].trigger = "event_count" => c >= schedule[i].at
    BY <1>5, <2>2 DEF TryFire, Releases
  <2> QED
    BY <2>1, <2>3 DEF Wants
<1> QED
  BY <1>1, <1>3, <1>4, <1>5

\* The one pass of a state or of a message releases what it makes due.
LEMMA SinglePass ==
  ASSUME SchedulerInv, NEW x, NEW c, NEW via, NEW kind,
         \/ via = "state" /\ kind = "state_transition"
         \/ via = "message" /\ kind = "protocol_message"
  PROVE  /\ <<TryFire(schedule, kind, x, 1)>> \in Seq(SUBSET DOMAIN schedule)
         /\ \A j, k \in DOMAIN <<TryFire(schedule, kind, x, 1)>> : j = k
         /\ \A i \in DOMAIN schedule :
              i \in HandedOut(<<TryFire(schedule, kind, x, 1)>>)
                <=> /\ ~schedule[i].fired
                    /\ Wants(schedule[i], [via |-> via, name |-> x], c)
<1> DEFINE T == TryFire(schedule, kind, x, 1)
<1>1. T \subseteq DOMAIN schedule
  BY DEF TryFire
<1>2. HandedOut(<<T>>) = T
  BY DEF HandedOut, ToSet
<1>3. \A i \in DOMAIN schedule :
        i \in T <=> ~schedule[i].fired /\ Wants(schedule[i], [via |-> via, name |-> x], c)
  BY DEF TryFire, Releases, Wants
<1> QED
  BY <1>1, <1>2, <1>3

-----------------------------------------------------------------------------
(* The actions *)

\* plan() arms a fresh schedule and forgets what it counted and handed out.
LEMMA PlanKeepsInv ==
  ASSUME NEW c, Plan(c)
  PROVE  SchedulerInv'
<1>1. /\ campaign' = c /\ schedule' = Planned(c) /\ counts' = NoCounts
      /\ seen' = <<>> /\ fired' = <<>>
  BY DEF Plan
<1>2. DOMAIN schedule' = DOMAIN c
      /\ \A i \in DOMAIN c :
           schedule'[i].trigger \in ToSet(TriggerKinds) /\ schedule'[i].fired = FALSE
  BY <1>1, ArmedWaits DEF Planned
<1>3. ScheduleOK'
  <2>1. seen' \in Seq(Observation)' /\ fired' \in Seq(SUBSET DOMAIN campaign)'
    BY <1>1
  <2> QED
    BY <1>1, <1>2, <2>1 DEF ScheduleOK
<1>4. CountsAreHonest'
  <2>1. ASSUME NEW e \in Names PROVE EventSeen(e)' = {}
    BY <1>1 DEF EventSeen
  <2>2. ASSUME NEW e \in Names PROVE CountOf(counts', e) = 0
    BY <1>1 DEF CountOf, NoCounts
  <2> QED
    BY <2>1, <2>2, FS_EmptySet DEF CountsAreHonest
<1>5. FiredWhenDue'
  BY <1>1, <1>2 DEF FiredWhenDue, IsDue
<1>6. PassesDisjoint'
  BY <1>1 DEF PassesDisjoint
<1>7. PassesMarked'
  <2>1. HandedOut(fired') = {}
    BY <1>1 DEF HandedOut, ToSet
  <2> QED
    BY <1>2, <2>1 DEF PassesMarked, HandedOut
<1> QED
  BY <1>3, <1>4, <1>5, <1>6, <1>7 DEF SchedulerInv

\* observe_event: the count it hands to try_fire is the rank of the event in the
\* history, because its counter was honest before it was bumped.
LEMMA EventKeepsInv ==
  ASSUME SchedulerInv, NEW e \in Names, ObserveEvent(e)
  PROVE  SchedulerInv'
<1> DEFINE ob == [via |-> "event", name |-> e]
<1>0. PICK n : n = Len(seen)
  OBVIOUS
<1>1. PICK P : P = EventFires(schedule, counts, e)
  OBVIOUS
<1>2. Observe("event", e, P) /\ counts' = Bumped(counts, e)
  BY <1>1 DEF ObserveEvent
<1>3. seen' = Append(seen, ob) /\ ob \in Observation /\ seen \in Seq(Observation)
  BY <1>2 DEF Observe, Observation, SchedulerInv, ScheduleOK
<1>4. \A x \in Names : CountOf(counts', x) = CountOf(counts, x) + (IF x = e THEN 1 ELSE 0)
  <2>1. ASSUME NEW x \in Names
        PROVE  CountOf(counts', x) = CountOf(counts, x) + (IF x = e THEN 1 ELSE 0)
    <3>0. CountOf(counts, x) \in Nat
      BY <1>3, <2>1, OccurrencesGrow DEF SchedulerInv, CountsAreHonest
    <3>1. counts' = [y \in DOMAIN counts \cup {e} |-> CountOf(counts, y) + (IF y = e THEN 1 ELSE 0)]
      BY <1>2 DEF Bumped, CountOf
    <3>2. CASE x \in DOMAIN counts \cup {e}
      BY <3>1, <3>2 DEF CountOf
    <3>3. CASE x \notin DOMAIN counts \cup {e}
      BY <3>0, <3>1, <3>3 DEF CountOf
    <3> QED
      BY <3>2, <3>3
  <2> QED
    BY <2>1
<1>5. CountsAreHonest'
  <2>1. ASSUME NEW x \in Names PROVE CountOf(counts', x) = Cardinality(EventSeen(x))'
    <3>1. CASE x = e
      BY <1>3, <1>4, <3>1, OccurrencesGrow DEF SchedulerInv, CountsAreHonest
    <3>2. CASE x # e
      <4>1. ob # [via |-> "event", name |-> x]
        BY <3>2
      <4>2. Cardinality(EventSeen(x))' = Cardinality(EventSeen(x)) /\ Cardinality(EventSeen(x)) \in Nat
        BY <1>3, <2>1, <4>1, OccurrencesGrow
      <4> QED
        BY <1>4, <2>1, <3>2, <4>2 DEF SchedulerInv, CountsAreHonest
    <3> QED
      BY <3>1, <3>2
  <2> QED
    BY <2>1 DEF CountsAreHonest
<1>6. PICK c : c = Bumped(counts, e)[e]
  OBVIOUS
<1>7. Nth(n + 1)' = c
  <2>1. c = CountOf(counts', e)
    BY <1>2, <1>6 DEF Bumped, CountOf
  <2> QED
    BY <1>0, <1>3, <1>4, <2>1, OccurrencesGrow DEF SchedulerInv, CountsAreHonest
<1>8. /\ P \in Seq(SUBSET DOMAIN schedule)
      /\ \A j, k \in DOMAIN P : j # k => P[j] \cap P[k] = {}
      /\ \A i \in DOMAIN schedule :
           i \in HandedOut(P) <=> ~schedule[i].fired /\ Wants(schedule[i], ob, Nth(n + 1)')
  BY <1>1, <1>6, <1>7, EventPasses
<1>9. ScheduleOK' /\ FiredWhenDue' /\ PassesDisjoint' /\ PassesMarked'
  BY <1>0, <1>2, <1>8, ObservationKeepsPromise
<1> QED
  BY <1>5, <1>9 DEF SchedulerInv

\* observe_state and observe_message release in one pass, and count nothing.
LEMMA StateOrMessageKeepsInv ==
  ASSUME SchedulerInv, NEW x \in Names, ObserveState(x) \/ ObserveMessage(x)
  PROVE  SchedulerInv'
<1>0. PICK n : n = Len(seen)
  OBVIOUS
<1>1. PICK via, kind :
        /\ \/ via = "state" /\ kind = "state_transition"
           \/ via = "message" /\ kind = "protocol_message"
        /\ Observe(via, x, <<TryFire(schedule, kind, x, 1)>>)
        /\ counts' = counts
  BY DEF ObserveState, ObserveMessage
<1>2. PICK P : P = <<TryFire(schedule, kind, x, 1)>>
  OBVIOUS
<1> DEFINE ob == [via |-> via, name |-> x]
<1>3. seen' = Append(seen, ob) /\ ob \in Observation /\ seen \in Seq(Observation)
  BY <1>1 DEF Observe, Observation, SchedulerInv, ScheduleOK
<1>4. CountsAreHonest'
  <2>1. ASSUME NEW e \in Names PROVE CountOf(counts', e) = Cardinality(EventSeen(e))'
    <3>1. ob # [via |-> "event", name |-> e]
      BY <1>1
    <3>2. Cardinality(EventSeen(e))' = Cardinality(EventSeen(e))
      BY <1>3, <2>1, <3>1, OccurrencesGrow
    <3> QED
      BY <1>1, <2>1, <3>2 DEF SchedulerInv, CountsAreHonest
  <2> QED
    BY <2>1 DEF CountsAreHonest
<1>5. PICK c : c = Nth(n + 1)'
  OBVIOUS
<1>6. /\ P \in Seq(SUBSET DOMAIN schedule)
      /\ \A j, k \in DOMAIN P : j # k => P[j] \cap P[k] = {}
      /\ \A i \in DOMAIN schedule :
           i \in HandedOut(P) <=> ~schedule[i].fired /\ Wants(schedule[i], ob, Nth(n + 1)')
  BY <1>1, <1>2, <1>5, SinglePass
<1>7. ScheduleOK' /\ FiredWhenDue' /\ PassesDisjoint' /\ PassesMarked'
  <2>1. via \in {"event", "state", "message"} /\ Observe(via, x, P)
    BY <1>1, <1>2
  <2> QED
    BY <1>0, <1>6, <2>1, ObservationKeepsPromise
<1> QED
  BY <1>4, <1>7 DEF SchedulerInv

\* The invariant holds of every behaviour of the scheduler.
THEOREM SchedulerInvAlways == Spec => []SchedulerInv
<1>1. Init => SchedulerInv
  <2> SUFFICES ASSUME Init PROVE SchedulerInv
    OBVIOUS
  <2>1. ScheduleOK
    BY DEF Init, ScheduleOK
  <2>2. CountsAreHonest
    <3>1. ASSUME NEW e \in Names PROVE EventSeen(e) = {} /\ CountOf(counts, e) = 0
      BY DEF Init, EventSeen, CountOf, NoCounts
    <3> QED
      BY <3>1, FS_EmptySet DEF CountsAreHonest
  <2>3. FiredWhenDue /\ PassesDisjoint
    BY DEF Init, FiredWhenDue, PassesDisjoint
  <2>4. PassesMarked
    BY DEF Init, PassesMarked, HandedOut, ToSet
  <2> QED
    BY <2>1, <2>2, <2>3, <2>4 DEF SchedulerInv
<1>2. SchedulerInv /\ [Next]_vars => SchedulerInv'
  <2> SUFFICES ASSUME SchedulerInv, [Next]_vars PROVE SchedulerInv'
    OBVIOUS
  <2>1. ASSUME NEW c \in Campaigns, Plan(c) PROVE SchedulerInv'
    BY <2>1, PlanKeepsInv
  <2>2. ASSUME NEW x \in Names, ObserveEvent(x) PROVE SchedulerInv'
    BY <2>2, EventKeepsInv
  <2>3. ASSUME NEW x \in Names, ObserveState(x) \/ ObserveMessage(x) PROVE SchedulerInv'
    BY <2>3, StateOrMessageKeepsInv
  <2>4. CASE UNCHANGED vars
    <3>1. /\ (ScheduleOK <=> ScheduleOK') /\ (PassesDisjoint <=> PassesDisjoint')
          /\ (PassesMarked <=> PassesMarked')
      BY <2>4 DEF vars, ScheduleOK, PassesDisjoint, PassesMarked
    <3>2. CountsAreHonest <=> CountsAreHonest'
      BY <2>4 DEF vars, CountsAreHonest, EventSeen
    <3>3. FiredWhenDue <=> FiredWhenDue'
      BY <2>4 DEF vars, FiredWhenDue, IsDue, Nth
    <3> QED
      BY <3>1, <3>2, <3>3 DEF SchedulerInv
  <2> QED
    BY <2>1, <2>2, <2>3, <2>4 DEF Next
<1> QED
  BY <1>1, <1>2, PTL DEF Spec

\* The promise of the scheduler (plan, try_fire, observe_event, observe_state,
\* observe_message, all_fired, fired_count): between two plans an injection is
\* handed out exactly when the observations contain what its trigger asks for,
\* and once.
THEOREM FiredOnceWhenDueAlways == Spec => []FiredOnceWhenDue
<1>1. SchedulerInv => FiredOnceWhenDue
  <2> SUFFICES ASSUME SchedulerInv PROVE FiredOnceWhenDue
    OBVIOUS
  <2>1. FiredWhenDue /\ PassesDisjoint /\ PassesMarked /\ DOMAIN schedule = DOMAIN campaign
    BY DEF SchedulerInv, ScheduleOK
  <2>2. FiredCount = Cardinality(HandedOut(fired))
    BY <2>1 DEF FiredCount, PassesMarked
  <2>3. AllFired <=> HandedOut(fired) = DOMAIN campaign
    BY <2>1 DEF AllFired, PassesMarked
  <2> QED
    BY <2>1, <2>2, <2>3 DEF FiredOnceWhenDue, HandedOutOnce, PassesDisjoint, PassesMarked
<1> QED
  BY <1>1, SchedulerInvAlways, PTL

-----------------------------------------------------------------------------
(* Replay *)

EventsOnly == \A k \in DOMAIN seen : seen[k].via = "event"

Recorded == [k \in DOMAIN seen |-> seen[k].name]

Running == [schedule |-> schedule, counts |-> counts, fired |-> fired]

\* The stages a replay of c over the events goes through, one per event.
Stages(c, events, after) ==
  after = [k \in 0 .. Len(events) |->
             IF k = 0 THEN Fresh(c) ELSE ReplayStep(after[k - 1], events[k])]

\* A replay of the events recorded so far can be carried out, and every way to
\* carry it out ends where the scheduler is now.
ReplayFollows ==
  EventsOnly
    => /\ \E after : Stages(campaign, Recorded, after)
       /\ \A after : Stages(campaign, Recorded, after) => after[Len(seen)] = Running

ReplayInv == seen \in Seq(Observation) /\ ReplayFollows

\* A further event gives a replay one further stage and leaves the earlier ones.
LEMMA StagesGrow ==
  ASSUME NEW c, NEW s \in Seq(Names), NEW e \in Names
  PROVE  /\ \A after : Stages(c, s, after) => \E longer : Stages(c, Append(s, e), longer)
         /\ \A after : Stages(c, Append(s, e), after)
               => \E shorter : /\ Stages(c, s, shorter)
                               /\ after[Len(s) + 1] = ReplayStep(shorter[Len(s)], e)
<1> DEFINE n == Len(s)
           t == Append(s, e)
<1>1. n \in Nat /\ Len(t) = n + 1 /\ t[n + 1] = e /\ \A k \in 1 .. n : t[k] = s[k]
  OBVIOUS
<1>2. ASSUME NEW after, Stages(c, s, after)
      PROVE  \E longer : Stages(c, t, longer)
  <2> DEFINE longer == [k \in 0 .. n + 1 |-> IF k = n + 1 THEN ReplayStep(after[n], e)
                                                          ELSE after[k]]
  <2>1. ASSUME NEW k \in 0 .. n + 1
        PROVE  longer[k] = IF k = 0 THEN Fresh(c) ELSE ReplayStep(longer[k - 1], t[k])
    <3>1. CASE k = 0
      BY <1>1, <1>2, <3>1 DEF Stages
    <3>2. CASE k \in 1 .. n
      <4>1. longer[k] = after[k] /\ longer[k - 1] = after[k - 1] /\ t[k] = s[k]
        BY <1>1, <3>2
      <4>2. after[k] = ReplayStep(after[k - 1], s[k])
        BY <1>1, <1>2, <3>2 DEF Stages
      <4> QED
        BY <3>2, <4>1, <4>2
    <3>3. CASE k = n + 1
      <4>1. longer[k] = ReplayStep(after[n], e) /\ longer[k - 1] = after[n] /\ k # 0
        BY <1>1, <3>3
      <4> QED
        BY <1>1, <3>3, <4>1
    <3> QED
      BY <1>1, <2>1, <3>1, <3>2, <3>3
  <2>2. longer = [k \in 0 .. n + 1 |->
                    IF k = 0 THEN Fresh(c) ELSE ReplayStep(longer[k - 1], t[k])]
    BY <2>1
  <2> QED
    BY <1>1, <2>2 DEF Stages
<1>3. ASSUME NEW after, Stages(c, t, after)
      PROVE  \E shorter : /\ Stages(c, s, shorter)
                          /\ after[n + 1] = ReplayStep(shorter[n], e)
  <2> DEFINE shorter == [k \in 0 .. n |-> after[k]]
  <2>1. ASSUME NEW k \in 0 .. n + 1
        PROVE  after[k] = IF k = 0 THEN Fresh(c) ELSE ReplayStep(after[k - 1], t[k])
    BY <1>1, <1>3, <2>1 DEF Stages
  <2>2. ASSUME NEW k \in 0 .. n
        PROVE  shorter[k] = IF k = 0 THEN Fresh(c) ELSE ReplayStep(shorter[k - 1], s[k])
    <3>1. CASE k = 0
      BY <1>1, <2>1, <3>1
    <3>2. CASE k \in 1 .. n
      <4>1. shorter[k] = after[k] /\ shorter[k - 1] = after[k - 1] /\ t[k] = s[k]
        BY <1>1, <3>2
      <4>2. after[k] = ReplayStep(after[k - 1], t[k])
        BY <1>1, <2>1, <3>2
      <4> QED
        BY <3>2, <4>1, <4>2
    <3> QED
      BY <1>1, <2>2, <3>1, <3>2
  <2>3. Stages(c, s, shorter)
    BY <2>2 DEF Stages
  <2>4. shorter[n] = after[n] /\ after[n + 1] = ReplayStep(after[n], e)
    BY <1>1, <2>1
  <2> QED
    BY <2>3, <2>4
<1> QED
  BY <1>1, <1>2, <1>3

\* With no events the replay is at its fresh scheduler.
LEMMA FirstStage ==
  ASSUME NEW c
  PROVE  /\ Stages(c, <<>>, [k \in 0 .. 0 |-> Fresh(c)])
         /\ \A after : Stages(c, <<>>, after) => after[0] = Fresh(c)
BY DEF Stages

\* A fresh plan has recorded nothing and stands where a replay starts.
LEMMA FreshFollows ==
  ASSUME NEW c
  PROVE  seen' = <<>> /\ campaign' = c /\ Running' = Fresh(c) => ReplayInv'
<1> SUFFICES ASSUME seen' = <<>>, campaign' = c, Running' = Fresh(c) PROVE ReplayInv'
  OBVIOUS
<1>1. Recorded' = <<>> /\ Len(seen') = 0 /\ seen' \in Seq(Observation)
  BY DEF Recorded
<1>2. ReplayFollows'
  BY <1>1, FirstStage DEF ReplayFollows
<1> QED
  BY <1>1, <1>2 DEF ReplayInv

\* observe_event steps the scheduler as replay_plan steps its own.
LEMMA EventFollows ==
  ASSUME ReplayInv, NEW e \in Names, ObserveEvent(e)
  PROVE  ReplayInv'
<1>1. /\ seen' = Append(seen, [via |-> "event", name |-> e]) /\ campaign' = campaign
      /\ seen \in Seq(Observation) /\ [via |-> "event", name |-> e] \in Observation
  BY DEF ObserveEvent, Observe, ReplayInv, Observation
<1>2. seen' \in Seq(Observation)
  BY <1>1
<1>3. /\ Recorded \in Seq(Names) /\ Len(Recorded) = Len(seen)
      /\ Recorded' = Append(Recorded, e) /\ Len(seen') = Len(seen) + 1
      /\ Len(seen) \in Nat
  <2>1. \A k \in 1 .. Len(seen) : seen[k].name \in Names
    <3>1. \A k \in 1 .. Len(seen) : seen[k] \in Observation
      BY <1>1, ElementOfSeq
    <3> QED
      BY <3>1 DEF Observation
  <2>2. Recorded \in Seq(Names) /\ Len(Recorded) = Len(seen) /\ Len(seen) \in Nat
    BY <1>1, <2>1 DEF Recorded
  <2>3. Len(seen') = Len(seen) + 1 /\ DOMAIN seen' = 1 .. Len(seen) + 1
    BY <1>1
  <2>4. Recorded' = [k \in 1 .. Len(seen) + 1 |-> seen'[k].name]
    BY <2>3 DEF Recorded
  <2>5. Append(Recorded, e) \in Seq(Names) /\ Len(Append(Recorded, e)) = Len(seen) + 1
    BY <2>2, AppendProperties
  <2>6. ASSUME NEW k \in 1 .. Len(seen) + 1
        PROVE  seen'[k].name = Append(Recorded, e)[k]
    <3>1. CASE k = Len(seen) + 1
      BY <1>1, <2>2, <3>1
    <3>2. CASE k \in 1 .. Len(seen)
      <4>1. seen'[k] = seen[k] /\ Recorded[k] = seen[k].name
        BY <1>1, <3>2 DEF Recorded
      <4>2. Append(Recorded, e)[k] = Recorded[k]
        BY <2>2, <3>2, AppendProperties
      <4> QED
        BY <4>1, <4>2
    <3> QED
      BY <2>2, <2>6, <3>1, <3>2
  <2>7. Recorded' \in Seq(Names) /\ Len(Recorded') = Len(seen) + 1
    <3>1. \A k \in 1 .. Len(seen) + 1 : seen'[k].name \in Names
      BY <2>5, <2>6, ElementOfSeq
    <3> QED
      BY <2>2, <2>4, <3>1
  <2>8. Recorded' = Append(Recorded, e)
    BY <2>4, <2>5, <2>6, <2>7, SeqEqual
  <2> QED
    BY <2>2, <2>3, <2>8
<1>4. Running' = ReplayStep(Running, e)
  BY DEF ObserveEvent, Observe, Running, ReplayStep
<1>5. EventsOnly' => EventsOnly
  <2>1. \A k \in DOMAIN seen : k \in DOMAIN seen' /\ seen'[k] = seen[k]
    BY <1>1
  <2> QED
    BY <2>1 DEF EventsOnly
<1>6. ReplayFollows'
  <2> SUFFICES ASSUME EventsOnly'
               PROVE  /\ \E after : Stages(campaign', Recorded', after)
                      /\ \A after : Stages(campaign', Recorded', after)
                                      => after[Len(seen')] = Running'
    BY DEF ReplayFollows
  <2>1. /\ \E after : Stages(campaign, Recorded, after)
        /\ \A after : Stages(campaign, Recorded, after) => after[Len(seen)] = Running
    BY <1>5 DEF ReplayInv, ReplayFollows
  <2>2. \E after : Stages(campaign', Recorded', after)
    <3>1. PICK after : Stages(campaign, Recorded, after)
      BY <2>1
    <3>2. \E longer : Stages(campaign, Append(Recorded, e), longer)
      BY <1>3, <3>1, StagesGrow
    <3> QED
      BY <1>1, <1>3, <3>2
  <2>3. ASSUME NEW after, Stages(campaign', Recorded', after)
        PROVE  after[Len(seen')] = Running'
    <3>0. Stages(campaign, Append(Recorded, e), after)
      BY <1>1, <1>3, <2>3
    <3>1. PICK shorter : /\ Stages(campaign, Recorded, shorter)
                         /\ after[Len(Recorded) + 1] = ReplayStep(shorter[Len(Recorded)], e)
      BY <1>3, <3>0, StagesGrow
    <3>2. shorter[Len(Recorded)] = Running
      BY <1>3, <2>1, <3>1
    <3> QED
      BY <1>3, <1>4, <3>1, <3>2
  <2> QED
    BY <2>2, <2>3
<1> QED
  BY <1>2, <1>6 DEF ReplayInv

\* A state or a message is not replayed: after it the history is not one of
\* events only.
LEMMA OtherFollows ==
  ASSUME ReplayInv, NEW x \in Names, ObserveState(x) \/ ObserveMessage(x)
  PROVE  ReplayInv'
<1>1. PICK ob \in Observation : ob.via # "event" /\ seen' = Append(seen, ob)
  BY DEF ObserveState, ObserveMessage, Observe, Observation
<1>2. seen \in Seq(Observation) /\ seen' \in Seq(Observation)
  BY <1>1 DEF ReplayInv
<1>3. Len(seen) + 1 \in DOMAIN seen' /\ seen'[Len(seen) + 1] = ob
  BY <1>1, <1>2
<1> QED
  BY <1>1, <1>2, <1>3 DEF ReplayInv, ReplayFollows, EventsOnly

\* "The same seed + event sequence always yields the same firing decisions":
\* replay_plan over the recorded events of a run driven by observe_event alone
\* hands out what the run handed out, for every campaign and any number of events.
THEOREM ReplayReproducesAlways == Spec => []ReplayReproduces
<1>1. Init => ReplayInv
  <2> SUFFICES ASSUME Init PROVE ReplayInv
    OBVIOUS
  <2>1. Recorded = <<>> /\ Len(seen) = 0 /\ seen \in Seq(Observation)
    BY DEF Init, Recorded
  <2>2. Planned(<<>>) = <<>>
    BY DEF Planned
  <2>3. Running = Fresh(campaign)
    BY <2>2 DEF Init, Running, Fresh
  <2> QED
    BY <2>1, <2>3, FirstStage DEF ReplayInv, ReplayFollows
<1>2. ReplayInv /\ [Next]_vars => ReplayInv'
  <2> SUFFICES ASSUME ReplayInv, [Next]_vars PROVE ReplayInv'
    OBVIOUS
  <2>1. ASSUME NEW c \in Campaigns, Plan(c) PROVE ReplayInv'
    <3>1. seen' = <<>> /\ campaign' = c /\ Running' = Fresh(c)
      BY <2>1 DEF Plan, Running, Fresh
    <3> QED
      BY <3>1, FreshFollows
  <2>2. ASSUME NEW x \in Names, ObserveEvent(x) PROVE ReplayInv'
    BY <2>2, EventFollows
  <2>3. ASSUME NEW x \in Names, ObserveState(x) \/ ObserveMessage(x) PROVE ReplayInv'
    BY <2>3, OtherFollows
  <2>4. CASE UNCHANGED vars
    <3>1. seen' = seen /\ campaign' = campaign /\ Recorded' = Recorded /\ Running' = Running
      BY <2>4 DEF vars, Recorded, Running
    <3> QED
      BY <3>1 DEF ReplayInv, ReplayFollows, EventsOnly
  <2> QED
    BY <2>1, <2>2, <2>3, <2>4 DEF Next
<1>3. ReplayInv => ReplayReproduces
  <2> SUFFICES ASSUME ReplayInv, seen # <<>>, EventsOnly
               PROVE  SameInjections(campaign, Recorded, fired)
    BY DEF ReplayReproduces, EventsOnly, Recorded
  <2> DEFINE r == CHOOSE after : Stages(campaign, Recorded, after)
  <2>1. Stages(campaign, Recorded, r)
    BY DEF ReplayInv, ReplayFollows
  <2>2. r[Len(seen)] = Running
    BY <2>1 DEF ReplayInv, ReplayFollows
  <2>3. Len(Recorded) = Len(seen) /\ Recorded # <<>>
    BY DEF ReplayInv, Recorded
  <2>4. ReplayPlan(campaign, Recorded) = r[Len(Recorded)].fired
    BY <2>3 DEF ReplayPlan, Stages
  <2> QED
    BY <2>2, <2>3, <2>4 DEF SameInjections, Running
<1> QED
  BY <1>1, <1>2, <1>3, PTL DEF Spec

=============================================================================
