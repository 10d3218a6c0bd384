---------------------------- MODULE TransportProofs ----------------------------
(***************************************************************************)
(* Proofs about the transport interposer, for any fault menu, any list of  *)
(* faults, any payloads and streams of any length.                         *)
(***************************************************************************)
EXTENDS Transport, WellFoundedInduction, TLAPS

(* The extremes of sets of natural numbers are members of them.            *)
LEMMA SmallestIs ==
  ASSUME NEW S, S \subseteq Nat, S # {}
  PROVE  Min(S) \in S /\ \A y \in S : Min(S) <= y
<1>1. PICK x \in S : \A y \in S : ~(<<y, x>> \in OpToRel(<, Nat))
  BY WFMin, NatLessThanWellFounded
<1>2. \A y \in S : ~(y < x)
  BY <1>1, Zenon DEF OpToRel
<1>3. \A y \in S : x <= y
  BY <1>2
<1> QED
  BY <1>3 DEF Min

LEMMA LargestIs ==
  ASSUME NEW n \in Nat, NEW S, S \subseteq 0 .. n, S # {}
  PROVE  Max(S) \in S /\ \A y \in S : y <= Max(S)
<1> DEFINE T == {k \in 0 .. n : n - k \in S}
<1>1. T \subseteq Nat /\ T # {}
  <2>1. PICK x \in S : TRUE
    OBVIOUS
  <2>2. n - x \in 0 .. n /\ n - (n - x) = x
    OBVIOUS
  <2>3. n - x \in T
    BY <2>2, Zenon
  <2>4. T \subseteq Nat
    OBVIOUS
  <2> QED
    BY <2>3, <2>4
<1>2. Min(T) \in T /\ \A y \in T : Min(T) <= y
  BY <1>1, SmallestIs
<1>3. PICK x \in S : Min(T) = n - x
  <2>1. Min(T) \in 0 .. n /\ n - Min(T) \in S
    BY <1>2
  <2>2. Min(T) = n - (n - Min(T))
    BY <2>1
  <2> QED
    BY <2>1, <2>2
<1>4. \A y \in S : y <= x
  <2> TAKE y \in S
  <2>1. n - y \in T
    <3>1. n - y \in 0 .. n /\ n - (n - y) = y
      OBVIOUS
    <3> QED
      BY <3>1
  <2> HIDE DEF T
  <2> QED
    BY <1>2, <1>3, <2>1
<1> QED
  BY <1>4 DEF Max

LEMMA MaxOfTwo == ASSUME NEW a \in Int, NEW b \in Int PROVE Max({a, b}) = IF a >= b THEN a ELSE b
BY DEF Max
LEMMA MinOfTwo == ASSUME NEW a \in Int, NEW b \in Int PROVE Min({a, b}) = IF a <= b THEN a ELSE b
BY DEF Min

(* The fault forward_frames applies is one of the list, and it targets the *)
(* frame; it applies none only if none does.                               *)
LEMMA AppliedIs ==
  ASSUME NEW fs \in Seq(FaultMenu), NEW d, NEW m
  PROVE  /\ Applied(fs, d, m) = <<>> <=> \A i \in DOMAIN fs : ~Targets(fs[i], d, m)
         /\ Applied(fs, d, m) # <<>> =>
              \E i \in DOMAIN fs : Applied(fs, d, m)[1] = fs[i] /\ Targets(fs[i], d, m)
         /\ Applied(fs, d, m) # <<>> => Applied(fs, d, m)[1] \in FaultMenu
<1> DEFINE hits == {i \in DOMAIN fs : Targets(fs[i], d, m)}
<1>1. Applied(fs, d, m) = IF hits = {} THEN <<>> ELSE <<fs[Min(hits)]>>
  BY DEF Applied
<1>2. hits \subseteq Nat
  OBVIOUS
<1>3. hits # {} => Min(hits) \in hits
  BY <1>2, SmallestIs
<1>4. hits # {} => Min(hits) \in DOMAIN fs /\ Targets(fs[Min(hits)], d, m) /\ fs[Min(hits)] \in FaultMenu
  BY <1>3
<1>5. hits = {} <=> \A i \in DOMAIN fs : ~Targets(fs[i], d, m)
  OBVIOUS
<1> HIDE DEF hits
<1> QED
  BY <1>1, <1>4, <1>5

LEMMA KindIs ==
  ASSUME NEW fs \in Seq(FaultMenu), NEW d, NEW m
  PROVE  /\ KindOf(fs, d, m) \in Kinds \cup {"none"}
         /\ KindOf(fs, d, m) = "none" <=> Applied(fs, d, m) = <<>>
         /\ KindOf(fs, d, m) = "none" <=> Untargeted(fs, d, m)
         /\ KindOf(fs, d, m) # "none" =>
              Applied(fs, d, m)[1] \in FaultMenu /\ Applied(fs, d, m)[1].offset \in Int
<1>1. Applied(fs, d, m) # <<>> =>
        /\ Applied(fs, d, m)[1].kind \in Kinds
        /\ Applied(fs, d, m)[1] \in FaultMenu
        /\ Applied(fs, d, m)[1].offset \in Int
  BY AppliedIs, MenuAssumption
<1>2. "none" \notin Kinds
  BY DEF Kinds
<1>3. Untargeted(fs, d, m) <=> \A i \in DOMAIN fs : ~Targets(fs[i], d, m)
  BY Zenon DEF Untargeted, Targets
<1> QED
  BY <1>1, <1>2, <1>3, AppliedIs DEF KindOf

(* Which faults target a frame depends on its type and its number only.    *)
LEMMA SameTargets ==
  ASSUME NEW fs, NEW d, NEW m, NEW n, m.type = n.type, m.no = n.no
  PROVE  Untargeted(fs, d, m) <=> Untargeted(fs, d, n)
BY DEF Untargeted

-----------------------------------------------------------------------------
(* Sequences.                                                              *)

LEMMA Appended ==
  ASSUME NEW S, NEW s \in Seq(S), NEW e \in S
  PROVE  /\ Append(s, e) \in Seq(S) /\ Len(s) \in Nat
         /\ Len(Append(s, e)) = Len(s) + 1 /\ Append(s, e)[Len(s) + 1] = e
         /\ DOMAIN s = 1 .. Len(s) /\ DOMAIN Append(s, e) = 1 .. Len(s) + 1
         /\ \A i \in 1 .. Len(s) : Append(s, e)[i] = s[i]
OBVIOUS

LEMMA Singletons == ASSUME NEW S, NEW e \in S PROVE <<e>> \in Seq(S) /\ <<e, e>> \in Seq(S) /\ <<>> \in Seq(S)
OBVIOUS

-----------------------------------------------------------------------------
(* What the faults do to a frame.                                          *)

(* The cut keeps at least the header and at most the frame.                *)
LEMMA CutIs ==
  ASSUME NEW offset \in Int, NEW size \in Nat, size >= Header
  PROVE  Cut(offset, size) \in Nat /\ Header <= Cut(offset, size) /\ Cut(offset, size) <= size
<1>1. Header \in Nat
  BY BoundAssumption
<1>2. Max({offset, Header}) = IF offset >= Header THEN offset ELSE Header
  BY <1>1, MaxOfTwo
<1>3. \A a \in Int : Min({a, size}) = IF a <= size THEN a ELSE size
  BY MinOfTwo
<1> QED
  BY <1>1, <1>2, <1>3 DEF Cut

(* A frame cut short is whole again: its length field was rewritten.       *)
LEMMA TruncatedIs ==
  ASSUME NEW m \in WholeFrame, NEW offset \in Int
  PROVE  /\ Truncated(m, offset) \in WholeFrame
         /\ Truncated(m, offset).type = m.type /\ Truncated(m, offset).no = m.no
<1> DEFINE payload == m.payload
           n == Cut(offset, Header + Len(payload)) - Header
           short == SubSeq(payload, 1, n)
<1>1. payload \in Seq(Byte) /\ m.type \in Types /\ m.no \in Nat \ {0}
  BY DEF WholeFrame, Frame
<1>2. Len(payload) \in Nat /\ Header \in Nat
  BY <1>1, BoundAssumption
<1>3. n \in Nat /\ n <= Len(payload)
  <2>1. Header + Len(payload) \in Nat /\ Header + Len(payload) >= Header
    BY <1>2
  <2>2. /\ Cut(offset, Header + Len(payload)) \in Nat
        /\ Header <= Cut(offset, Header + Len(payload))
        /\ Cut(offset, Header + Len(payload)) <= Header + Len(payload)
    BY <2>1, CutIs
  <2> QED
    BY <1>2, <2>2
<1>4. Truncated(m, offset) = [type |-> m.type, len |-> n, payload |-> short, no |-> m.no]
  BY DEF Truncated
<1> HIDE DEF payload, n
<1>5. short \in Seq(Byte) /\ Len(short) = n
  BY <1>1, <1>3
<1> HIDE DEF short
<1> QED
  BY <1>1, <1>3, <1>4, <1>5 DEF WholeFrame, Frame

(* A corrupted frame has as many bytes as before.                          *)
LEMMA CorruptedIs ==
  ASSUME NEW m \in WholeFrame, NEW offset \in Int
  PROVE  /\ Corrupted(m, offset) \in WholeFrame
         /\ Corrupted(m, offset).type = m.type /\ Corrupted(m, offset).no = m.no
<1> DEFINE payload == m.payload
           new == [i \in DOMAIN payload |-> IF Header + i - 1 = offset THEN 165 - payload[i] ELSE payload[i]]
<1>1. payload \in Seq(Byte) /\ m \in Frame /\ m.len = Len(payload)
  BY DEF WholeFrame, Frame
<1>2. Corrupted(m, offset) = [m EXCEPT !.payload = new]
  BY DEF Corrupted
<1> HIDE DEF payload
<1>3. new \in Seq(Byte) /\ Len(new) = Len(payload)
  <2>1. DOMAIN new = 1 .. Len(payload) /\ Len(payload) \in Nat
    BY <1>1
  <2>2. \A i \in 1 .. Len(payload) : new[i] \in Byte
    <3> TAKE i \in 1 .. Len(payload)
    <3>1. payload[i] \in {0, 165}
      BY <1>1 DEF Byte
    <3>2. 165 - payload[i] \in {0, 165}
      BY <3>1
    <3>3. new[i] \in {payload[i], 165 - payload[i]}
      BY <2>1
    <3> QED
      BY <3>1, <3>2, <3>3 DEF Byte
  <2>3. new \in [1 .. Len(payload) -> Byte]
    BY <2>1, <2>2
  <2> HIDE DEF new
  <2> QED
    BY <2>1, <2>3
<1> HIDE DEF new
<1> QED
  BY <1>1, <1>2, <1>3 DEF WholeFrame, Frame

-----------------------------------------------------------------------------
(* The prescription and the frames that come later.                        *)

HeldSet(fs, d, ms, i) == {j \in 1 .. i - 1 : KindOf(fs, d, ms[j]) = "reorder"}

LEMMA HeldBackIs ==
  ASSUME NEW fs, NEW d, NEW ms, NEW i
  PROVE  HeldBack(fs, d, ms, i) =
           IF HeldSet(fs, d, ms, i) = {} THEN <<>> ELSE <<ms[Max(HeldSet(fs, d, ms, i))]>>
BY DEF HeldBack, HeldSet

LEMMA HeldMember ==
  ASSUME NEW fs, NEW d, NEW ms, NEW i \in Nat, HeldSet(fs, d, ms, i) # {}
  PROVE  /\ Max(HeldSet(fs, d, ms, i)) \in 1 .. i - 1
         /\ KindOf(fs, d, ms[Max(HeldSet(fs, d, ms, i))]) = "reorder"
<1>1. HeldSet(fs, d, ms, i) \subseteq 0 .. i
  BY DEF HeldSet
<1>2. Max(HeldSet(fs, d, ms, i)) \in HeldSet(fs, d, ms, i)
  BY <1>1, LargestIs
<1> DEFINE k == Max(HeldSet(fs, d, ms, i))
<1>3. k \in HeldSet(fs, d, ms, i)
  BY <1>2
<1> HIDE DEF k
<1>4. k \in 1 .. i - 1 /\ KindOf(fs, d, ms[k]) = "reorder"
  BY <1>3 DEF HeldSet
<1> QED
  BY <1>4 DEF k

(* What was held back, and what was to be sent on, does not change when    *)
(* another frame is read.                                                  *)
LEMMA HeldBackStays ==
  ASSUME NEW fs, NEW d, NEW ms \in Seq(Frame), NEW m \in Frame, NEW i \in 1 .. Len(ms) + 1
  PROVE  HeldBack(fs, d, Append(ms, m), i) = HeldBack(fs, d, ms, i)
<1> DEFINE more == Append(ms, m)
<1>1. Len(ms) \in Nat /\ \A j \in 1 .. Len(ms) : more[j] = ms[j]
  BY Appended
<1> HIDE DEF more
<1>2. \A j \in 1 .. i - 1 : more[j] = ms[j]
  BY <1>1
<1>3. HeldSet(fs, d, more, i) = HeldSet(fs, d, ms, i)
  BY <1>2 DEF HeldSet
<1>4. HeldSet(fs, d, ms, i) # {} => more[Max(HeldSet(fs, d, ms, i))] = ms[Max(HeldSet(fs, d, ms, i))]
  BY <1>2, HeldMember
<1>5. HeldBack(fs, d, more, i) = HeldBack(fs, d, ms, i)
  BY <1>3, <1>4, HeldBackIs
<1> QED
  BY <1>5 DEF more

LEMMA HeldBackNext ==
  ASSUME NEW fs, NEW d, NEW ms \in Seq(Frame), NEW m \in Frame
  PROVE  HeldBack(fs, d, Append(ms, m), Len(ms) + 2) =
           IF KindOf(fs, d, m) = "reorder" THEN <<m>> ELSE HeldBack(fs, d, ms, Len(ms) + 1)
<1> DEFINE more == Append(ms, m)
           n == Len(ms)
<1>1. n \in Nat /\ more[n + 1] = m /\ HeldBack(fs, d, more, n + 1) = HeldBack(fs, d, ms, n + 1)
  BY Appended, HeldBackStays
<1> HIDE DEF more, n
<1> DEFINE now == HeldSet(fs, d, more, n + 2)
           before == HeldSet(fs, d, more, n + 1)
<1>2. \A j : j \in 1 .. (n + 2) - 1 <=> j \in 1 .. (n + 1) - 1 \/ j = n + 1
  BY <1>1
<1>3. KindOf(fs, d, m) # "reorder" => now = before
  BY <1>1, <1>2 DEF HeldSet
<1>4. KindOf(fs, d, m) = "reorder" => n + 1 \in now
  BY <1>1, <1>2 DEF HeldSet
<1>5. now \subseteq 0 .. n + 1
  BY <1>1 DEF HeldSet
<1> HIDE DEF now, before
<1>6. KindOf(fs, d, m) = "reorder" => now # {} /\ Max(now) = n + 1
  <2>1. ASSUME now # {} PROVE Max(now) \in now /\ \A y \in now : y <= Max(now)
    <3>1. n + 1 \in Nat
      BY <1>1
    <3> QED
      BY <1>5, <2>1, <3>1, LargestIs
  <2>2. ASSUME n + 1 \in now PROVE Max(now) = n + 1
    <3>1. Max(now) \in 0 .. n + 1 /\ n + 1 <= Max(now)
      BY <2>1, <2>2, <1>5
    <3> QED
      BY <3>1, <1>1
  <2> QED
    BY <1>4, <2>2
<1>7. CASE KindOf(fs, d, m) = "reorder"
  <2>1. HeldBack(fs, d, more, n + 2) = <<m>>
    BY <1>1, <1>6, <1>7, HeldBackIs DEF now
  <2> QED
    BY <1>7, <2>1 DEF more, n
<1>8. CASE KindOf(fs, d, m) # "reorder"
  <2>1. HeldBack(fs, d, more, n + 2) = HeldBack(fs, d, more, n + 1)
    BY <1>3, <1>8, HeldBackIs DEF now, before
  <2> QED
    BY <1>1, <1>8, <2>1 DEF more, n
<1> QED
  BY <1>7, <1>8

LEMMA ExpectedStays ==
  ASSUME NEW fs, NEW d, NEW ms \in Seq(Frame), NEW m \in Frame, NEW i \in 1 .. Len(ms)
  PROVE  Expected(fs, d, Append(ms, m), i) = Expected(fs, d, ms, i)
<1>1. Append(ms, m)[i] = ms[i]
  BY Appended
<1>2. HeldBack(fs, d, Append(ms, m), i) = HeldBack(fs, d, ms, i)
  BY HeldBackStays
<1> QED
  BY <1>1, <1>2 DEF Expected

(* What is sent on in the place of a frame, by the kind of its fault.      *)
LEMMA ExpectedIs ==
  ASSUME NEW fs, NEW d, NEW ms, NEW i,
         NEW kind, kind = KindOf(fs, d, ms[i]),
         NEW what, what = Expected(fs, d, ms, i),
         NEW offset, offset = Applied(fs, d, ms[i])[1].offset
  PROVE  /\ kind \in {"none", "delay"} => what = <<ms[i]>>
         /\ kind \in {"drop", "close", "half_close"} => what = <<>>
         /\ kind = "duplicate" => what = <<ms[i], ms[i]>>
         /\ kind = "truncate" => what = <<Truncated(ms[i], offset)>>
         /\ kind = "corrupt" => what = <<Corrupted(ms[i], offset)>>
         /\ kind = "reorder" => what = HeldBack(fs, d, ms, i)
BY DEF Expected

(* The prescription never touches a frame no fault targets, and never puts *)
(* such a frame in the place of another.                                   *)
LEMMA PrescriptionSparesOthers ==
  ASSUME NEW fs \in Seq(FaultMenu), NEW d, NEW ms, NEW i \in Nat,
         \A j \in 1 .. i : ms[j] \in WholeFrame, i >= 1
  PROVE  IF Untargeted(fs, d, ms[i])
         THEN Expected(fs, d, ms, i) = <<ms[i]>>
         ELSE \A j \in DOMAIN Expected(fs, d, ms, i) : ~Untargeted(fs, d, Expected(fs, d, ms, i)[j])
<1> DEFINE kind == KindOf(fs, d, ms[i])
           offset == Applied(fs, d, ms[i])[1].offset
           what == Expected(fs, d, ms, i)
<1>0. ms[i] \in WholeFrame
  OBVIOUS
<1>1. /\ kind \in Kinds \cup {"none"}
      /\ kind = "none" <=> Untargeted(fs, d, ms[i])
      /\ kind # "none" => offset \in Int
  BY KindIs
<1>2. /\ kind \in {"none", "delay"} => what = <<ms[i]>>
      /\ kind \in {"drop", "close", "half_close"} => what = <<>>
      /\ kind = "duplicate" => what = <<ms[i], ms[i]>>
      /\ kind = "truncate" => what = <<Truncated(ms[i], offset)>>
      /\ kind = "corrupt" => what = <<Corrupted(ms[i], offset)>>
      /\ kind = "reorder" => what = HeldBack(fs, d, ms, i)
  BY ExpectedIs
<1>3. kind # "none" => ~Untargeted(fs, d, Truncated(ms[i], offset))
  BY <1>0, <1>1, TruncatedIs, SameTargets
<1>4. kind # "none" => ~Untargeted(fs, d, Corrupted(ms[i], offset))
  BY <1>0, <1>1, CorruptedIs, SameTargets
<1>5. \/ HeldBack(fs, d, ms, i) = <<>>
      \/ \E m : HeldBack(fs, d, ms, i) = <<m>> /\ ~Untargeted(fs, d, m)
  <2>1. \A m : KindOf(fs, d, m) = "reorder" => ~Untargeted(fs, d, m)
    BY KindIs
  <2> QED
    BY <2>1, HeldBackIs, HeldMember
<1> HIDE DEF kind, offset, what
<1>6. CASE kind = "none"
  BY <1>1, <1>2, <1>6 DEF what
<1>7. CASE kind # "none"
  <2>1. ~Untargeted(fs, d, ms[i])
    BY <1>1, <1>7
  <2>2. \/ what = <<>>
        \/ \E m : what \in {<<m>>, <<m, m>>} /\ ~Untargeted(fs, d, m)
    BY <1>1, <1>2, <1>3, <1>4, <1>5, <1>7, <2>1 DEF Kinds
  <2>3. \A j \in DOMAIN what : ~Untargeted(fs, d, what[j])
    BY <2>2
  <2> QED
    BY <2>1, <2>3 DEF what
<1> QED
  BY <1>6, <1>7

-----------------------------------------------------------------------------
(* The steps.                                                              *)

TransportInv == TransportTypeOK /\ WholeInv /\ StatsInv /\ HeldInv /\ SentAsPrescribed

LEMMA TransportInitially == Init => TransportInv
<1> SUFFICES ASSUME Init PROVE TransportInv
  OBVIOUS
<1>0. NoStats \in [Counters -> Nat] /\ NoStats["forwarded"] = 0
  BY DEF NoStats, Counters
<1>1. NewPump \in PumpState /\ NewPump.pending = <<>> /\ NewPump.pc = "top"
  BY <1>0 DEF NewPump, PumpState
<1>2. TransportTypeOK
  <2>1. /\ [d \in Directions |-> <<>>] \in [Directions -> Seq(Frame)]
        /\ [d \in Directions |-> <<>>] \in [Directions -> Seq(Seq(Frame))]
        /\ [d \in Directions |-> NewPump] \in [Directions -> PumpState]
        /\ [d \in Directions |-> 0] \in [Directions -> Nat]
    BY <1>1
  <2>2. Len(<<>>) <= 1
    OBVIOUS
  <2>3. \A d \in Directions : Len(pump[d].pending) <= 1
    BY <1>1, <2>2 DEF Init
  <2>4. /\ (faults \in Seq(FaultMenu)) /\ (local \in Seq(FaultMenu))
        /\ (waiting \in Nat) /\ (conns \in Nat) /\ (waiting <= conns) /\ (conns <= MaxConns)
    BY BoundAssumption DEF Init, TransportTypeOK
  <2>5. /\ (open \in [Directions -> BOOLEAN])
        /\ (stats \in [Counters -> Nat]) /\ (published \in [Counters -> Nat])
        /\ (running \in BOOLEAN) /\ (stopping \in BOOLEAN) /\ (aborted \in BOOLEAN)
        /\ (acceptor \in {"off", "top", "accept", "serve", "ended"})
    BY <1>0 DEF Init, TransportTypeOK
  <2>6. /\ (inbuf \in [Directions -> Seq(Frame)])
        /\ (read \in [Directions -> Seq(Frame)])
        /\ (sent \in [Directions -> Seq(Seq(Frame))])
        /\ (handed \in [Directions -> Nat])
        /\ (pump \in [Directions -> PumpState])
    BY <2>1 DEF Init
  <2> QED
    BY <2>3, <2>4, <2>5, <2>6 DEF TransportTypeOK
<1>3. WholeInv
  <2>1. <<>> \in Seq(WholeFrame) /\ <<>> \in Seq(Seq(WholeFrame))
    OBVIOUS
  <2> QED
    BY <1>1, <2>1 DEF Init, WholeInv
<1>4. StatsInv
  BY <1>0, <1>1 DEF Init, StatsInv, Owed, TotalSent, Directions
<1>5. HeldInv
  <2>1. \A d : HeldBack(<<>>, d, <<>>, 1) = <<>>
    BY DEF HeldBack
  <2> QED
    BY <1>1, <2>1 DEF Init, HeldInv
<1>6. SentAsPrescribed
  BY DEF Init, SentAsPrescribed
<1> QED
  BY <1>2, <1>3, <1>4, <1>5, <1>6 DEF TransportInv

(* A new connection starts like the first one.                             *)
LEMMA ServeStep == TransportInv /\ Serve => TransportInv'
<1> SUFFICES ASSUME TransportInv, Serve PROVE TransportInv'
  OBVIOUS
<1> USE DEF TransportInv
<1>0. NoStats \in [Counters -> Nat] /\ NoStats["forwarded"] = 0
  BY DEF NoStats, Counters
<1>1. NewPump \in PumpState /\ NewPump.pending = <<>> /\ NewPump.pc = "top"
  BY <1>0 DEF NewPump, PumpState
<1>2. TransportTypeOK'
  <2>1. /\ [d \in Directions |-> <<>>] \in [Directions -> Seq(Frame)]
        /\ [d \in Directions |-> <<>>] \in [Directions -> Seq(Seq(Frame))]
        /\ [d \in Directions |-> NewPump] \in [Directions -> PumpState]
        /\ [d \in Directions |-> 0] \in [Directions -> Nat]
    BY <1>1
  <2>2. Len(<<>>) <= 1
    OBVIOUS
  <2>3. \A d \in Directions : Len(pump[d].pending)' <= 1
    BY <1>1, <2>2 DEF Serve
  <2>4. /\ (faults \in Seq(FaultMenu))' /\ (local \in Seq(FaultMenu))'
        /\ (waiting \in Nat)' /\ (conns \in Nat)' /\ (waiting <= conns)' /\ (conns <= MaxConns)'
    BY BoundAssumption DEF Serve, TransportTypeOK
  <2>5. /\ (open \in [Directions -> BOOLEAN])'
        /\ (stats \in [Counters -> Nat])' /\ (published \in [Counters -> Nat])'
        /\ (running \in BOOLEAN)' /\ (stopping \in BOOLEAN)' /\ (aborted \in BOOLEAN)'
        /\ (acceptor \in {"off", "top", "accept", "serve", "ended"})'
    BY <1>0 DEF Serve, TransportTypeOK
  <2>6. /\ (inbuf \in [Directions -> Seq(Frame)])'
        /\ (read \in [Directions -> Seq(Frame)])'
        /\ (sent \in [Directions -> Seq(Seq(Frame))])'
        /\ (handed \in [Directions -> Nat])'
        /\ (pump \in [Directions -> PumpState])'
    BY <2>1 DEF Serve
  <2> QED
    BY <2>3, <2>4, <2>5, <2>6 DEF TransportTypeOK
<1>3. WholeInv'
  <2>1. <<>> \in Seq(WholeFrame) /\ <<>> \in Seq(Seq(WholeFrame))
    OBVIOUS
  <2> QED
    BY <1>1, <2>1 DEF Serve, WholeInv
<1>4. StatsInv'
  BY <1>0, <1>1 DEF Serve, StatsInv, Owed, TotalSent, Directions
<1>5. HeldInv'
  <2>1. \A d : HeldBack(faults, d, <<>>, 1) = <<>>
    BY DEF HeldBack
  <2> QED
    BY <1>1, <2>1 DEF Serve, HeldInv
<1>6. SentAsPrescribed'
  BY DEF Serve, SentAsPrescribed
<1> QED
  BY <1>2, <1>3, <1>4, <1>5, <1>6

(* Steps that leave the streams and the counters alone.                    *)
LEMMA QuietStep ==
  ASSUME TransportInv, TransportTypeOK', UNCHANGED <<inbuf, pump, stats, read, sent, handed, local>>
  PROVE  TransportInv'
<1>1. WholeInv'
  BY DEF TransportInv, WholeInv
<1>2. StatsInv'
  BY DEF TransportInv, StatsInv, Owed, TotalSent
<1>3. HeldInv'
  BY DEF TransportInv, HeldInv
<1>4. SentAsPrescribed'
  BY DEF TransportInv, SentAsPrescribed
<1> QED
  BY <1>1, <1>2, <1>3, <1>4 DEF TransportInv

LEMMA OwnerAndAcceptorSteps ==
  ASSUME TransportInv, OwnerStep \/ AcceptorStep \/ ClientConnects
                       \/ (\E d \in Directions : PeerCloses(d)) \/ UNCHANGED vars
  PROVE  TransportInv'
<1> USE BoundAssumption
<1>0. TransportTypeOK
  BY DEF TransportInv
<1>1. CASE Start
  <2>1. TransportTypeOK'
    BY <1>0, <1>1 DEF Start, TransportTypeOK, connVars
  <2> QED
    BY <1>1, <2>1, QuietStep DEF Start, connVars
<1>2. ASSUME NEW f \in FaultMenu, EnqueueFault(f) PROVE TransportInv'
  <2>1. TransportTypeOK'
    BY <1>0, <1>2 DEF EnqueueFault, TransportTypeOK, connVars
  <2> QED
    BY <1>2, <2>1, QuietStep DEF EnqueueFault, connVars
<1>3. CASE Stop
  <2>1. TransportTypeOK'
    <3>1. waiting' \in Nat /\ waiting' <= conns'
      BY <1>0, <1>3 DEF Stop, TransportTypeOK
    <3> QED
      BY <1>0, <1>3, <3>1 DEF Stop, TransportTypeOK, connVars
  <2> QED
    BY <1>3, <2>1, QuietStep DEF Stop, connVars
<1>4. CASE StopJoins
  <2>1. TransportTypeOK'
    BY <1>0, <1>4 DEF StopJoins, TransportTypeOK, connVars
  <2> QED
    BY <1>4, <2>1, QuietStep DEF StopJoins, connVars
<1>5. CASE LoopTop
  <2>1. TransportTypeOK'
    BY <1>0, <1>5 DEF LoopTop, TransportTypeOK, connVars
  <2> QED
    BY <1>5, <2>1, QuietStep DEF LoopTop, connVars
<1>6. CASE AcceptFails
  <2>1. TransportTypeOK'
    BY <1>0, <1>6 DEF AcceptFails, TransportTypeOK, connVars
  <2> QED
    BY <1>6, <2>1, QuietStep DEF AcceptFails, connVars
<1>7. CASE TargetRefuses
  <2>1. TransportTypeOK'
    BY <1>0, <1>7 DEF TargetRefuses, TransportTypeOK, connVars
  <2> QED
    BY <1>7, <2>1, QuietStep DEF TargetRefuses, connVars
<1>8. CASE Finish
  <2>1. TransportTypeOK'
    BY <1>0, <1>8 DEF Finish, TransportTypeOK
  <2> QED
    BY <1>8, <2>1, QuietStep DEF Finish
<1>9. CASE ClientConnects
  <2>1. TransportTypeOK'
    BY <1>0, <1>9 DEF ClientConnects, TransportTypeOK, connVars
  <2> QED
    BY <1>9, <2>1, QuietStep DEF ClientConnects, connVars
<1>10. ASSUME NEW d \in Directions, PeerCloses(d) PROVE TransportInv'
  <2>1. TransportTypeOK'
    BY <1>0, <1>10 DEF PeerCloses, TransportTypeOK
  <2> QED
    BY <1>10, <2>1, QuietStep DEF PeerCloses
<1>11. CASE UNCHANGED vars
  <2>1. TransportTypeOK'
    BY <1>0, <1>11 DEF vars, connVars, TransportTypeOK
  <2> QED
    BY <1>11, <2>1, QuietStep DEF vars, connVars
<1> QED
  BY <1>1, <1>2, <1>3, <1>4, <1>5, <1>6, <1>7, <1>8, <1>9, <1>10, <1>11, ServeStep
  DEF OwnerStep, AcceptorStep
(* A peer sends a whole frame.                                             *)
LEMMA PeerSendsStep ==
  ASSUME TransportInv, NEW d \in Directions, NEW t \in Types, NEW p \in Payloads, PeerSends(d, t, p)
  PROVE  TransportInv'
<1> DEFINE n == Len(read[d]) + Len(inbuf[d])
           m == [type |-> t, len |-> Len(p), payload |-> p, no |-> n + 1]
<1>0. TransportTypeOK /\ WholeInv
  BY DEF TransportInv
<1>1. n \in Nat
  BY <1>0 DEF TransportTypeOK
<1>2. p \in Seq(Byte) /\ Len(p) \in Nat
  BY PayloadAssumption
<1>3. inbuf' = [inbuf EXCEPT ![d] = Append(@, m)]
  BY DEF PeerSends
<1> HIDE DEF n
<1>4. m \in Frame /\ m \in WholeFrame
  BY <1>1, <1>2 DEF Frame, WholeFrame
<1> HIDE DEF m
<1>5. \A e \in Directions : inbuf'[e] = IF e = d THEN Append(inbuf[d], m) ELSE inbuf[e]
  BY <1>0, <1>3 DEF TransportTypeOK
<1>6. TransportTypeOK'
  <2>1. inbuf' \in [Directions -> Seq(Frame)]
    BY <1>0, <1>3, <1>4 DEF TransportTypeOK
  <2> QED
    BY <1>0, <2>1 DEF TransportTypeOK, PeerSends
<1>7. WholeInv'
  <2>1. inbuf[d] \in Seq(WholeFrame)
    BY <1>0 DEF WholeInv
  <2>2. Append(inbuf[d], m) \in Seq(WholeFrame)
    BY <1>4, <2>1
  <2>3. \A e \in Directions : inbuf'[e] \in Seq(WholeFrame)
    BY <1>0, <1>5, <2>2 DEF WholeInv
  <2>4. pump' = pump /\ sent' = sent /\ read' = read
    BY DEF PeerSends
  <2> QED
    BY <1>0, <2>3, <2>4 DEF WholeInv
<1>8. StatsInv'
  BY DEF TransportInv, StatsInv, Owed, TotalSent, PeerSends
<1>9. HeldInv'
  BY DEF TransportInv, HeldInv, PeerSends
<1>10. SentAsPrescribed'
  BY DEF TransportInv, SentAsPrescribed, PeerSends
<1> QED
  BY <1>6, <1>7, <1>8, <1>9, <1>10 DEF TransportInv

(* A forwarder goes from one place of its loop to another, with nothing to *)
(* count before or after.                                                  *)
LEMMA MoveStep ==
  ASSUME TransportInv, NEW d \in Directions, NEW pc \in {"top", "read", "done"},
         pump[d].pc # "count",
         pump' = [pump EXCEPT ![d].pc = pc], aborted' \in BOOLEAN,
         UNCHANGED <<running, stopping, acceptor, faults, waiting, conns, published, local, open,
                     inbuf, stats, read, sent, handed>>
  PROVE  TransportInv'
<1>0. TransportTypeOK /\ pump \in [Directions -> PumpState]
  BY DEF TransportInv, TransportTypeOK
<1>1. pump' \in [Directions -> PumpState]
  BY <1>0 DEF PumpState
<1>2. \A e \in Directions : e # d => pump'[e] = pump[e]
  BY <1>0
<1>3. /\ pump'[d].pc = pc /\ pump'[d].pending = pump[d].pending
  BY <1>0 DEF PumpState
<1>4. \A e \in Directions : pump'[e].pending = pump[e].pending
  BY <1>2, <1>3
<1>5. TransportTypeOK'
  BY <1>0, <1>1, <1>4 DEF TransportTypeOK
<1>6. WholeInv'
  BY <1>4 DEF TransportInv, WholeInv
<1>7. StatsInv'
  <2>1. \A e \in Directions : Owed(e)' = Owed(e)
    BY <1>2, <1>3 DEF Owed
  <2>2. Owed("C2S")' = Owed("C2S") /\ Owed("S2C")' = Owed("S2C")
    BY <2>1 DEF Directions
  <2>3. \A e \in Directions : pump'[e].pc = "count" => pump[e].pc = "count" /\ pump'[e].loaded = pump[e].loaded
    BY <1>2, <1>3
  <2>4. StatsInv
    BY DEF TransportInv
  <2> QED
    BY <2>2, <2>3, <2>4 DEF StatsInv, TotalSent
<1>8. HeldInv'
  BY <1>4 DEF TransportInv, HeldInv
<1>9. SentAsPrescribed'
  BY DEF TransportInv, SentAsPrescribed
<1> QED
  BY <1>5, <1>6, <1>7, <1>8, <1>9 DEF TransportInv

(* The counters are stored: whatever the other forwarder stored since they *)
(* were loaded is lost, which can only make the statistics smaller.        *)
LEMMA CountStep ==
  ASSUME TransportInv, NEW d \in Directions, CountUp(d)
  PROVE  TransportInv'
<1>0. TransportTypeOK /\ pump \in [Directions -> PumpState]
  BY DEF TransportInv, TransportTypeOK
<1>1. pump' = [pump EXCEPT ![d].pc = "top"] /\ pump[d].pc = "count"
  BY DEF CountUp
<1>2. pump' \in [Directions -> PumpState]
  BY <1>0, <1>1 DEF PumpState
<1>3. \A e \in Directions : e # d => pump'[e] = pump[e]
  BY <1>0, <1>1
<1>4. pump'[d].pc = "top" /\ pump'[d].pending = pump[d].pending
  BY <1>0, <1>1 DEF PumpState
<1>5. \A e \in Directions : pump'[e].pending = pump[e].pending
  BY <1>3, <1>4
<1>6. /\ pump[d].added \in [Counters -> Nat] /\ pump[d].loaded \in [Counters -> Nat]
      /\ stats \in [Counters -> Nat]
  BY <1>0 DEF PumpState, TransportTypeOK
<1>7. stats' \in [Counters -> Nat]
  BY <1>6 DEF CountUp
<1>8. TransportTypeOK'
  BY <1>0, <1>2, <1>5, <1>7 DEF TransportTypeOK, CountUp
<1>9. WholeInv'
  BY <1>5 DEF TransportInv, WholeInv, CountUp
<1>10. StatsInv'
  <2> DEFINE added == pump[d].added["forwarded"]
             loaded == pump[d].loaded["forwarded"]
             now == stats["forwarded"]
  <2>0. added \in Nat /\ loaded \in Nat /\ now \in Nat
    BY <1>6 DEF Counters
  <2>1. stats'["forwarded"] = IF added > 0 THEN loaded + added ELSE now
    BY DEF CountUp, Counters
  <2>2. Owed(d) = added /\ Owed(d)' = 0
    BY <1>1, <1>4 DEF Owed
  <2>3. \A e \in Directions : e # d => Owed(e)' = Owed(e) /\ Owed(e) \in Nat
    BY <1>3, <1>0 DEF Owed, PumpState, Counters
  <2>4. \A e \in Directions : pump'[e].pc = "count" => pump[e].pc = "count" /\ pump'[e].loaded = pump[e].loaded
    BY <1>3, <1>4
  <2>5. \A e \in Directions : pump[e].loaded["forwarded"] \in Nat
    BY <1>0 DEF PumpState, Counters
  <2>6. /\ now + (Owed("C2S") + Owed("S2C")) <= TotalSent
        /\ \A e \in Directions :
             pump[e].pc = "count" => pump[e].loaded["forwarded"] + (Owed("C2S") + Owed("S2C")) <= TotalSent
    BY DEF TransportInv, StatsInv
  <2>7. TotalSent' = TotalSent /\ TotalSent \in Nat
    BY <1>0 DEF TotalSent, CountUp, TransportTypeOK, Directions
  <2>8. loaded + (Owed("C2S") + Owed("S2C")) <= TotalSent
    BY <1>1, <2>6
  <2> HIDE DEF added, loaded, now
  <2>9. CASE d = "C2S"
    <3>1. Owed("S2C")' = Owed("S2C") /\ Owed("S2C") \in Nat
      BY <2>3, <2>9 DEF Directions
    <3>2. Owed("C2S") = added /\ Owed("C2S")' = 0
      BY <2>2, <2>9
    <3>3. stats'["forwarded"] + (Owed("C2S")' + Owed("S2C")') <= TotalSent'
      BY <2>0, <2>1, <2>6, <2>7, <2>8, <3>1, <3>2
    <3>4. ASSUME NEW e \in Directions, pump'[e].pc = "count"
          PROVE  pump'[e].loaded["forwarded"] + (Owed("C2S")' + Owed("S2C")') <= TotalSent'
      BY <2>0, <2>4, <2>5, <2>6, <2>7, <3>1, <3>2, <3>4
    <3> QED
      BY <3>3, <3>4 DEF StatsInv
  <2>10. CASE d = "S2C"
    <3>1. Owed("C2S")' = Owed("C2S") /\ Owed("C2S") \in Nat
      BY <2>3, <2>10 DEF Directions
    <3>2. Owed("S2C") = added /\ Owed("S2C")' = 0
      BY <2>2, <2>10
    <3>3. stats'["forwarded"] + (Owed("C2S")' + Owed("S2C")') <= TotalSent'
      BY <2>0, <2>1, <2>6, <2>7, <2>8, <3>1, <3>2
    <3>4. ASSUME NEW e \in Directions, pump'[e].pc = "count"
          PROVE  pump'[e].loaded["forwarded"] + (Owed("C2S")' + Owed("S2C")') <= TotalSent'
      BY <2>0, <2>4, <2>5, <2>6, <2>7, <3>1, <3>2, <3>4
    <3> QED
      BY <3>3, <3>4 DEF StatsInv
  <2> QED
    BY <2>9, <2>10 DEF Directions
<1>11. HeldInv'
  BY <1>5 DEF TransportInv, HeldInv, CountUp
<1>12. SentAsPrescribed'
  BY DEF TransportInv, SentAsPrescribed, CountUp
<1> QED
  BY <1>8, <1>9, <1>10, <1>11, <1>12 DEF TransportInv
(* A frame is read and treated as the prescription says.                   *)
LEMMA TreatStep ==
  ASSUME TransportInv, NEW d \in Directions, NEW sends, NEW pending, NEW faulted \in {0, 1},
         Treat(d, sends, pending, faulted), aborted' \in BOOLEAN,
         pump[d].pc = "read", inbuf[d] # <<>>,
         sends \in Seq(WholeFrame), pending \in Seq(WholeFrame), Len(pending) <= 1,
         sends = Expected(local, d, Append(read[d], Head(inbuf[d])), Len(read[d]) + 1),
         pending = HeldBack(local, d, Append(read[d], Head(inbuf[d])), Len(read[d]) + 2)
  PROVE  TransportInv'
<1> DEFINE m == Head(inbuf[d])
           ms == read[d]
           new == [pc |-> "count", seq |-> pump[d].seq + 1, pending |-> pending, loaded |-> stats,
                   added |-> [forwarded |-> Len(sends), faults |-> faulted]]
<1>0. TransportTypeOK /\ WholeInv /\ StatsInv /\ HeldInv /\ SentAsPrescribed
  BY DEF TransportInv
<1>1. /\ inbuf \in [Directions -> Seq(Frame)] /\ inbuf[d] \in Seq(WholeFrame)
      /\ read \in [Directions -> Seq(Frame)]
      /\ sent \in [Directions -> Seq(Seq(Frame))] /\ sent[d] \in Seq(Seq(WholeFrame))
      /\ handed \in [Directions -> Nat]
      /\ pump \in [Directions -> PumpState]
      /\ stats \in [Counters -> Nat]
  BY <1>0 DEF TransportTypeOK, WholeInv
<1>2. m \in WholeFrame /\ Tail(inbuf[d]) \in Seq(WholeFrame)
  BY <1>1
<1>3. m \in Frame /\ Tail(inbuf[d]) \in Seq(Frame)
  <2>1. inbuf[d] \in Seq(Frame)
    BY <1>1
  <2> QED
    BY <2>1
<1>4. /\ sent' = [sent EXCEPT ![d] = Append(@, sends)]
      /\ handed' = [handed EXCEPT ![d] = @ + Len(sends)]
      /\ read' = [read EXCEPT ![d] = Append(@, m)]
      /\ inbuf' = [inbuf EXCEPT ![d] = Tail(@)]
      /\ pump' = [pump EXCEPT ![d] = new]
      /\ UNCHANGED <<running, stopping, acceptor, faults, waiting, conns, published, local, open, stats>>
  BY DEF Treat
<1>5. sends \in Seq(Frame) /\ pending \in Seq(Frame) /\ Len(sends) \in Nat
  <2>1. \A S : S \in Seq(WholeFrame) => S \in Seq(Frame)
    <3>1. WholeFrame \subseteq Frame
      BY DEF WholeFrame
    <3> QED
      BY <3>1
  <2> QED
    BY <2>1
<1>6. new \in PumpState
  <2>1. pump[d].seq + 1 \in Nat
    BY <1>1 DEF PumpState
  <2>2. [forwarded |-> Len(sends), faults |-> faulted] \in [Counters -> Nat]
    BY <1>5 DEF Counters
  <2> QED
    BY <1>1, <1>5, <2>1, <2>2 DEF PumpState
<1>7. /\ new.pc = "count" /\ new.pending = pending /\ new.loaded = stats
      /\ new.added["forwarded"] = Len(sends)
  OBVIOUS
<1> HIDE DEF new, m
<1>8. \A e \in Directions :
        /\ sent'[e] = IF e = d THEN Append(sent[d], sends) ELSE sent[e]
        /\ handed'[e] = IF e = d THEN handed[d] + Len(sends) ELSE handed[e]
        /\ read'[e] = IF e = d THEN Append(ms, m) ELSE read[e]
        /\ inbuf'[e] = IF e = d THEN Tail(inbuf[d]) ELSE inbuf[e]
        /\ pump'[e] = IF e = d THEN new ELSE pump[e]
  BY <1>1, <1>4
<1>9. ms \in Seq(Frame)
  BY <1>1
<1>10. TransportTypeOK'
  <2>1. inbuf' \in [Directions -> Seq(Frame)] /\ read' \in [Directions -> Seq(Frame)]
    BY <1>1, <1>3, <1>4, <1>9
  <2>2. sent' \in [Directions -> Seq(Seq(Frame))]
    BY <1>1, <1>4, <1>5
  <2>3. handed' \in [Directions -> Nat] /\ pump' \in [Directions -> PumpState]
    BY <1>1, <1>4, <1>5, <1>6
  <2>4. \A e \in Directions : Len(pump'[e].pending) <= 1
    BY <1>0, <1>7, <1>8 DEF TransportTypeOK
  <2> QED
    BY <1>0, <1>4, <2>1, <2>2, <2>3, <2>4 DEF TransportTypeOK
<1>11. WholeInv'
  <2>1. Append(sent[d], sends) \in Seq(Seq(WholeFrame))
    BY <1>1
  <2>2. Append(ms, m) \in Seq(WholeFrame)
    <3>1. ms \in Seq(WholeFrame)
      BY <1>0 DEF WholeInv
    <3> QED
      BY <1>2, <3>1
  <2> QED
    BY <1>0, <1>2, <1>7, <1>8, <2>1, <2>2 DEF WholeInv
<1>12. StatsInv'
  <2>0. \A e \in Directions : handed[e] \in Nat /\ Owed(e) \in Nat /\ pump[e].loaded["forwarded"] \in Nat
    <3> SUFFICES ASSUME NEW e \in Directions
                 PROVE  handed[e] \in Nat /\ Owed(e) \in Nat /\ pump[e].loaded["forwarded"] \in Nat
      OBVIOUS
    <3>1. handed[e] \in Nat /\ pump[e] \in PumpState
      BY <1>1
    <3>2. pump[e].added["forwarded"] \in Nat /\ pump[e].loaded["forwarded"] \in Nat
      BY <3>1 DEF PumpState, Counters
    <3> QED
      BY <3>1, <3>2 DEF Owed
  <2>1. Owed(d) = 0 /\ Owed(d)' = Len(sends) /\ handed'[d] = handed[d] + Len(sends)
    BY <1>7, <1>8 DEF Owed
  <2>2. \A e \in Directions : e # d => Owed(e)' = Owed(e) /\ handed'[e] = handed[e]
    BY <1>8 DEF Owed
  <2>3. Owed("C2S")' + Owed("S2C")' = Owed("C2S") + Owed("S2C") + Len(sends)
        /\ TotalSent' = TotalSent + Len(sends)
    <3>1. CASE d = "C2S"
      BY <1>5, <2>0, <2>1, <2>2, <3>1 DEF Directions, TotalSent
    <3>2. CASE d = "S2C"
      BY <1>5, <2>0, <2>1, <2>2, <3>2 DEF Directions, TotalSent
    <3> QED
      BY <3>1, <3>2 DEF Directions
  <2>4. Owed("C2S") \in Nat /\ Owed("S2C") \in Nat /\ TotalSent \in Nat /\ stats["forwarded"] \in Nat
    <3>1. "C2S" \in Directions /\ "S2C" \in Directions /\ "forwarded" \in Counters
      BY DEF Directions, Counters
    <3>2. handed["C2S"] \in Nat /\ handed["S2C"] \in Nat
      BY <2>0, <3>1
    <3>3. stats["forwarded"] \in Nat
      BY <1>1, <3>1
    <3>4. Owed("C2S") \in Nat /\ Owed("S2C") \in Nat
      BY <2>0, <3>1
    <3>5. TotalSent \in Nat
      BY <3>2 DEF TotalSent
    <3> QED
      BY <3>3, <3>4, <3>5
  <2>5. /\ stats["forwarded"] + (Owed("C2S") + Owed("S2C")) <= TotalSent
        /\ \A e \in Directions :
             pump[e].pc = "count" => pump[e].loaded["forwarded"] + (Owed("C2S") + Owed("S2C")) <= TotalSent
    BY <1>0 DEF StatsInv
  <2>6. stats'["forwarded"] + (Owed("C2S")' + Owed("S2C")') <= TotalSent'
    BY <1>4, <1>5, <2>3, <2>4, <2>5
  <2>7. ASSUME NEW e \in Directions, pump'[e].pc = "count"
        PROVE  pump'[e].loaded["forwarded"] + (Owed("C2S")' + Owed("S2C")') <= TotalSent'
    <3>1. CASE e = d
      BY <1>4, <1>7, <1>8, <2>6, <3>1
    <3>2. CASE e # d
      <4>1. pump'[e] = pump[e]
        BY <1>8, <3>2
      <4>2. pump[e].loaded["forwarded"] + (Owed("C2S") + Owed("S2C")) <= TotalSent
        BY <2>5, <2>7, <4>1
      <4>3. pump[e].loaded["forwarded"] \in Nat
        BY <2>0
      <4> DEFINE l == pump[e].loaded["forwarded"]
      <4>4. pump'[e].loaded["forwarded"] = l /\ l \in Nat /\ l + (Owed("C2S") + Owed("S2C")) <= TotalSent
        BY <4>1, <4>2, <4>3
      <4> HIDE DEF l
      <4> QED
        BY <1>5, <2>3, <2>4, <4>4
    <3> QED
      BY <3>1, <3>2
  <2> QED
    BY <2>6, <2>7 DEF StatsInv
<1>13. /\ Len(ms) \in Nat /\ Len(Append(ms, m)) = Len(ms) + 1
       /\ DOMAIN ms = 1 .. Len(ms) /\ DOMAIN Append(ms, m) = 1 .. Len(ms) + 1
  BY <1>3, <1>9, Appended
<1>14. HeldInv'
  <2>1. pending = HeldBack(local, d, Append(ms, m), Len(Append(ms, m)) + 1)
    <3>1. (Len(ms) + 1) + 1 = Len(ms) + 2
      BY <1>13
    <3> QED
      BY <1>13, <3>1 DEF m
  <2> QED
    <3>1. ASSUME NEW e \in Directions
          PROVE  pump'[e].pending = HeldBack(local, e, read'[e], Len(read'[e]) + 1)
      <4>1. CASE e = d
        <5>1. pump'[e] = new /\ read'[e] = Append(ms, m)
          BY <1>8, <4>1
        <5> QED
          BY <1>7, <2>1, <4>1, <5>1
      <4>2. CASE e # d
        <5>1. pump'[e] = pump[e] /\ read'[e] = read[e]
          BY <1>8, <4>2
        <5> QED
          BY <1>0, <5>1 DEF HeldInv
      <4> QED
        BY <4>1, <4>2
    <3>2. local' = local
      BY <1>4
    <3> QED
      BY <3>1, <3>2 DEF HeldInv
<1>15. SentAsPrescribed'
  <2>1. Len(sent[d]) = Len(ms) /\ \A i \in 1 .. Len(ms) : sent[d][i] = Expected(local, d, ms, i)
    BY <1>0, <1>13 DEF SentAsPrescribed
  <2>2. /\ Len(Append(sent[d], sends)) = Len(ms) + 1
        /\ Append(sent[d], sends)[Len(ms) + 1] = sends
        /\ \A i \in 1 .. Len(ms) : Append(sent[d], sends)[i] = sent[d][i]
    BY <1>1, <2>1, Appended
  <2>3. sends = Expected(local, d, Append(ms, m), Len(ms) + 1)
    BY DEF m
  <2>4. \A i \in 1 .. Len(ms) : Expected(local, d, Append(ms, m), i) = Expected(local, d, ms, i)
    BY <1>3, <1>9, ExpectedStays
  <2>5. \A i \in 1 .. Len(ms) + 1 : Append(sent[d], sends)[i] = Expected(local, d, Append(ms, m), i)
    <3> TAKE i \in 1 .. Len(ms) + 1
    <3>1. CASE i = Len(ms) + 1
      BY <2>2, <2>3, <3>1
    <3>2. CASE i # Len(ms) + 1
      <4>1. i \in 1 .. Len(ms)
        BY <1>13, <3>2
      <4> QED
        BY <2>1, <2>2, <2>4, <4>1
    <3> QED
      BY <3>1, <3>2
  <2> QED
    <3>1. ASSUME NEW e \in Directions
          PROVE  /\ Len(sent'[e]) = Len(read'[e])
                 /\ \A i \in DOMAIN read'[e] : sent'[e][i] = Expected(local, e, read'[e], i)
      <4>1. CASE e = d
        <5>1. sent'[e] = Append(sent[d], sends) /\ read'[e] = Append(ms, m)
          BY <1>8, <4>1
        <5> QED
          BY <1>13, <2>2, <2>5, <4>1, <5>1
      <4>2. CASE e # d
        <5>1. sent'[e] = sent[e] /\ read'[e] = read[e]
          BY <1>8, <4>2
        <5> QED
          BY <1>0, <5>1 DEF SentAsPrescribed
      <4> QED
        BY <4>1, <4>2
    <3>2. local' = local
      BY <1>4
    <3> QED
      BY <3>1, <3>2 DEF SentAsPrescribed
<1> QED
  BY <1>10, <1>11, <1>12, <1>14, <1>15 DEF TransportInv

(* What the prescription says of the frame that is about to be read, in    *)
(* terms of the forwarder's state.                                         *)
LEMMA NextFrame ==
  ASSUME TransportInv, NEW d \in Directions, inbuf[d] # <<>>,
         NEW m, m = Head(inbuf[d]),
         NEW kind, kind = KindOf(local, d, m),
         NEW what, what = Expected(local, d, Append(read[d], m), Len(read[d]) + 1),
         NEW next, next = HeldBack(local, d, Append(read[d], m), Len(read[d]) + 2),
         NEW offset, offset = Applied(local, d, m)[1].offset
  PROVE  /\ m \in WholeFrame
         /\ pump[d].pending \in Seq(WholeFrame) /\ Len(pump[d].pending) <= 1
         /\ kind = "none" <=> Applied(local, d, m) = <<>>
         /\ kind # "none" => offset \in Int
         /\ next = IF kind = "reorder" THEN <<m>> ELSE pump[d].pending
         /\ kind \in {"none", "delay"} => what = <<m>>
         /\ kind \in {"drop", "close", "half_close"} => what = <<>>
         /\ kind = "duplicate" => what = <<m, m>>
         /\ kind = "truncate" => what = <<Truncated(m, offset)>>
         /\ kind = "corrupt" => what = <<Corrupted(m, offset)>>
         /\ kind = "reorder" => what = pump[d].pending
<1> DEFINE ms == read[d]
           more == Append(ms, m)
           n == Len(ms) + 1
<1>1. /\ inbuf[d] \in Seq(WholeFrame) /\ pump[d].pending \in Seq(WholeFrame)
      /\ Len(pump[d].pending) <= 1 /\ ms \in Seq(Frame) /\ local \in Seq(FaultMenu)
      /\ pump[d].pending = HeldBack(local, d, ms, n)
  BY DEF TransportInv, TransportTypeOK, WholeInv, HeldInv
<1>2. m \in WholeFrame
  BY <1>1
<1>3. m \in Frame
  BY <1>2 DEF WholeFrame
<1>4. kind = "none" <=> Applied(local, d, m) = <<>>
  BY <1>1, KindIs
<1>5. kind # "none" => offset \in Int
  BY <1>1, KindIs
<1>6. next = IF kind = "reorder" THEN <<m>> ELSE pump[d].pending
  BY <1>1, <1>3, HeldBackNext
<1>7. Len(ms) \in Nat /\ more[n] = m /\ HeldBack(local, d, more, n) = pump[d].pending
  BY <1>1, <1>3, Appended, HeldBackStays
<1>8. what = Expected(local, d, more, n)
  OBVIOUS
<1> HIDE DEF ms, more, n
<1>9. /\ kind = KindOf(local, d, more[n])
      /\ offset = Applied(local, d, more[n])[1].offset
  BY <1>7
<1>10. /\ kind \in {"none", "delay"} => what = <<more[n]>>
       /\ kind \in {"drop", "close", "half_close"} => what = <<>>
       /\ kind = "duplicate" => what = <<more[n], more[n]>>
       /\ kind = "truncate" => what = <<Truncated(more[n], offset)>>
       /\ kind = "corrupt" => what = <<Corrupted(more[n], offset)>>
       /\ kind = "reorder" => what = HeldBack(local, d, more, n)
  BY <1>8, <1>9, ExpectedIs
<1>11. /\ kind \in {"none", "delay"} => what = <<m>>
       /\ kind \in {"drop", "close", "half_close"} => what = <<>>
       /\ kind = "duplicate" => what = <<m, m>>
       /\ kind = "truncate" => what = <<Truncated(m, offset)>>
       /\ kind = "corrupt" => what = <<Corrupted(m, offset)>>
       /\ kind = "reorder" => what = pump[d].pending
  BY <1>7, <1>10
<1> QED
  BY <1>1, <1>2, <1>4, <1>5, <1>6, <1>11

(* Each way of treating a frame is the one the prescription asks for.      *)
FrameStep(d) ==
  \/ ForwardFrame(d) \/ Drop(d) \/ Duplicate(d) \/ Truncate(d)
  \/ Corrupt(d) \/ Reorder(d) \/ Delay(d) \/ Close(d)

LEMMA FrameSteps ==
  ASSUME TransportInv, NEW d \in Directions, FrameStep(d)
  PROVE  TransportInv'
<1> DEFINE m == Head(inbuf[d])
           kind == KindOf(local, d, m)
           what == Expected(local, d, Append(read[d], m), Len(read[d]) + 1)
           next == HeldBack(local, d, Append(read[d], m), Len(read[d]) + 2)
           offset == Applied(local, d, m)[1].offset
           pending == pump[d].pending
<1>1. inbuf[d] # <<>> /\ pump[d].pc = "read"
  BY DEF FrameStep, ForwardFrame, FaultFrame, Drop, Duplicate, Truncate, Corrupt, Reorder, Delay, Close
<1>2. /\ m \in WholeFrame
      /\ pending \in Seq(WholeFrame) /\ Len(pending) <= 1
      /\ kind = "none" <=> Applied(local, d, m) = <<>>
      /\ kind # "none" => offset \in Int
      /\ next = IF kind = "reorder" THEN <<m>> ELSE pending
      /\ kind \in {"none", "delay"} => what = <<m>>
      /\ kind \in {"drop", "close", "half_close"} => what = <<>>
      /\ kind = "duplicate" => what = <<m, m>>
      /\ kind = "truncate" => what = <<Truncated(m, offset)>>
      /\ kind = "corrupt" => what = <<Corrupted(m, offset)>>
      /\ kind = "reorder" => what = pending
  BY <1>1, NextFrame
<1>3. aborted \in BOOLEAN
  BY DEF TransportInv, TransportTypeOK
<1>4. ASSUME NEW sends, NEW pend, NEW faulted \in {0, 1}, Treat(d, sends, pend, faulted),
             aborted' \in BOOLEAN, sends = what, pend = next,
             sends \in Seq(WholeFrame), pend \in Seq(WholeFrame), Len(pend) <= 1
      PROVE  TransportInv'
  BY <1>1, <1>4, TreatStep
<1>5. <<m>> \in Seq(WholeFrame) /\ <<m, m>> \in Seq(WholeFrame) /\ <<>> \in Seq(WholeFrame)
      /\ Len(<<m>>) <= 1
  BY <1>2
<1>6. ASSUME NEW k, NEW sends, NEW pend, FaultFrame(d, k, sends, pend)
      PROVE  kind = k /\ k # "none" /\ Treat(d, sends, pend, 1)
  <2>1. /\ Applied(local, d, m) # <<>> /\ Applied(local, d, m)[1].kind = k
        /\ Treat(d, sends, pend, 1)
    BY <1>6 DEF FaultFrame
  <2>2. kind = k
    BY <2>1 DEF KindOf
  <2> QED
    BY <1>2, <2>1, <2>2
<1>7. CASE ForwardFrame(d)
  <2>1. Applied(local, d, m) = <<>> /\ Treat(d, <<m>>, pending, 0) /\ aborted' = aborted
    BY <1>7 DEF ForwardFrame
  <2> HIDE DEF m, kind, what, next, offset, pending
  <2>2. kind = "none" /\ what = <<m>> /\ next = pending
    BY <1>2, <2>1
  <2> QED
    BY <1>2, <1>3, <1>4, <1>5, <2>1, <2>2
<1>8. CASE Drop(d)
  <2>1. FaultFrame(d, "drop", <<>>, pending) /\ aborted' = aborted
    BY <1>8 DEF Drop
  <2> HIDE DEF m, kind, what, next, offset, pending
  <2>2. kind = "drop" /\ Treat(d, <<>>, pending, 1)
    BY <1>6, <2>1
  <2>3. what = <<>> /\ next = pending
    BY <1>2, <2>2
  <2> QED
    BY <1>2, <1>3, <1>4, <1>5, <2>1, <2>2, <2>3
<1>9. CASE Duplicate(d)
  <2>1. FaultFrame(d, "duplicate", <<m, m>>, pending) /\ aborted' = aborted
    BY <1>9 DEF Duplicate
  <2> HIDE DEF m, kind, what, next, offset, pending
  <2>2. kind = "duplicate" /\ Treat(d, <<m, m>>, pending, 1)
    BY <1>6, <2>1
  <2>3. what = <<m, m>> /\ next = pending
    BY <1>2, <2>2
  <2> QED
    BY <1>2, <1>3, <1>4, <1>5, <2>1, <2>2, <2>3
<1>10. CASE Truncate(d)
  <2>1. FaultFrame(d, "truncate", <<Truncated(m, offset)>>, pending) /\ aborted' = aborted
    BY <1>10 DEF Truncate
  <2> HIDE DEF m, kind, what, next, offset, pending
  <2>2. kind = "truncate" /\ Treat(d, <<Truncated(m, offset)>>, pending, 1)
    BY <1>6, <2>1
  <2>3. what = <<Truncated(m, offset)>> /\ next = pending
    BY <1>2, <2>2
  <2>4. Truncated(m, offset) \in WholeFrame
    BY <1>2, <2>2, TruncatedIs
  <2>5. <<Truncated(m, offset)>> \in Seq(WholeFrame)
    BY <2>4
  <2> QED
    BY <1>2, <1>3, <1>4, <2>1, <2>2, <2>3, <2>5
<1>11. CASE Corrupt(d)
  <2>1. FaultFrame(d, "corrupt", <<Corrupted(m, offset)>>, pending) /\ aborted' = aborted
    BY <1>11 DEF Corrupt
  <2> HIDE DEF m, kind, what, next, offset, pending
  <2>2. kind = "corrupt" /\ Treat(d, <<Corrupted(m, offset)>>, pending, 1)
    BY <1>6, <2>1
  <2>3. what = <<Corrupted(m, offset)>> /\ next = pending
    BY <1>2, <2>2
  <2>4. Corrupted(m, offset) \in WholeFrame
    BY <1>2, <2>2, CorruptedIs
  <2>5. <<Corrupted(m, offset)>> \in Seq(WholeFrame)
    BY <2>4
  <2> QED
    BY <1>2, <1>3, <1>4, <2>1, <2>2, <2>3, <2>5
<1>12. CASE Reorder(d)
  <2>1. FaultFrame(d, "reorder", pending, <<m>>) /\ aborted' = aborted
    BY <1>12 DEF Reorder, ReorderForwards
  <2> HIDE DEF m, kind, what, next, offset, pending
  <2>2. kind = "reorder" /\ Treat(d, pending, <<m>>, 1)
    BY <1>6, <2>1
  <2>3. what = pending /\ next = <<m>>
    BY <1>2, <2>2
  <2> QED
    BY <1>2, <1>3, <1>4, <1>5, <2>1, <2>2, <2>3
<1>13. CASE Delay(d)
  <2>1. FaultFrame(d, "delay", <<m>>, pending) /\ aborted' = aborted
    BY <1>13 DEF Delay
  <2> HIDE DEF m, kind, what, next, offset, pending
  <2>2. kind = "delay" /\ Treat(d, <<m>>, pending, 1)
    BY <1>6, <2>1
  <2>3. what = <<m>> /\ next = pending
    BY <1>2, <2>2
  <2> QED
    BY <1>2, <1>3, <1>4, <1>5, <2>1, <2>2, <2>3
<1>14. CASE Close(d)
  <2>1. PICK k \in {"close", "half_close"} : FaultFrame(d, k, <<>>, pending)
    BY <1>14 DEF Close
  <2>2. aborted' \in BOOLEAN
    BY <1>14 DEF Close
  <2> HIDE DEF m, kind, what, next, offset, pending
  <2>3. kind = k /\ Treat(d, <<>>, pending, 1)
    BY <1>6, <2>1
  <2>4. what = <<>> /\ next = pending
    BY <1>2, <2>3
  <2> QED
    BY <1>2, <1>4, <1>5, <2>2, <2>3, <2>4
<1> QED
  BY <1>7, <1>8, <1>9, <1>10, <1>11, <1>12, <1>13, <1>14 DEF FrameStep

LEMMA TransportStep == TransportInv /\ [Next]_vars => TransportInv'
<1> SUFFICES ASSUME TransportInv, [Next]_vars PROVE TransportInv'
  OBVIOUS
<1>1. ASSUME NEW d \in Directions, ForwarderStep(d) PROVE TransportInv'
  <2>0. aborted \in BOOLEAN
    BY DEF TransportInv, TransportTypeOK
  <2>1. CASE FrameStep(d)
    BY <2>1, FrameSteps
  <2>2. CASE CheckAborted(d)
    <3> DEFINE pc == IF aborted THEN "done" ELSE "read"
    <3>1. pc \in {"top", "read", "done"}
      OBVIOUS
    <3>2. /\ pump[d].pc # "count" /\ pump' = [pump EXCEPT ![d].pc = pc] /\ aborted' = aborted
          /\ UNCHANGED <<running, stopping, acceptor, faults, waiting, conns, published, local, open,
                         inbuf, stats, read, sent, handed>>
      BY <2>2 DEF CheckAborted
    <3> HIDE DEF pc
    <3> QED
      BY <2>0, <3>1, <3>2, MoveStep
  <2>3. CASE ReadFails(d)
    <3>1. /\ pump[d].pc # "count" /\ pump' = [pump EXCEPT ![d].pc = "done"] /\ aborted' \in BOOLEAN
          /\ UNCHANGED <<running, stopping, acceptor, faults, waiting, conns, published, local, open,
                         inbuf, stats, read, sent, handed>>
      BY <2>3 DEF ReadFails
    <3> QED
      BY <3>1, MoveStep
  <2>4. CASE CountUp(d)
    BY <2>4, CountStep
  <2> QED
    BY <1>1, <2>1, <2>2, <2>3, <2>4 DEF ForwarderStep, FrameStep
<1>2. CASE PeerStep
  BY <1>2, PeerSendsStep, OwnerAndAcceptorSteps DEF PeerStep
<1>3. CASE OwnerStep \/ AcceptorStep \/ UNCHANGED vars
  BY <1>3, OwnerAndAcceptorSteps
<1> QED
  BY <1>1, <1>2, <1>3 DEF Next

(* The inductive invariant holds throughout.                               *)
THEOREM TransportInvAlways == Spec => []TransportInv
BY TransportInitially, TransportStep, PTL DEF Spec

(* What follows from the invariant.                                        *)
LEMMA Consequences == TransportInv => StaysInStep /\ StatsNotExaggerated /\ UnrelatedUntouched
<1> SUFFICES ASSUME TransportInv PROVE StaysInStep /\ StatsNotExaggerated /\ UnrelatedUntouched
  OBVIOUS
<1>1. StaysInStep
  <2> SUFFICES ASSUME NEW d \in Directions, NEW i \in DOMAIN sent[d], NEW j \in DOMAIN sent[d][i]
               PROVE  sent[d][i][j].len = Len(sent[d][i][j].payload)
    BY DEF StaysInStep
  <2>1. sent[d] \in Seq(Seq(WholeFrame))
    BY DEF TransportInv, WholeInv
  <2>2. sent[d][i] \in Seq(WholeFrame)
    BY <2>1
  <2>3. sent[d][i][j] \in WholeFrame
    BY <2>2
  <2> QED
    BY <2>3 DEF WholeFrame
<1>2. StatsNotExaggerated
  <2>1. stats["forwarded"] + (Owed("C2S") + Owed("S2C")) <= TotalSent
    BY DEF TransportInv, StatsInv
  <2>2. pump \in [Directions -> PumpState] /\ handed \in [Directions -> Nat] /\ stats \in [Counters -> Nat]
    BY DEF TransportInv, TransportTypeOK
  <2>3. \A d \in Directions : Owed(d) \in Nat /\ handed[d] \in Nat
    BY <2>2 DEF Owed, PumpState, Counters
  <2>4. Owed("C2S") \in Nat /\ Owed("S2C") \in Nat /\ handed["C2S"] \in Nat /\ handed["S2C"] \in Nat
    BY <2>3 DEF Directions
  <2>5. stats["forwarded"] \in Nat
    BY <2>2 DEF Counters
  <2>6. TotalSent \in Nat
    BY <2>4 DEF TotalSent
  <2> QED
    BY <2>1, <2>4, <2>5, <2>6 DEF StatsNotExaggerated
<1>3. UnrelatedUntouched
  <2> SUFFICES ASSUME NEW d \in Directions, NEW i \in DOMAIN read[d]
               PROVE  IF Untargeted(local, d, read[d][i])
                      THEN sent[d][i] = <<read[d][i]>>
                      ELSE \A j \in DOMAIN sent[d][i] : ~Untargeted(local, d, sent[d][i][j])
    BY DEF UnrelatedUntouched
  <2>1. read[d] \in Seq(WholeFrame) /\ local \in Seq(FaultMenu)
        /\ sent[d][i] = Expected(local, d, read[d], i)
    BY DEF TransportInv, TransportTypeOK, WholeInv, SentAsPrescribed
  <2>2. i \in Nat /\ i >= 1 /\ \A j \in 1 .. i : read[d][j] \in WholeFrame
    BY <2>1
  <2>3. IF Untargeted(local, d, read[d][i])
        THEN Expected(local, d, read[d], i) = <<read[d][i]>>
        ELSE \A j \in DOMAIN Expected(local, d, read[d], i) :
               ~Untargeted(local, d, Expected(local, d, read[d], i)[j])
    BY <2>1, <2>2, PrescriptionSparesOthers
  <2> QED
    BY <2>1, <2>3
<1> QED
  BY <1>1, <1>2, <1>3

(* The interposer's state has its type: no cut ever leaves a frame of a    *)
(* negative length, and at most one frame is held back.                    *)
THEOREM TransportTypeCorrect == Spec => []TransportTypeOK
<1>1. TransportInv => TransportTypeOK
  BY DEF TransportInv
<1> QED
  BY <1>1, TransportInvAlways, PTL

(* What each forwarder sends on is what the fault list prescribes for the  *)
(* frames it read, whatever the other forwarder does.                      *)
THEOREM SentAsPrescribedAlways == Spec => []SentAsPrescribed
<1>1. TransportInv => SentAsPrescribed
  BY DEF TransportInv
<1> QED
  BY <1>1, TransportInvAlways, PTL

(* The receiver can always find the next frame in the stream.              *)
THEOREM StaysInStepAlways == Spec => []StaysInStep
<1>1. TransportInv => StaysInStep
  BY Consequences
<1> QED
  BY <1>1, TransportInvAlways, PTL

(* However the forwarders' unlocked counting interleaves, the statistics   *)
(* never claim more frames than were handed on.                            *)
THEOREM StatsNotExaggeratedAlways == Spec => []StatsNotExaggerated
<1>1. TransportInv => StatsNotExaggerated
  BY Consequences
<1> QED
  BY <1>1, TransportInvAlways, PTL

(* Traffic that no fault of its direction targets passes untouched.        *)
THEOREM UnrelatedUntouchedAlways == Spec => []UnrelatedUntouched
<1>1. TransportInv => UnrelatedUntouched
  BY Consequences
<1> QED
  BY <1>1, TransportInvAlways, PTL

-----------------------------------------------------------------------------
(* What the interposer does apart from what its frames hold.               *)

(* What TransportControl sees of the queues and of the forwarders.         *)
Lengths == [d \in Directions |-> Len(inbuf[d])]
Places == [d \in Directions |-> pump[d].pc]

(* Nothing is started in either module.                                   *)
LEMMA ControlInitially == Init => Control!Init
BY DEF Init, Control!Init, Control!Everywhere, Control!Directions, Directions, NewPump

(* A step that leaves the queues and the forwarders' places alone.         *)
LEMMA SamePlaces == UNCHANGED <<inbuf, pump>> => UNCHANGED <<Lengths, Places>>
BY DEF Lengths, Places

(* A step on frames, faults and counters alone is a stutter there.         *)
LEMMA ControlStutters ==
  UNCHANGED <<running, stopping, acceptor, waiting, aborted, open, inbuf, pump>>
    => UNCHANGED Control!vars
BY DEF Control!vars, Control!connVars

(* One forwarder moves from one place to another.                          *)
LEMMA PlaceMoves ==
  ASSUME TransportTypeOK, NEW d \in Directions, NEW r,
         pump' = [pump EXCEPT ![d] = r]
  PROVE  Places' = [Places EXCEPT ![d] = r.pc]
BY DEF TransportTypeOK, Places

(* Where a forwarder stands, and how many frames wait for it.              *)
LEMMA PlaceIs ==
  ASSUME TransportTypeOK, NEW d \in Directions
  PROVE  /\ Places[d] = pump[d].pc /\ pump[d] \in PumpState
         /\ Lengths[d] = Len(inbuf[d]) /\ Lengths[d] \in Nat /\ inbuf[d] \in Seq(Frame)
         /\ \A x : [pump[d] EXCEPT !.pc = x].pc = x
BY DEF TransportTypeOK, Places, Lengths, PumpState

(* The owner and the accept loop.                                          *)
LEMMA ControlOwnerStep ==
  ASSUME TransportTypeOK, OwnerStep \/ AcceptorStep
  PROVE  Control!Next \/ UNCHANGED Control!vars
<1>1. CASE Start
  BY <1>1, SamePlaces DEF Start, connVars, Control!Start, Control!connVars, Control!Next, Lengths, Places
<1>2. ASSUME NEW f \in FaultMenu, EnqueueFault(f) PROVE UNCHANGED Control!vars
  BY <1>2, ControlStutters DEF EnqueueFault, connVars
<1>3. CASE Stop
  BY <1>3, SamePlaces DEF Stop, connVars, Control!Stop, Control!connVars, Control!Next, Lengths, Places
<1>4. CASE StopJoins
  BY <1>4, SamePlaces DEF StopJoins, connVars, Control!StopJoins, Control!connVars, Control!Next,
                          Lengths, Places
<1>5. CASE LoopTop
  BY <1>5, SamePlaces DEF LoopTop, connVars, Control!LoopTop, Control!AcceptorStep, Control!connVars,
                          Control!Next, Lengths, Places
<1>6. CASE AcceptFails
  BY <1>6, SamePlaces DEF AcceptFails, connVars, Control!AcceptFails, Control!AcceptorStep,
                          Control!connVars, Control!Next, Lengths, Places
<1>7. CASE TargetRefuses
  BY <1>7, SamePlaces DEF TargetRefuses, connVars, Control!TargetRefuses, Control!AcceptorStep,
                          Control!connVars, Control!Next, Lengths, Places
<1>8. CASE Serve
  <2>1. /\ Lengths' = [d \in Directions |-> 0] /\ Places' = [d \in Directions |-> "top"]
        /\ open' = [d \in Directions |-> TRUE]
    BY <1>8 DEF Serve, Lengths, Places, NewPump
  <2>2. Control!Serve
    BY <1>8, <2>1 DEF Serve, Control!Serve, Control!Everywhere, Control!Directions, Directions,
                      Lengths, Places
  <2> QED
    BY <2>2 DEF Control!Next, Control!AcceptorStep
<1>9. CASE Finish
  <2>1. \A d \in Directions : Places[d] = "done"
    BY <1>9 DEF Finish, Places
  <2>2. UNCHANGED <<Lengths, Places>>
    BY <1>9 DEF Finish, Lengths, Places
  <2>3. Control!Finish
    BY <1>9, <2>1, <2>2 DEF Finish, Control!Finish, Control!Everywhere, Control!Directions,
                            Directions, Lengths, Places
  <2> QED
    BY <2>3 DEF Control!Next, Control!AcceptorStep
<1> QED
  BY <1>1, <1>2, <1>3, <1>4, <1>5, <1>6, <1>7, <1>8, <1>9 DEF OwnerStep, AcceptorStep

(* A frame that is read is a frame taken, and TF_CLOSE sets the stop flag. *)
LEMMA ControlTreat ==
  ASSUME TransportTypeOK, NEW d \in Directions, NEW sends, NEW pending, NEW faulted,
         pump[d].pc = "read", inbuf[d] # <<>>, Treat(d, sends, pending, faulted),
         aborted' = aborted \/ aborted' = TRUE
  PROVE  Control!Next
<1> DEFINE r == [pc |-> "count", seq |-> pump[d].seq + 1, pending |-> pending, loaded |-> stats,
                 added |-> [forwarded |-> Len(sends), faults |-> faulted]]
<1>1. pump' = [pump EXCEPT ![d] = r] /\ r.pc = "count"
  BY DEF Treat
<1> HIDE DEF r
<1>2. Places' = [Places EXCEPT ![d] = "count"]
  BY <1>1, PlaceMoves
<1>3. Places[d] = "read" /\ Lengths[d] > 0
  BY PlaceIs
<1>4. Lengths' = [Lengths EXCEPT ![d] = @ - 1]
  <2>1. inbuf' = [inbuf EXCEPT ![d] = Tail(inbuf[d])] /\ inbuf \in [Directions -> Seq(Frame)]
    BY DEF Treat, TransportTypeOK
  <2>2. Len(Tail(inbuf[d])) = Len(inbuf[d]) - 1
    BY <2>1
  <2> QED
    BY <2>1, <2>2 DEF Lengths
<1>5. UNCHANGED <<running, stopping, acceptor, waiting, open>>
  BY DEF Treat
<1>6. Control!Takes(d) /\ Control!Goes(d, "count")
  BY <1>2, <1>3, <1>4, <1>5 DEF Control!Takes, Control!Goes, Lengths, Places
<1>7. Control!TakeFrame(d) \/ Control!CloseFault(d)
  BY <1>6 DEF Control!TakeFrame, Control!CloseFault
<1> QED
  BY <1>7 DEF Control!Next, Control!ForwarderStep, Control!Directions, Directions

(* Each step of forward_frames is one of TransportControl, same thread.    *)
LEMMA ControlForwarderStep ==
  ASSUME TransportTypeOK, NEW d \in Directions, ForwarderStep(d)
  PROVE  Control!Next
<1>0. d \in Control!Directions
  BY DEF Control!Directions, Directions
<1>1. CASE CheckAborted(d)
  <2> DEFINE to == IF aborted THEN "done" ELSE "read"
             r == [pump[d] EXCEPT !.pc = to]
  <2>1. pump' = [pump EXCEPT ![d] = r] /\ pump[d].pc = "top" /\ acceptor = "serve"
        /\ UNCHANGED <<running, stopping, acceptor, waiting, aborted, open, inbuf>>
    BY <1>1 DEF CheckAborted
  <2>2. r.pc = to
    BY PlaceIs
  <2>3. Places' = [Places EXCEPT ![d] = to] /\ Places[d] = "top" /\ Lengths' = Lengths
    <3> HIDE DEF r, to
    <3> QED
      BY <2>1, <2>2, PlaceMoves, PlaceIs DEF Lengths
  <2>4. Control!CheckAborted(d)
    BY <2>1, <2>3 DEF Control!CheckAborted, Control!Goes, Lengths, Places
  <2> QED
    BY <1>0, <2>4 DEF Control!Next, Control!ForwarderStep
<1>2. CASE ReadFails(d)
  <2> DEFINE r == [pump[d] EXCEPT !.pc = "done"]
  <2>1. pump' = [pump EXCEPT ![d] = r] /\ pump[d].pc = "read" /\ inbuf[d] = <<>> /\ aborted' = TRUE
        /\ UNCHANGED <<running, stopping, acceptor, waiting, open, inbuf>>
    BY <1>2 DEF ReadFails
  <2>2. r.pc = "done"
    BY PlaceIs
  <2> HIDE DEF r
  <2>3. Places' = [Places EXCEPT ![d] = "done"] /\ Places[d] = "read" /\ Lengths' = Lengths
        /\ Lengths[d] = 0
    <3>1. Places' = [Places EXCEPT ![d] = "done"]
      BY <2>1, <2>2, PlaceMoves
    <3>2. Places[d] = "read" /\ Lengths[d] = 0
      BY <2>1, PlaceIs
    <3>3. Lengths' = Lengths
      BY <2>1 DEF Lengths
    <3> QED
      BY <3>1, <3>2, <3>3
  <2>4. Control!ReadFails(d)
    BY <2>1, <2>3 DEF Control!ReadFails, Control!Goes, Lengths, Places
  <2> QED
    BY <1>0, <2>4 DEF Control!Next, Control!ForwarderStep
<1>3. CASE CountUp(d)
  <2> DEFINE r == [pump[d] EXCEPT !.pc = "top"]
  <2>1. pump' = [pump EXCEPT ![d] = r] /\ pump[d].pc = "count"
        /\ UNCHANGED <<running, stopping, acceptor, waiting, aborted, open, inbuf>>
    BY <1>3 DEF CountUp
  <2>2. r.pc = "top"
    BY PlaceIs
  <2> HIDE DEF r
  <2>3. Places' = [Places EXCEPT ![d] = "top"] /\ Places[d] = "count" /\ Lengths' = Lengths
    <3>1. Places' = [Places EXCEPT ![d] = "top"]
      BY <2>1, <2>2, PlaceMoves
    <3>2. Places[d] = "count"
      BY <2>1, PlaceIs
    <3>3. Lengths' = Lengths
      BY <2>1 DEF Lengths
    <3> QED
      BY <3>1, <3>2, <3>3
  <2>4. Control!CountUp(d)
    BY <2>1, <2>3 DEF Control!CountUp, Control!Goes, Lengths, Places
  <2> QED
    BY <1>0, <2>4 DEF Control!Next, Control!ForwarderStep
<1>4. CASE ForwardFrame(d)
  BY <1>4, ControlTreat DEF ForwardFrame
<1>5. ASSUME NEW kind, NEW sends, NEW pending, FaultFrame(d, kind, sends, pending),
             aborted' = aborted \/ aborted' = TRUE
      PROVE  Control!Next
  BY <1>5, ControlTreat DEF FaultFrame
<1>6. CASE Drop(d) \/ Duplicate(d) \/ Truncate(d) \/ Corrupt(d)
  BY <1>5, <1>6, Zenon DEF Drop, Duplicate, Truncate, Corrupt
<1>7. CASE Reorder(d) \/ Delay(d) \/ Close(d)
  BY <1>5, <1>7, Zenon DEF Reorder, Delay, Close
<1> QED
  BY <1>1, <1>2, <1>3, <1>4, <1>6, <1>7 DEF ForwarderStep

(* Peers connect, send and close in both; the bounds carry over.           *)
LEMMA ControlPeerStep ==
  ASSUME TransportTypeOK, PeerStep
  PROVE  Control!Next
<1>1. CASE ClientConnects
  <2>1. waiting < MaxConns
    BY <1>1, BoundAssumption DEF ClientConnects, TransportTypeOK
  <2>2. Control!ClientConnects
    BY <1>1, <2>1 DEF ClientConnects, connVars, Control!ClientConnects, Control!connVars
  <2> QED
    BY <2>2 DEF Control!Next
<1>2. ASSUME NEW d \in Directions, PeerCloses(d) PROVE Control!Next
  <2>1. Control!PeerCloses(d)
    BY <1>2 DEF PeerCloses, Control!PeerCloses
  <2> QED
    BY <2>1 DEF Control!Next, Control!PeerStep, Control!Directions, Directions
<1>3. ASSUME NEW d \in Directions, NEW t \in Types, NEW p \in Payloads, PeerSends(d, t, p)
      PROVE  Control!Next
  <2> DEFINE n == Len(read[d]) + Len(inbuf[d])
             m == [type |-> t, len |-> Len(p), payload |-> p, no |-> n + 1]
  <2>1. /\ open[d] /\ n < MaxSent[d] /\ inbuf' = [inbuf EXCEPT ![d] = Append(inbuf[d], m)]
        /\ UNCHANGED <<running, stopping, acceptor, waiting, aborted, open, pump>>
    BY <1>3 DEF PeerSends
  <2>2. inbuf \in [Directions -> Seq(Frame)] /\ inbuf[d] \in Seq(Frame) /\ read[d] \in Seq(Frame)
    BY DEF TransportTypeOK
  <2>3. Lengths[d] < MaxSent[d]
    <3>1. Len(read[d]) \in Nat /\ Len(inbuf[d]) \in Nat /\ MaxSent[d] \in Nat
      BY <2>2, BoundAssumption
    <3>2. Len(read[d]) + Len(inbuf[d]) < MaxSent[d]
      BY <2>1
    <3>3. Lengths[d] = Len(inbuf[d])
      BY PlaceIs
    <3>4. \A a, b, c \in Nat : a + b < c => b < c
      OBVIOUS
    <3>5. Len(inbuf[d]) < MaxSent[d]
      BY <3>1, <3>2, <3>4, Zenon
    <3> QED
      BY <3>3, <3>5, Zenon
  <2> HIDE DEF m, n
  <2>4. Len(Append(inbuf[d], m)) = Len(inbuf[d]) + 1
    BY <2>2
  <2>5. Lengths' = [Lengths EXCEPT ![d] = @ + 1]
    BY <2>1, <2>2, <2>4 DEF Lengths
  <2>6. Places' = Places
    BY <2>1 DEF Places
  <2>7. Control!PeerSends(d)
    BY <2>1, <2>3, <2>5, <2>6 DEF Control!PeerSends, Lengths, Places
  <2> QED
    BY <2>7 DEF Control!Next, Control!PeerStep, Control!Directions, Directions
<1> QED
  BY <1>1, <1>2, <1>3 DEF PeerStep

(* For any fault list, streams and number of clients the interposer takes  *)
(* the steps of TransportControl: no fault changes when its threads wait,  *)
(* go on and end.                                                          *)
THEOREM TransportImplementsControl == Spec => ImplementsControl
<1>1. Init => Control!Init
  BY ControlInitially
<1>2. TransportTypeOK /\ [Next]_vars => [Control!Next]_(Control!vars)
  <2>1. UNCHANGED vars => UNCHANGED Control!vars
    BY ControlStutters DEF vars, connVars
  <2>2. TransportTypeOK /\ Next => Control!Next \/ UNCHANGED Control!vars
    BY ControlOwnerStep, ControlForwarderStep, ControlPeerStep DEF Next
  <2> QED
    BY <2>1, <2>2
<1> QED
  BY <1>1, <1>2, TransportTypeCorrect, PTL DEF Spec, ImplementsControl, Control!Spec
=============================================================================
