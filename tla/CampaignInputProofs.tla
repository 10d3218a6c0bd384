------------------------ MODULE CampaignInputProofs ------------------------
(***************************************************************************)
(* Proofs about what a campaign is given: the file mutations, the graph of  *)
(* phases, the fuzzer, the reducer and the scenario builder.                *)
(***************************************************************************)
EXTENDS CampaignInputs, TLAPS

-----------------------------------------------------------------------------
(* File mutations.  The answer of apply_mutation is judged from the mutation *)
(* asked for, the content before and after, and whether it reported success. *)

Mutation == [kind : MutationKinds, offset : Offsets, length : Lengths]
Filled(what) == <<what, FALSE>>
Fits(f) == f \in Seq(Byte) /\ Len(f) <= DiskLimit

(* What a mutation owes: the file still fits, and the two parts of the       *)
(* contract.                                                                 *)
Honest(m, f, r) ==
  Fits(r.file) /\ Contained(m, f, r.file, r.answer) /\ Traced(m, f, r.file, r.answer)

(* An answer is honest when its parts are.                                   *)
LEMMA HonestAnswers ==
  ASSUME NEW m, NEW f, NEW g, Fits(g)
  PROVE  /\ Contained(m, f, g, "ok") /\ Traced(m, f, g, "ok") => Honest(m, f, Ok(g))
         /\ Contained(m, f, g, "error") /\ Traced(m, f, g, "error") => Honest(m, f, Failed(g))
<1>1. Ok(g).file = g /\ Ok(g).answer = "ok" /\ Failed(g).file = g /\ Failed(g).answer = "error"
  BY DEF Ok, Failed
<1> QED
  BY <1>1, Zenon DEF Honest

(* A byte is one of the four fills, flipped or not; flipping changes it.     *)
LEMMA Bytes ==
  /\ \A what \in {"data", "garbage", "dead", "zero"} : Filled(what) \in Byte
  /\ \A b \in Byte : Flip(b) \in Byte /\ Flip(b) # b
<1>1. \A what \in {"data", "garbage", "dead", "zero"} : Filled(what) \in Byte
  BY DEF Byte, Filled
<1>2. ASSUME NEW b \in Byte PROVE Flip(b) \in Byte /\ Flip(b) # b
  <2>1. b[1] \in {"data", "garbage", "dead", "zero"} /\ b[2] \in BOOLEAN
    BY DEF Byte
  <2>2. Flip(b)[2] = ~b[2] /\ Flip(b)[2] # b[2]
    BY <2>1 DEF Flip
  <2>3. (~b[2]) \in BOOLEAN
    OBVIOUS
  <2>4. <<b[1], ~b[2]>> \in Byte
    BY <2>1, <2>3 DEF Byte
  <2> QED
    BY <2>2, <2>4 DEF Flip
<1> QED
  BY <1>1, <1>2

(* The sums of a 64-bit offset and a length wrap at most once.               *)
LEMMA SumWraps ==
  ASSUME NEW a \in 0 .. FileWord - 1, NEW b \in 0 .. FileWord - 1
  PROVE  SumOf(a, b) = IF a + b < FileWord THEN a + b ELSE a + b - FileWord
<1>1. FileWord \in Nat /\ FileWord > 0
  BY FileAssumption
<1>2. CASE a + b < FileWord
  BY <1>1, <1>2 DEF SumOf
<1>3. CASE a + b >= FileWord
  <2>1. a + b - FileWord \in 0 .. FileWord - 1
    BY <1>1, <1>3
  <2>2. (a + b) % FileWord = (a + b - FileWord) % FileWord
    BY <1>1, <1>3, <2>1
  <2> QED
    BY <1>1, <1>3, <2>1, <2>2 DEF SumOf
<1> QED
  BY <1>1, <1>2, <1>3

(* What a write leaves, byte by byte.                                        *)
LEMMA OverwrittenIs ==
  ASSUME NEW f, Fits(f), NEW offset \in Nat, offset <= Len(f), NEW n \in Nat,
         NEW what \in {"data", "garbage", "dead", "zero"}
  PROVE  LET end == Least(offset + n, DiskLimit)
             g == Overwritten(f, offset, what, n)
         IN /\ Fits(g)
            /\ Len(g) = IF end > Len(f) THEN end ELSE Len(f)
            /\ \A i \in 1 .. Len(g) :
                 g[i] = IF i > offset /\ i <= end THEN Filled(what) ELSE f[i]
<1> DEFINE end == Least(offset + n, DiskLimit)
           size == IF end > Len(f) THEN end ELSE Len(f)
           g == Overwritten(f, offset, what, n)
           byte(i) == IF i > offset /\ i <= end THEN Filled(what) ELSE f[i]
<1>1. DiskLimit \in Nat /\ Len(f) \in Nat /\ f \in Seq(Byte) /\ Len(f) <= DiskLimit
  BY FileAssumption DEF Fits
<1>2. end \in Nat /\ end <= DiskLimit /\ size \in Nat /\ size <= DiskLimit
  BY <1>1 DEF Least
<1>3. g = [i \in 1 .. size |-> byte(i)]
  BY DEF Overwritten, Filled
<1>4. \A i \in 1 .. size : byte(i) \in Byte
  <2>1. Filled(what) \in Byte
    BY Bytes
  <2> HIDE DEF end
  <2> SUFFICES ASSUME NEW i \in 1 .. size, ~(i > offset /\ i <= end) PROVE f[i] \in Byte
    BY <2>1
  <2>2. i \in 1 .. Len(f)
    BY <1>1, <1>2
  <2> QED
    BY <1>1, <2>2
<1> HIDE DEF size, byte, g, end
<1>5. g \in Seq(Byte) /\ Len(g) = size
  BY <1>2, <1>3, <1>4
<1>6. Fits(g)
  BY <1>2, <1>5 DEF Fits
<1> QED
  BY <1>3, <1>5, <1>6 DEF size, byte, g, end

(* The constants, and a mutation's fields, as numbers.                       *)
LEMMA Sizes ==
  /\ DiskLimit \in Nat /\ FileSize \in Nat /\ FileSize <= DiskLimit
  /\ FileWord \in Nat /\ DiskLimit < FileWord
  /\ CorruptCap \in Nat \ {0} /\ DefaultGarbage \in Nat \ {0} /\ HeaderBytes \in Nat \ {0}
  /\ StreamBuffer \in Nat \ {0} /\ LoopLimit \in Nat
  /\ DiskLimit <= LoopLimit /\ LoopLimit + DiskLimit < FileWord
  /\ 2 * HeaderBytes <= FileWord
  /\ \A m \in Mutation : m.offset \in 0 .. FileWord - 1 /\ m.length \in 0 .. FileWord - 1
BY FileAssumption DEF Mutation

(* A success that keeps the size and every byte it does not name.            *)
LEMMA KeptSize ==
  ASSUME NEW f, Fits(f), NEW g, Fits(g), Len(g) = Len(f), NEW m,
         \A i \in 1 .. Len(f) : ~Named(m, f, i) => g[i] = f[i]
  PROVE  Contained(m, f, g, "ok")
<1>1. DOMAIN f = 1 .. Len(f) /\ DOMAIN g = 1 .. Len(f) /\ Len(f) \in Nat
  BY DEF Fits
<1>2. \A i \in DOMAIN f \cup DOMAIN g :
        ~Named(m, f, i) => i \in DOMAIN f \cap DOMAIN g /\ g[i] = f[i]
  BY <1>1
<1> QED
  BY <1>1, <1>2 DEF Contained

LEMMA TruncateHonest ==
  ASSUME NEW f, Fits(f), NEW m \in Mutation, m.kind = "TRUNCATE"
  PROVE  Honest(m, f, Truncate(f, m))
<1> DEFINE n == Least(m.offset, Len(f))
           g == SubSeq(f, 1, n)
<1>1. f \in Seq(Byte) /\ Len(f) \in Nat /\ Len(f) <= DiskLimit /\ m.offset \in Nat
  BY Sizes DEF Fits
<1>2. n \in Nat /\ n <= Len(f) /\ (n = Len(f) => m.offset >= Len(f))
  BY <1>1 DEF Least
<1> HIDE DEF n
<1>3. g \in Seq(Byte) /\ Len(g) = n /\ \A i \in 1 .. n : g[i] = f[i]
  BY <1>1, <1>2
<1> HIDE DEF g
<1>4. Fits(g)
  BY <1>1, <1>2, <1>3, Sizes DEF Fits
<1>5. Contained(m, f, g, "ok")
  <2>1. DOMAIN f = 1 .. Len(f) /\ DOMAIN g = 1 .. n
    BY <1>1, <1>3
  <2>2. \A i \in 1 .. Len(f) : ~Named(m, f, i) => i <= n
    BY <1>1 DEF Named, n, Least
  <2>3. \A i \in DOMAIN f \cup DOMAIN g :
          ~Named(m, f, i) => i \in DOMAIN f \cap DOMAIN g /\ g[i] = f[i]
    BY <1>1, <1>2, <1>3, <2>1, <2>2
  <2> QED
    BY <1>1, <1>2, <1>3, <2>3 DEF Contained
<1>6. Traced(m, f, g, "ok")
  BY <1>1, <1>2, <1>3 DEF Traced
<1> QED
  BY <1>4, <1>5, <1>6, HonestAnswers DEF Truncate, g, n

(* A mutation that is refused at once leaves the file alone.                 *)
LEMMA RefusalHonest ==
  ASSUME NEW f, Fits(f), NEW m \in Mutation
  PROVE  Honest(m, f, Failed(f))
<1>1. Contained(m, f, f, "error")
  BY DEF Contained, Fits
<1>2. Traced(m, f, f, "error")
  BY DEF Traced
<1> QED
  BY <1>1, <1>2, HonestAnswers

LEMMA CorruptHonest ==
  ASSUME NEW f, Fits(f), NEW m \in Mutation, m.kind = "CORRUPT_BYTES"
  PROVE  Honest(m, f, CorruptBytes(f, m))
<1> DEFINE len == Least(Asked(m), CorruptCap)
           byte(i) == IF i > m.offset /\ i <= m.offset + len THEN Flip(f[i]) ELSE f[i]
           g == [i \in DOMAIN f |-> byte(i)]
<1>0. CorruptBytes(f, m) =
        IF m.offset >= Len(f) \/ m.offset + len > Len(f) THEN Failed(f) ELSE Ok(g)
  BY DEF CorruptBytes
<1>1. f \in Seq(Byte) /\ Len(f) \in Nat /\ Len(f) <= DiskLimit /\ m.offset \in Nat
  BY Sizes DEF Fits
<1>2. len \in Nat /\ len >= 1 /\ Asked(m) \in Nat /\ len <= Asked(m)
  BY Sizes DEF Least, Asked
<1> HIDE DEF len
<1>3. CASE m.offset >= Len(f) \/ m.offset + len > Len(f)
  BY <1>0, <1>3, RefusalHonest
<1>4. CASE ~(m.offset >= Len(f) \/ m.offset + len > Len(f))
  <2>1. \A i \in DOMAIN f : byte(i) \in Byte
    BY <1>1, Bytes
  <2>2. m.offset + 1 \in DOMAIN f /\ byte(m.offset + 1) # f[m.offset + 1]
    BY <1>1, <1>2, <1>4, Bytes
  <2>3. \A i \in 1 .. Len(f) : ~Named(m, f, i) => byte(i) = f[i]
    BY <1>1, <1>2 DEF Named
  <2> HIDE DEF byte
  <2>4. g \in Seq(Byte) /\ Len(g) = Len(f)
    BY <1>1, <2>1
  <2>5. g # f /\ \A i \in 1 .. Len(f) : ~Named(m, f, i) => g[i] = f[i]
    BY <1>1, <2>2, <2>3
  <2> HIDE DEF g
  <2>6. Fits(g)
    BY <1>1, <2>4 DEF Fits
  <2>7. Contained(m, f, g, "ok")
    BY <2>4, <2>5, <2>6, KeptSize
  <2>8. Traced(m, f, g, "ok")
    BY <2>5 DEF Traced
  <2>9. CorruptBytes(f, m) = Ok(g)
    BY <1>0, <1>4 DEF g
  <2> QED
    BY <2>6, <2>7, <2>8, <2>9, HonestAnswers
<1> QED
  BY <1>3, <1>4

(* What a stream wrote of n bytes when it is asked.                          *)
LEMMA Flushes ==
  ASSUME NEW n \in Nat
  PROVE  n % StreamBuffer \in 0 .. StreamBuffer - 1
BY Sizes

(* An append: nothing before the end changes, and what an answer of success  *)
(* leaves out is less than a buffer and does not fit on the disk.            *)
LEMMA AppendHonest ==
  ASSUME NEW f, Fits(f), NEW m \in Mutation, m.kind = "APPEND_GARBAGE"
  PROVE  Honest(m, f, AppendGarbage(f, m))
<1> DEFINE n == Asked(m)
           end == Least(Len(f) + n, DiskLimit)
           g == Overwritten(f, Len(f), "garbage", n)
           tail == n % StreamBuffer
           answer == IF n > LoopLimit THEN "none"
                     ELSE IF Len(f) + (n - tail) > DiskLimit THEN "error" ELSE "ok"
<1>1. f \in Seq(Byte) /\ Len(f) \in Nat /\ Len(f) <= DiskLimit
  BY Sizes DEF Fits
<1>2. n \in Nat /\ n >= 1
  BY Sizes DEF Asked
<1> HIDE DEF n
<1>3. /\ Fits(g) /\ Len(g) = IF end > Len(f) THEN end ELSE Len(f)
      /\ \A i \in 1 .. Len(g) : g[i] = IF i > Len(f) /\ i <= end THEN Filled("garbage") ELSE f[i]
  BY <1>1, <1>2, OverwrittenIs, SMTT(30)
<1>4. tail \in 0 .. StreamBuffer - 1
  BY <1>2, Flushes
<1> HIDE DEF g, tail
<1>5. \A i \in 1 .. Len(f) : i \in 1 .. Len(g) /\ g[i] = f[i]
  BY <1>1, <1>2, <1>3, Sizes DEF Least
<1>6. /\ Len(g) \in Nat /\ Len(g) >= Len(f) /\ Len(g) <= Len(f) + n
      /\ Len(f) + n <= DiskLimit => Len(g) = Len(f) + n
      /\ Len(f) + n > DiskLimit => Len(g) = DiskLimit
  BY <1>1, <1>2, <1>3, Sizes DEF Least, Fits
<1>7. g \in Seq(Byte) /\ DOMAIN f = 1 .. Len(f) /\ DOMAIN g = 1 .. Len(g)
  BY <1>1, <1>3 DEF Fits
<1>8. /\ answer = "error" => Len(g) = DiskLimit
      /\ answer = "ok" => Len(f) + n - Len(g) = 0
                            \/ (Len(f) + n - Len(g) \in 1 .. StreamBuffer - 1 /\ Len(g) = DiskLimit)
      /\ answer = "ok" /\ Len(g) = Len(f) => Len(f) = DiskLimit
  BY <1>1, <1>2, <1>4, <1>6, Sizes
<1>9. AppendGarbage(f, m) = [answer |-> answer, file |-> g]
  BY DEF AppendGarbage, Written, n, g, tail
<1> HIDE DEF answer
<1>10. \A i \in DOMAIN f \cup DOMAIN g :
         ~Named(m, f, i) => i \in DOMAIN f \cap DOMAIN g /\ g[i] = f[i]
  BY <1>1, <1>2, <1>5, <1>6, <1>7 DEF Named, n
<1>11. Contained(m, f, g, answer)
  BY <1>1, <1>6, <1>8, <1>10 DEF Contained
<1>12. Traced(m, f, g, answer)
  BY <1>8 DEF Traced, n
<1> QED
  BY <1>3, <1>9, <1>11, <1>12 DEF Honest

LEMMA MagicHonest ==
  ASSUME NEW f, Fits(f), NEW m \in Mutation, m.kind = "OVERWRITE_MAGIC"
  PROVE  Honest(m, f, OverwriteMagic(f))
<1> DEFINE g == Overwritten(f, 0, "dead", HeaderBytes)
<1>1. f \in Seq(Byte) /\ Len(f) \in Nat /\ Len(f) <= DiskLimit
  BY Sizes DEF Fits
<1>2. CASE Len(f) < HeaderBytes
  BY <1>2, RefusalHonest DEF OverwriteMagic
<1>3. CASE ~(Len(f) < HeaderBytes)
  <2>1. Least(0 + HeaderBytes, DiskLimit) = HeaderBytes
    BY <1>1, <1>3, Sizes DEF Least
  <2>2. /\ Fits(g) /\ Len(g) = Len(f)
        /\ \A i \in 1 .. Len(g) :
             g[i] = IF i > 0 /\ i <= HeaderBytes THEN Filled("dead") ELSE f[i]
    BY <1>1, <1>3, <2>1, OverwrittenIs, Sizes
  <2> HIDE DEF g
  <2>3. g[1] = Filled("dead")
    BY <1>1, <1>3, <2>2, Sizes
  <2>4. Contained(m, f, g, "ok")
    <3>1. \A i \in 1 .. Len(f) : ~Named(m, f, i) => g[i] = f[i]
      BY <1>1, <2>2, Sizes DEF Named
    <3> QED
      BY <2>2, <3>1, KeptSize
  <2>5. Traced(m, f, g, "ok")
    BY <2>3 DEF Traced, Filled
  <2>6. OverwriteMagic(f) = Ok(g)
    BY <1>3 DEF OverwriteMagic, g
  <2> QED
    BY <2>2, <2>4, <2>5, <2>6, HonestAnswers
<1> QED
  BY <1>2, <1>3

LEMMA VersionHonest ==
  ASSUME NEW f, Fits(f), NEW m \in Mutation, m.kind = "OVERWRITE_VERSION"
  PROVE  Honest(m, f, OverwriteVersion(f, m))
<1> DEFINE g == Overwritten(f, m.offset, "zero", HeaderBytes)
           end == m.offset + HeaderBytes
<1>1. f \in Seq(Byte) /\ Len(f) \in Nat /\ Len(f) <= DiskLimit /\ m.offset \in 0 .. FileWord - 1
  BY Sizes DEF Fits
<1>2. CASE SumOf(m.offset, HeaderBytes) > Len(f) \/ 2 * m.offset >= FileWord
  BY <1>2, RefusalHonest DEF OverwriteVersion
<1>3. CASE ~(SumOf(m.offset, HeaderBytes) > Len(f) \/ 2 * m.offset >= FileWord)
  <2>1. HeaderBytes \in 0 .. FileWord - 1 /\ end < FileWord
    BY <1>1, <1>3, Sizes
  <2>2. end <= Len(f) /\ end \in Nat
    <3>1. SumOf(m.offset, HeaderBytes) = end
      BY <1>1, <2>1, SumWraps
    <3> QED
      BY <1>1, <1>3, <2>1, <3>1
  <2>3. Least(end, DiskLimit) = end
    BY <1>1, <2>2, Sizes DEF Least
  <2>4. /\ Fits(g) /\ Len(g) = Len(f)
        /\ \A i \in 1 .. Len(g) :
             g[i] = IF i > m.offset /\ i <= end THEN Filled("zero") ELSE f[i]
    <3>1. m.offset \in Nat /\ m.offset <= Len(f) /\ HeaderBytes \in Nat
      BY <1>1, <2>2, Sizes
    <3> HIDE DEF end
    <3> QED
      BY <1>1, <2>2, <2>3, <3>1, OverwrittenIs DEF end
  <2> HIDE DEF g
  <2>5. Contained(m, f, g, "ok")
    <3>1. \A i \in 1 .. Len(f) : ~Named(m, f, i) => g[i] = f[i]
      BY <1>1, <2>4 DEF Named
    <3> QED
      BY <2>4, <3>1, KeptSize
  <2>6. Traced(m, f, g, "ok")
    <3>1. \A i \in DOMAIN f : Named(m, f, i) => g[i] = Filled("zero")
      BY <1>1, <2>4 DEF Named
    <3> QED
      BY <3>1 DEF Traced, Filled
  <2>7. OverwriteVersion(f, m) = Ok(g)
    BY <1>3 DEF OverwriteVersion, g
  <2> QED
    BY <2>4, <2>5, <2>6, <2>7, HonestAnswers
<1> QED
  BY <1>2, <1>3

(* A range whose end passes 2^64 is not cut, and writes until the disk is    *)
(* full; every other range stays inside the file.                            *)
LEMMA ZeroRangeHonest ==
  ASSUME NEW f, Fits(f), NEW m \in Mutation, m.kind = "ZERO_RANGE"
  PROVE  Honest(m, f, ZeroRange(f, m))
<1> DEFINE asked == Asked(m)
           len == IF SumOf(m.offset, asked) > Len(f) THEN Len(f) - m.offset ELSE asked
           g == Overwritten(f, m.offset, "zero", len)
           end == Least(m.offset + len, DiskLimit)
           tail == len % StreamBuffer
           answer == IF len > LoopLimit THEN "none"
                     ELSE IF m.offset + (len - tail) > DiskLimit THEN "error" ELSE "ok"
<1>0. ZeroRange(f, m) = IF m.offset >= Len(f) THEN Failed(f) ELSE [answer |-> answer, file |-> g]
  BY DEF ZeroRange, Written
<1>1. /\ f \in Seq(Byte) /\ Len(f) \in Nat /\ Len(f) <= DiskLimit
      /\ m.offset \in 0 .. FileWord - 1 /\ m.length \in 0 .. FileWord - 1
  BY Sizes DEF Fits
<1>2. CASE m.offset >= Len(f)
  BY <1>0, <1>2, RefusalHonest
<1>3. CASE ~(m.offset >= Len(f))
  <2>1. asked \in 0 .. FileWord - 1 /\ asked >= 1 /\ m.offset < Len(f)
    BY <1>1, <1>3, Sizes DEF Asked
  <2>2. SumOf(m.offset, asked) =
          IF m.offset + asked < FileWord THEN m.offset + asked ELSE m.offset + asked - FileWord
    BY <1>1, <2>1, SumWraps
  <2>3. len \in Nat /\ (\/ m.offset + len <= Len(f) /\ len <= asked /\ (len < asked => m.offset + len = Len(f))
                        \/ len = asked /\ m.offset + asked >= FileWord)
    <3> HIDE DEF asked
    <3>1. len \in Nat
      BY <1>1, <2>1
    <3>2. CASE SumOf(m.offset, asked) > Len(f)
      <4>1. len = Len(f) - m.offset
        BY <3>2
      <4>2. FileWord \in Nat /\ Len(f) < FileWord /\ m.offset \in Nat /\ asked \in Nat
        BY <1>1, <2>1, Sizes
      <4>3. m.offset + asked > Len(f)
        <5>1. CASE m.offset + asked < FileWord
          BY <2>2, <3>2, <5>1
        <5>2. CASE ~(m.offset + asked < FileWord)
          BY <1>1, <4>2, <5>2
        <5> QED
          BY <5>1, <5>2
      <4> HIDE DEF len
      <4> QED
        BY <1>1, <2>1, <4>1, <4>2, <4>3
    <3>3. CASE ~(SumOf(m.offset, asked) > Len(f)) /\ m.offset + asked < FileWord
      BY <1>1, <2>1, <2>2, <3>1, <3>3, Sizes
    <3>4. CASE ~(SumOf(m.offset, asked) > Len(f)) /\ ~(m.offset + asked < FileWord)
      BY <1>1, <2>1, <3>1, <3>4, Sizes
    <3> QED
      BY <3>2, <3>3, <3>4
  <2>a. tail \in 0 .. StreamBuffer - 1
    BY <2>3, Flushes
  <2> HIDE DEF len, tail
  <2>4. /\ Fits(g) /\ Len(g) = IF end > Len(f) THEN end ELSE Len(f)
        /\ \A i \in 1 .. Len(g) :
             g[i] = IF i > m.offset /\ i <= end THEN Filled("zero") ELSE f[i]
    <3>1. m.offset \in Nat /\ m.offset <= Len(f) /\ len \in Nat
      BY <1>1, <2>1, <2>3
    <3> QED
      BY <3>1, OverwrittenIs
  <2>5. Len(g) \in Nat /\ g \in Seq(Byte)
    BY <2>4 DEF Fits
  <2> HIDE DEF g, asked
  <2>6. DOMAIN f = 1 .. Len(f) /\ DOMAIN g = 1 .. Len(g)
    BY <1>1, <2>5
  <2>7. CASE m.offset + len <= Len(f)
    <3>1. end = m.offset + len /\ Len(g) = Len(f) /\ answer = "ok"
      BY <1>1, <2>3, <2>a, <2>4, <2>7, Sizes DEF Least
    <3> HIDE DEF end, answer
    <3>2. \A i \in 1 .. Len(f) : g[i] = IF i > m.offset /\ i <= end THEN Filled("zero") ELSE f[i]
      BY <2>4, <3>1
    <3>3. \A i \in 1 .. Len(f) : i > m.offset /\ i <= m.offset + asked <=> i > m.offset /\ i <= end
      BY <1>1, <2>1, <2>3, <2>7, <3>1, Sizes
    <3>4. \A i \in 1 .. Len(f) : Named(m, f, i) <=> i > m.offset /\ i <= end
      BY <3>3 DEF Named, asked
    <3>5. Contained(m, f, g, answer)
      BY <2>4, <3>1, <3>2, <3>4, KeptSize
    <3>6. Traced(m, f, g, answer)
      BY <2>6, <3>1, <3>2, <3>4 DEF Traced, Filled
    <3> QED
      BY <1>0, <1>3, <2>4, <3>5, <3>6 DEF Honest
  <2>8. CASE ~(m.offset + len <= Len(f))
    <3>1. len = asked /\ m.offset + asked >= FileWord
      BY <1>1, <2>1, <2>3, <2>8, Sizes
    <3>2. end = DiskLimit /\ answer = "none"
      BY <1>1, <2>1, <3>1, Sizes DEF Least
    <3> HIDE DEF end, answer
    <3>3. Len(g) = DiskLimit
      BY <1>1, <2>4, <2>5, <3>2, Sizes
    <3>4. \A i \in 1 .. Len(g) : Named(m, f, i) <=> i > m.offset
      <4>1. \A i \in 1 .. Len(g) : i <= m.offset + asked
        BY <1>1, <2>1, <2>5, <3>1, <3>3, Sizes
      <4> QED
        BY <4>1 DEF Named, asked
    <3>5. \A i \in 1 .. Len(g) : i <= m.offset => i \in 1 .. Len(f) /\ g[i] = f[i]
      BY <1>1, <2>1, <2>4, <2>5, <3>2, <3>3, Sizes
    <3>6. Contained(m, f, g, answer)
      <4>1. \A i \in DOMAIN f \cup DOMAIN g :
              ~Named(m, f, i) => i \in DOMAIN f \cap DOMAIN g /\ g[i] = f[i]
        BY <1>1, <2>5, <2>6, <3>3, <3>4, <3>5
      <4> QED
        BY <1>1, <2>5, <3>1, <3>2, <3>3, <4>1 DEF Contained, asked
    <3>7. Traced(m, f, g, answer)
      BY <3>2 DEF Traced
    <3> QED
      BY <1>0, <1>3, <2>4, <3>6, <3>7 DEF Honest
  <2> QED
    BY <2>7, <2>8
<1> QED
  BY <1>2, <1>3

(* apply_mutation is honest on every file that fits.                         *)
LEMMA ApplyHonest ==
  ASSUME NEW f, Fits(f), NEW m \in Mutation
  PROVE  Honest(m, f, ApplyMutation(f, m))
<1>1. CASE m.kind = "TRUNCATE"
  BY <1>1, TruncateHonest DEF ApplyMutation
<1>2. CASE m.kind = "CORRUPT_BYTES"
  BY <1>2, CorruptHonest DEF ApplyMutation
<1>3. CASE m.kind = "APPEND_GARBAGE"
  BY <1>3, AppendHonest DEF ApplyMutation
<1>4. CASE m.kind = "OVERWRITE_MAGIC"
  BY <1>4, MagicHonest DEF ApplyMutation
<1>5. CASE m.kind = "OVERWRITE_VERSION"
  BY <1>5, VersionHonest DEF ApplyMutation
<1>6. CASE m.kind = "ZERO_RANGE"
  BY <1>6, ZeroRangeHonest DEF ApplyMutation
<1>7. CASE m.kind = "WRITE_PARTIAL_TEMP"
  <2>1. ApplyMutation(f, m) = Ok(f)
    BY <1>7 DEF ApplyMutation
  <2>2. Contained(m, f, f, "ok")
    BY DEF Contained, Fits
  <2>3. Traced(m, f, f, "ok")
    BY <1>7 DEF Traced
  <2> QED
    BY <2>1, <2>2, <2>3, HonestAnswers
<1> QED
  BY <1>1, <1>2, <1>3, <1>4, <1>5, <1>6, <1>7 DEF Mutation, MutationKinds

(* The history variable of the last mutation, now or after a step, tells the *)
(* truth about it.                                                           *)
LEMMA FaithfulMeans ==
  ASSUME NEW m, NEW before, NEW after, NEW answer,
         Contained(m, before, after, answer), Traced(m, before, after, answer)
  PROVE  LET op == [m |-> m, before |-> before, after |-> after, answer |-> answer]
         IN (fileOp = op => MutationIsFaithful) /\ (fileOp' = op => MutationIsFaithful')
<1> DEFINE op == [m |-> m, before |-> before, after |-> after, answer |-> answer]
<1>1. op.m = m /\ op.before = before /\ op.after = after /\ op.answer = answer
  OBVIOUS
<1> HIDE DEF op
<1> QED
  BY <1>1, Zenon DEF MutationIsFaithful, op

LEMMA NoOpFaithful ==
  (fileOp = NoOp => MutationIsFaithful) /\ (fileOp' = NoOp => MutationIsFaithful')
<1> DEFINE m == [kind |-> "WRITE_PARTIAL_TEMP", offset |-> 0, length |-> 0]
<1>1. Contained(m, <<>>, <<>>, "ok")
  BY DEF Contained
<1>2. Traced(m, <<>>, <<>>, "ok")
  BY DEF Traced
<1>3. NoOp = [m |-> m, before |-> <<>>, after |-> <<>>, answer |-> "ok"]
  BY DEF NoOp
<1> HIDE DEF m
<1> QED
  BY <1>1, <1>2, <1>3, FaithfulMeans

(* A path that is written to holds something that fits.                      *)
LEMMA WriteFits ==
  ASSUME FilesFit, NEW p \in Paths, NEW f, Fits(f), file' = [file EXCEPT ![p] = f]
  PROVE  FilesFit'
BY DEF FilesFit, Fits

LEMMA DataFits == ASSUME NEW n \in 0 .. FileSize PROVE Fits(Data(n))
<1>1. n \in Nat /\ n <= DiskLimit
  BY Sizes
<1>2. \A i \in 1 .. n : Filled("data") \in Byte
  BY Bytes
<1>3. Data(n) = [i \in 1 .. n |-> Filled("data")]
  BY DEF Data, Filled
<1> QED
  BY <1>1, <1>2, <1>3 DEF Fits

FileInv == FilesFit /\ MutationIsFaithful

(* Every file operation, and every step of the other input, keeps both.      *)
LEMMA FileStep == FileInv /\ [Next]_vars => FileInv'
<1> SUFFICES ASSUME FileInv, [Next]_vars PROVE FileInv'
  OBVIOUS
<1>1. FilesFit /\ MutationIsFaithful
  BY DEF FileInv
<1>2. CASE UNCHANGED persistenceVars
  BY <1>1, <1>2 DEF persistenceVars, FileInv, FilesFit, MutationIsFaithful
<1>3. ASSUME NEW src \in Paths, NEW dst \in Paths, CopyFile(src, dst) PROVE FileInv'
  <2> DEFINE f == IF src = dst THEN <<>> ELSE file[src]
  <2>1. file[src] # Absent /\ file' = [file EXCEPT ![dst] = f] /\ fileOp' = NoOp
    BY <1>3 DEF CopyFile, Operation
  <2>2. Fits(f)
    BY <1>1, <2>1, Sizes DEF FilesFit, Fits
  <2> HIDE DEF f
  <2> QED
    BY <1>1, <2>1, <2>2, WriteFits, NoOpFaithful DEF FileInv
<1>4. ASSUME NEW src \in Paths, NEW dst \in Paths, RenameFile(src, dst) PROVE FileInv'
  <2>1. /\ file[src] # Absent /\ src # dst /\ fileOp' = NoOp
        /\ file' = [file EXCEPT ![dst] = file[src], ![src] = Absent] \/ file' = file
    BY <1>4 DEF RenameFile, Operation
  <2>2. FilesFit'
    BY <1>1, <2>1 DEF FilesFit
  <2> QED
    BY <2>1, <2>2, NoOpFaithful DEF FileInv
<1>5. ASSUME NEW p \in Paths, NEW m \in Mutation, Mutate(p, m) PROVE FileInv'
  <2> DEFINE r == ApplyMutation(file[p], m)
  <2>1. /\ file[p] # Absent /\ file' = [file EXCEPT ![p] = r.file]
        /\ fileOp' = [m |-> m, before |-> file[p], after |-> r.file, answer |-> r.answer]
    BY <1>5 DEF Mutate, Operation
  <2>2. Fits(file[p])
    BY <1>1, <2>1 DEF FilesFit, Fits
  <2>3. /\ Fits(r.file) /\ Contained(m, file[p], r.file, r.answer)
        /\ Traced(m, file[p], r.file, r.answer)
    BY <2>2, ApplyHonest DEF Honest
  <2> HIDE DEF r
  <2>5. MutationIsFaithful'
    BY <2>1, <2>3, FaithfulMeans
  <2> QED
    BY <1>1, <2>1, <2>3, <2>5, WriteFits DEF FileInv
<1>6. ASSUME NEW p \in Paths, NEW n \in 0 .. FileSize, WritePartialTemp(p, n) PROVE FileInv'
  <2>1. file' = [file EXCEPT ![p] = Data(n)] /\ fileOp' = NoOp
    BY <1>6 DEF WritePartialTemp, Operation
  <2> QED
    BY <1>1, <2>1, DataFits, WriteFits, NoOpFaithful DEF FileInv
<1>7. CASE PersistenceNext
  <2>1. \A k \in MutationKinds, o \in Offsets, n \in Lengths :
          [kind |-> k, offset |-> o, length |-> n] \in Mutation
    BY DEF Mutation
  <2> QED
    BY <1>3, <1>4, <1>5, <1>6, <1>7, <2>1 DEF PersistenceNext
<1> QED
  BY <1>2, <1>7 DEF Next, vars

(* Whatever sequence of copies, mutations, partial writes and renames a      *)
(* campaign makes, no mutation changes a byte outside the range it names,    *)
(* reports an error after a change unless the disk is full, or a success     *)
(* without damage, but for a cut at the end, a range that holds the value    *)
(* already, and an append of less than a stream buffer to a full disk:       *)
(* apply_mutation for every file size, disk, word, buffer and cap.           *)
THEOREM MutationsFaithfulAlways == Spec => []MutationIsFaithful
<1>1. Init => FileInv
  <2> SUFFICES ASSUME Init PROVE FileInv
    OBVIOUS
  <2>1. fileOp = NoOp /\ file = [p \in Paths |-> IF p = "state" THEN Data(FileSize) ELSE Absent]
    BY DEF Init, PersistenceInit
  <2>2. Fits(Data(FileSize))
    BY DataFits, Sizes
  <2>3. FilesFit
    BY <2>1, <2>2 DEF FilesFit, Fits
  <2> QED
    BY <2>1, <2>3, NoOpFaithful DEF FileInv
<1> QED
  BY <1>1, FileStep, PTL DEF Spec, FileInv

-----------------------------------------------------------------------------
(* The phase graph.                                                          *)

(* One more element at the end of a sequence.                                *)
LEMMA Appended ==
  ASSUME NEW S, NEW s \in Seq(S), NEW e \in S
  PROVE  /\ Append(s, e) \in Seq(S) /\ Len(s) \in Nat
         /\ Len(Append(s, e)) = Len(s) + 1 /\ Append(s, e)[Len(s) + 1] = e
         /\ DOMAIN s = 1 .. Len(s) /\ DOMAIN Append(s, e) = 1 .. Len(s) + 1
         /\ \A i \in 1 .. Len(s) : Append(s, e)[i] = s[i]
OBVIOUS

(* Each edge of the graph climbs, and only from a phase before the last      *)
(* three; the phases a complete campaign went through cannot be gone round.  *)
LEMMA EdgesClimb ==
  ASSUME NEW from \in Phases, NEW to \in Phases, CanTransition(from, to)
  PROVE  /\ Rank[from] \in Nat /\ Rank[to] \in Nat /\ Rank[from] < Rank[to]
         /\ ~IsTerminal(from)
         /\ ~IsTerminal(to) \/ to = "COMPLETE" =>
              /\ Rank[to] >= 3 => Rank[from] >= 3 \/ to = "INJECTING"
              /\ Rank[to] >= 6 => Rank[from] >= 6 \/ to = "VERIFYING"
              /\ Rank[to] >= 7 => Rank[from] >= 7 \/ to = "CLEANUP"
<1>1. /\ Rank["SETUP"] = 0 /\ Rank["BASELINE"] = 1 /\ Rank["ARMED"] = 2 /\ Rank["INJECTING"] = 3
      /\ Rank["OBSERVING"] = 4 /\ Rank["RECOVERING"] = 5 /\ Rank["VERIFYING"] = 6
      /\ Rank["CLEANUP"] = 7 /\ Rank["COMPLETE"] = 8 /\ Rank["FAILED"] = 9 /\ Rank["ABORTED"] = 9
  BY DEF Rank, Phases
<1> QED
  BY <1>1 DEF CanTransition, IsTerminal, Phases

(* An edge keeps what the phase invariant says of the trail.                 *)
LEMMA TrailStep ==
  ASSUME PhaseInv, NEW to \in Phases, CanTransition(phase, to), phase' = to,
         trail' = Append(trail, to)
  PROVE  PhaseInv'
<1> DEFINE n == Len(trail)
<1>1. trail \in Seq(Phases) /\ n > 0 /\ phase = trail[n] /\ n \in Nat
  BY DEF PhaseInv
<1>2. /\ trail' \in Seq(Phases) /\ Len(trail') = n + 1 /\ trail'[n + 1] = to
      /\ DOMAIN trail = 1 .. n /\ DOMAIN trail' = 1 .. n + 1
      /\ \A i \in 1 .. n : trail'[i] = trail[i]
  BY <1>1, Appended
<1>3. phase \in Phases
  BY <1>1
<1>4. /\ Rank[phase] \in Nat /\ Rank[to] \in Nat /\ Rank[phase] < Rank[to] /\ ~IsTerminal(phase)
      /\ ~IsTerminal(to) \/ to = "COMPLETE" =>
           /\ Rank[to] >= 3 => Rank[phase] >= 3 \/ to = "INJECTING"
           /\ Rank[to] >= 6 => Rank[phase] >= 6 \/ to = "VERIFYING"
           /\ Rank[to] >= 7 => Rank[phase] >= 7 \/ to = "CLEANUP"
  BY <1>3, EdgesClimb
<1>5. \A i \in 1 .. n : Rank[trail[i]] \in Nat /\ Rank[trail[i]] <= Rank[phase]
  <2>1. \A p \in Phases : Rank[p] \in Nat
    BY DEF Rank
  <2>2. \A i \in 1 .. n : Rank[trail[i]] \in Nat
    BY <1>1, <1>2, <2>1
  <2>3. \A i \in 1 .. n : i < n => Rank[trail[i]] < Rank[trail[n]]
    BY <1>1, <1>2 DEF PhaseInv
  <2> QED
    BY <1>1, <2>2, <2>3
<1> HIDE DEF n
<1>6. \A i, j \in DOMAIN trail' : i < j => Rank[trail'[i]] < Rank[trail'[j]]
  <2> SUFFICES ASSUME NEW i \in 1 .. n + 1, NEW j \in 1 .. n + 1, i < j
               PROVE  Rank[trail'[i]] < Rank[trail'[j]]
    BY <1>2
  <2>1. i \in 1 .. n /\ trail'[i] = trail[i]
    BY <1>1, <1>2
  <2>2. CASE j = n + 1
    BY <1>2, <1>4, <1>5, <2>1, <2>2
  <2>3. CASE j # n + 1
    <3>1. j \in 1 .. n /\ trail'[j] = trail[j]
      BY <1>1, <1>2, <2>3
    <3>2. Rank[trail[i]] < Rank[trail[j]]
      BY <1>2, <2>1, <3>1 DEF PhaseInv
    <3> QED
      BY <2>1, <3>1, <3>2
  <2> QED
    BY <2>2, <2>3
<1>7. \A p : BeenIn(p) \/ p = to => BeenIn(p)'
  BY <1>1, <1>2 DEF BeenIn
<1>8. /\ Rank[phase] >= 3 => BeenIn("INJECTING")
      /\ Rank[phase] >= 6 => BeenIn("VERIFYING")
      /\ Rank[phase] >= 7 => BeenIn("CLEANUP")
  BY <1>4 DEF PhaseInv
<1>9. ~IsTerminal(phase') \/ phase' = "COMPLETE" =>
        /\ Rank[phase'] >= 3 => BeenIn("INJECTING")'
        /\ Rank[phase'] >= 6 => BeenIn("VERIFYING")'
        /\ Rank[phase'] >= 7 => BeenIn("CLEANUP")'
  BY <1>4, <1>7, <1>8
<1>10. Len(trail') > 0 /\ phase' = trail'[Len(trail')]
  BY <1>1, <1>2
<1> QED
  BY <1>2, <1>6, <1>9, <1>10 DEF PhaseInv, Rank, IsTerminal

(* No other step touches the phase.                                          *)
LEMMA PhaseStep == PhaseInv /\ [Next]_vars => PhaseInv'
<1> SUFFICES ASSUME PhaseInv, [Next]_vars PROVE PhaseInv'
  OBVIOUS
<1>1. ASSUME NEW to \in Phases, Transition(to) PROVE PhaseInv'
  BY <1>1, TrailStep DEF Transition
<1>2. CASE UNCHANGED <<phase, trail>>
  BY <1>2 DEF PhaseInv, BeenIn, IsTerminal, Rank
<1>3. ASSUME NEW name, MakeNamed(name) PROVE UNCHANGED <<phase, trail>>
  BY <1>3, Zenon DEF MakeNamed, phaseVars
<1>4. CASE BuildNext
  BY <1>1, <1>2, <1>3, <1>4 DEF BuildNext, Seed, Generate, Envelope, Target, Schedule, Build,
                                BuilderCall, Reduce, ReduceStep, phaseVars
<1> QED
  BY <1>2, <1>4 DEF Next, vars, buildVars, phaseVars

LEMMA PhaseInvIsEnough == PhaseInv => CompleteIsEarned
<1> SUFFICES ASSUME PhaseInv PROVE CompleteIsEarned
  OBVIOUS
<1>1. trail \in Seq(Phases) /\ \A p \in Phases : Rank[p] \in Nat
  BY DEF PhaseInv, Rank
<1>2. \A i \in DOMAIN trail : i \in Nat /\ Rank[trail[i]] \in Nat
  BY <1>1
<1>3. \A i, j \in DOMAIN trail : i < j => Rank[trail[i]] < Rank[trail[j]]
  BY DEF PhaseInv
<1>4. \A i, j \in DOMAIN trail : i # j => trail[i] # trail[j]
  BY <1>2, <1>3
<1>5. ASSUME phase = "COMPLETE"
      PROVE  \E i, j, k \in DOMAIN trail :
               /\ i < j /\ j < k
               /\ trail[i] = "INJECTING" /\ trail[j] = "VERIFYING" /\ trail[k] = "CLEANUP"
  <2>1. /\ Rank["COMPLETE"] = 8 /\ Rank["INJECTING"] = 3 /\ Rank["VERIFYING"] = 6
        /\ Rank["CLEANUP"] = 7
    BY DEF Rank, Phases
  <2>2. BeenIn("INJECTING") /\ BeenIn("VERIFYING") /\ BeenIn("CLEANUP")
    BY <1>5, <2>1 DEF PhaseInv
  <2>3. PICK i, j, k \in DOMAIN trail :
          trail[i] = "INJECTING" /\ trail[j] = "VERIFYING" /\ trail[k] = "CLEANUP"
    BY <2>2 DEF BeenIn
  <2>4. i < j /\ j < k
    BY <1>2, <1>3, <2>1, <2>3
  <2> QED
    BY <2>3, <2>4
<1> QED
  BY <1>4, <1>5 DEF CompleteIsEarned

(* However the phases of a campaign are walked, none comes twice and a       *)
(* complete campaign has injected, verified and cleaned up, in that order.   *)
THEOREM CompleteEarnedAlways == Spec => []CompleteIsEarned
<1>1. Init => PhaseInv
  <2> SUFFICES ASSUME Init PROVE PhaseInv
    OBVIOUS
  <2>1. phase = "SETUP" /\ trail = <<"SETUP">>
    BY DEF Init, BuildInit
  <2>2. Rank["SETUP"] = 0 /\ "SETUP" \in Phases
    BY DEF Rank, Phases
  <2>3. trail \in Seq(Phases) /\ Len(trail) = 1 /\ DOMAIN trail = 1 .. 1 /\ trail[1] = "SETUP"
    BY <2>1, <2>2
  <2> QED
    BY <2>1, <2>2, <2>3 DEF PhaseInv
<1> QED
  BY <1>1, PhaseStep, PhaseInvIsEnough, PTL DEF Spec

-----------------------------------------------------------------------------
(* The fuzzer and the reducer.                                               *)

(* A generated campaign, field by field.                                     *)
LEMMA FuzzedIs ==
  ASSUME NEW s \in Seeds, NEW w \in 1 .. MaxWorkers, NEW k \in 1 .. MaxFaults, NEW c,
         c = FuzzCampaign(s, w, k)
  PROVE  /\ c \in ReducibleCampaign
         /\ c.seed = s /\ c.children = w + 2 /\ c.precondition = CoordinatorId
         /\ Len(c.targets) = w + 1 /\ DOMAIN c.targets = 1 .. w + 1
         /\ \A i \in 1 .. w : c.targets[i].id = i /\ c.targets[i].kind = "WORKER"
         /\ c.targets[w + 1].id = CoordinatorId /\ c.targets[w + 1].kind = "COORDINATOR"
         /\ Len(c.faults) = k /\ DOMAIN c.faults = 1 .. k
         /\ \A i \in 1 .. k : c.faults[i].id = i /\ c.faults[i].target = FuzzTarget(i - 1)
         /\ c.cleanups = FuzzCleanup(c.targets)
<1> DEFINE spec(n, kind) == [id |-> n, kind |-> kind, executable |-> TRUE, owns |-> TRUE]
           ws == [i \in 1 .. w |-> spec(i, "WORKER")]
           ts == Append(ws, spec(CoordinatorId, "COORDINATOR"))
           fs == [i \in 1 .. k |-> [id |-> i, target |-> FuzzTarget(i - 1)]]
           as == <<[id |-> 1, kind |-> "EXACTLY_ONE_AUTHORITY", target |-> 0]>>
<1>1. w \in Nat /\ k \in Nat /\ CoordinatorId \in Nat
  BY FuzzAssumption
<1>2. c = [seed |-> s, targets |-> ts, children |-> w + 2, precondition |-> CoordinatorId,
           faults |-> fs, assertions |-> as, steps |-> <<>>, cleanups |-> FuzzCleanup(ts)]
  BY DEF FuzzCampaign
<1>3. \A n \in Nat, kind \in {"WORKER", "COORDINATOR"} :
        /\ spec(n, kind) \in GeneratedTarget
        /\ spec(n, kind).id = n /\ spec(n, kind).kind = kind
  BY DEF GeneratedTarget
<1>4. \A i \in 1 .. k : FuzzTarget(i - 1) \in Nat
  BY <1>1 DEF FuzzTarget
<1>5. fs \in Seq(GeneratedFault) /\ Len(fs) = k /\ DOMAIN fs = 1 .. k
  <2>1. \A i \in 1 .. k : [id |-> i, target |-> FuzzTarget(i - 1)] \in GeneratedFault
    BY <1>1, <1>4 DEF GeneratedFault
  <2> QED
    BY <1>1, <2>1
<1>6. \A i \in 1 .. k : fs[i].id = i /\ fs[i].target = FuzzTarget(i - 1)
  OBVIOUS
<1> HIDE DEF spec, fs
<1>7. /\ ws \in Seq(GeneratedTarget) /\ Len(ws) = w
      /\ \A i \in 1 .. w : i \in Nat /\ ws[i] = spec(i, "WORKER")
  BY <1>1, <1>3
<1> HIDE DEF ws
<1>8. /\ ts \in Seq(GeneratedTarget) /\ Len(ts) = w + 1 /\ DOMAIN ts = 1 .. w + 1
      /\ ts[w + 1] = spec(CoordinatorId, "COORDINATOR")
      /\ \A i \in 1 .. w : ts[i] = spec(i, "WORKER")
  BY <1>1, <1>3, <1>7, Appended
<1> HIDE DEF ts
<1>9. /\ \A i \in 1 .. w : ts[i].id = i /\ ts[i].kind = "WORKER"
      /\ ts[w + 1].id = CoordinatorId /\ ts[w + 1].kind = "COORDINATOR"
  BY <1>1, <1>3, <1>7, <1>8
<1>10. FuzzCleanup(ts) \in SUBSET Nat
  <2>1. \A r \in GeneratedTarget : r.id \in Nat
    BY DEF GeneratedTarget
  <2>2. \A i \in DOMAIN ts : ts[i].id \in Nat
    BY <1>8, <2>1
  <2> QED
    BY <2>2, Zenon DEF FuzzCleanup
<1>11. c \in ReducibleCampaign
  BY <1>1, <1>2, <1>5, <1>8, <1>10 DEF ReducibleCampaign
<1>12. /\ c.seed = s /\ c.children = w + 2 /\ c.precondition = CoordinatorId
       /\ c.targets = ts /\ c.faults = fs /\ c.cleanups = FuzzCleanup(ts)
  BY <1>2
<1> HIDE DEF as
<1>13. /\ Len(c.targets) = w + 1 /\ DOMAIN c.targets = 1 .. w + 1
       /\ \A i \in 1 .. w : c.targets[i].id = i /\ c.targets[i].kind = "WORKER"
       /\ c.targets[w + 1].id = CoordinatorId /\ c.targets[w + 1].kind = "COORDINATOR"
       /\ c.cleanups = FuzzCleanup(c.targets)
  BY <1>8, <1>9, <1>12
<1>14. /\ Len(c.faults) = k /\ DOMAIN c.faults = 1 .. k
       /\ \A i \in 1 .. k : c.faults[i].id = i /\ c.faults[i].target = FuzzTarget(i - 1)
  BY <1>5, <1>6, <1>12
<1> QED
  BY <1>11, <1>12, <1>13, <1>14

LEMMA FuzzedIsReducible ==
  ASSUME NEW s \in Seeds, NEW w \in 1 .. MaxWorkers, NEW k \in 1 .. MaxFaults
  PROVE  Reducible(FuzzCampaign(s, w, k))
<1> DEFINE c == FuzzCampaign(s, w, k)
<1>1. /\ c \in ReducibleCampaign /\ c.precondition = CoordinatorId
      /\ DOMAIN c.targets = 1 .. w + 1 /\ DOMAIN c.faults = 1 .. k
      /\ \A i \in 1 .. w : c.targets[i].id = i
      /\ c.targets[w + 1].id = CoordinatorId /\ c.targets[w + 1].kind = "COORDINATOR"
      /\ \A i \in 1 .. k : c.faults[i].id = i
  BY FuzzedIs
<1> HIDE DEF c
<1>2. Ascending(c.faults)
  BY <1>1 DEF Ascending
<1>3. w + 1 \in DOMAIN c.targets
  BY <1>1, FuzzAssumption
<1>4. ASSUME NEW i \in DOMAIN c.targets, NEW j \in DOMAIN c.targets, i < j
      PROVE  c.targets[i].id < c.targets[j].id
  <2>1. i \in 1 .. w /\ (j \in 1 .. w \/ j = w + 1) /\ i < CoordinatorId
    BY <1>1, <1>4, FuzzAssumption
  <2> QED
    BY <1>1, <1>4, <2>1
<1> QED
  BY <1>1, <1>2, <1>3, <1>4 DEF Reducible, Ascending, c

(* generate() promises what GeneratedIsRunnable says of its result.          *)
LEMMA FuzzedIsRunnable ==
  ASSUME NEW s \in Seeds, NEW w \in 1 .. MaxWorkers, NEW k \in 1 .. MaxFaults, NEW c,
         c = FuzzCampaign(s, w, k)
  PROVE  /\ \A i \in DOMAIN c.targets : c.targets[i].owns => c.targets[i].id \in c.cleanups
         /\ Len(c.targets) <= c.children
         /\ Validate(c) <=>
              /\ c.seed # 0
              /\ \A n \in 1 .. 3 : Len(c.faults) >= n => Len(c.targets) - 1 >= n
<1>1. /\ c \in ReducibleCampaign
      /\ c.seed = s /\ c.children = w + 2 /\ c.precondition = CoordinatorId
      /\ Len(c.targets) = w + 1 /\ DOMAIN c.targets = 1 .. w + 1
      /\ \A i \in 1 .. w : c.targets[i].id = i /\ c.targets[i].kind = "WORKER"
      /\ c.targets[w + 1].id = CoordinatorId /\ c.targets[w + 1].kind = "COORDINATOR"
      /\ Len(c.faults) = k /\ DOMAIN c.faults = 1 .. k
      /\ \A i \in 1 .. k : c.faults[i].id = i /\ c.faults[i].target = FuzzTarget(i - 1)
      /\ c.cleanups = FuzzCleanup(c.targets)
  BY FuzzedIs
<1>2. /\ w \in Nat /\ w >= 1 /\ w <= MaxWorkers /\ k \in Nat /\ MaxWorkers \in Nat
      /\ CoordinatorId \in Nat /\ CoordinatorId > MaxWorkers /\ CoordinatorId > 3
  BY FuzzAssumption
<1>3. \A i \in DOMAIN c.targets : c.targets[i].owns => c.targets[i].id \in c.cleanups
  BY <1>1, Zenon DEF FuzzCleanup
<1>4. \A i \in 1 .. w + 1 : i \in 1 .. w \/ i = w + 1
  BY <1>2
<1>5. \A i, j \in DOMAIN c.targets : i # j => c.targets[i].id # c.targets[j].id
  BY <1>1, <1>2, <1>4, SMTT(30)
<1>6. \A i \in DOMAIN c.targets : c.targets[i].kind # "PROCESS"
  BY <1>1, <1>4
<1>7. TargetIds(c) = 1 .. w \cup {CoordinatorId}
  <2>1. w + 1 \in DOMAIN c.targets /\ \A i \in 1 .. w : i \in DOMAIN c.targets
    BY <1>1, <1>2
  <2> QED
    <3> DEFINE ts == c.targets
    <3>1. TargetIds(c) = {ts[i].id : i \in 1 .. w + 1}
      BY <1>1 DEF TargetIds
    <3>2. (\A i \in 1 .. w : ts[i].id = i) /\ ts[w + 1].id = CoordinatorId
      BY <1>1
    <3> HIDE DEF ts
    <3>3. \A t \in TargetIds(c) : t \in 1 .. w \/ t = CoordinatorId
      BY <1>4, <3>1, <3>2
    <3>4. ASSUME NEW t \in 1 .. w PROVE t \in TargetIds(c)
      <4>1. t \in 1 .. w + 1 /\ ts[t].id = t
        BY <1>2, <3>2
      <4> QED
        BY <3>1, <4>1
    <3>5. CoordinatorId \in TargetIds(c)
      BY <1>1, <2>1, <3>1, <3>2
    <3> QED
      BY <3>3, <3>4, <3>5
<1>8. Validate(c) <=> c.seed # 0 /\ \A i \in 1 .. k : FuzzTarget(i - 1) \in TargetIds(c)
  <2>1. c.children >= 1
    BY <1>1, <1>2
  <2>2. Validate(c) <=> c.seed # 0 /\ \A i \in DOMAIN c.faults : c.faults[i].target \in TargetIds(c)
    BY <1>5, <1>6, <2>1, Zenon DEF Validate
  <2>3. \A i \in DOMAIN c.faults : c.faults[i].target = FuzzTarget(i - 1)
    BY <1>1
  <2>4. DOMAIN c.faults = 1 .. k
    BY <1>1
  <2> QED
    BY <2>2, <2>3, <2>4, Zenon
<1>9. (\A i \in 1 .. k : FuzzTarget(i - 1) \in TargetIds(c)) <=> \A n \in 1 .. 3 : k >= n => w >= n
  <2>1. \A i \in 1 .. k : /\ FuzzTarget(i - 1) \in 1 .. 3 /\ FuzzTarget(i - 1) <= i
    BY <1>2 DEF FuzzTarget
  <2>2. \A n \in 1 .. 3 : FuzzTarget(n - 1) = n
    BY DEF FuzzTarget
  <2>3. ASSUME \A i \in 1 .. k : FuzzTarget(i - 1) \in TargetIds(c), NEW n \in 1 .. 3, k >= n
        PROVE  w >= n
    <3>1. n \in 1 .. k
      BY <1>2, <2>3
    <3>2. n \in TargetIds(c)
      BY <2>2, <2>3, <3>1
    <3> QED
      BY <1>2, <1>7, <3>2
  <2>4. ASSUME \A n \in 1 .. 3 : k >= n => w >= n, NEW i \in 1 .. k
        PROVE  FuzzTarget(i - 1) \in TargetIds(c)
    <3> DEFINE n == FuzzTarget(i - 1)
    <3>1. n \in 1 .. 3 /\ n <= i
      BY <2>1
    <3> HIDE DEF n
    <3>2. w >= n
      BY <1>2, <2>4, <3>1
    <3> QED
      BY <1>2, <1>7, <3>1, <3>2 DEF n
  <2> QED
    BY <2>3, <2>4
<1> QED
  BY <1>1, <1>2, <1>3, <1>8, <1>9

LEMMA Joined ==
  ASSUME NEW S, NEW a \in Seq(S), NEW b \in Seq(S)
  PROVE  (a \o b) \in Seq(S) /\ Len(a \o b) = Len(a) + Len(b)
OBVIOUS

(* Taking one element out of a sequence.                                     *)
LEMMA Removed ==
  ASSUME NEW S, NEW s \in Seq(S), NEW i \in 1 .. Len(s)
  PROVE  /\ RemoveAt(s, i) \in Seq(S) /\ Len(RemoveAt(s, i)) = Len(s) - 1
         /\ DOMAIN s = 1 .. Len(s) /\ DOMAIN RemoveAt(s, i) = 1 .. Len(s) - 1
         /\ \A j \in 1 .. Len(s) - 1 : RemoveAt(s, i)[j] = IF j < i THEN s[j] ELSE s[j + 1]
<1> DEFINE a == SubSeq(s, 1, i - 1)
           b == SubSeq(s, i + 1, Len(s))
<1>1. Len(s) \in Nat /\ i \in Nat /\ i >= 1 /\ i <= Len(s)
  OBVIOUS
<1>2. a \in Seq(S) /\ Len(a) = i - 1 /\ \A j \in 1 .. i - 1 : a[j] = s[j]
  BY <1>1
<1>3. b \in Seq(S) /\ Len(b) = Len(s) - i /\ \A j \in 1 .. Len(s) - i : b[j] = s[i + j]
  BY <1>1
<1>4. RemoveAt(s, i) = a \o b
  BY DEF RemoveAt
<1> HIDE DEF a, b
<1>5. a \o b \in Seq(S) /\ Len(a \o b) = Len(s) - 1
  <2>1. (a \o b) \in Seq(S) /\ Len(a \o b) = Len(a) + Len(b)
    BY <1>2, <1>3, Joined
  <2>2. Len(a) + Len(b) = Len(s) - 1
    BY <1>1, <1>2, <1>3
  <2> QED
    BY <2>1, <2>2
<1>6. ASSUME NEW j \in 1 .. Len(s) - 1 PROVE (a \o b)[j] = IF j < i THEN s[j] ELSE s[j + 1]
  <2>1. CASE j < i
    BY <1>1, <1>2, <1>3, <2>1
  <2>2. CASE ~(j < i)
    <3>1. j - (i - 1) \in 1 .. Len(s) - i /\ i + (j - (i - 1)) = j + 1
      BY <1>1, <2>2
    <3>2. (a \o b)[j] = b[j - Len(a)]
      BY <1>1, <1>2, <1>3, <2>2
    <3> QED
      BY <1>2, <1>3, <2>2, <3>1, <3>2
  <2> QED
    BY <2>1, <2>2
<1>7. DOMAIN (a \o b) = 1 .. Len(s) - 1 /\ DOMAIN s = 1 .. Len(s)
  BY <1>5
<1> QED
  BY <1>4, <1>5, <1>6, <1>7

(* Every element but the one taken out is still there, in its place or one   *)
(* before it, and nothing else is.                                           *)
LEMMA RemovedPlaces ==
  ASSUME NEW S, NEW s \in Seq(S), NEW i \in 1 .. Len(s)
  PROVE  /\ \A j \in DOMAIN s : j # i =>
              \E k \in DOMAIN RemoveAt(s, i) : RemoveAt(s, i)[k] = s[j]
         /\ \A k \in DOMAIN RemoveAt(s, i) :
              \E j \in DOMAIN s : j # i /\ j >= k /\ RemoveAt(s, i)[k] = s[j]
         /\ \A k, l \in DOMAIN RemoveAt(s, i) : k < l =>
              \E j, m \in DOMAIN s : j < m /\ RemoveAt(s, i)[k] = s[j] /\ RemoveAt(s, i)[l] = s[m]
<1> DEFINE r == RemoveAt(s, i)
           n == Len(s)
<1>1. /\ n \in Nat /\ i \in Nat /\ i >= 1 /\ i <= n
      /\ DOMAIN s = 1 .. n /\ DOMAIN r = 1 .. n - 1
      /\ \A j \in 1 .. n - 1 : r[j] = IF j < i THEN s[j] ELSE s[j + 1]
  BY Removed
<1> HIDE DEF r, n
<1>2. ASSUME NEW j \in 1 .. n, j # i PROVE \E k \in 1 .. n - 1 : r[k] = s[j]
  <2>1. CASE j < i
    <3>1. j \in 1 .. n - 1 /\ r[j] = s[j]
      BY <1>1, <2>1
    <3> QED
      BY <3>1
  <2>2. CASE ~(j < i)
    <3>1. j - 1 \in 1 .. n - 1 /\ ~(j - 1 < i) /\ (j - 1) + 1 = j
      BY <1>1, <1>2, <2>2
    <3>2. r[j - 1] = s[j]
      BY <1>1, <3>1
    <3> QED
      BY <3>1, <3>2
  <2> QED
    BY <2>1, <2>2
<1> DEFINE from(k) == IF k < i THEN k ELSE k + 1
<1>3. \A k \in 1 .. n - 1 : from(k) \in 1 .. n /\ from(k) # i /\ from(k) >= k /\ r[k] = s[from(k)]
  BY <1>1
<1>4. \A k, l \in 1 .. n - 1 : k < l => from(k) < from(l)
  BY <1>1
<1> HIDE DEF from
<1>5. \A k \in 1 .. n - 1 : \E j \in 1 .. n : j # i /\ j >= k /\ r[k] = s[j]
  BY <1>3
<1>6. \A k, l \in 1 .. n - 1 : k < l => \E j, m \in 1 .. n : j < m /\ r[k] = s[j] /\ r[l] = s[m]
  BY <1>3, <1>4
<1>7. DOMAIN s = 1 .. n /\ DOMAIN r = 1 .. n - 1
  BY <1>1
<1>8. \A j \in DOMAIN s : j # i => \E k \in DOMAIN r : r[k] = s[j]
  BY <1>2, <1>7
<1>9. \A k \in DOMAIN r : \E j \in DOMAIN s : j # i /\ j >= k /\ r[k] = s[j]
  BY <1>5, <1>7
<1>10. \A k, l \in DOMAIN r : k < l => \E j, m \in DOMAIN s : j < m /\ r[k] = s[j] /\ r[l] = s[m]
  BY <1>6, <1>7
<1> QED
  BY <1>8, <1>9, <1>10, Zenon DEF r

Ids(s) == {s[k].id : k \in DOMAIN s}

(* Records with ascending ids: taking one out takes away its id and no other *)
(* one, and leaves the records before it where they are.                     *)
LEMMA RemovedIds ==
  ASSUME NEW S, \A r \in S : r.id \in Nat,
         NEW s \in Seq(S), Ascending(s), NEW i \in DOMAIN s
  PROVE  LET r == RemoveAt(s, i)
         IN /\ r \in Seq(S) /\ Ascending(r)
            /\ Ids(r) = Ids(s) \ {s[i].id}
            /\ \A k \in DOMAIN r : k < i => k \in DOMAIN s /\ r[k] = s[k]
            /\ \A k \in DOMAIN r : \E j \in DOMAIN s : j # i /\ r[k] = s[j]
            /\ \A j \in DOMAIN s : j # i => \E k \in DOMAIN r : r[k] = s[j]
<1> DEFINE r == RemoveAt(s, i)
<1>1. i \in 1 .. Len(s) /\ Len(s) \in Nat
  OBVIOUS
<1>2. /\ r \in Seq(S) /\ DOMAIN s = 1 .. Len(s) /\ DOMAIN r = 1 .. Len(s) - 1
      /\ \A j \in 1 .. Len(s) - 1 : r[j] = IF j < i THEN s[j] ELSE s[j + 1]
  BY <1>1, Removed
<1>3. /\ \A j \in DOMAIN s : j # i => \E k \in DOMAIN r : r[k] = s[j]
      /\ \A k \in DOMAIN r : \E j \in DOMAIN s : j # i /\ j >= k /\ r[k] = s[j]
      /\ \A k, l \in DOMAIN r : k < l =>
           \E j, m \in DOMAIN s : j < m /\ r[k] = s[j] /\ r[l] = s[m]
  BY <1>1, RemovedPlaces
<1> HIDE DEF r
<1>4. \A j \in DOMAIN s : s[j] \in S /\ s[j].id \in Nat /\ j \in Nat
  BY <1>2
<1>5. Ascending(r)
  BY <1>3, <1>4 DEF Ascending
<1>6. \A k \in DOMAIN r : k < i => k \in DOMAIN s /\ r[k] = s[k]
  BY <1>1, <1>2
<1>7. \A j \in DOMAIN s : j # i => s[j].id # s[i].id
  BY <1>4 DEF Ascending
<1>8. Ids(r) = Ids(s) \ {s[i].id}
  <2>1. ASSUME NEW x \in Ids(r) PROVE x \in Ids(s) /\ x # s[i].id
    <3>1. PICK k \in DOMAIN r : x = r[k].id
      BY DEF Ids
    <3>2. PICK j \in DOMAIN s : j # i /\ r[k] = s[j]
      BY <1>3
    <3>3. x = s[j].id /\ s[j].id # s[i].id
      BY <1>7, <3>1, <3>2
    <3> QED
      BY <3>3 DEF Ids
  <2>2. ASSUME NEW x \in Ids(s), x # s[i].id PROVE x \in Ids(r)
    <3>1. PICK j \in DOMAIN s : x = s[j].id
      BY DEF Ids
    <3>2. PICK k \in DOMAIN r : r[k] = s[j]
      BY <1>3, <2>2, <3>1
    <3> QED
      BY <3>1, <3>2 DEF Ids
  <2> QED
    BY <2>1, <2>2
<1> QED
  BY <1>2, <1>3, <1>5, <1>6, <1>8 DEF r

(* What a trial of the reducer changes, and what it leaves.                  *)
LEMMA WithoutFaultIs ==
  ASSUME NEW c, Reducible(c), NEW i \in DOMAIN c.faults
  PROVE  LET d == WithoutFault(c, i)
         IN /\ d \in ReducibleCampaign /\ d.faults = RemoveAt(c.faults, i)
            /\ d.targets = c.targets /\ d.precondition = c.precondition
            /\ d.children = c.children /\ d.seed = c.seed
            /\ Ascending(d.faults) /\ Ascending(d.targets)
            /\ TargetIds(d) = TargetIds(c) /\ FaultIds(d) = FaultIds(c) \ {c.faults[i].id}
            /\ \A k \in DOMAIN d.faults : k < i => k \in DOMAIN c.faults /\ d.faults[k] = c.faults[k]
            /\ \A k \in DOMAIN d.faults : \E j \in DOMAIN c.faults : d.faults[k] = c.faults[j]
<1> DEFINE d == WithoutFault(c, i)
           fs == c.faults
           gs == RemoveAt(fs, i)
<1>1. c \in ReducibleCampaign /\ Ascending(fs) /\ Ascending(c.targets)
  BY DEF Reducible
<1>2. fs \in Seq(GeneratedFault)
  BY <1>1 DEF ReducibleCampaign
<1>3. \A r \in GeneratedFault : r.id \in Nat
  BY DEF GeneratedFault
<1> HIDE DEF fs
<1>4. /\ gs \in Seq(GeneratedFault) /\ Ascending(gs)
      /\ Ids(gs) = Ids(fs) \ {fs[i].id}
      /\ \A k \in DOMAIN gs : k < i => k \in DOMAIN fs /\ gs[k] = fs[k]
      /\ \A k \in DOMAIN gs : \E j \in DOMAIN fs : j # i /\ gs[k] = fs[j]
  <2>1. i \in DOMAIN fs
    BY DEF fs
  <2> QED
    BY <1>1, <1>2, <1>3, <2>1, RemovedIds
<1> HIDE DEF gs
<1>5. d = [c EXCEPT !.faults = gs]
  BY DEF WithoutFault, gs, fs
<1> HIDE DEF d
<1>6. d \in ReducibleCampaign
  BY <1>1, <1>4, <1>5 DEF ReducibleCampaign
<1>7. /\ d.faults = gs /\ d.targets = c.targets /\ d.precondition = c.precondition
      /\ d.children = c.children /\ d.seed = c.seed
  BY <1>1, <1>5 DEF ReducibleCampaign
<1>8. TargetIds(d) = TargetIds(c) /\ FaultIds(d) = FaultIds(c) \ {fs[i].id}
  <2>1. TargetIds(d) = Ids(d.targets) /\ TargetIds(c) = Ids(c.targets)
    BY DEF TargetIds, Ids
  <2>2. FaultIds(d) = Ids(d.faults) /\ FaultIds(c) = Ids(c.faults)
    BY DEF FaultIds, Ids
  <2> QED
    BY <1>4, <1>7, <2>1, <2>2, Zenon DEF fs
<1> QED
  BY <1>1, <1>4, <1>6, <1>7, <1>8, Zenon DEF d, gs, fs

LEMMA WithoutTargetIs ==
  ASSUME NEW c, Reducible(c), NEW i \in DOMAIN c.targets
  PROVE  LET d == WithoutTarget(c, i)
         IN /\ d \in ReducibleCampaign /\ d.targets = RemoveAt(c.targets, i)
            /\ d.faults = c.faults /\ d.precondition = c.precondition
            /\ d.children = c.children /\ d.seed = c.seed
            /\ Ascending(d.faults) /\ Ascending(d.targets)
            /\ FaultIds(d) = FaultIds(c) /\ TargetIds(d) = TargetIds(c) \ {c.targets[i].id}
            /\ \A k \in DOMAIN d.targets : k < i => k \in DOMAIN c.targets /\ d.targets[k] = c.targets[k]
            /\ \A k \in DOMAIN d.targets : \E j \in DOMAIN c.targets : d.targets[k] = c.targets[j]
            /\ \A j \in DOMAIN c.targets : j # i => \E k \in DOMAIN d.targets : d.targets[k] = c.targets[j]
<1> DEFINE d == WithoutTarget(c, i)
           fs == c.targets
           gs == RemoveAt(fs, i)
<1>1. c \in ReducibleCampaign /\ Ascending(fs) /\ Ascending(c.faults)
  BY DEF Reducible
<1>2. fs \in Seq(GeneratedTarget)
  BY <1>1 DEF ReducibleCampaign
<1>3. \A r \in GeneratedTarget : r.id \in Nat
  BY DEF GeneratedTarget
<1> HIDE DEF fs
<1>4. /\ gs \in Seq(GeneratedTarget) /\ Ascending(gs)
      /\ Ids(gs) = Ids(fs) \ {fs[i].id}
      /\ \A k \in DOMAIN gs : k < i => k \in DOMAIN fs /\ gs[k] = fs[k]
      /\ \A k \in DOMAIN gs : \E j \in DOMAIN fs : j # i /\ gs[k] = fs[j]
      /\ \A j \in DOMAIN fs : j # i => \E k \in DOMAIN gs : gs[k] = fs[j]
  <2>1. i \in DOMAIN fs
    BY DEF fs
  <2> QED
    BY <1>1, <1>2, <1>3, <2>1, RemovedIds
<1> HIDE DEF gs
<1>5. d = [c EXCEPT !.targets = gs]
  BY DEF WithoutTarget, gs, fs
<1> HIDE DEF d
<1>6. d \in ReducibleCampaign
  BY <1>1, <1>4, <1>5 DEF ReducibleCampaign
<1>7. /\ d.targets = gs /\ d.faults = c.faults /\ d.precondition = c.precondition
      /\ d.children = c.children /\ d.seed = c.seed
  BY <1>1, <1>5 DEF ReducibleCampaign
<1>8. FaultIds(d) = FaultIds(c) /\ TargetIds(d) = TargetIds(c) \ {fs[i].id}
  <2>1. TargetIds(d) = Ids(d.targets) /\ TargetIds(c) = Ids(c.targets)
    BY DEF TargetIds, Ids
  <2>2. FaultIds(d) = Ids(d.faults) /\ FaultIds(c) = Ids(c.faults)
    BY DEF FaultIds, Ids
  <2> QED
    BY <1>4, <1>7, <2>1, <2>2, Zenon DEF fs
<1> QED
  BY <1>1, <1>4, <1>6, <1>7, <1>8, ZenonT(30) DEF d, gs, fs

(* The invariant of the reducer, said of any predicate, original, campaign   *)
(* and cursor, so that it can be said before and after a step.               *)
Fails(p, c) == p.needs \subseteq TargetIds(c) /\ \E s \in p.cores : s \subseteq FaultIds(c)

Kept(p, o, c) ==
  /\ Reducible(c)
  /\ TargetIds(c) \subseteq TargetIds(o) /\ FaultIds(c) \subseteq FaultIds(o)
  /\ Fails(p, o) => Fails(p, c)
  /\ Validate(o) => Validate(c)

TriedFaults(p, c, n) == \A i \in DOMAIN c.faults : i < n => ~Fails(p, WithoutFault(c, i))
TriedTargets(p, c, n) ==
  \A i \in DOMAIN c.targets : i < n /\ Removable(c, i) => ~Fails(p, WithoutTarget(c, i))

(* A failure that needs less is a failure.                                   *)
LEMMA FailsGrows ==
  ASSUME NEW p, NEW c, NEW d, Fails(p, d),
         TargetIds(d) \subseteq TargetIds(c), FaultIds(d) \subseteq FaultIds(c)
  PROVE  Fails(p, c)
BY Zenon DEF Fails

(* The checks of validate() on a campaign the fuzzer made: it owns no plain  *)
(* process and its ids are distinct.                                         *)
LEMMA ValidMeans ==
  ASSUME NEW c, c \in ReducibleCampaign, Ascending(c.targets)
  PROVE  Validate(c) <=> /\ c.children >= 1 /\ c.seed # 0
                         /\ \A k \in DOMAIN c.faults : c.faults[k].target \in TargetIds(c)
<1> DEFINE ts == c.targets
<1>1. ts \in Seq(GeneratedTarget)
  BY DEF ReducibleCampaign
<1>2. \A r \in GeneratedTarget : r.id \in Nat /\ r.kind # "PROCESS"
  BY DEF GeneratedTarget
<1>3. Ascending(ts)
  OBVIOUS
<1> HIDE DEF ts
<1>4. \A k \in DOMAIN ts : k \in Nat /\ ts[k] \in GeneratedTarget
  BY <1>1
<1>5. \A k \in DOMAIN ts : ts[k].id \in Nat /\ ts[k].kind # "PROCESS"
  BY <1>2, <1>4
<1>6. \A j, k \in DOMAIN ts : j # k => ts[j].id # ts[k].id
  BY <1>3, <1>4, <1>5 DEF Ascending
<1> QED
  BY <1>5, <1>6, Zenon DEF Validate, ts

LEMMA KeepFault ==
  ASSUME NEW p, NEW o, NEW c, Kept(p, o, c), NEW i \in DOMAIN c.faults,
         Fails(p, WithoutFault(c, i)), TriedFaults(p, c, i)
  PROVE  Kept(p, o, WithoutFault(c, i)) /\ TriedFaults(p, WithoutFault(c, i), i)
<1> DEFINE d == WithoutFault(c, i)
<1>0. /\ Reducible(c) /\ TargetIds(c) \subseteq TargetIds(o) /\ FaultIds(c) \subseteq FaultIds(o)
      /\ Validate(o) => Validate(c)
  BY DEF Kept
<1>1. /\ d \in ReducibleCampaign
      /\ d.targets = c.targets /\ d.precondition = c.precondition
      /\ d.children = c.children /\ d.seed = c.seed
      /\ Ascending(d.faults) /\ Ascending(d.targets)
      /\ TargetIds(d) = TargetIds(c) /\ FaultIds(d) = FaultIds(c) \ {c.faults[i].id}
      /\ \A k \in DOMAIN d.faults : k < i => k \in DOMAIN c.faults /\ d.faults[k] = c.faults[k]
      /\ \A k \in DOMAIN d.faults : \E j \in DOMAIN c.faults : d.faults[k] = c.faults[j]
  BY <1>0, WithoutFaultIs
<1>2. Fails(p, d)
  OBVIOUS
<1> HIDE DEF d
<1>3. Reducible(d)
  BY <1>0, <1>1, Zenon DEF Reducible
<1>4. Validate(c) => Validate(d)
  <2> SUFFICES ASSUME Validate(c) PROVE Validate(d)
    OBVIOUS
  <2>1. /\ c.children >= 1 /\ c.seed # 0
        /\ \A k \in DOMAIN c.faults : c.faults[k].target \in TargetIds(c)
    BY Zenon DEF Validate
  <2>2. \A k \in DOMAIN d.faults : d.faults[k].target \in TargetIds(d)
    BY <1>1, <2>1, Zenon
  <2> QED
    BY <1>1, <2>1, <2>2, ValidMeans
<1>5. Kept(p, o, d)
  BY <1>0, <1>1, <1>2, <1>3, <1>4 DEF Kept
<1>6. ASSUME NEW k \in DOMAIN d.faults, k < i, Fails(p, WithoutFault(d, k)) PROVE FALSE
  <2>1. k \in DOMAIN c.faults /\ d.faults[k] = c.faults[k]
    BY <1>1, <1>6
  <2>2. /\ TargetIds(WithoutFault(d, k)) = TargetIds(d)
        /\ FaultIds(WithoutFault(d, k)) = FaultIds(d) \ {d.faults[k].id}
    BY <1>3, WithoutFaultIs
  <2>3. /\ TargetIds(WithoutFault(c, k)) = TargetIds(c)
        /\ FaultIds(WithoutFault(c, k)) = FaultIds(c) \ {c.faults[k].id}
    BY <1>0, <2>1, WithoutFaultIs
  <2>4. /\ TargetIds(WithoutFault(d, k)) \subseteq TargetIds(WithoutFault(c, k))
        /\ FaultIds(WithoutFault(d, k)) \subseteq FaultIds(WithoutFault(c, k))
    BY <1>1, <2>1, <2>2, <2>3, Zenon
  <2>5. Fails(p, WithoutFault(c, k))
    BY <1>6, <2>4, FailsGrows
  <2> QED
    BY <1>6, <2>1, <2>5 DEF TriedFaults
<1>7. TriedFaults(p, d, i)
  BY <1>6 DEF TriedFaults
<1> QED
  BY <1>5, <1>7 DEF d

LEMMA KeepTarget ==
  ASSUME NEW p, NEW o, NEW c, Kept(p, o, c), NEW i \in DOMAIN c.targets, Removable(c, i),
         Fails(p, WithoutTarget(c, i)), TriedFaults(p, c, Len(c.faults) + 1), TriedTargets(p, c, i)
  PROVE  LET d == WithoutTarget(c, i)
         IN Kept(p, o, d) /\ TriedFaults(p, d, Len(d.faults) + 1) /\ TriedTargets(p, d, i)
<1> DEFINE d == WithoutTarget(c, i)
<1>0. /\ Reducible(c) /\ TargetIds(c) \subseteq TargetIds(o) /\ FaultIds(c) \subseteq FaultIds(o)
      /\ Validate(o) => Validate(c)
  BY DEF Kept
<1>1. /\ d \in ReducibleCampaign
      /\ d.faults = c.faults /\ d.precondition = c.precondition
      /\ d.children = c.children /\ d.seed = c.seed
      /\ Ascending(d.faults) /\ Ascending(d.targets)
      /\ FaultIds(d) = FaultIds(c) /\ TargetIds(d) = TargetIds(c) \ {c.targets[i].id}
      /\ \A k \in DOMAIN d.targets : k < i => k \in DOMAIN c.targets /\ d.targets[k] = c.targets[k]
      /\ \A k \in DOMAIN d.targets : \E j \in DOMAIN c.targets : d.targets[k] = c.targets[j]
      /\ \A j \in DOMAIN c.targets : j # i => \E k \in DOMAIN d.targets : d.targets[k] = c.targets[j]
  BY <1>0, WithoutTargetIs
<1>2. Fails(p, d)
  OBVIOUS
<1> HIDE DEF d
<1>3. Reducible(d)
  <2>1. PICK j \in DOMAIN c.targets :
          c.targets[j].id = c.precondition /\ c.targets[j].kind = "COORDINATOR"
    BY <1>0 DEF Reducible
  <2>2. j # i
    BY <2>1 DEF Removable
  <2>3. PICK k \in DOMAIN d.targets : d.targets[k] = c.targets[j]
    BY <1>1, <2>2, Zenon
  <2>4. d.targets[k].id = d.precondition /\ d.targets[k].kind = "COORDINATOR"
    BY <1>1, <2>1, <2>3, Zenon
  <2> QED
    BY <1>1, <2>3, <2>4, Zenon DEF Reducible
<1>4. Validate(c) => Validate(d)
  <2> SUFFICES ASSUME Validate(c) PROVE Validate(d)
    OBVIOUS
  <2>1. /\ c.children >= 1 /\ c.seed # 0
        /\ \A k \in DOMAIN c.faults : c.faults[k].target \in TargetIds(c)
    BY Zenon DEF Validate
  <2>2. \A k \in DOMAIN d.faults : d.faults[k].target \in TargetIds(d)
    BY <1>1, <2>1, Zenon DEF Removable
  <2> QED
    BY <1>1, <2>1, <2>2, ValidMeans
<1>5. Kept(p, o, d)
  BY <1>0, <1>1, <1>2, <1>3, <1>4 DEF Kept
<1>6. ASSUME NEW k \in DOMAIN d.faults, Fails(p, WithoutFault(d, k)) PROVE FALSE
  <2>1. k \in DOMAIN c.faults /\ d.faults[k] = c.faults[k] /\ k < Len(c.faults) + 1
    <3>1. c.faults \in Seq(GeneratedFault)
      BY <1>0 DEF Reducible, ReducibleCampaign
    <3> QED
      BY <1>1, <3>1
  <2>2. /\ TargetIds(WithoutFault(d, k)) = TargetIds(d)
        /\ FaultIds(WithoutFault(d, k)) = FaultIds(d) \ {d.faults[k].id}
    BY <1>3, WithoutFaultIs
  <2>3. /\ TargetIds(WithoutFault(c, k)) = TargetIds(c)
        /\ FaultIds(WithoutFault(c, k)) = FaultIds(c) \ {c.faults[k].id}
    BY <1>0, <2>1, WithoutFaultIs
  <2>4. /\ TargetIds(WithoutFault(d, k)) \subseteq TargetIds(WithoutFault(c, k))
        /\ FaultIds(WithoutFault(d, k)) \subseteq FaultIds(WithoutFault(c, k))
    BY <1>1, <2>1, <2>2, <2>3, Zenon
  <2>5. Fails(p, WithoutFault(c, k))
    BY <1>6, <2>4, FailsGrows
  <2> QED
    BY <1>6, <2>1, <2>5 DEF TriedFaults
<1>7. TriedFaults(p, d, Len(d.faults) + 1)
  BY <1>6 DEF TriedFaults
<1>8. ASSUME NEW k \in DOMAIN d.targets, k < i, Removable(d, k), Fails(p, WithoutTarget(d, k))
      PROVE  FALSE
  <2>1. k \in DOMAIN c.targets /\ d.targets[k] = c.targets[k]
    BY <1>1, <1>8
  <2>2. /\ FaultIds(WithoutTarget(d, k)) = FaultIds(d)
        /\ TargetIds(WithoutTarget(d, k)) = TargetIds(d) \ {d.targets[k].id}
    BY <1>3, WithoutTargetIs
  <2>3. /\ FaultIds(WithoutTarget(c, k)) = FaultIds(c)
        /\ TargetIds(WithoutTarget(c, k)) = TargetIds(c) \ {c.targets[k].id}
    BY <1>0, <2>1, WithoutTargetIs
  <2>4. /\ TargetIds(WithoutTarget(d, k)) \subseteq TargetIds(WithoutTarget(c, k))
        /\ FaultIds(WithoutTarget(d, k)) \subseteq FaultIds(WithoutTarget(c, k))
    BY <1>1, <2>1, <2>2, <2>3, Zenon
  <2>5. Fails(p, WithoutTarget(c, k))
    BY <1>8, <2>4, FailsGrows
  <2>6. Removable(c, k)
    BY <1>1, <1>8, <2>1, Zenon DEF Removable
  <2> QED
    BY <1>8, <2>1, <2>5, <2>6 DEF TriedTargets
<1>9. TriedTargets(p, d, i)
  BY <1>8 DEF TriedTargets
<1> QED
  BY <1>5, <1>7, <1>9 DEF d

Reducing(m, st, p, o, c, n) ==
  /\ st \in {"making", "made", "faults", "targets", "reduced"}
  /\ st \in {"faults", "targets", "reduced"} => m = "fuzzer" /\ n \in Nat \ {0} /\ Kept(p, o, c)
  /\ st = "faults" => TriedFaults(p, c, n)
  /\ st \in {"targets", "reduced"} => TriedFaults(p, c, Len(c.faults) + 1)
  /\ st = "targets" => TriedTargets(p, c, n)
  /\ st = "reduced" => TriedTargets(p, c, Len(c.targets) + 1)

LEMMA ReducingIs ==
  /\ ReduceInv <=> Reducing(maker, stage, predicate, original, campaign, cursor)
  /\ ReduceInv' <=> Reducing(maker', stage', predicate', original', campaign', cursor')
BY Zenon DEF ReduceInv, Reducing, Kept, Fails, StillFails, TriedFaults, FaultsTried, TriedTargets,
             TargetsTried

(* One turn of a loop of reduce_campaign.                                    *)
LEMMA ReducerTurns ==
  ASSUME ReduceInv, ReduceStep
  PROVE  ReduceInv'
<1> DEFINE p == predicate
           o == original
           c == campaign
           n == cursor
<1>1. Reducing(maker, stage, p, o, c, n)
  BY ReducingIs
<1>2. maker' = maker /\ predicate' = p /\ original' = o
  BY DEF ReduceStep
<1>3. ASSUME NEW s, NEW k, NEW d, stage' = s, cursor' = k, campaign' = d,
             Reducing(maker, s, p, o, d, k)
      PROVE  ReduceInv'
  BY <1>2, <1>3, ReducingIs
<1>4. \A x : StillFails(x) <=> Fails(p, x)
  BY Zenon DEF StillFails, Fails
<1> HIDE DEF p, o, c, n
<1>5. CASE TryFault
  <2>1. /\ stage = "faults" /\ stage' = "faults" /\ n <= Len(c.faults)
    BY <1>5 DEF TryFault, c, n
  <2>2. maker = "fuzzer" /\ n \in Nat \ {0} /\ Kept(p, o, c) /\ TriedFaults(p, c, n)
    BY <1>1, <2>1 DEF Reducing
  <2>3. n \in DOMAIN c.faults
    <3>1. c.faults \in Seq(GeneratedFault)
      BY <2>2 DEF Kept, Reducible, ReducibleCampaign
    <3> QED
      BY <2>1, <2>2, <3>1
  <2>4. CASE Fails(p, WithoutFault(c, n))
    <3>1. campaign' = WithoutFault(c, n) /\ cursor' = n
      BY <1>4, <1>5, <2>4 DEF TryFault, Try, c, n
    <3>2. Kept(p, o, WithoutFault(c, n)) /\ TriedFaults(p, WithoutFault(c, n), n)
      BY <2>2, <2>3, <2>4, KeepFault
    <3>3. Reducing(maker, "faults", p, o, WithoutFault(c, n), n)
      BY <2>2, <3>2 DEF Reducing
    <3> QED
      BY <1>3, <2>1, <3>1, <3>3
  <2>5. CASE ~Fails(p, WithoutFault(c, n))
    <3>1. campaign' = c /\ cursor' = n + 1
      BY <1>4, <1>5, <2>5 DEF TryFault, Try, c, n
    <3>2. TriedFaults(p, c, n + 1)
      <4>1. c.faults \in Seq(GeneratedFault)
        BY <2>2 DEF Kept, Reducible, ReducibleCampaign
      <4>2. \A i \in DOMAIN c.faults : i < n + 1 => i < n \/ i = n
        BY <2>2, <4>1
      <4> QED
        BY <2>2, <2>5, <4>2, Zenon DEF TriedFaults
    <3>3. Reducing(maker, "faults", p, o, c, n + 1)
      BY <2>2, <3>2 DEF Reducing
    <3> QED
      BY <1>3, <2>1, <3>1, <3>3
  <2> QED
    BY <2>4, <2>5
<1>6. CASE TryTarget
  <2>1. /\ stage = "targets" /\ stage' = "targets" /\ n <= Len(c.targets)
    BY <1>6 DEF TryTarget, c, n
  <2>2. /\ maker = "fuzzer" /\ n \in Nat \ {0} /\ Kept(p, o, c)
        /\ TriedFaults(p, c, Len(c.faults) + 1) /\ TriedTargets(p, c, n)
    BY <1>1, <2>1 DEF Reducing
  <2>3. c.targets \in Seq(GeneratedTarget)
    BY <2>2 DEF Kept, Reducible, ReducibleCampaign
  <2>4. n \in DOMAIN c.targets
    BY <2>1, <2>2, <2>3
  <2>5. CASE Removable(c, n) /\ Fails(p, WithoutTarget(c, n))
    <3> DEFINE d == WithoutTarget(c, n)
    <3>1. campaign' = d /\ cursor' = n
      BY <1>4, <1>6, <2>5 DEF TryTarget, Try, c, n
    <3>2. Kept(p, o, d) /\ TriedFaults(p, d, Len(d.faults) + 1) /\ TriedTargets(p, d, n)
      BY <2>2, <2>4, <2>5, KeepTarget
    <3> HIDE DEF d
    <3>3. Reducing(maker, "targets", p, o, d, n)
      BY <2>2, <3>2 DEF Reducing
    <3> QED
      BY <1>3, <2>1, <3>1, <3>3
  <2>6. CASE ~(Removable(c, n) /\ Fails(p, WithoutTarget(c, n)))
    <3>1. campaign' = c /\ cursor' = n + 1
      BY <1>4, <1>6, <2>6 DEF TryTarget, Try, c, n
    <3>2. TriedTargets(p, c, n + 1)
      <4>1. \A i \in DOMAIN c.targets : i < n + 1 => i < n \/ i = n
        BY <2>2, <2>3
      <4> QED
        BY <2>2, <2>6, <4>1, Zenon DEF TriedTargets
    <3>3. Reducing(maker, "targets", p, o, c, n + 1)
      BY <2>2, <3>2 DEF Reducing
    <3> QED
      BY <1>3, <2>1, <3>1, <3>3
  <2> QED
    BY <2>5, <2>6
<1>7. CASE LoopEnds
  <2>1. /\ campaign' = c /\ cursor' = 1
        /\ \/ stage = "faults" /\ n > Len(c.faults) /\ stage' = "targets"
           \/ stage = "targets" /\ n > Len(c.targets) /\ stage' = "reduced"
    BY <1>7 DEF LoopEnds, c, n
  <2>2. maker = "fuzzer" /\ n \in Nat \ {0} /\ Kept(p, o, c)
    BY <1>1, <2>1 DEF Reducing
  <2>3. c.targets \in Seq(GeneratedTarget) /\ c.faults \in Seq(GeneratedFault)
    BY <2>2 DEF Kept, Reducible, ReducibleCampaign
  <2>4. CASE stage = "faults" /\ n > Len(c.faults) /\ stage' = "targets"
    <3>1. TriedFaults(p, c, n)
      BY <1>1, <2>4 DEF Reducing
    <3>2. \A i \in DOMAIN c.faults : i < n
      BY <2>2, <2>3, <2>4
    <3>3. TriedFaults(p, c, Len(c.faults) + 1)
      BY <3>1, <3>2, Zenon DEF TriedFaults
    <3>4. TriedTargets(p, c, 1)
      BY <2>3 DEF TriedTargets
    <3>5. Reducing(maker, "targets", p, o, c, 1)
      BY <2>2, <3>3, <3>4 DEF Reducing
    <3> QED
      BY <1>3, <2>1, <2>4, <3>5
  <2>5. CASE stage = "targets" /\ n > Len(c.targets) /\ stage' = "reduced"
    <3>1. TriedFaults(p, c, Len(c.faults) + 1) /\ TriedTargets(p, c, n)
      BY <1>1, <2>5 DEF Reducing
    <3>2. \A i \in DOMAIN c.targets : i < n
      BY <2>2, <2>3, <2>5
    <3>3. TriedTargets(p, c, Len(c.targets) + 1)
      BY <3>1, <3>2, Zenon DEF TriedTargets
    <3>4. Reducing(maker, "reduced", p, o, c, 1)
      BY <2>2, <3>1, <3>3 DEF Reducing
    <3> QED
      BY <1>3, <2>1, <2>5, <3>4
  <2> QED
    BY <2>1, <2>4, <2>5
<1> QED
  BY <1>5, <1>6, <1>7 DEF ReduceStep

FuzzInv == GeneratedInv /\ ReduceInv

(* Every step keeps the invariant: only the fuzzer and the reducer change    *)
(* what it speaks of.                                                        *)
LEMMA FuzzStep == FuzzInv /\ [Next]_vars => FuzzInv'
<1> SUFFICES ASSUME FuzzInv, [Next]_vars PROVE FuzzInv'
  OBVIOUS
<1>1. GeneratedInv /\ ReduceInv
  BY DEF FuzzInv
<1>2. Reducing(maker, stage, predicate, original, campaign, cursor)
  BY <1>1, ReducingIs
<1>3. ASSUME stage' \in {"making", "made"}, maker' = "fuzzer" /\ stage' = "made" => GeneratedInv'
      PROVE  FuzzInv'
  <2>1. Reducing(maker', stage', predicate', original', campaign', cursor')
    BY <1>3 DEF Reducing
  <2>2. GeneratedInv'
    BY <1>3 DEF GeneratedInv
  <2> QED
    BY <2>1, <2>2, ReducingIs DEF FuzzInv
<1>4. CASE UNCHANGED <<maker, campaign, stage, original, predicate, cursor>>
  <2>1. ReduceInv'
    BY <1>2, <1>4, ReducingIs
  <2>2. GeneratedInv'
    BY <1>1, <1>4, Zenon DEF GeneratedInv
  <2> QED
    BY <2>1, <2>2 DEF FuzzInv
<1>5. ASSUME NEW d, BuilderCall(d) PROVE FuzzInv'
  BY <1>3, <1>5 DEF BuilderCall
<1>6. ASSUME NEW name, MakeNamed(name) PROVE FuzzInv'
  <2>1. stage' = "made" /\ maker' = "named"
    BY <1>6, Zenon DEF MakeNamed
  <2> QED
    BY <1>3, <2>1
<1>7. ASSUME NEW s \in Seeds, Generate(s) PROVE FuzzInv'
  <2>1. PICK w \in 1 .. MaxWorkers, k \in 1 .. MaxFaults : campaign' = FuzzCampaign(s, w, k)
    BY <1>7, Zenon DEF Generate
  <2>2. stage' = "made"
    BY <1>7, Zenon DEF Generate
  <2>3. GeneratedInv'
    BY <2>1, Zenon DEF GeneratedInv, FuzzCampaign, FuzzTarget, FuzzCleanup
  <2> QED
    BY <1>3, <2>2, <2>3
<1>8. ASSUME NEW p, Reduce(p) PROVE FuzzInv'
  <2>1. /\ maker = "fuzzer" /\ stage = "made" /\ maker' = maker /\ stage' = "faults"
        /\ original' = campaign /\ campaign' = campaign /\ predicate' = p /\ cursor' = 1
    BY <1>8 DEF Reduce
  <2>2. Reducible(campaign)
    BY <1>1, <2>1, FuzzedIsReducible DEF GeneratedInv
  <2>3. Kept(p, campaign, campaign)
    BY <2>2 DEF Kept
  <2>4. TriedFaults(p, campaign, 1)
    <3>1. campaign.faults \in Seq(GeneratedFault)
      BY <2>2 DEF Reducible, ReducibleCampaign
    <3>2. \A i \in DOMAIN campaign.faults : ~(i < 1)
      BY <3>1
    <3> QED
      BY <3>2, Zenon DEF TriedFaults
  <2>5. Reducing(maker', stage', predicate', original', campaign', cursor')
    BY <2>1, <2>3, <2>4 DEF Reducing
  <2>6. GeneratedInv'
    BY <2>1 DEF GeneratedInv
  <2> QED
    BY <2>5, <2>6, ReducingIs DEF FuzzInv
<1>9. CASE ReduceStep
  <2>1. stage' # "made"
    BY <1>9 DEF ReduceStep, TryFault, TryTarget, LoopEnds
  <2>2. GeneratedInv'
    BY <2>1 DEF GeneratedInv
  <2> QED
    BY <1>1, <1>9, <2>2, ReducerTurns DEF FuzzInv
<1>10. ASSUME NEW to, Transition(to) PROVE FuzzInv'
  BY <1>4, <1>10 DEF Transition, reduceVars
<1>11. CASE BuildNext
  BY <1>5, <1>6, <1>7, <1>8, <1>9, <1>10, <1>11, Zenon
     DEF BuildNext, Seed, Envelope, Target, Schedule, Build
<1>12. CASE UNCHANGED buildVars
  BY <1>4, <1>12 DEF buildVars, reduceVars
<1> QED
  BY <1>11, <1>12 DEF Next, vars

(* When the last trial is done, the faults left are exactly what one failure *)
(* depends on.                                                               *)
LEMMA LeftIsACore ==
  ASSUME NEW p, NEW c, Reducible(c), Fails(p, c), TriedFaults(p, c, Len(c.faults) + 1)
  PROVE  FaultIds(c) \in p.cores
<1>1. PICK s \in p.cores : s \subseteq FaultIds(c) /\ p.needs \subseteq TargetIds(c)
  BY Zenon DEF Fails
<1>2. ASSUME NEW f \in FaultIds(c), f \notin s PROVE FALSE
  <2>1. PICK i \in DOMAIN c.faults : f = c.faults[i].id
    BY Zenon DEF FaultIds
  <2>2. /\ TargetIds(WithoutFault(c, i)) = TargetIds(c)
        /\ FaultIds(WithoutFault(c, i)) = FaultIds(c) \ {c.faults[i].id}
    BY WithoutFaultIs
  <2>3. s \subseteq FaultIds(WithoutFault(c, i))
    BY <1>1, <1>2, <2>1, <2>2, Zenon
  <2>4. Fails(p, WithoutFault(c, i))
    BY <1>1, <2>2, <2>3, Zenon DEF Fails
  <2>5. i < Len(c.faults) + 1
    <3>1. c.faults \in Seq(GeneratedFault)
      BY DEF Reducible, ReducibleCampaign
    <3> QED
      BY <3>1
  <2> QED
    BY <2>4, <2>5 DEF TriedFaults
<1>3. s = FaultIds(c)
  BY <1>1, <1>2
<1> QED
  BY <1>3

(* With the predicate of the command line, one.                              *)
LEMMA CliLeavesOne ==
  ASSUME NEW c, Reducible(c), NEW f, FaultIds(c) = {f}
  PROVE  Len(c.faults) = 1
<1> DEFINE fs == c.faults
<1>1. fs \in Seq(GeneratedFault) /\ Ascending(fs)
  BY DEF Reducible, ReducibleCampaign
<1>2. \A r \in GeneratedFault : r.id \in Nat
  BY DEF GeneratedFault
<1>3. Ids(fs) = {f}
  BY DEF Ids, FaultIds
<1> HIDE DEF fs
<1>4. DOMAIN fs = 1 .. Len(fs) /\ Len(fs) \in Nat /\ \A i \in DOMAIN fs : fs[i].id \in Nat
  BY <1>1, <1>2
<1>5. PICK i \in DOMAIN fs : fs[i].id = f
  BY <1>3 DEF Ids
<1>6. ASSUME Len(fs) > 1 PROVE FALSE
  <2>1. 1 \in DOMAIN fs /\ 2 \in DOMAIN fs
    BY <1>4, <1>6
  <2>2. fs[1].id = f /\ fs[2].id = f
    BY <1>3, <2>1, Zenon DEF Ids
  <2>3. fs[1].id < fs[2].id
    BY <1>1, <2>1 DEF Ascending
  <2> QED
    BY <1>4, <2>1, <2>2, <2>3
<1>7. Len(fs) >= 1
  BY <1>4, <1>5
<1>8. Len(fs) = 1
  BY <1>4, <1>6, <1>7
<1> QED
  BY <1>8 DEF fs

LEMMA FuzzInvIsEnough == FuzzInv => ReductionIsSound /\ GeneratedIsRunnable
<1> SUFFICES ASSUME FuzzInv PROVE ReductionIsSound /\ GeneratedIsRunnable
  OBVIOUS
<1> DEFINE p == predicate
           o == original
           c == campaign
<1>1. Reducing(maker, stage, p, o, c, cursor) /\ GeneratedInv
  BY ReducingIs DEF FuzzInv
<1>2. GeneratedIsRunnable
  BY <1>1, FuzzedIsRunnable, Zenon DEF GeneratedIsRunnable, GeneratedInv
<1>3. ASSUME stage \in {"faults", "targets", "reduced"} PROVE ReductionPreserves
  <2>1. Kept(p, o, c)
    BY <1>1, <1>3 DEF Reducing
  <2>2. StillFails(c) <=> StillFails(o)
    <3>1. Fails(p, c) => Fails(p, o)
      BY <2>1, FailsGrows DEF Kept
    <3>2. Fails(p, o) => Fails(p, c)
      BY <2>1 DEF Kept
    <3> QED
      BY <3>1, <3>2, Zenon DEF Fails, StillFails
  <2>3. c.precondition \in TargetIds(c)
    BY <2>1, Zenon DEF Kept, Reducible, TargetIds
  <2>4. \A i \in 1 .. Len(c.faults) - 1 : c.faults[i].id < c.faults[i + 1].id
    <3> DEFINE fs == c.faults
    <3>1. fs \in Seq(GeneratedFault) /\ Ascending(fs)
      BY <2>1 DEF Kept, Reducible, ReducibleCampaign
    <3> HIDE DEF fs
    <3>2. \A i \in 1 .. Len(fs) - 1 : fs[i].id < fs[i + 1].id
      BY <3>1 DEF Ascending
    <3> QED
      BY <3>2 DEF fs
  <2>5. Validate(o) => Validate(c)
    BY <2>1 DEF Kept
  <2> QED
    BY <2>2, <2>3, <2>4, <2>5 DEF ReductionPreserves
<1>4. ASSUME stage = "reduced", StillFails(original) PROVE ReductionIsMinimal
  <2>1. /\ Kept(p, o, c) /\ TriedFaults(p, c, Len(c.faults) + 1)
        /\ TriedTargets(p, c, Len(c.targets) + 1)
    BY <1>1, <1>4 DEF Reducing
  <2>2. Fails(p, c) /\ Reducible(c)
    BY <1>4, <2>1, Zenon DEF Kept, Fails, StillFails
  <2>3. c.targets \in Seq(GeneratedTarget) /\ c.faults \in Seq(GeneratedFault)
    BY <2>2 DEF Reducible, ReducibleCampaign
  <2>4. /\ \A i \in DOMAIN c.faults : i < Len(c.faults) + 1
        /\ \A i \in DOMAIN c.targets : i < Len(c.targets) + 1
    BY <2>3
  <2>5. \A i \in DOMAIN c.faults : ~StillFails(WithoutFault(c, i))
    BY <2>1, <2>4, Zenon DEF TriedFaults, Fails, StillFails
  <2>6. \A i \in DOMAIN c.targets : Removable(c, i) => ~StillFails(WithoutTarget(c, i))
    BY <2>1, <2>4, Zenon DEF TriedTargets, Fails, StillFails
  <2>7. FaultIds(c) \in p.cores
    BY <2>1, <2>2, LeftIsACore
  <2>8. ASSUME p = CliPredicate(o) PROVE Len(c.faults) = 1
    <3>1. p.cores = {{f} : f \in FaultIds(o)}
      BY <2>8 DEF CliPredicate
    <3>2. PICK f \in FaultIds(o) : FaultIds(c) = {f}
      BY <2>7, <3>1
    <3> QED
      BY <2>2, <3>2, CliLeavesOne
  <2> QED
    BY <2>5, <2>6, <2>7, <2>8 DEF ReductionIsMinimal
<1>5. ReductionPreserves
  BY <1>3 DEF ReductionPreserves
<1>6. ReductionIsMinimal
  BY <1>4 DEF ReductionIsMinimal
<1> QED
  BY <1>2, <1>5, <1>6 DEF ReductionIsSound

LEMMA FuzzInit == Init => FuzzInv
<1> SUFFICES ASSUME Init PROVE FuzzInv
  OBVIOUS
<1>1. stage = "making"
  BY DEF Init, BuildInit
<1>2. Reducing(maker, stage, predicate, original, campaign, cursor)
  BY <1>1 DEF Reducing
<1> QED
  BY <1>1, <1>2, ReducingIs DEF FuzzInv, GeneratedInv

(* reduce_campaign, for every number of workers and faults the fuzzer may    *)
(* draw and whatever the failure depends on: at each turn of its loops the   *)
(* failure is kept, and after one pass over faults and targets nothing that  *)
(* could go is left.                                                         *)
THEOREM ReductionSoundAlways == Spec => []ReductionIsSound
BY FuzzInit, FuzzStep, FuzzInvIsEnough, PTL DEF Spec

(* generate(): each owned process is cleaned up and fits the envelope, and   *)
(* validate() accepts the campaign exactly when it has a worker for each of  *)
(* the first three faults.                                                   *)
THEOREM GeneratedRunnableAlways == Spec => []GeneratedIsRunnable
BY FuzzInit, FuzzStep, FuzzInvIsEnough, PTL DEF Spec

-----------------------------------------------------------------------------
(* The scenario builder.                                                     *)

(* Its invariant, said of any draft, last scenario and ids of earlier ones.  *)
Building(d, c, e) ==
  /\ d \in BuilderDraft /\ c \in BuiltScenario
  /\ \A t \in e \cup TargetIds(c) \cup TargetIds(d) : t \in Nat /\ t < d.target
  /\ Distinct(d) /\ Distinct(c)
  /\ TargetIds(c) \cap e = {}
  /\ TargetIds(d) \cap (e \cup TargetIds(c)) = {}
  /\ FaultsMatchSteps(d) /\ FaultsMatchSteps(c)

LEMMA BuildingIs ==
  /\ BuilderInv <=> (maker = "builder" => Building(draft, campaign, earlier))
  /\ BuilderInv' <=> (maker' = "builder" => Building(draft', campaign', earlier'))
BY Zenon DEF BuilderInv, Building

Match(steps, faults) ==
  \A t \in PassedIds \cup {0} :
    (\E i \in DOMAIN steps : steps[i].op \in DestructiveOps /\ steps[i].target = t)
    <=> (\E i \in DOMAIN faults : faults[i].target = t)

LEMMA MatchIs == \A c : FaultsMatchSteps(c) <=> Match(c.steps, c.faults)
BY Zenon DEF FaultsMatchSteps, Match

(* A call that declares no target.                                           *)
LEMMA SameTargets ==
  ASSUME NEW d, NEW c, NEW e, Building(d, c, e), NEW x \in BuilderDraft,
         x.targets = d.targets, x.target = d.target, Match(x.steps, x.faults)
  PROVE  Building(x, c, e)
<1>1. TargetIds(x) = TargetIds(d)
  BY DEF TargetIds
<1>2. Distinct(x) <=> Distinct(d)
  BY Zenon DEF Distinct
<1>3. FaultsMatchSteps(x)
  BY MatchIs
<1> QED
  BY <1>1, <1>2, <1>3, Zenon DEF Building

(* A declared target takes the next id, which nothing has yet.               *)
LEMMA DeclareTarget ==
  ASSUME NEW d, NEW c, NEW e, Building(d, c, e), NEW kind \in Kinds, NEW exe \in BOOLEAN
  PROVE  Building(WithTarget(d, kind, exe), c, e)
<1> DEFINE r == [id |-> d.target, kind |-> kind, executable |-> exe, owns |-> kind \in OwningKinds]
           ts == d.targets
           us == Append(ts, r)
           x == WithTarget(d, kind, exe)
<1>1. d \in BuilderDraft /\ d.target \in Nat /\ ts \in Seq(DeclaredTarget)
  BY DEF Building, BuilderDraft
<1>2. r \in DeclaredTarget /\ r.id = d.target
  <2>1. (kind \in OwningKinds) \in BOOLEAN
    OBVIOUS
  <2> QED
    BY <1>1, <2>1 DEF DeclaredTarget
<1>3. x = [d EXCEPT !.targets = us, !.target = d.target + 1]
  BY <1>1 DEF WithTarget, BuilderDraft
<1> HIDE DEF r, ts
<1>4. /\ us \in Seq(DeclaredTarget) /\ Len(ts) \in Nat /\ us[Len(ts) + 1] = r
      /\ DOMAIN ts = 1 .. Len(ts) /\ DOMAIN us = 1 .. Len(ts) + 1
      /\ \A i \in 1 .. Len(ts) : us[i] = ts[i]
  BY <1>1, <1>2, Appended
<1> HIDE DEF us, x
<1>5. x \in BuilderDraft
  <2> DEFINE n == d.target + 1
  <2>1. n \in Nat /\ x = [d EXCEPT !.targets = us, !.target = n]
    BY <1>1, <1>3
  <2> HIDE DEF n
  <2> QED
    BY <1>1, <1>4, <2>1 DEF BuilderDraft
<1>6. /\ x.targets = us /\ x.target = d.target + 1 /\ x.faults = d.faults /\ x.steps = d.steps
  BY <1>1, <1>3 DEF BuilderDraft
<1>7. TargetIds(x) = TargetIds(d) \cup {d.target}
  <2>1. TargetIds(x) = Ids(us) /\ TargetIds(d) = Ids(ts)
    BY <1>6 DEF TargetIds, Ids, ts
  <2>2. \A i \in DOMAIN us : i \in DOMAIN ts \/ i = Len(ts) + 1
    BY <1>4
  <2>3. Len(ts) + 1 \in DOMAIN us /\ \A i \in DOMAIN ts : i \in DOMAIN us
    BY <1>4
  <2>4. ASSUME NEW t \in Ids(us) PROVE t \in Ids(ts) \/ t = d.target
    <3>1. PICK i \in DOMAIN us : t = us[i].id
      BY DEF Ids
    <3>2. CASE i \in DOMAIN ts
      BY <1>4, <3>1, <3>2 DEF Ids
    <3>3. CASE i = Len(ts) + 1
      BY <1>2, <1>4, <3>1, <3>3
    <3> QED
      BY <2>2, <3>2, <3>3
  <2>5. ASSUME NEW t \in Ids(ts) PROVE t \in Ids(us)
    <3>1. PICK i \in DOMAIN ts : t = ts[i].id
      BY DEF Ids
    <3>2. i \in DOMAIN us /\ us[i].id = t
      BY <1>4, <2>3, <3>1
    <3> QED
      BY <3>2 DEF Ids
  <2>6. d.target \in Ids(us)
    BY <1>2, <1>4, <2>3 DEF Ids
  <2> QED
    BY <2>1, <2>4, <2>5, <2>6
<1>8. \A t \in e \cup TargetIds(c) \cup TargetIds(d) : t \in Nat /\ t < d.target
  BY DEF Building
<1>9. \A t \in e \cup TargetIds(c) \cup TargetIds(x) : t \in Nat /\ t < x.target
  BY <1>1, <1>6, <1>7, <1>8
<1>10. d.target \notin e \cup TargetIds(c) \cup TargetIds(d)
  BY <1>1, <1>8
<1>11. Distinct(x)
  <2>1. \A i \in DOMAIN ts : ts[i].id \in TargetIds(d)
    BY Zenon DEF TargetIds, ts
  <2>2. \A i, j \in DOMAIN ts : i # j => ts[i].id # ts[j].id
    BY DEF Building, Distinct, ts
  <2>3. \A i \in DOMAIN us : (i \in DOMAIN ts /\ us[i].id = ts[i].id)
                             \/ (i = Len(ts) + 1 /\ us[i].id = d.target)
    BY <1>2, <1>4
  <2>4. \A i, j \in DOMAIN us : i # j => us[i].id # us[j].id
    BY <1>10, <2>1, <2>2, <2>3, Zenon
  <2> QED
    BY <1>6, <2>4, Zenon DEF Distinct
<1>12. FaultsMatchSteps(x)
  BY <1>6, MatchIs DEF Building
<1>13. TargetIds(x) \cap (e \cup TargetIds(c)) = {}
  BY <1>7, <1>10 DEF Building
<1> QED
  BY <1>5, <1>9, <1>11, <1>12, <1>13, Zenon DEF Building, x

(* A destructive step comes with its fault, another one without.             *)
LEMMA MatchGrows ==
  ASSUME NEW steps \in Seq(PlannedStep), NEW faults \in Seq(PlannedFault), Match(steps, faults),
         NEW step \in PlannedStep, NEW fault \in PlannedFault, fault.target = step.target
  PROVE  /\ step.op \in DestructiveOps => Match(Append(steps, step), Append(faults, fault))
         /\ step.op \notin DestructiveOps => Match(Append(steps, step), faults)
<1> DEFINE ss == Append(steps, step)
           fs == Append(faults, fault)
<1>1. /\ Len(steps) \in Nat /\ ss[Len(steps) + 1] = step
      /\ DOMAIN steps = 1 .. Len(steps) /\ DOMAIN ss = 1 .. Len(steps) + 1
      /\ \A i \in 1 .. Len(steps) : ss[i] = steps[i]
  BY Appended
<1>2. /\ Len(faults) \in Nat /\ fs[Len(faults) + 1] = fault
      /\ DOMAIN faults = 1 .. Len(faults) /\ DOMAIN fs = 1 .. Len(faults) + 1
      /\ \A i \in 1 .. Len(faults) : fs[i] = faults[i]
  BY Appended
<1> HIDE DEF ss, fs
<1> DEFINE hit(q, t) == \E i \in DOMAIN q : q[i].op \in DestructiveOps /\ q[i].target = t
           aim(q, t) == \E i \in DOMAIN q : q[i].target = t
<1>3. \A t : hit(ss, t) <=> hit(steps, t) \/ (step.op \in DestructiveOps /\ step.target = t)
  <2>1. /\ Len(steps) + 1 \in DOMAIN ss /\ \A i \in DOMAIN steps : i \in DOMAIN ss /\ ss[i] = steps[i]
        /\ \A i \in DOMAIN ss : (i \in DOMAIN steps /\ ss[i] = steps[i]) \/ ss[i] = step
    BY <1>1
  <2> QED
    BY <1>1, <2>1, Zenon
<1>4. \A t : aim(fs, t) <=> aim(faults, t) \/ fault.target = t
  <2>1. /\ Len(faults) + 1 \in DOMAIN fs /\ \A i \in DOMAIN faults : i \in DOMAIN fs /\ fs[i] = faults[i]
        /\ \A i \in DOMAIN fs : (i \in DOMAIN faults /\ fs[i] = faults[i]) \/ fs[i] = fault
    BY <1>2
  <2> QED
    BY <1>2, <2>1, Zenon
<1>5. \A q, r : Match(q, r) <=> \A t \in PassedIds \cup {0} : hit(q, t) <=> aim(r, t)
  BY Zenon DEF Match
<1> HIDE DEF hit, aim
<1> QED
  BY <1>3, <1>4, <1>5, Zenon DEF ss, fs

LEMMA AddStepIs ==
  ASSUME NEW d \in BuilderDraft, NEW op \in Ops, NEW t \in PassedIds \cup {0}
  PROVE  LET x == AddStep(d, op, t)
         IN /\ x \in BuilderDraft /\ x.steps = Append(d.steps, [op |-> op, target |-> t])
            /\ x.targets = d.targets /\ x.target = d.target /\ x.faults = d.faults /\ x.fault = d.fault
<1> DEFINE r == [op |-> op, target |-> t]
           ss == Append(d.steps, r)
           x == AddStep(d, op, t)
<1>1. r \in PlannedStep
  BY DEF PlannedStep
<1>2. d.steps \in Seq(PlannedStep)
  BY DEF BuilderDraft
<1>3. x = [d EXCEPT !.steps = ss]
  BY DEF AddStep, BuilderDraft
<1> HIDE DEF r
<1>4. ss \in Seq(PlannedStep)
  BY <1>1, <1>2, Appended
<1> HIDE DEF ss, x
<1>5. x \in BuilderDraft
  BY <1>3, <1>4 DEF BuilderDraft
<1>6. x.steps = ss /\ x.targets = d.targets /\ x.target = d.target /\ x.faults = d.faults
      /\ x.fault = d.fault
  BY <1>3 DEF BuilderDraft
<1> QED
  BY <1>5, <1>6 DEF x, ss, r

LEMMA AddFaultIs ==
  ASSUME NEW d \in BuilderDraft, NEW t \in PassedIds \cup {0}
  PROVE  LET x == AddFault(d, t)
         IN /\ x \in BuilderDraft /\ x.faults = Append(d.faults, [id |-> d.fault, target |-> t])
            /\ x.targets = d.targets /\ x.target = d.target /\ x.steps = d.steps
            /\ d.fault \in Nat
<1> DEFINE r == [id |-> d.fault, target |-> t]
           fs == Append(d.faults, r)
           n == d.fault + 1
           x == AddFault(d, t)
<1>1. r \in PlannedFault /\ d.fault \in Nat /\ n \in Nat
  BY DEF PlannedFault, BuilderDraft
<1>2. d.faults \in Seq(PlannedFault)
  BY DEF BuilderDraft
<1>3. x = [d EXCEPT !.faults = fs, !.fault = n]
  BY DEF AddFault, BuilderDraft
<1> HIDE DEF r
<1>4. fs \in Seq(PlannedFault)
  BY <1>1, <1>2, Appended
<1> HIDE DEF fs, x, n
<1>5. x \in BuilderDraft
  BY <1>1, <1>3, <1>4 DEF BuilderDraft
<1>6. x.faults = fs
  BY <1>3 DEF BuilderDraft
<1>7. x.targets = d.targets /\ x.target = d.target /\ x.steps = d.steps
  BY <1>3 DEF BuilderDraft
<1> QED
  BY <1>1, <1>5, <1>6, <1>7 DEF x, fs, r

LEMMA AddAssertionIs ==
  ASSUME NEW d \in BuilderDraft, NEW op \in Ops, NEW t \in PassedIds \cup {0}
  PROVE  LET x == AddAssertion(d, op, t)
         IN /\ x \in BuilderDraft /\ x.faults = d.faults
            /\ x.targets = d.targets /\ x.target = d.target /\ x.steps = d.steps
<1> DEFINE r == [id |-> d.assertion, kind |-> op, target |-> t]
           as == Append(d.assertions, r)
           n == d.assertion + 1
           x == AddAssertion(d, op, t)
<1>1. r \in PlannedAssertion /\ n \in Nat
  BY DEF PlannedAssertion, BuilderDraft
<1>2. d.assertions \in Seq(PlannedAssertion)
  BY DEF BuilderDraft
<1>3. x = [d EXCEPT !.assertions = as, !.assertion = n]
  BY DEF AddAssertion, BuilderDraft
<1> HIDE DEF r
<1>4. as \in Seq(PlannedAssertion)
  BY <1>1, <1>2, Appended
<1> HIDE DEF as, x, n
<1>5. x \in BuilderDraft
  BY <1>1, <1>3, <1>4 DEF BuilderDraft
<1>6. x.faults = d.faults /\ x.targets = d.targets /\ x.target = d.target /\ x.steps = d.steps
  BY <1>3 DEF BuilderDraft
<1> QED
  BY <1>5, <1>6 DEF x

(* A schedule or assertion call.                                             *)
LEMMA CallKeeps ==
  ASSUME NEW d, NEW c, NEW e, Building(d, c, e), NEW op \in Ops, NEW t \in PassedIds \cup {0}
  PROVE  Building(Call(d, op, t), c, e)
<1> DEFINE s == IF op \in AssertionOps THEN d ELSE AddStep(d, op, t)
           f == IF op \in DestructiveOps THEN AddFault(s, t) ELSE s
           x == IF op \in AssertionOps \cup CheckedOps THEN AddAssertion(f, op, t) ELSE f
<1>1. Call(d, op, t) = x
  BY DEF Call
<1>2. d \in BuilderDraft /\ Match(d.steps, d.faults)
  BY MatchIs DEF Building
<1>3. d.steps \in Seq(PlannedStep) /\ d.faults \in Seq(PlannedFault)
  BY <1>2 DEF BuilderDraft
<1>4. f \in BuilderDraft /\ f.targets = d.targets /\ f.target = d.target /\ Match(f.steps, f.faults)
  <2>1. CASE op \in AssertionOps
    <3>1. op \notin DestructiveOps
      BY <2>1 DEF AssertionOps, GlobalAssertions, DestructiveOps
    <3>2. f = d
      BY <2>1, <3>1
    <3> QED
      BY <1>2, <3>2
  <2>2. CASE op \notin AssertionOps
    <3> DEFINE step == [op |-> op, target |-> t]
               y == AddStep(d, op, t)
    <3>1. /\ y \in BuilderDraft /\ y.steps = Append(d.steps, step)
          /\ y.targets = d.targets /\ y.target = d.target /\ y.faults = d.faults
      BY <1>2, AddStepIs
    <3>2. step \in PlannedStep /\ step.op = op /\ step.target = t
      BY DEF PlannedStep
    <3>3. \A n \in Nat : [id |-> n, target |-> t] \in PlannedFault /\ [id |-> n, target |-> t].target = t
      BY DEF PlannedFault
    <3> HIDE DEF step, y
    <3>4. CASE op \in DestructiveOps
      <4> DEFINE fault == [id |-> y.fault, target |-> t]
      <4>1. f = AddFault(y, t)
        BY <2>2, <3>4 DEF y
      <4> HIDE DEF f
      <4>2. /\ f \in BuilderDraft /\ f.faults = Append(y.faults, fault)
            /\ f.targets = y.targets /\ f.target = y.target /\ f.steps = y.steps /\ y.fault \in Nat
        BY <3>1, <4>1, AddFaultIs
      <4>3. fault \in PlannedFault /\ fault.target = t
        BY <3>3, <4>2
      <4> HIDE DEF fault
      <4>4. Match(Append(d.steps, step), Append(d.faults, fault))
        BY <1>2, <1>3, <3>2, <3>4, <4>3, MatchGrows
      <4> QED
        BY <3>1, <4>2, <4>4
    <3>5. CASE op \notin DestructiveOps
      <4> DEFINE fault == [id |-> 0, target |-> t]
      <4>1. f = y
        BY <2>2, <3>5 DEF y
      <4>2. fault \in PlannedFault /\ fault.target = t
        BY <3>3
      <4> HIDE DEF fault, f
      <4>3. Match(Append(d.steps, step), d.faults)
        BY <1>2, <1>3, <3>2, <3>5, <4>2, MatchGrows
      <4> QED
        BY <3>1, <4>1, <4>3
    <3> QED
      BY <3>4, <3>5
  <2> QED
    BY <2>1, <2>2
<1> HIDE DEF f
<1>5. x \in BuilderDraft /\ x.targets = d.targets /\ x.target = d.target /\ Match(x.steps, x.faults)
  BY <1>4, AddAssertionIs
<1> HIDE DEF x
<1> QED
  BY <1>1, <1>5, SameTargets

(* build(): the draft becomes the scenario, and the builder goes on with its *)
(* counters where they were.                                                 *)
LEMMA BuildKeeps ==
  ASSUME NEW d, NEW c, NEW e, Building(d, c, e)
  PROVE  Building(MovedFrom(d), Scenario(d), e \cup TargetIds(c))
<1> DEFINE x == MovedFrom(d)
           y == Scenario(d)
<1>1. d \in BuilderDraft
  BY DEF Building
<1>2. x \in BuilderDraft
  <2> DEFINE none == <<>>
  <2>1. /\ none \in Seq(DeclaredTarget) /\ none \in Seq(PlannedFault)
        /\ none \in Seq(PlannedAssertion) /\ none \in Seq(PlannedStep)
    OBVIOUS
  <2>2. x = [d EXCEPT !.targets = none, !.faults = none, !.assertions = none, !.steps = none]
    BY DEF MovedFrom
  <2> HIDE DEF none, x
  <2> QED
    BY <1>1, <2>1, <2>2 DEF BuilderDraft
<1>3. x.targets = <<>> /\ x.target = d.target
  BY <1>1 DEF MovedFrom, BuilderDraft
<1>4. x.steps = <<>> /\ x.faults = <<>>
  BY <1>1 DEF MovedFrom, BuilderDraft
<1>5. y \in BuiltScenario
  BY <1>1 DEF Scenario, BuilderDraft, BuiltScenario
<1>6. y.targets = d.targets /\ y.steps = d.steps /\ y.faults = d.faults
  BY DEF Scenario
<1> HIDE DEF x, y
<1>7. TargetIds(x) = {} /\ TargetIds(y) = TargetIds(d)
  BY <1>3, <1>6 DEF TargetIds
<1>8. Distinct(x) /\ (Distinct(y) <=> Distinct(d))
  BY <1>3, <1>6 DEF Distinct
<1>9. Match(x.steps, x.faults)
  BY <1>4 DEF Match
<1>10. FaultsMatchSteps(x) /\ FaultsMatchSteps(y)
  BY <1>6, <1>9, MatchIs DEF Building
<1>11. /\ \A t \in e \cup TargetIds(c) \cup TargetIds(d) : t \in Nat /\ t < d.target
       /\ TargetIds(d) \cap (e \cup TargetIds(c)) = {} /\ Distinct(d)
  BY DEF Building
<1>12. \A t \in (e \cup TargetIds(c)) \cup TargetIds(y) \cup TargetIds(x) : t \in Nat /\ t < x.target
  BY <1>3, <1>7, <1>11
<1>13. /\ TargetIds(y) \cap (e \cup TargetIds(c)) = {}
       /\ TargetIds(x) \cap ((e \cup TargetIds(c)) \cup TargetIds(y)) = {}
  BY <1>7, <1>11
<1> QED
  BY <1>2, <1>5, <1>8, <1>10, <1>11, <1>12, <1>13, Zenon DEF Building, x, y

ScenarioInv == BuilderInv /\ FuzzInv

LEMMA BuilderStep == ScenarioInv /\ [Next]_vars => ScenarioInv'
<1> SUFFICES ASSUME ScenarioInv, [Next]_vars PROVE BuilderInv'
  BY FuzzStep DEF ScenarioInv
<1>1. BuilderInv /\ FuzzInv
  BY DEF ScenarioInv
<1>2. maker = "builder" => Building(draft, campaign, earlier)
  BY <1>1, BuildingIs
<1>3. CASE UNCHANGED <<maker, draft, campaign, earlier>>
  BY <1>2, <1>3, BuildingIs
<1>4. ASSUME maker' # "builder" PROVE BuilderInv'
  BY <1>4, BuildingIs
<1>5. ASSUME NEW d, BuilderCall(d), UNCHANGED <<earlier, campaign>>, Building(d, campaign, earlier)
      PROVE  BuilderInv'
  BY <1>5, BuildingIs DEF BuilderCall
<1>6. ASSUME NEW d, BuilderCall(d)
      PROVE  maker = "builder" /\ Building(draft, campaign, earlier)
  BY <1>2, <1>6 DEF BuilderCall
<1>7. ASSUME NEW s \in Seeds, Seed(s) PROVE BuilderInv'
  <2> DEFINE x == [draft EXCEPT !.seed = s]
  <2>1. BuilderCall(x) /\ UNCHANGED <<earlier, campaign>>
    BY <1>7 DEF Seed
  <2>2. Building(draft, campaign, earlier)
    BY <1>6, <2>1
  <2>3. draft \in BuilderDraft /\ Match(draft.steps, draft.faults)
    BY <2>2, MatchIs DEF Building
  <2>4. /\ x \in BuilderDraft /\ x.targets = draft.targets /\ x.target = draft.target
        /\ x.steps = draft.steps /\ x.faults = draft.faults
    BY <2>3 DEF BuilderDraft
  <2> HIDE DEF x
  <2>5. Building(x, campaign, earlier)
    BY <2>2, <2>3, <2>4, SameTargets
  <2> QED
    BY <1>5, <2>1, <2>5
<1>8. ASSUME NEW n \in {0, 1}, Envelope(n) PROVE BuilderInv'
  <2> DEFINE x == [draft EXCEPT !.children = n]
  <2>1. BuilderCall(x) /\ UNCHANGED <<earlier, campaign>>
    BY <1>8 DEF Envelope
  <2>2. Building(draft, campaign, earlier)
    BY <1>6, <2>1
  <2>3. draft \in BuilderDraft /\ Match(draft.steps, draft.faults)
    BY <2>2, MatchIs DEF Building
  <2>4. /\ x \in BuilderDraft /\ x.targets = draft.targets /\ x.target = draft.target
        /\ x.steps = draft.steps /\ x.faults = draft.faults
    BY <2>3 DEF BuilderDraft
  <2> HIDE DEF x
  <2>5. Building(x, campaign, earlier)
    BY <2>2, <2>3, <2>4, SameTargets
  <2> QED
    BY <1>5, <2>1, <2>5
<1>9. ASSUME NEW kind \in Kinds, NEW exe \in BOOLEAN, Target(kind, exe) PROVE BuilderInv'
  <2>1. BuilderCall(WithTarget(draft, kind, exe)) /\ UNCHANGED <<earlier, campaign>>
    BY <1>9, Zenon DEF Target
  <2>2. Building(WithTarget(draft, kind, exe), campaign, earlier)
    BY <1>6, <2>1, DeclareTarget
  <2> QED
    BY <1>5, <2>1, <2>2
<1>10. ASSUME NEW op \in Ops, NEW t \in PassedIds, Schedule(op, t) PROVE BuilderInv'
  <2> DEFINE u == IF op \in GlobalAssertions THEN 0 ELSE t
  <2>1. BuilderCall(Call(draft, op, u)) /\ UNCHANGED <<earlier, campaign>> /\ u \in PassedIds \cup {0}
    BY <1>10, Zenon DEF Schedule
  <2> HIDE DEF u
  <2>2. Building(Call(draft, op, u), campaign, earlier)
    BY <1>6, <2>1, CallKeeps
  <2> QED
    BY <1>5, <2>1, <2>2
<1>11. CASE Build
  <2>1. /\ BuilderCall(MovedFrom(draft)) /\ draft' = MovedFrom(draft)
        /\ campaign' = Scenario(draft) /\ earlier' = earlier \cup TargetIds(campaign)
    BY <1>11, Zenon DEF Build, BuilderCall
  <2>2. Building(draft', campaign', earlier')
    BY <1>6, <2>1, BuildKeeps
  <2> QED
    BY <2>2, BuildingIs
<1>12. ASSUME NEW name, MakeNamed(name) PROVE BuilderInv'
  <2>1. maker' = "named"
    BY <1>12, Zenon DEF MakeNamed
  <2> QED
    BY <1>4, <2>1
<1>13. ASSUME NEW s, Generate(s) PROVE BuilderInv'
  <2>1. maker' = "fuzzer"
    BY <1>13, Zenon DEF Generate
  <2> QED
    BY <1>4, <2>1
<1>14. ASSUME NEW p, Reduce(p) PROVE BuilderInv'
  <2>1. maker' = "fuzzer"
    BY <1>14, Zenon DEF Reduce
  <2> QED
    BY <1>4, <2>1
<1>15. CASE ReduceStep
  <2>1. stage \in {"faults", "targets"}
    BY <1>15 DEF ReduceStep, TryFault, TryTarget, LoopEnds
  <2>2. maker' = maker
    BY <1>15 DEF ReduceStep
  <2>3. maker = "fuzzer"
    BY <1>1, <2>1 DEF FuzzInv, ReduceInv
  <2> QED
    BY <1>4, <2>2, <2>3
<1>16. ASSUME NEW to, Transition(to) PROVE BuilderInv'
  BY <1>3, <1>16, Zenon DEF Transition
<1>17. CASE BuildNext
  BY <1>7, <1>8, <1>9, <1>10, <1>11, <1>12, <1>13, <1>14, <1>15, <1>16, <1>17, Zenon DEF BuildNext
<1>18. CASE UNCHANGED buildVars
  BY <1>3, <1>18 DEF buildVars
<1> QED
  BY <1>17, <1>18 DEF Next, vars

LEMMA BuilderInvIsEnough == BuilderInv => StaleHandlesAreCaught
<1> DEFINE c == campaign
           destroyed == {c.steps[i].target :
                           i \in {j \in DOMAIN c.steps : c.steps[j].op \in DestructiveOps}}
<1> SUFFICES ASSUME BuilderInv, maker = "builder", c.seed # 0, c.children >= 1,
                    \A i \in DOMAIN c.targets : c.targets[i].kind = "PROCESS" => c.targets[i].executable
             PROVE  Validate(c) <=> destroyed \subseteq TargetIds(c) \ earlier
  BY Zenon DEF StaleHandlesAreCaught
<1>1. Building(draft, c, earlier)
  BY BuildingIs
<1>2. /\ c \in BuiltScenario /\ Distinct(c) /\ TargetIds(c) \cap earlier = {}
      /\ Match(c.steps, c.faults)
  BY <1>1, MatchIs DEF Building
<1>3. Validate(c) <=> \A i \in DOMAIN c.faults : c.faults[i].target \in TargetIds(c)
  BY <1>2, Zenon DEF Validate, Distinct
<1>4. /\ \A i \in DOMAIN c.steps : c.steps[i].target \in PassedIds \cup {0}
      /\ \A i \in DOMAIN c.faults : c.faults[i].target \in PassedIds \cup {0}
  <2> DEFINE ss == c.steps
             fs == c.faults
  <2>1. ss \in Seq(PlannedStep) /\ fs \in Seq(PlannedFault)
    BY <1>2 DEF BuiltScenario
  <2>2. /\ \A r \in PlannedStep : r.target \in PassedIds \cup {0}
        /\ \A r \in PlannedFault : r.target \in PassedIds \cup {0}
    BY DEF PlannedStep, PlannedFault
  <2> HIDE DEF ss, fs
  <2>3. /\ \A i \in DOMAIN ss : ss[i].target \in PassedIds \cup {0}
        /\ \A i \in DOMAIN fs : fs[i].target \in PassedIds \cup {0}
    BY <2>1, <2>2
  <2> QED
    BY <2>3 DEF ss, fs
<1>5. \A t : t \in destroyed <=> \E i \in DOMAIN c.faults : c.faults[i].target = t
  <2>1. \A t : t \in destroyed <=>
          \E i \in DOMAIN c.steps : c.steps[i].op \in DestructiveOps /\ c.steps[i].target = t
    BY Zenon
  <2> QED
    BY <1>2, <1>4, <2>1, Zenon DEF Match
<1> HIDE DEF destroyed
<1>6. destroyed \subseteq TargetIds(c) \ earlier <=> \A t \in destroyed : t \in TargetIds(c)
  BY <1>2, Zenon
<1> QED
  BY <1>3, <1>5, <1>6, Zenon

LEMMA BuilderInit == Init => ScenarioInv
<1> SUFFICES ASSUME Init PROVE BuilderInv
  BY FuzzInit DEF ScenarioInv
<1>1. draft = NewBuilder(1) /\ campaign = Empty /\ earlier = {}
  BY Zenon DEF Init, BuildInit
<1>2. draft \in BuilderDraft /\ campaign \in BuiltScenario
  BY <1>1 DEF NewBuilder, Empty, BuilderDraft, BuiltScenario
<1>3. /\ draft.targets = <<>> /\ draft.steps = <<>> /\ draft.faults = <<>>
      /\ campaign.targets = <<>> /\ campaign.steps = <<>> /\ campaign.faults = <<>>
  BY <1>1 DEF NewBuilder, Empty
<1>4. TargetIds(draft) = {} /\ TargetIds(campaign) = {}
  BY <1>3 DEF TargetIds
<1>5. Distinct(draft) /\ Distinct(campaign)
  BY <1>3 DEF Distinct
<1>6. FaultsMatchSteps(draft) /\ FaultsMatchSteps(campaign)
  BY <1>3 DEF FaultsMatchSteps
<1> QED
  BY <1>1, <1>2, <1>4, <1>5, <1>6 DEF BuilderInv

(* ScenarioBuilder, for every sequence of calls however long and whatever    *)
(* handles its caller passes: a scenario that may run otherwise is rejected  *)
(* by validate() exactly when it destroys something that was not declared    *)
(* for it, a target of an earlier scenario of the same builder included.     *)
THEOREM StaleHandlesCaughtAlways == Spec => []StaleHandlesAreCaught
<1>1. ScenarioInv => StaleHandlesAreCaught
  BY BuilderInvIsEnough DEF ScenarioInv
<1> QED
  BY <1>1, BuilderInit, BuilderStep, PTL DEF Spec
=============================================================================
