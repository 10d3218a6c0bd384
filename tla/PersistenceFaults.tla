-------------------------- MODULE PersistenceFaults --------------------------
(***************************************************************************)
(* The file operations of src/persistence.cpp: copy_file, apply_mutation,   *)
(* write_partial_temp and rename_file.  A byte is <<where it came from,     *)
(* whether it is xor-ed with 0xa5>>, so that corrupting a byte twice        *)
(* restores it.  SHA-256 is taken as injective: two digests agree exactly   *)
(* when the contents do.  Unsigned 64-bit sums are modulo FileWord.         *)
(* apply_mutation asks f.good() before anything flushes the stream, so what *)
(* is still in its buffer is written, or lost, after the answer is given.   *)
(***************************************************************************)
EXTENDS Integers, Sequences, SequencesExt

CONSTANTS
  Paths,
  FileSize,      \* bytes of the file the campaign starts from
  FileWord,      \* 2^64
  DiskLimit,     \* the largest file the disk holds
  StreamBuffer,  \* bytes a stream collects before it writes them to the file
  LoopLimit,     \* a loop of more writes than this does not end within a campaign
  CorruptCap,    \* the 64 bytes CORRUPT_BYTES works on at most
  DefaultGarbage,\* the 16 bytes APPEND_GARBAGE appends when no length is given
  HeaderBytes,   \* the 4 bytes of a magic number or a version
  Offsets,
  Lengths,
  MaxFileOps     \* a bound of the model

ASSUME FileAssumption ==
  /\ {FileSize, DiskLimit, FileWord} \subseteq Nat /\ FileSize <= DiskLimit /\ DiskLimit < FileWord
  /\ LoopLimit \in Nat /\ DiskLimit <= LoopLimit /\ LoopLimit + DiskLimit < FileWord
  /\ {CorruptCap, DefaultGarbage, HeaderBytes, StreamBuffer} \subseteq Nat \ {0}
  /\ 2 * HeaderBytes <= FileWord
  /\ Offsets \subseteq 0 .. FileWord - 1 /\ Lengths \subseteq 0 .. FileWord - 1

VARIABLES
  file,     \* the contents of each path, or Absent
  fileOp,   \* history: the last mutation, the content before and its answer
  fileOps   \* operations so far

persistenceVars == <<file, fileOp, fileOps>>

Absent == <<<<"absent", FALSE>>>>
MutationKinds == {"TRUNCATE", "CORRUPT_BYTES", "APPEND_GARBAGE", "OVERWRITE_MAGIC",
           "OVERWRITE_VERSION", "ZERO_RANGE", "WRITE_PARTIAL_TEMP"}

Data(n) == [i \in 1 .. n |-> <<"data", FALSE>>]
Fill(what, n) == [i \in 1 .. n |-> <<what, FALSE>>]
Flip(b) == <<b[1], ~b[2]>>
SumOf(a, b) == (a + b) % FileWord
Least(a, b) == IF a < b THEN a ELSE b

(* The file after n bytes `what` are written at an offset, as far as the     *)
(* disk goes.                                                                *)
Overwritten(f, offset, what, n) ==
  LET end == Least(offset + n, DiskLimit)
  IN [i \in 1 .. (IF end > Len(f) THEN end ELSE Len(f)) |->
        IF i > offset /\ i <= end THEN <<what, FALSE>> ELSE f[i]]

Ok(f) == [answer |-> "ok", file |-> f]
Failed(f) == [answer |-> "error", file |-> f]

(* n bytes written one by one.  The stream fails when a full buffer does not *)
(* fit on the disk; a tail it still buffers is written when f is closed,     *)
(* after the answer, as far as it fits.  On a failed stream the loop goes on *)
(* counting.                                                                 *)
Written(f, offset, what, n) ==
  LET flushed == n - (n % StreamBuffer)
  IN [answer |-> IF n > LoopLimit THEN "none"
                 ELSE IF offset + flushed > DiskLimit THEN "error" ELSE "ok",
      file |-> Overwritten(f, offset, what, n)]

(* apply_mutation.  A read that meets the end of the file leaves the stream  *)
(* failed, and the write after it does nothing.  A seek to an offset that is *)
(* negative as a signed number fails the same way.                           *)

\* How many bytes a mutation asks for.
Asked(m) ==
  IF m.length # 0 THEN m.length ELSE IF m.kind = "APPEND_GARBAGE" THEN DefaultGarbage ELSE 1

Truncate(f, m) == Ok(SubSeq(f, 1, Least(m.offset, Len(f))))

CorruptBytes(f, m) ==
  LET len == Least(Asked(m), CorruptCap)
  IN IF m.offset >= Len(f) \/ m.offset + len > Len(f) THEN Failed(f)
     ELSE Ok([i \in DOMAIN f |-> IF i > m.offset /\ i <= m.offset + len THEN Flip(f[i]) ELSE f[i]])

AppendGarbage(f, m) == Written(f, Len(f), "garbage", Asked(m))

OverwriteMagic(f) ==
  IF Len(f) < HeaderBytes THEN Failed(f) ELSE Ok(Overwritten(f, 0, "dead", HeaderBytes))

OverwriteVersion(f, m) ==
  IF SumOf(m.offset, HeaderBytes) > Len(f) \/ 2 * m.offset >= FileWord THEN Failed(f)
  ELSE Ok(Overwritten(f, m.offset, "zero", HeaderBytes))

\* Mutant: the length is not cut at the end of the file.
ZeroRangeUncut(f, m) ==
  IF m.offset >= Len(f) THEN Failed(f) ELSE Written(f, m.offset, "zero", Asked(m))

ZeroRange(f, m) ==
  LET len == IF SumOf(m.offset, Asked(m)) > Len(f) THEN Len(f) - m.offset ELSE Asked(m)
  IN IF m.offset >= Len(f) THEN Failed(f) ELSE Written(f, m.offset, "zero", len)

ApplyMutation(f, m) ==
  CASE m.kind = "TRUNCATE"           -> Truncate(f, m)
    [] m.kind = "CORRUPT_BYTES"      -> CorruptBytes(f, m)
    [] m.kind = "APPEND_GARBAGE"     -> AppendGarbage(f, m)
    [] m.kind = "OVERWRITE_MAGIC"    -> OverwriteMagic(f)
    [] m.kind = "OVERWRITE_VERSION"  -> OverwriteVersion(f, m)
    [] m.kind = "ZERO_RANGE"         -> ZeroRange(f, m)
    [] m.kind = "WRITE_PARTIAL_TEMP" -> Ok(f)
-----------------------------------------------------------------------------
NoOp == [m |-> [kind |-> "WRITE_PARTIAL_TEMP", offset |-> 0, length |-> 0],
         before |-> <<>>, after |-> <<>>, answer |-> "ok"]

PersistenceInit ==
  /\ file = [p \in Paths |-> IF p = "state" THEN Data(FileSize) ELSE Absent]
  /\ fileOp = NoOp /\ fileOps = 0

\* A campaign whose mutation has not returned does nothing more.
Operation(f) ==
  /\ fileOp.answer # "none"
  /\ fileOps < MaxFileOps /\ fileOps' = fileOps + 1 /\ file' = f

(* copy_file opens the destination for writing, which empties it, before it  *)
(* reads: a file copied onto itself is lost.                                 *)
CopyFile(src, dst) ==
  /\ file[src] # Absent
  /\ Operation([file EXCEPT ![dst] = IF src = dst THEN <<>> ELSE file[src]])
  /\ fileOp' = NoOp

Mutate(p, m) ==
  /\ file[p] # Absent
  /\ LET r == ApplyMutation(file[p], m)
     IN /\ Operation([file EXCEPT ![p] = r.file])
        /\ fileOp' = [m |-> m, before |-> file[p], after |-> r.file, answer |-> r.answer]

WritePartialTemp(p, n) == Operation([file EXCEPT ![p] = Data(n)]) /\ fileOp' = NoOp

(* std::rename replaces the destination on POSIX and fails on Windows when   *)
(* there is one.                                                             *)
RenameFile(src, dst) ==
  /\ file[src] # Absent /\ src # dst
  /\ \/ Operation([file EXCEPT ![dst] = file[src], ![src] = Absent])
     \/ file[dst] # Absent /\ Operation(file)
  /\ fileOp' = NoOp

PersistenceNext ==
  \/ \E src, dst \in Paths : CopyFile(src, dst) \/ RenameFile(src, dst)
  \/ \E p \in Paths, kind \in MutationKinds, o \in Offsets, n \in Lengths :
       Mutate(p, [kind |-> kind, offset |-> o, length |-> n])
  \/ \E p \in Paths \ {"state"}, n \in 0 .. FileSize : WritePartialTemp(p, n)
-----------------------------------------------------------------------------
\* The bytes a mutation names: the range it is asked to damage.
Named(m, f, i) ==
  CASE m.kind = "TRUNCATE" -> i > m.offset
    [] m.kind \in {"CORRUPT_BYTES", "ZERO_RANGE"} -> i > m.offset /\ i <= m.offset + Asked(m)
    [] m.kind = "APPEND_GARBAGE" -> i > Len(f) /\ i <= Len(f) + Asked(m)
    [] m.kind = "OVERWRITE_MAGIC" -> i <= HeaderBytes
    [] m.kind = "OVERWRITE_VERSION" -> i > m.offset /\ i <= m.offset + HeaderBytes
    [] m.kind = "WRITE_PARTIAL_TEMP" -> FALSE

(* No damage outside the range: every byte the mutation does not name, on    *)
(* either side of the range, is there afterwards as it was, and no byte      *)
(* appears outside it.  Only TRUNCATE shortens a file, and only              *)
(* APPEND_GARBAGE lengthens one, but for a ZERO_RANGE whose end passes 2^64, *)
(* which fills the disk and never returns.  An error left the file alone or  *)
(* the disk full.                                                            *)
Contained(m, before, after, answer) ==
  LET filled == Len(after) = DiskLimit
  IN /\ \A i \in DOMAIN before \cup DOMAIN after :
          ~Named(m, before, i) => i \in DOMAIN before \cap DOMAIN after /\ after[i] = before[i]
     /\ Len(after) < Len(before) => m.kind = "TRUNCATE" /\ answer = "ok"
     /\ Len(after) > Len(before) =>
          \/ m.kind = "APPEND_GARBAGE"
          \/ answer = "none" /\ filled /\ m.offset + Asked(m) >= FileWord
     /\ answer = "error" => after = before \/ filled

(* No success without damage.  A campaign counts a mutation as rejected when *)
(* the digest changed (cmd_persistence): one that reports success changed    *)
(* the file, unless it cut at or past the end, wrote what was already there, *)
(* or appended to a full disk; and of an append that reports success at most *)
(* what the stream still buffered is missing.                                *)
Traced(m, before, after, answer) ==
  LET zeros == \A i \in DOMAIN before : Named(m, before, i) => before[i] = <<"zero", FALSE>>
      missing == Len(before) + Asked(m) - Len(after)
  IN answer = "ok" =>
       /\ m.kind = "APPEND_GARBAGE" /\ missing # 0 =>
            missing \in 1 .. StreamBuffer - 1 /\ Len(after) = DiskLimit
       /\ after = before =>
            CASE m.kind = "TRUNCATE" -> m.offset >= Len(before)
              [] m.kind \in {"ZERO_RANGE", "OVERWRITE_VERSION"} -> zeros
              [] m.kind = "OVERWRITE_MAGIC" -> before[1] = <<"dead", FALSE>>
              [] m.kind = "APPEND_GARBAGE" -> Len(before) = DiskLimit
              [] OTHER -> m.kind = "WRITE_PARTIAL_TEMP"

(* The contract of apply_mutation: no damage outside the range it names, and *)
(* no success without damage inside it.                                      *)
MutationIsFaithful ==
  /\ Contained(fileOp.m, fileOp.before, fileOp.after, fileOp.answer)
  /\ Traced(fileOp.m, fileOp.before, fileOp.after, fileOp.answer)

(* The files are sequences of bytes that fit on the disk: what a mutation is *)
(* given, whatever was done to the file before.                              *)
Byte == {"data", "garbage", "dead", "zero"} \X BOOLEAN

FilesFit ==
  /\ file \in [Paths -> Seq(Byte) \cup {Absent}]
  /\ \A p \in Paths : file[p] # Absent => file[p] \in Seq(Byte) /\ Len(file[p]) <= DiskLimit
=============================================================================
