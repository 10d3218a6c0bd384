------------------------------ MODULE Evidence ------------------------------
(***************************************************************************)
(* The evidence recorder and its text form (src/evidence.cpp), the session  *)
(* that saves it as three files (EvidenceSession of apps/chaos_cli.cpp) and *)
(* the commands that read it back: replay, compare, compare-runs            *)
(* (src/replay.cpp, apps/chaos_cli.cpp).                                    *)
(*                                                                          *)
(* The text form is what the properties are about, so texts are sequences   *)
(* of characters.  A number in hexadecimal is one digit here instead of     *)
(* sixteen, and the name of a kind is one character.  A digest is the       *)
(* sequence of the lines that are hashed: SHA-256 is taken to be injective. *)
(* Timestamps are never set by the recorder and are left out.               *)
(***************************************************************************)
EXTENDS Naturals, Sequences, FiniteSets, SequencesExt

CONSTANTS
  Inputs,        \* what a session may record: [kind, phase, fields, payload]
  Dirs,          \* evidence directories
  CutStep,       \* a write is cut short after a multiple of CutStep characters or one early
  MaxRecords,    \* records of a session, a bound of the model
  MaxSessions    \* sessions, a bound of the model

Newline == "\n"
Return == "\r"
Backslash == "\\"
Digits == <<"0", "1", "2", "3", "4", "5", "6", "7", "8", "9">>
Spaces == {" ", Newline, Return}

\* Kinds by their one-character names; MISC is what an unknown name reads as.
INJECTION == "I"
ASSERTION == "A"
FINAL_RESULT == "F"
MISC == "M"
Kinds == {INJECTION, ASSERTION, FINAL_RESULT, MISC}
PhaseKey == <<"p">>      \* the field "phase" of a FINAL_RESULT

ASSUME InputsAssumption == \A i \in Inputs : i.kind \in Kinds
ASSUME BoundsAssumption == MaxRecords \in 0 .. 8 /\ MaxSessions \in Nat /\ CutStep \in Nat \ {0}

VARIABLES
  pc,         \* where the open session stands: "idle", "open", "json" or "digest"
  dir,        \* its directory
  records,    \* records_ of its recorder
  disk,       \* per directory evidence.txt and digest.txt (<<>> when there is none)
  saved,      \* history: per directory the records whose digest digest.txt holds
  sessions    \* sessions opened so far

evidenceVars == <<pc, dir, records, disk, saved, sessions>>

-----------------------------------------------------------------------------
(* The text form *)
ToHex(n) == <<Digits[n + 1]>>
IsHexText(t) == t # <<>> /\ ToSet(t) \subseteq ToSet(Digits)
FromHexText(t) == FoldLeft(LAMBDA v, c : v * 10 + SelectInSeq(Digits, LAMBDA d : d = c) - 1, 0, t)

\* Mutant: only the bar is escaped.
EscBarOnly(t) ==
  FlattenSeq([i \in DOMAIN t |-> IF t[i] = "|" THEN <<Backslash, "|">> ELSE <<t[i]>>])
\* esc
Esc(t) ==
  FlattenSeq([i \in DOMAIN t |->
    CASE t[i] = Newline -> <<Backslash, "n">>
      [] t[i] = Return  -> <<Backslash, "r">>
      [] t[i] = "|"     -> <<Backslash, "|">>
      [] OTHER          -> <<t[i]>>])

\* unesc looks one character ahead after a backslash; a backslash before any
\* other character stands for itself.
Unescaped == [c \in {"n", "r", "|"} |-> CASE c = "n" -> Newline [] c = "r" -> Return [] OTHER -> c]
UnescChar(s, c) ==
  CASE s.pending /\ c \in DOMAIN Unescaped ->
         [out |-> Append(s.out, Unescaped[c]), pending |-> FALSE]
    [] c = Backslash ->
         [out |-> IF s.pending THEN Append(s.out, Backslash) ELSE s.out, pending |-> TRUE]
    [] OTHER ->
         [out |-> IF s.pending THEN s.out \o <<Backslash, c>> ELSE Append(s.out, c),
          pending |-> FALSE]
Unesc(t) ==
  LET s == FoldLeft(UnescChar, [out |-> <<>>, pending |-> FALSE], t)
  IN  IF s.pending THEN Append(s.out, Backslash) ELSE s.out

\* join, split and trim of src/text.cpp.
Join(parts, d) == FlattenSeq([i \in DOMAIN parts |-> IF i = 1 THEN parts[i] ELSE <<d>> \o parts[i]])
Split(t, d) ==
  FoldLeft(LAMBDA parts, c : IF c = d THEN Append(parts, <<>>)
                             ELSE [parts EXCEPT ![Len(parts)] = Append(@, c)],
           << <<>> >>, t)
Trim(t) ==
  LET first == SelectInSeq(t, LAMBDA c : c \notin Spaces)
      last  == SelectLastInSeq(t, LAMBDA c : c \notin Spaces)
  IN  IF first = 0 THEN <<>> ELSE SubSeq(t, first, last)

\* to_text: the phase is not escaped, nor are the separators of the fields.
ToText(ev) ==
  LET keys == SetToSeq(DOMAIN ev.fields)
      field(k) == Esc(k) \o <<"=">> \o Esc(ev.fields[k])
  IN  Join(<<ToHex(ev.seq), <<ev.kind>>, ev.phase,
             Join([i \in DOMAIN keys |-> field(keys[i])], ","), Esc(ev.payload)>>, "|")

SerializeText(recs) ==
  FlattenSeq([i \in DOMAIN recs |-> ToHex(recs[i].id) \o <<":">> \o ToText(recs[i]) \o <<Newline>>])

\* Mutant: only the number of records is hashed.
DigestOfCount(recs) == [i \in DOMAIN recs |-> <<>>]
DigestOf(recs) == [i \in DOMAIN recs |-> ToText(recs[i])]

-----------------------------------------------------------------------------
(* parse_text *)
Before(t, c) == SubSeq(t, 1, SelectInSeq(t, LAMBDA x : x = c) - 1)
After(t, c) == SubSeq(t, SelectInSeq(t, LAMBDA x : x = c) + 1, Len(t))

FieldItems(t) == IF t = <<>> THEN <<>> ELSE Split(t, ",")
\* Later items with the same key win.
ParsedFields(items) ==
  [k \in {Unesc(Before(items[i], "=")) : i \in DOMAIN items} |->
     Unesc(After(items[SelectLastInSeq(items, LAMBDA x : Unesc(Before(x, "=")) = k)], "="))]

LineParses(line) ==
  /\ ":" \in ToSet(line)
  /\ IsHexText(Before(line, ":"))
  /\ LET parts == Split(After(line, ":"), "|")
     IN  /\ Len(parts) = 5
         /\ IsHexText(parts[1])
         /\ \A i \in DOMAIN FieldItems(parts[4]) : "=" \in ToSet(FieldItems(parts[4])[i])

ParsedLine(line) ==
  LET parts == Split(After(line, ":"), "|")
  IN  [id      |-> FromHexText(Before(line, ":")),
       seq     |-> FromHexText(parts[1]),
       kind    |-> IF \E k \in Kinds : parts[2] = <<k>> THEN parts[2][1] ELSE MISC,
       phase   |-> Unesc(parts[3]),
       fields  |-> ParsedFields(FieldItems(parts[4])),
       payload |-> Unesc(parts[5])]

\* The lines of a text that are not blank, trimmed.
Lines(text) ==
  SelectSeq([i \in DOMAIN Split(text, Newline) |-> Trim(Split(text, Newline)[i])],
            LAMBDA line : line # <<>>)

ParseText(text) ==
  LET lines == Lines(text)
  IN  IF \A i \in DOMAIN lines : LineParses(lines[i])
      THEN [ok |-> TRUE, records |-> [i \in DOMAIN lines |-> ParsedLine(lines[i])]]
      ELSE [ok |-> FALSE, records |-> <<>>]

-----------------------------------------------------------------------------
(* Reading evidence back *)

\* cmd_replay and replay_evidence: the digest of what evidence.txt holds is the
\* one in digest.txt.  A missing file reads as an empty one.
ReplayPasses(d) ==
  /\ disk[d].digest # <<>>
  /\ LET parsed == ParseText(disk[d].txt)
     IN  parsed.ok /\ disk[d].digest = <<DigestOf(parsed.records)>>

CountKind(recs, kind) == Cardinality({i \in DOMAIN recs : recs[i].kind = kind})

\* The "phase" field of the last FINAL_RESULT.
TerminalPhase(recs) ==
  LET i == SelectLastInSeq(recs, LAMBDA ev : ev.kind = FINAL_RESULT)
  IN  IF i = 0 \/ PhaseKey \notin DOMAIN recs[i].fields THEN <<>> ELSE recs[i].fields[PhaseKey]

\* compare_runs, verdict by verdict.
SamePlan(a, b) ==
  /\ Len(a) = Len(b)
  /\ \A i \in DOMAIN a : /\ a[i].id = b[i].id
                         /\ a[i].kind = b[i].kind
                         /\ a[i].phase = b[i].phase
                         /\ ToText(a[i]) = ToText(b[i])
\* The verdicts cmd_compare_runs also computes for two runs of one campaign.
SemanticallySame(a, b) ==
  /\ CountKind(a, INJECTION) = CountKind(b, INJECTION)
  /\ CountKind(a, ASSERTION) = CountKind(b, ASSERTION)
  /\ TerminalPhase(a) = TerminalPhase(b)
AllSame(a, b) == SamePlan(a, b) /\ SemanticallySame(a, b) /\ DigestOf(a) = DigestOf(b)

-----------------------------------------------------------------------------
NoFiles == [txt |-> <<>>, digest |-> <<>>]

EvidenceInit ==
  /\ pc = "idle"
  /\ dir \in Dirs
  /\ records = <<>>
  /\ disk = [d \in Dirs |-> NoFiles]
  /\ saved = [d \in Dirs |-> <<>>]
  /\ sessions = 0

\* EvidenceSession::open; a directory may hold the files of an earlier run.
Open(d) ==
  /\ pc = "idle"
  /\ sessions < MaxSessions
  /\ pc' = "open"
  /\ dir' = d
  /\ records' = <<>>
  /\ sessions' = sessions + 1
  /\ UNCHANGED <<disk, saved>>

\* EvidenceRecorder::record; next_seq_ is the number of records.
Record(in) ==
  /\ pc = "open"
  /\ Len(records) < MaxRecords
  /\ records' = Append(records, [id |-> Len(records) + 1, seq |-> Len(records), kind |-> in.kind,
                                 phase |-> in.phase, fields |-> in.fields, payload |-> in.payload])
  /\ UNCHANGED <<pc, dir, disk, saved, sessions>>

\* The session is over; its recorder goes with it.
Close == pc' = "idle" /\ records' = <<>>

\* The run ends without saving, or saving stops between two files: an early
\* continue of run_multiprocess, a crash, or a file that save() cannot open.
Abandon ==
  /\ pc # "idle"
  /\ Close
  /\ UNCHANGED <<dir, disk, saved, sessions>>

\* write() truncates the file and does not look at what fwrite returns: after a
\* short write save() goes on to the next file as after a complete one.  A crash
\* inside a write is a short write and an Abandon.
Continue(next) == pc' = next /\ UNCHANGED records

CutPoints(length) == {n \in 0 .. length : n % CutStep = 0 \/ n + 1 >= length}

SaveText ==
  /\ pc = "open"
  /\ \E n \in CutPoints(Len(SerializeText(records))) :
       disk' = [disk EXCEPT ![dir].txt = SubSeq(SerializeText(records), 1, n)]
  /\ Continue("json")
  /\ UNCHANGED <<dir, saved, sessions>>

\* evidence.json is written and never read.
SaveJson ==
  /\ pc = "json"
  /\ Continue("digest")
  /\ UNCHANGED <<dir, disk, saved, sessions>>

\* A digest that is cut short is the digest of nothing.
SaveDigest ==
  /\ pc = "digest"
  /\ \/ /\ disk' = [disk EXCEPT ![dir].digest = <<DigestOf(records)>>]
        /\ saved' = [saved EXCEPT ![dir] = records]
     \/ /\ disk' = [disk EXCEPT ![dir].digest = <<>>]
        /\ saved' = [saved EXCEPT ![dir] = <<>>]
  /\ Close
  /\ UNCHANGED <<dir, sessions>>

EvidenceNext ==
  \/ \E d \in Dirs : Open(d)
  \/ \E in \in Inputs : Record(in)
  \/ Abandon
  \/ SaveText
  \/ SaveJson
  \/ SaveDigest

EvidenceSpec == EvidenceInit /\ [][EvidenceNext]_evidenceVars

-----------------------------------------------------------------------------
(* Properties *)
\* A text that survives the form: no separator of the line, no backslash that
\* reads as an escape.
SafeText(t) ==
  /\ "|" \notin ToSet(t)
  /\ \A i \in 1 .. Len(t) - 1 : ~(t[i] = Backslash /\ t[i + 1] \in {"n", "r"})

SafeRecord(ev) ==
  /\ SafeText(ev.phase) /\ Newline \notin ToSet(ev.phase)
  /\ \A k \in DOMAIN ev.fields :
       /\ SafeText(k) /\ ToSet(k) \cap {"=", ","} = {}
       /\ SafeText(ev.fields[k]) /\ "," \notin ToSet(ev.fields[k])
  /\ SafeText(ev.payload) /\ (ev.payload # <<>> => Last(ev.payload) # " ")

\* What parse_text reads from what serialize_text wrote.
ReadsBack == ParseText(SerializeText(records)) = [ok |-> TRUE, records |-> records]

\* A log whose values are safe in the sense above, escaped newlines, returns
\* and backslashes included, is read back by parse_text record for record.
RoundTripsWhenSafe ==
  pc = "open" /\ (\A i \in DOMAIN records : SafeRecord(records[i])) => ReadsBack

\* What evidence.h says of parse_text: it "round-trips exactly with
\* serialize_text()".  Not so for a value with a bar: esc writes it with a
\* backslash, but split cuts at every bar; nor for a comma in a field.
RoundTripsExactly == pc = "open" => ReadsBack

\* Evidence is read between sessions.
Readable(d) == pc = "idle" /\ ReplayPasses(d)

\* A passing replay vouches for the log: whatever crashes, short writes and
\* abandoned runs came before, evidence.txt then holds every record of the
\* session that wrote digest.txt and nothing else.
PassVouchesForLog ==
  \A d \in Dirs :
    (Readable(d) /\ \A i \in DOMAIN saved[d] : SafeRecord(saved[d][i]))
      => ParseText(disk[d].txt).records = saved[d]

\* Two directories that replay with the same digest compare as the same run in
\* every verdict of compare_runs and cmd_compare_runs, although the digest
\* leaves the record ids out; and runs with different digests never do.
CompareAgreesWithDigest ==
  \A d, e \in Dirs :
    (d # e /\ Readable(d) /\ Readable(e))
      => (AllSame(ParseText(disk[d].txt).records, ParseText(disk[e].txt).records)
            <=> disk[d].digest = disk[e].digest)

\* What a reader may conclude from a passing replay, of one directory and of two.
VerdictsVouchForLogs == PassVouchesForLog /\ CompareAgreesWithDigest
=============================================================================
