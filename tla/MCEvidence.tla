----------------------------- MODULE MCEvidence -----------------------------
(***************************************************************************)
(* An instance of Evidence for TLC: records whose values are plain, escaped *)
(* and cut by the separators of the text form.                              *)
(***************************************************************************)
EXTENDS Evidence, TLC

CONSTANTS A, B
MCDirs == {A, B}
Symmetry == Permutations(MCDirs)

Input(kind, phase, fields, payload) ==
  [kind |-> kind, phase |-> phase, fields |-> fields, payload |-> payload]
NoFields == [k \in {} |-> <<>>]
Field(k, v) == [x \in {k} |-> v]

MCInputs ==
  {Input(FINAL_RESULT, <<"z">>, Field(PhaseKey, <<"z", "=">>), <<>>),
   Input(INJECTION, <<Return>>, NoFields, <<Backslash, Newline>>),
   Input(MISC, <<"z">>, Field(<<"k">>, <<"z", ",", "k", "=">>), <<>>),
   Input(ASSERTION, <<"|">>, NoFields, <<>>),
   Input(MISC, <<>>, NoFields, <<Backslash, "n", " ">>)}
=============================================================================
