----------------------------- MODULE CommitLedger -----------------------------
(***************************************************************************)
(* What the target runtime promises to its controllers, without messages,  *)
(* threads or processes: authority is issued in increasing order, at most  *)
(* one authority is current, and only the current authority commits, once, *)
(* in the name of the worker and boot it was issued to.                    *)
(***************************************************************************)
EXTENDS Integers

CONSTANTS WorkerIds, Boots, Results, None

VARIABLES
  current,  \* the authority that may commit, or None
  issued,   \* every authority issued
  commits   \* every commit: an authority and its result

ledgerVars == <<current, issued, commits>>

Token == [epoch : Nat, attempt : Nat, worker : WorkerIds, boot : Boots]

Later(s, t) == s.epoch > t.epoch \/ (s.epoch = t.epoch /\ s.attempt > t.attempt)

Init ==
  /\ current = None
  /\ issued = {}
  /\ commits = {}

(* A new authority supersedes the current one.                             *)
Issue ==
  /\ current' \in Token
  /\ \A t \in issued : Later(current', t)
  /\ issued' = issued \cup {current'}
  /\ UNCHANGED commits

(* The current authority commits its first result.                         *)
Commit(v) ==
  /\ current # None
  /\ \A x \in commits : x.token # current
  /\ commits' = commits \cup {[token |-> current, result |-> v]}
  /\ UNCHANGED <<current, issued>>

(* The current authority is revoked: its coordinator is gone.              *)
Fence ==
  /\ current # None
  /\ current' = None
  /\ UNCHANGED <<issued, commits>>

Next == Issue \/ Fence \/ \E v \in Results : Commit(v)

Spec == Init /\ [][Next]_ledgerVars
=============================================================================
