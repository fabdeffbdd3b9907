----------------------------- MODULE TxContract -----------------------------
(***************************************************************************)
(* What the TransactionManager interface (src/sdk/transaction_manager.go) *)
(* promises one caller, seen from outside: a call of an Execute* method    *)
(* returns once, with an outcome the method can produce; the context's     *)
(* error only after the context was cancelled; a read-only method never    *)
(* commits, ExecuteReadWrite commits at most once, and the retry loop of   *)
(* ExecuteReadWriteWithContext retries only a commit that conflicted,      *)
(* commits at most Retries + 1 times, and gives up with ErrConflict only   *)
(* when every one of those commits conflicted.                             *)
(***************************************************************************)
EXTENDS Naturals

CONSTANT Retries   \* the Manager's maxRetries

VARIABLES method, busy, ctxDone, commits, conflicts, result

vars == <<method, busy, ctxDone, commits, conflicts, result>>

Methods == {"ReadOnly", "ReadWrite", "ReadOnlyWithContext",
            "ReadWriteWithContext"}
Writers == {"ReadWrite", "ReadWriteWithContext"}
WithContext == {"ReadOnlyWithContext", "ReadWriteWithContext"}
Results == {"nil", "actionErr", "ctxErr", "conflict", "commitErr"}

\* The outcomes a call of m may return.
Outcomes(m) ==
    {"nil", "actionErr"}
    \cup (IF m \in WithContext THEN {"ctxErr"} ELSE {})
    \cup (IF m \in Writers THEN {"conflict", "commitErr"} ELSE {})

\* The outcomes that are the answer of a Commit.
CommitOutcomes == {"nil", "conflict", "commitErr"}

\* The Commit calls a call of m may make.
Budget(m) ==
    IF m = "ReadWriteWithContext" THEN Retries + 1
    ELSE IF m = "ReadWrite" THEN 1 ELSE 0

Init ==
    /\ method = "none"
    /\ busy = FALSE
    /\ ctxDone = FALSE
    /\ commits = 0
    /\ conflicts = 0
    /\ result = "none"

\* The caller enters method m with a fresh context.
Call(m) ==
    /\ ~busy
    /\ method' = m
    /\ busy' = TRUE
    /\ ctxDone' = FALSE
    /\ commits' = 0
    /\ conflicts' = 0
    /\ result' = "none"

\* A commit conflicted and the call goes on to another attempt.
Retry ==
    /\ busy
    /\ method = "ReadWriteWithContext"
    /\ commits + 1 < Budget(method)
    /\ commits' = commits + 1
    /\ conflicts' = conflicts + 1
    /\ UNCHANGED <<method, busy, ctxDone, result>>

\* The call returns r; when r is a Commit's answer, that commit is its last
\* step.
Return(r) ==
    /\ busy
    /\ r \in Outcomes(method)
    /\ r = "ctxErr" => ctxDone
    /\ commits' = IF method \in Writers /\ r \in CommitOutcomes
                  THEN commits + 1 ELSE commits
    /\ conflicts' = IF r = "conflict" THEN conflicts + 1 ELSE conflicts
    /\ commits' <= Budget(method)
    /\ r = "conflict" => commits' = Budget(method) /\ conflicts' = commits'
    /\ busy' = FALSE
    /\ result' = r
    /\ UNCHANGED <<method, ctxDone>>

\* The caller's context is cancelled.
Cancel ==
    /\ ~ctxDone
    /\ ctxDone' = TRUE
    /\ UNCHANGED <<method, busy, commits, conflicts, result>>

Next ==
    \/ \E m \in Methods : Call(m)
    \/ Retry
    \/ \E r \in Results : Return(r)
    \/ Cancel

Spec == Init /\ [][Next]_vars
=============================================================================
