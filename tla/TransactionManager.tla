------------------------- MODULE TransactionManager -------------------------
(***************************************************************************)
(* The sdk transaction Manager (src/sdk/transaction_manager.go, the second *)
(* version of the file, lines 146-312): one caller running one of the four *)
(* Execute* methods against Badger.  Badger is abstracted to the outcome   *)
(* of each call: the caller's function succeeds, fails or panics, and a    *)
(* Commit succeeds, conflicts (badger.ErrConflict) or fails otherwise.     *)
(* The context may be cancelled at any moment.                             *)
(*                                                                         *)
(* time.Duration is an int64 counting nanoseconds.  Durations here count   *)
(* a unit U and are Width-bit two's-complement integers: the program has   *)
(* U = 1ns and Width = 64, the runs scale both down (TLC's integers are    *)
(* 32-bit) while keeping the wrap-around of the multiplication.            *)
(***************************************************************************)
EXTENDS Integers

CONSTANTS
    OptMaxRetries,   \* TxManagerOptions.MaxRetries  (<= 0: not given)
    OptBaseBackoff,  \* TxManagerOptions.BaseBackoff (<= 0: not given)
    OptMaxBackoff,   \* TxManagerOptions.MaxBackoff  (<= 0: not given)
    DefaultBaseBackoff,  \* 5 * time.Millisecond in the unit U
    DefaultMaxBackoff,   \* 150 * time.Millisecond in the unit U
    Width            \* bits of time.Duration

ASSUME WidthAssumption == Width \in Nat /\ Width >= 2
ASSUME OptionsAssumption ==
    /\ {OptMaxRetries, OptBaseBackoff, OptMaxBackoff} \subseteq Int
    /\ {DefaultBaseBackoff, DefaultMaxBackoff} \subseteq Nat \ {0}

\* NewTransactionManager: a positive option overrides the default.
Effective(opt, default) == IF opt > 0 THEN opt ELSE default

maxRetries == Effective(OptMaxRetries, 5)
baseBackoff == Effective(OptBaseBackoff, DefaultBaseBackoff)
maxBackoff == Effective(OptMaxBackoff, DefaultMaxBackoff)

\* Two's-complement wrap-around of an int64 (Width bits) result.
Wrap(x) == ((x + 2^(Width - 1)) % 2^Width) - 2^(Width - 1)

\* time.Duration(1 << uint(n)): a shift of Width bits or more gives 0.
ShiftLeft1(n) == IF n >= Width THEN 0 ELSE Wrap(2^n)

\* sleepWithJitter's upper bound j for the given attempt (lines 277-289).
Backoff(attempt) ==
    LET a  == IF attempt < 1 THEN 1 ELSE attempt
        b0 == Wrap(baseBackoff * ShiftLeft1(a - 1))
        b1 == IF b0 > maxBackoff THEN maxBackoff ELSE b0
    IN  IF b1 < 0 THEN 0 ELSE b1

\* The comment at line 281: base * 2^(attempt-1), capped at max.
ReferenceBackoff(attempt) ==
    IF baseBackoff * 2^(attempt - 1) > maxBackoff
    THEN maxBackoff ELSE baseBackoff * 2^(attempt - 1)

Methods == {"ReadOnly", "ReadWrite", "ReadOnlyWithContext",
            "ReadWriteWithContext"}

\* What a call returns: nil, the action's error (a panic included), the
\* context's error, ErrConflict or another Commit error.
Results == {"nil", "actionErr", "ctxErr", "conflict", "commitErr"}

VARIABLES
    method,    \* the Execute* method the caller is in ("none" before)
    pc,        \* where the caller is in it
    attempt,   \* the loop variable of ExecuteReadWriteWithContext
    txOpen,    \* the current transaction is neither committed nor discarded
    leaked,    \* transactions left open when the caller moved on
    ctxDone,   \* ctx has been cancelled
    commits,   \* Commit calls made in this call
    conflicts, \* of them, the ones that returned ErrConflict
    result     \* what the call returned ("none" while running)

vars == <<method, pc, attempt, txOpen, leaked, ctxDone, commits, conflicts,
          result>>

Init ==
    /\ method = "none"
    /\ pc = "idle"
    /\ attempt = 0
    /\ txOpen = FALSE
    /\ leaked = 0
    /\ ctxDone = FALSE
    /\ commits = 0
    /\ conflicts = 0
    /\ result = "none"

\* Leave the method returning r; an open transaction left behind is a leak.
Return(r) ==
    /\ pc' = "done"
    /\ result' = r
    /\ leaked' = IF txOpen' THEN leaked + 1 ELSE leaked

\* The caller enters one of the methods with a fresh context; the loop
\* variable and the call's history start over.
Call(m) ==
    /\ pc \in {"idle", "done"}
    /\ method' = m
    /\ pc' = IF m = "ReadWriteWithContext" THEN "loop" ELSE m
    /\ attempt' = 0
    /\ ctxDone' = FALSE
    /\ commits' = 0
    /\ conflicts' = 0
    /\ result' = "none"
    /\ UNCHANGED <<txOpen, leaked>>

\* ExecuteReadOnly (lines 207-211): db.View runs the function in a read
\* transaction that it discards itself.
ExecuteReadOnly ==
    /\ pc = "ReadOnly"
    /\ UNCHANGED txOpen
    /\ \E r \in {"nil", "actionErr"} : Return(r)
    /\ UNCHANGED <<attempt, method, ctxDone, commits, conflicts>>

\* ExecuteReadOnlyWithContext (lines 224-231): ctx is checked once, before
\* db.View.
ExecuteReadOnlyWithContext ==
    /\ pc = "ReadOnlyWithContext"
    /\ UNCHANGED txOpen
    /\ \/ ctxDone /\ Return("ctxErr")
       \/ ~ctxDone /\ \E r \in {"nil", "actionErr"} : Return(r)
    /\ UNCHANGED <<attempt, method, ctxDone, commits, conflicts>>

ReadOnly == ExecuteReadOnly \/ ExecuteReadOnlyWithContext

\* ExecuteReadWrite (lines 213-222): one pass, no retry, Discard deferred.
ReadWriteOnce ==
    /\ pc = "ReadWrite"
    /\ txOpen' = FALSE
    /\ \/ Return("actionErr") /\ UNCHANGED <<commits, conflicts>>
       \/ /\ commits' = commits + 1
          /\ \E r \in {"nil", "conflict", "commitErr"} :
                /\ Return(r)
                /\ conflicts' = IF r = "conflict" THEN conflicts + 1 ELSE conflicts
    /\ UNCHANGED <<attempt, method, ctxDone>>

\* The head of the loop (lines 234-239): check ctx, open a transaction.
LoopStart ==
    /\ pc = "loop"
    /\ \/ /\ ctxDone
          /\ UNCHANGED txOpen
          /\ Return("ctxErr")
       \/ /\ ~ctxDone
          /\ txOpen' = TRUE
          /\ pc' = "run"
          /\ UNCHANGED <<result, leaked>>
    /\ UNCHANGED <<attempt, method, ctxDone, commits, conflicts>>

\* Mutant: the action's error is returned without tx.Discard().
RunActionNoDiscard ==
    /\ pc = "run"
    /\ \/ /\ UNCHANGED txOpen
          /\ Return("actionErr")
       \/ /\ ctxDone
          /\ txOpen' = FALSE
          /\ Return("ctxErr")
       \/ /\ ~ctxDone
          /\ pc' = "commit"
          /\ UNCHANGED <<txOpen, result, leaked>>
    /\ UNCHANGED <<attempt, method, ctxDone, commits, conflicts>>

\* The action runs (a panic is recovered into an error), then ctx is
\* checked again (lines 241-258); both failures discard the transaction.
RunAction ==
    /\ pc = "run"
    /\ \/ /\ txOpen' = FALSE
          /\ Return("actionErr")
       \/ /\ ctxDone
          /\ txOpen' = FALSE
          /\ Return("ctxErr")
       \/ /\ ~ctxDone
          /\ pc' = "commit"
          /\ UNCHANGED <<txOpen, result, leaked>>
    /\ UNCHANGED <<attempt, method, ctxDone, commits, conflicts>>

\* Mutant: a conflict is retried while attempt <= maxRetries.
CommitRetriesOnceMore ==
    /\ pc = "commit"
    /\ commits' = commits + 1
    /\ \/ /\ txOpen' = FALSE
          /\ Return("nil")
          /\ UNCHANGED conflicts
       \/ /\ conflicts' = conflicts + 1
          /\ txOpen' = FALSE
          /\ IF attempt <= maxRetries
             THEN pc' = "sleep" /\ UNCHANGED <<result, leaked>>
             ELSE Return("conflict")
       \/ /\ txOpen' = FALSE
          /\ Return("commitErr")
          /\ UNCHANGED conflicts
    /\ UNCHANGED <<attempt, method, ctxDone>>

\* Mutant: every Commit error is retried, not only badger.ErrConflict.
CommitRetriesAnyError ==
    /\ pc = "commit"
    /\ commits' = commits + 1
    /\ txOpen' = FALSE
    /\ \/ /\ Return("nil")
          /\ UNCHANGED conflicts
       \/ /\ \E isConflict \in BOOLEAN :
                conflicts' = IF isConflict THEN conflicts + 1 ELSE conflicts
          /\ IF attempt < maxRetries
             THEN pc' = "sleep" /\ UNCHANGED <<result, leaked>>
             ELSE Return(IF conflicts' > conflicts THEN "conflict" ELSE "commitErr")
    /\ UNCHANGED <<attempt, method, ctxDone>>

\* tx.Commit() (lines 260-272).  Badger discards a transaction whose commit
\* went through its precheck; a failed one is discarded by the code.  A
\* conflict is retried while attempt < maxRetries, after sleepWithJitter.
Commit ==
    /\ pc = "commit"
    /\ commits' = commits + 1
    /\ \/ /\ txOpen' = FALSE
          /\ Return("nil")
          /\ UNCHANGED conflicts
       \/ /\ conflicts' = conflicts + 1
          /\ txOpen' = FALSE
          /\ IF attempt < maxRetries
             THEN pc' = "sleep" /\ UNCHANGED <<result, leaked>>
             ELSE Return("conflict")
       \/ /\ txOpen' = FALSE
          /\ Return("commitErr")
          /\ UNCHANGED conflicts
    /\ UNCHANGED <<attempt, method, ctxDone>>

\* Mutant: the select waits on ctx.Done() only, the timer case is lost.
SleepWithoutTimer ==
    /\ pc = "sleep"
    /\ UNCHANGED txOpen
    /\ \/ /\ ctxDone
          /\ Return("ctxErr")
          /\ UNCHANGED attempt
       \/ /\ Backoff(attempt + 1) <= 0 /\ ~ctxDone
          /\ attempt' = attempt + 1
          /\ pc' = "loop"
          /\ UNCHANGED <<result, leaked>>
    /\ UNCHANGED <<method, ctxDone, commits, conflicts>>

\* sleepWithJitter(ctx, base, max, attempt+1) (lines 276-312), then
\* `continue`.  With j <= 0 it only polls ctx; otherwise it waits for a
\* timer of at most j or for ctx, whichever select picks.
Sleep ==
    /\ pc = "sleep"
    /\ UNCHANGED txOpen
    /\ \/ /\ ctxDone
          /\ Return("ctxErr")
          /\ UNCHANGED attempt
       \/ /\ Backoff(attempt + 1) > 0 \/ ~ctxDone
          /\ attempt' = attempt + 1
          /\ pc' = "loop"
          /\ UNCHANGED <<result, leaked>>
    /\ UNCHANGED <<method, ctxDone, commits, conflicts>>

\* The caller's context is cancelled.
Cancel ==
    /\ ~ctxDone
    /\ ctxDone' = TRUE
    /\ UNCHANGED <<method, pc, attempt, txOpen, leaked, commits, conflicts,
                   result>>

Next ==
    \/ \E m \in Methods : Call(m)
    \/ ReadOnly \/ ReadWriteOnce
    \/ LoopStart \/ RunAction \/ Commit \/ Sleep
    \/ Cancel

\* The caller's goroutine keeps running until the call returns.
Spec == Init /\ [][Next]_vars /\ WF_vars(ReadOnly \/ ReadWriteOnce \/ LoopStart
                                         \/ RunAction \/ Commit \/ Sleep)

-----------------------------------------------------------------------------
TypeOK ==
    /\ method \in Methods \cup {"none"}
    /\ pc \in {"idle", "loop", "run", "commit", "sleep", "done"} \cup Methods
    /\ attempt \in 0..maxRetries
    /\ txOpen \in BOOLEAN
    /\ leaked \in Nat
    /\ ctxDone \in BOOLEAN
    /\ commits \in Nat /\ conflicts \in 0..commits
    /\ result \in Results \cup {"none"}

\* No Execute* call leaves a Badger transaction open: every NewTransaction
\* is committed or discarded on each of the return paths of the loop
\* (action error or panic, cancelled ctx, Commit error, give-up, success).
NoTransactionLeak == leaked = 0 /\ (pc = "done" => ~txOpen)

\* ExecuteReadWriteWithContext gives up with ErrConflict only after
\* maxRetries retries: maxRetries + 1 commits, each of which conflicted.
ConflictOnlyAfterAllRetries ==
    (method = "ReadWriteWithContext" /\ result = "conflict")
        => commits = maxRetries + 1 /\ conflicts = commits

\* Every call returns: the retry loop is bounded and every sleep ends,
\* whether or not the context is ever cancelled.
CallReturns == (pc \notin {"idle", "done"}) ~> (pc = "done")

\* Seen from the caller, every Execute* call keeps the TxContract: one
\* return with an outcome its method can produce, the context's error only
\* after a cancel, a retry only after a conflicting commit, at most one
\* commit for ExecuteReadWrite and maxRetries + 1 for the loop, and
\* ErrConflict only once all of them conflicted.
Contract == INSTANCE TxContract
                WITH Retries <- maxRetries,
                     busy <- pc \notin {"idle", "done"}

ImplementsTxContract == Contract!Spec

\* sleepWithJitter computes the backoff the comment at line 281 promises,
\* base * 2^(attempt-1) capped at max, for every attempt the loop reaches.
BackoffAsDocumented ==
    \A a \in 1..maxRetries : Backoff(a) = ReferenceBackoff(a)
=============================================================================
