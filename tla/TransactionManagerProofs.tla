---------------------- MODULE TransactionManagerProofs ----------------------
(***************************************************************************)
(* Proofs that every behaviour of the transaction Manager keeps its type,  *)
(* never leaves a Badger transaction open, and returns ErrConflict only    *)
(* after all its retries, for every option and every width; and that it   *)
(* implements the caller's contract TxContract.                            *)
(***************************************************************************)
EXTENDS TransactionManager, TLAPS

RWC == "ReadWriteWithContext"

\* The retry loop's bookkeeping: inside ExecuteReadWriteWithContext every
\* commit so far conflicted, and there was one per completed attempt.
LoopAccounting ==
    /\ pc \in {"loop", "run", "commit", "sleep"} => method = RWC
    /\ pc \in Methods => method = pc
    /\ pc \in {"loop", "run", "commit"} =>
          commits = attempt /\ conflicts = commits
    /\ pc = "sleep" =>
          commits = attempt + 1 /\ conflicts = commits /\ attempt < maxRetries
    /\ txOpen => pc \in {"run", "commit"}

IInv ==
    /\ TypeOK
    /\ LoopAccounting
    /\ NoTransactionLeak
    /\ ConflictOnlyAfterAllRetries

LEMMA MaxRetriesNat == maxRetries \in Nat \ {0}
    BY OptionsAssumption DEF maxRetries, Effective

\* TypeOK split by the sort of its variables: the provers handle the
\* strings, the integers and the Booleans best one group at a time.
TypeLabels ==
    /\ method \in Methods \cup {"none"}
    /\ pc \in {"idle", "loop", "run", "commit", "sleep", "done"} \cup Methods
    /\ result \in Results \cup {"none"}
TypeCounters ==
    /\ attempt \in 0..maxRetries
    /\ leaked \in Nat
    /\ commits \in Nat /\ conflicts \in 0..commits
TypeFlags == txOpen \in BOOLEAN /\ ctxDone \in BOOLEAN

LEMMA TypeOKSplit == TypeOK <=> TypeLabels /\ TypeCounters /\ TypeFlags
    BY DEF TypeOK, TypeLabels, TypeCounters, TypeFlags

IInvSplit ==
    /\ TypeLabels /\ TypeCounters /\ TypeFlags
    /\ LoopAccounting /\ NoTransactionLeak /\ ConflictOnlyAfterAllRetries

LEMMA IInvEquiv == IInv <=> IInvSplit
    BY TypeOKSplit DEF IInv, IInvSplit

LEMMA InitIInv == Init => IInv
<1> SUFFICES ASSUME Init PROVE IInvSplit
    BY IInvEquiv
<1>1. TypeFlags
    BY Zenon DEF Init, TypeFlags
<1>2. TypeLabels /\ TypeCounters
    BY MaxRetriesNat DEF Init, TypeLabels, TypeCounters, Methods, Results
<1>3. LoopAccounting /\ NoTransactionLeak /\ ConflictOnlyAfterAllRetries
    BY DEF Init, LoopAccounting, NoTransactionLeak, ConflictOnlyAfterAllRetries, Methods
<1>4. QED
    BY <1>1, <1>2, <1>3 DEF IInvSplit

LEMMA NextIInv == IInv /\ [Next]_vars => IInv'
<1> SUFFICES ASSUME IInvSplit, [Next]_vars PROVE IInvSplit'
    BY Zenon DEF IInv, IInvSplit, TypeOK, TypeLabels, TypeCounters, TypeFlags
<1> USE MaxRetriesNat DEF IInvSplit, TypeLabels, TypeCounters, TypeFlags, LoopAccounting,
        NoTransactionLeak, ConflictOnlyAfterAllRetries, Methods, Results, RWC
<1>1. ASSUME NEW m \in Methods, Call(m) PROVE IInvSplit'
    <2>1. TypeLabels'
        BY <1>1 DEF Call
    <2>2. TypeCounters'
        BY <1>1 DEF Call
    <2>3. TypeFlags'
        BY <1>1 DEF Call
    <2>4. LoopAccounting'
        BY <1>1 DEF Call
    <2>5. NoTransactionLeak'
        BY <1>1 DEF Call
    <2>6. ConflictOnlyAfterAllRetries'
        BY <1>1 DEF Call
    <2>7. QED
        BY <2>1, <2>2, <2>3, <2>4, <2>5, <2>6 DEF IInvSplit
<1>2. CASE ReadOnly
    <2>1. TypeLabels'
        BY <1>2 DEF ReadOnly, ExecuteReadOnly, ExecuteReadOnlyWithContext, Return
    <2>2. TypeCounters'
        BY <1>2 DEF ReadOnly, ExecuteReadOnly, ExecuteReadOnlyWithContext, Return
    <2>3. TypeFlags'
        BY <1>2 DEF ReadOnly, ExecuteReadOnly, ExecuteReadOnlyWithContext, Return
    <2>4. LoopAccounting'
        BY <1>2 DEF ReadOnly, ExecuteReadOnly, ExecuteReadOnlyWithContext, Return
    <2>5. NoTransactionLeak'
        BY <1>2 DEF ReadOnly, ExecuteReadOnly, ExecuteReadOnlyWithContext, Return
    <2>6. ConflictOnlyAfterAllRetries'
        BY <1>2 DEF ReadOnly, ExecuteReadOnly, ExecuteReadOnlyWithContext, Return
    <2>7. QED
        BY <2>1, <2>2, <2>3, <2>4, <2>5, <2>6 DEF IInvSplit
<1>3. CASE ReadWriteOnce
    <2>1. TypeLabels'
        BY <1>3 DEF ReadWriteOnce, Return
    <2>2. TypeCounters'
        BY <1>3 DEF ReadWriteOnce, Return
    <2>3. TypeFlags'
        BY <1>3 DEF ReadWriteOnce, Return
    <2>4. LoopAccounting'
        BY <1>3 DEF ReadWriteOnce, Return
    <2>5. NoTransactionLeak'
        BY <1>3 DEF ReadWriteOnce, Return
    <2>6. ConflictOnlyAfterAllRetries'
        BY <1>3 DEF ReadWriteOnce, Return
    <2>7. QED
        BY <2>1, <2>2, <2>3, <2>4, <2>5, <2>6 DEF IInvSplit
<1>4. CASE LoopStart
    <2>1. TypeLabels'
        BY <1>4 DEF LoopStart, Return
    <2>2. TypeCounters'
        BY <1>4 DEF LoopStart, Return
    <2>3. TypeFlags'
        BY <1>4 DEF LoopStart, Return
    <2>4. LoopAccounting'
        BY <1>4 DEF LoopStart, Return
    <2>5. NoTransactionLeak'
        BY <1>4 DEF LoopStart, Return
    <2>6. ConflictOnlyAfterAllRetries'
        BY <1>4 DEF LoopStart, Return
    <2>7. QED
        BY <2>1, <2>2, <2>3, <2>4, <2>5, <2>6 DEF IInvSplit
<1>5. CASE RunAction
    <2>1. TypeLabels'
        BY <1>5 DEF RunAction, Return
    <2>2. TypeCounters'
        BY <1>5 DEF RunAction, Return
    <2>3. TypeFlags'
        BY <1>5 DEF RunAction, Return
    <2>4. LoopAccounting'
        BY <1>5 DEF RunAction, Return
    <2>5. NoTransactionLeak'
        BY <1>5 DEF RunAction, Return
    <2>6. ConflictOnlyAfterAllRetries'
        BY <1>5 DEF RunAction, Return
    <2>7. QED
        BY <2>1, <2>2, <2>3, <2>4, <2>5, <2>6 DEF IInvSplit
<1>6. CASE Commit
    <2>1. TypeLabels'
        BY <1>6 DEF Commit, Return
    <2>2. TypeCounters'
        BY <1>6 DEF Commit, Return
    <2>3. TypeFlags'
        BY <1>6 DEF Commit, Return
    <2>4. LoopAccounting'
        BY <1>6 DEF Commit, Return
    <2>5. NoTransactionLeak'
        BY <1>6 DEF Commit, Return
    <2>6. ConflictOnlyAfterAllRetries'
        BY <1>6 DEF Commit, Return
    <2>7. QED
        BY <2>1, <2>2, <2>3, <2>4, <2>5, <2>6 DEF IInvSplit
<1>7. CASE Sleep
    <2>1. TypeLabels'
        BY <1>7 DEF Sleep, Return
    <2>2. TypeCounters'
        BY <1>7 DEF Sleep, Return
    <2>3. TypeFlags'
        BY <1>7 DEF Sleep, Return
    <2>4. LoopAccounting'
        BY <1>7 DEF Sleep, Return
    <2>5. NoTransactionLeak'
        BY <1>7 DEF Sleep, Return
    <2>6. ConflictOnlyAfterAllRetries'
        BY <1>7 DEF Sleep, Return
    <2>7. QED
        BY <2>1, <2>2, <2>3, <2>4, <2>5, <2>6 DEF IInvSplit
<1>8. CASE Cancel
    <2>1. TypeLabels'
        BY <1>8 DEF Cancel
    <2>2. TypeCounters'
        BY <1>8 DEF Cancel
    <2>3. TypeFlags'
        BY <1>8 DEF Cancel
    <2>4. LoopAccounting'
        BY <1>8 DEF Cancel
    <2>5. NoTransactionLeak'
        BY <1>8 DEF Cancel
    <2>6. ConflictOnlyAfterAllRetries'
        BY <1>8 DEF Cancel
    <2>7. QED
        BY <2>1, <2>2, <2>3, <2>4, <2>5, <2>6 DEF IInvSplit
<1>9. CASE UNCHANGED vars
    <2>1. TypeLabels'
        BY <1>9 DEF vars
    <2>2. TypeCounters'
        BY <1>9 DEF vars
    <2>3. TypeFlags'
        BY <1>9 DEF vars
    <2>4. LoopAccounting'
        BY <1>9 DEF vars
    <2>5. NoTransactionLeak'
        BY <1>9 DEF vars
    <2>6. ConflictOnlyAfterAllRetries'
        BY <1>9 DEF vars
    <2>7. QED
        BY <2>1, <2>2, <2>3, <2>4, <2>5, <2>6 DEF IInvSplit
<1>10. QED
    BY <1>1, <1>2, <1>3, <1>4, <1>5, <1>6, <1>7, <1>8, <1>9 DEF Next

\* No Execute* call leaves a Badger transaction open, whatever the options.
THEOREM NoTransactionLeakHolds == Spec => []NoTransactionLeak
<1>1. Spec => []IInv
    BY InitIInv, NextIInv, PTL DEF Spec
<1>2. QED
    BY <1>1, PTL DEF IInv

\* ErrConflict is returned only after maxRetries + 1 conflicting commits,
\* for every value of TxManagerOptions.
THEOREM ConflictOnlyAfterAllRetriesHolds == Spec => []ConflictOnlyAfterAllRetries
<1>1. Spec => []IInv
    BY InitIInv, NextIInv, PTL DEF Spec
<1>2. QED
    BY <1>1, PTL DEF IInv

\* The loop variable never exceeds maxRetries and every variable keeps
\* its type.
THEOREM TxTypeCorrect == Spec => []TypeOK
<1>1. Spec => []IInv
    BY InitIInv, NextIInv, PTL DEF Spec
<1>2. QED
    BY <1>1, PTL DEF IInv
-----------------------------------------------------------------------------
(***************************************************************************)
(* The Manager implements the TxContract: every step of a call is a step   *)
(* of the contract or leaves the caller's view unchanged.                  *)
(***************************************************************************)

\* A call that has not yet started its loop has made no commit.
CallAccounting == pc \in Methods => commits = 0 /\ conflicts = 0

RInv == IInv /\ CallAccounting

LEMMA InitRInv == Init => RInv
    BY InitIInv DEF Init, RInv, CallAccounting, Methods

LEMMA NextRInv == RInv /\ [Next]_vars => RInv'
<1> SUFFICES ASSUME RInv, [Next]_vars PROVE RInv'
    OBVIOUS
<1>1. IInv'
    BY NextIInv DEF RInv
<1>2. CallAccounting'
    <2> USE DEF RInv, CallAccounting, Methods
    <2>1. ASSUME NEW m \in Methods, Call(m) PROVE CallAccounting'
        BY <2>1 DEF Call
    <2>2. CASE ReadOnly
        BY <2>2 DEF ReadOnly, ExecuteReadOnly, ExecuteReadOnlyWithContext, Return
    <2>3. CASE ReadWriteOnce
        BY <2>3 DEF ReadWriteOnce, Return
    <2>4. CASE LoopStart
        BY <2>4 DEF LoopStart, Return
    <2>5. CASE RunAction
        BY <2>5 DEF RunAction, Return
    <2>6. CASE Commit
        BY <2>6 DEF Commit, Return
    <2>7. CASE Sleep
        BY <2>7 DEF Sleep, Return
    <2>8. CASE Cancel
        BY <2>8 DEF Cancel
    <2>9. CASE UNCHANGED vars
        BY <2>9 DEF vars
    <2>10. QED
        BY <2>1, <2>2, <2>3, <2>4, <2>5, <2>6, <2>7, <2>8, <2>9 DEF Next
<1>3. QED
    BY <1>1, <1>2 DEF RInv

\* The facts of RInv the refinement steps use, with the mapping of busy.
LEMMA RInvFacts ==
    ASSUME RInv
    PROVE  /\ TypeOK
           /\ maxRetries \in Nat \ {0}
           /\ pc \in Methods => method = pc /\ commits = 0 /\ conflicts = 0
           /\ pc \in {"loop", "run", "commit", "sleep"} => method = RWC
           /\ pc \in {"loop", "run", "commit"} =>
                 commits = attempt /\ conflicts = commits
    BY MaxRetriesNat DEF RInv, IInv, LoopAccounting, CallAccounting

LEMMA InitRefines == Init => Contract!Init
    BY DEF Init, Contract!Init

LEMMA CallRefines ==
    ASSUME RInv, NEW m \in Methods, Call(m)
    PROVE  Contract!Call(m)
    BY DEF Call, Contract!Call, Methods

LEMMA ReadOnlyRefines ==
    ASSUME RInv, ReadOnly
    PROVE  \E r \in Results : Contract!Return(r)
<1>0. /\ pc \in {"ReadOnly", "ReadOnlyWithContext"}
      /\ method = pc /\ commits = 0 /\ conflicts = 0
    BY RInvFacts DEF ReadOnly, ExecuteReadOnly, ExecuteReadOnlyWithContext, Methods
<1>1. PICK r \in {"nil", "actionErr", "ctxErr"} :
         /\ Return(r)
         /\ r = "ctxErr" => ctxDone /\ pc = "ReadOnlyWithContext"
         /\ UNCHANGED <<method, ctxDone, commits, conflicts>>
    BY DEF ReadOnly, ExecuteReadOnly, ExecuteReadOnlyWithContext
<1>2. Contract!Return(r)
    BY <1>0, <1>1 DEF Return, Contract!Return, Contract!Outcomes,
       Contract!CommitOutcomes, Contract!Budget, Contract!Writers,
       Contract!WithContext
<1>3. QED
    BY <1>2 DEF Results

LEMMA ReadWriteOnceRefines ==
    ASSUME RInv, ReadWriteOnce
    PROVE  \E r \in Results : Contract!Return(r)
<1>0. /\ pc = "ReadWrite" /\ method = "ReadWrite"
      /\ commits = 0 /\ conflicts = 0
    BY RInvFacts DEF ReadWriteOnce, Methods
<1>1. PICK r \in Results :
         /\ Return(r)
         /\ r \in {"nil", "actionErr", "conflict", "commitErr"}
         /\ commits' = IF r = "actionErr" THEN commits ELSE commits + 1
         /\ conflicts' = IF r = "conflict" THEN conflicts + 1 ELSE conflicts
         /\ UNCHANGED <<method, ctxDone>>
    BY DEF ReadWriteOnce, Results
<1>2. Contract!Return(r)
    BY <1>0, <1>1 DEF Return, Contract!Return, Contract!Outcomes,
       Contract!CommitOutcomes, Contract!Budget, Contract!Writers,
       Contract!WithContext
<1>3. QED
    BY <1>2

LEMMA LoopStartRefines ==
    ASSUME RInv, LoopStart
    PROVE  Contract!Return("ctxErr") \/ UNCHANGED Contract!vars
<1>0. /\ pc = "loop" /\ method = RWC /\ commits = attempt
      /\ attempt \in 0..maxRetries /\ maxRetries \in Nat
    BY RInvFacts DEF LoopStart, TypeOK
<1>1. CASE ctxDone /\ Return("ctxErr")
    BY <1>0, <1>1 DEF LoopStart, Return, Contract!Return, Contract!Outcomes,
       Contract!CommitOutcomes, Contract!Budget, Contract!Writers,
       Contract!WithContext, RWC
<1>2. CASE pc' = "run"
    BY <1>2, <1>0 DEF LoopStart, Return, Contract!vars
<1>3. QED
    BY <1>1, <1>2 DEF LoopStart, Return

LEMMA RunActionRefines ==
    ASSUME RInv, RunAction
    PROVE  (\E r \in Results : Contract!Return(r)) \/ UNCHANGED Contract!vars
<1>0. /\ pc = "run" /\ method = RWC /\ commits = attempt
      /\ attempt \in 0..maxRetries /\ maxRetries \in Nat
    BY RInvFacts DEF RunAction, TypeOK
<1>1. CASE Return("actionErr")
    <2>1. Contract!Return("actionErr")
        BY <1>0, <1>1 DEF RunAction, Return, Contract!Return, Contract!Outcomes,
           Contract!CommitOutcomes, Contract!Budget, Contract!Writers,
           Contract!WithContext, RWC
    <2>2. QED
        BY <2>1 DEF Results
<1>2. CASE ctxDone /\ Return("ctxErr")
    <2>1. Contract!Return("ctxErr")
        BY <1>0, <1>2 DEF RunAction, Return, Contract!Return, Contract!Outcomes,
           Contract!CommitOutcomes, Contract!Budget, Contract!Writers,
           Contract!WithContext, RWC
    <2>2. QED
        BY <2>1 DEF Results
<1>3. CASE pc' = "commit"
    BY <1>0, <1>3 DEF RunAction, Return, Contract!vars
<1>4. QED
    BY <1>1, <1>2, <1>3 DEF RunAction

LEMMA CommitRefines ==
    ASSUME RInv, Commit
    PROVE  (\E r \in Results : Contract!Return(r)) \/ Contract!Retry
<1>0. /\ pc = "commit" /\ method = RWC
      /\ commits = attempt /\ conflicts = commits
      /\ attempt \in 0..maxRetries /\ maxRetries \in Nat
    BY RInvFacts DEF Commit, TypeOK
<1>1. CASE Return("nil") /\ commits' = commits + 1 /\ UNCHANGED conflicts
    <2>1. Contract!Return("nil")
        BY <1>0, <1>1 DEF Commit, Return, Contract!Return, Contract!Outcomes,
           Contract!CommitOutcomes, Contract!Budget, Contract!Writers,
           Contract!WithContext, RWC
    <2>2. QED
        BY <2>1 DEF Results
<1>2. CASE Return("commitErr") /\ commits' = commits + 1 /\ UNCHANGED conflicts
    <2>1. Contract!Return("commitErr")
        BY <1>0, <1>2 DEF Commit, Return, Contract!Return, Contract!Outcomes,
           Contract!CommitOutcomes, Contract!Budget, Contract!Writers,
           Contract!WithContext, RWC
    <2>2. QED
        BY <2>1 DEF Results
<1>3. CASE /\ conflicts' = conflicts + 1 /\ commits' = commits + 1
           /\ attempt < maxRetries
           /\ pc' = "sleep" /\ UNCHANGED <<result, leaked>>
    BY <1>0, <1>3 DEF Commit, Contract!Retry, Contract!Budget, RWC
<1>4. CASE /\ conflicts' = conflicts + 1 /\ commits' = commits + 1
           /\ ~(attempt < maxRetries)
           /\ Return("conflict")
    <2>1. Contract!Return("conflict")
        BY <1>0, <1>4 DEF Commit, Return, Contract!Return, Contract!Outcomes,
           Contract!CommitOutcomes, Contract!Budget, Contract!Writers,
           Contract!WithContext, RWC
    <2>2. QED
        BY <2>1 DEF Results
<1>5. QED
    BY <1>1, <1>2, <1>3, <1>4 DEF Commit

LEMMA SleepRefines ==
    ASSUME RInv, Sleep
    PROVE  Contract!Return("ctxErr") \/ UNCHANGED Contract!vars
<1>0. /\ pc = "sleep" /\ method = RWC
      /\ commits = attempt + 1 /\ attempt < maxRetries
      /\ attempt \in Nat /\ maxRetries \in Nat
    BY RInvFacts DEF Sleep, TypeOK, RInv, IInv, LoopAccounting
<1>1. CASE ctxDone /\ Return("ctxErr")
    BY <1>0, <1>1 DEF Sleep, Return, Contract!Return, Contract!Outcomes,
       Contract!CommitOutcomes, Contract!Budget, Contract!Writers,
       Contract!WithContext, RWC
<1>2. CASE pc' = "loop"
    BY <1>0, <1>2 DEF Sleep, Return, Contract!vars
<1>3. QED
    BY <1>1, <1>2 DEF Sleep

\* Every step of the Manager is a step of the TxContract or leaves the
\* caller's view (method, running, ctx, commits, conflicts, result) as it is.
LEMMA NextRefines == RInv /\ [Next]_vars => [Contract!Next]_Contract!vars
<1> SUFFICES ASSUME RInv, [Next]_vars PROVE [Contract!Next]_Contract!vars
    OBVIOUS
<1>1. ASSUME NEW m \in Methods, Call(m) PROVE Contract!Next
    BY <1>1, CallRefines DEF Contract!Next, Contract!Methods, Methods
<1>2. CASE ReadOnly
    BY <1>2, ReadOnlyRefines DEF Contract!Next, Contract!Results, Results
<1>3. CASE ReadWriteOnce
    BY <1>3, ReadWriteOnceRefines DEF Contract!Next, Contract!Results, Results
<1>4. CASE LoopStart
    BY <1>4, LoopStartRefines DEF Contract!Next, Contract!Results
<1>5. CASE RunAction
    BY <1>5, RunActionRefines DEF Contract!Next, Contract!Results, Results
<1>6. CASE Commit
    BY <1>6, CommitRefines DEF Contract!Next, Contract!Results, Results
<1>7. CASE Sleep
    BY <1>7, SleepRefines DEF Contract!Next, Contract!Results
<1>8. CASE Cancel
    BY <1>8 DEF Cancel, Contract!Cancel, Contract!Next
<1>9. CASE UNCHANGED vars
    BY <1>9 DEF vars, Contract!vars
<1>10. QED
    BY <1>1, <1>2, <1>3, <1>4, <1>5, <1>6, <1>7, <1>8, <1>9 DEF Next

\* Seen from the caller, the Manager keeps the TxContract for every option:
\* each Execute* call returns once with an outcome its method can produce,
\* ctx's error only after a cancel, and commits within its budget, the loop
\* retrying only conflicts and returning ErrConflict only when all of its
\* maxRetries + 1 commits conflicted.
THEOREM RefinesTxContract == Spec => ImplementsTxContract
<1>1. Init => RInv
    BY InitRInv
<1>2. Spec => []RInv
    BY <1>1, NextRInv, PTL DEF Spec
<1>3. QED
    BY <1>2, InitRefines, NextRefines, PTL
       DEF Spec, ImplementsTxContract, Contract!Spec
=============================================================================
