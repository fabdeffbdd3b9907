--------------------------- MODULE StoreLifecycle ---------------------------
(***************************************************************************)
(* The lifecycle of the sdk Store (src/sdk/gc.go): Open starts the value-  *)
(* log GC goroutine (when GCInterval > 0 and the DB is neither in memory   *)
(* nor read-only) and the monitoring goroutine; Close closes stopGC and    *)
(* then the Badger DB.  Set and Delete leave garbage in the value log that *)
(* RunValueLogGC reclaims, one file per call that returns nil.             *)
(*                                                                         *)
(* Badger is abstracted to whether it is closed and how much reclaimable   *)
(* garbage it holds; a goroutine inside a Badger call is a pc of its own.  *)
(***************************************************************************)
EXTENDS Naturals

CONSTANTS
    GCEnabled,   \* opts.GCInterval > 0 && !opts.InMemory && !opts.ReadOnly
    MaxGarbage   \* bound on the reclaimable value-log files

ASSUME LifecycleAssumption == GCEnabled \in BOOLEAN /\ MaxGarbage \in Nat

VARIABLES
    garbage,     \* value-log files RunValueLogGC could rewrite
    stopGC,      \* the stopGC channel is closed
    dbClosed,    \* db.Close() has run
    closePc,     \* the caller of Close: "open", "closing" (between the two
                 \* statements), "closed"
    gcPc,        \* the GC goroutine: "none", "select", "gc" (in gcLoop), "exited"
    monPc,       \* the monitoring goroutine: "select", "stats", "exited"
    ctxDone      \* the ctx given to Open is cancelled

vars == <<garbage, stopGC, dbClosed, closePc, gcPc, monPc, ctxDone>>

\* Open, once badger.Open has succeeded: the Store with an open stopGC, and
\* its goroutines started.
Init ==
    /\ garbage = 0
    /\ stopGC = FALSE
    /\ dbClosed = FALSE
    /\ closePc = "open"
    /\ gcPc = IF GCEnabled THEN "select" ELSE "none"
    /\ monPc = "select"
    /\ ctxDone = FALSE

\* Set and Delete: db.Update; on a closed DB it returns ErrDBClosed.
Update ==
    /\ ~dbClosed
    /\ garbage < MaxGarbage
    /\ garbage' = garbage + 1
    /\ UNCHANGED <<stopGC, dbClosed, closePc, gcPc, monPc, ctxDone>>

\* Close, first statement: close(s.stopGC).
CloseStopGC ==
    /\ closePc = "open"
    /\ stopGC' = TRUE
    /\ closePc' = "closing"
    /\ UNCHANGED <<garbage, dbClosed, gcPc, monPc, ctxDone>>

\* Close, second statement: s.db.Close().
CloseDB ==
    /\ closePc = "closing"
    /\ dbClosed' = TRUE
    /\ closePc' = "closed"
    /\ UNCHANGED <<garbage, stopGC, gcPc, monPc, ctxDone>>

\* Mutant: the select has lost its stopGC case.
SelectWithoutStopCase == FALSE

\* runGC's select, stopGC case.
GCStop ==
    /\ gcPc = "select"
    /\ stopGC
    /\ gcPc' = "exited"
    /\ UNCHANGED <<garbage, stopGC, dbClosed, closePc, monPc, ctxDone>>

\* runGC's select, ticker case: enter gcLoop.  The ticker is ready whether
\* or not stopGC is closed, and select picks either ready case.
GCTick ==
    /\ gcPc = "select"
    /\ gcPc' = "gc"
    /\ UNCHANGED <<garbage, stopGC, dbClosed, closePc, monPc, ctxDone>>

\* One RunValueLogGC(0.5): nil after rewriting a file, and the loop goes
\* on; an error (nothing to rewrite, or the DB is closed) breaks gcLoop.
GCRun ==
    /\ gcPc = "gc"
    /\ \/ /\ garbage > 0 /\ ~dbClosed
          /\ garbage' = garbage - 1
          /\ UNCHANGED gcPc
       \/ /\ gcPc' = "select"
          /\ UNCHANGED garbage
    /\ UNCHANGED <<stopGC, dbClosed, closePc, monPc, ctxDone>>

\* The GC goroutine's select.
RunGC == GCStop \/ GCTick

\* runMonitoring's select: ctx.Done ends it, the ticker runs
\* StartBadgerMemStats, which reads the DB's cache metrics and sizes.
MonStop ==
    /\ monPc = "select"
    /\ ctxDone
    /\ monPc' = "exited"
    /\ UNCHANGED <<garbage, stopGC, dbClosed, closePc, gcPc, ctxDone>>

MonTick ==
    /\ monPc = "select"
    /\ monPc' = "stats"
    /\ UNCHANGED <<garbage, stopGC, dbClosed, closePc, gcPc, ctxDone>>

MonStats ==
    /\ monPc = "stats"
    /\ monPc' = "select"
    /\ UNCHANGED <<garbage, stopGC, dbClosed, closePc, gcPc, ctxDone>>

\* The owner of Open's ctx cancels it.
Cancel ==
    /\ ~ctxDone
    /\ ctxDone' = TRUE
    /\ UNCHANGED <<garbage, stopGC, dbClosed, closePc, gcPc, monPc>>

Next ==
    \/ Update \/ CloseStopGC \/ CloseDB
    \/ RunGC \/ GCRun
    \/ MonStop \/ MonTick \/ MonStats
    \/ Cancel

\* Running goroutines keep running (weak fairness), and Go's select picks
\* among ready cases uniformly at random, so a case that is ready every
\* time the select is reached is eventually taken (strong fairness).
\* Nothing obliges the owner to call Close or to cancel ctx.
Spec ==
    /\ Init /\ [][Next]_vars
    /\ WF_vars(CloseDB)
    /\ WF_vars(GCTick \/ GCRun) /\ SF_vars(GCStop)
    /\ WF_vars(MonTick \/ MonStats) /\ SF_vars(MonStop)

-----------------------------------------------------------------------------
\* After Close, the GC goroutine stops: every gcLoop ends and select ends
\* up taking the closed stopGC.
GCStopsAfterClose == stopGC ~> (gcPc \in {"none", "exited"})

\* After Close, the monitoring goroutine stops too.
MonitoringStopsAfterClose == (closePc = "closed") ~> (monPc = "exited")

\* When Close returns, the GC goroutine is not inside a Badger call, and it
\* never enters one on the closed DB.
NoGCAfterClose == closePc = "closed" => gcPc # "gc"
=============================================================================
