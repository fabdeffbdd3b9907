--------------------------- MODULE BackupSchedule ---------------------------
(***************************************************************************)
(* The backup schedule of the sdk (src/sdk/backup.go): RunBackupSchedule-  *)
(* WithVersion loads `since` from its file, takes a full backup when it is *)
(* 0, then a goroutine wakes at every hour boundary and takes a full       *)
(* backup when the wake-up is within a minute of midnight and an           *)
(* incremental one otherwise.  Every backup that succeeds moves `since` to *)
(* lastTs + 1 and saves it, atomically, in the since file.                 *)
(*                                                                         *)
(* Time is a natural counting a unit; a minute is MinuteLen units, an hour *)
(* HourLen, a day DayHours hours.  A timer fires at its deadline or up to  *)
(* MaxLate units after it (a busy machine, a long backup, a paused VM).    *)
(* The Badger database is abstracted to its commit versions 1..dbVer, each *)
(* a write of its own key, and stream.Backup(w, since) to what it dumps:   *)
(* the versions >= since, returning the largest one dumped (0 when none).  *)
(* A backup file is the set of versions it holds, named by day (full) or   *)
(* by hour (incremental) as the code names it.                             *)
(***************************************************************************)
EXTENDS Naturals, FiniteSets

CONSTANTS
    MinuteLen,    \* units per minute
    HourLen,      \* units per hour
    DayHours,     \* hours per day
    MaxLate,      \* how late a timer may fire, in units
    MaxTime,      \* the horizon of the runs
    MaxVersions,  \* bound on the database's commits
    MaxRestarts   \* bound on process restarts

ASSUME ClockAssumption ==
    /\ {MinuteLen, HourLen, DayHours} \subseteq Nat \ {0}
    /\ {MaxLate, MaxTime, MaxVersions, MaxRestarts} \subseteq Nat

DayLen == HourLen * DayHours

\* time.Truncate(d) then Add(d): the first multiple of d after t.
NextBoundary(t, d) == (t \div d) * d + d

\* The two file names of the code: full-<v>-<day>, incr-<v>-<day>-<hour>.
FullName(t) == <<"full", t \div DayLen>>
IncrName(t) == <<"incr", t \div HourLen>>
Names == {FullName(t) : t \in 0..MaxTime} \cup {IncrName(t) : t \in 0..MaxTime}

Versions == 1..MaxVersions

MaxOf(S) == CHOOSE m \in S : \A x \in S : x <= m

VARIABLES
    clock,        \* time of the last event
    up,           \* the process is running (the goroutine is scheduled)
    restarts,     \* restarts so far
    dbVer,        \* last committed version of the database
    since,        \* the in-memory `since` of RunBackupScheduleWithVersion
    sinceFile,    \* the content of since-<v>.txt (0 when absent)
    nextHour,     \* the goroutine's nextHour
    nextDay,      \* the goroutine's nextDay
    files,        \* backup file name -> versions it holds ({} when absent)
    lastFullTry   \* time of the last full backup attempt

vars == <<clock, up, restarts, dbVer, since, sinceFile, nextHour, nextDay,
          files, lastFullTry>>

\* loadSince: the file's number, 0 when it is missing or does not parse
\* (saveSince only ever leaves a complete number in it).
LoadSince == sinceFile

\* saveSince: written through a temporary file and a rename, so the file
\* holds the old value or the new one; its error is ignored.
SaveSince(s) == sinceFile' \in {sinceFile, s}

\* Mutant: an empty stream is taken to have reached `from`, so since moves
\* past it.
BackupEmptyAdvances(n, from, s0) ==
    LET dumped == {v \in 1..dbVer : v >= from}
        last   == IF dumped = {} THEN from ELSE MaxOf(dumped)
    IN  \/ /\ files' = [files EXCEPT ![n] = dumped]
           /\ since' = last + 1
           /\ SaveSince(last + 1)
        \/ /\ files' \in {files, [files EXCEPT ![n] = {}]}
           /\ since' = s0
           /\ UNCHANGED sinceFile

\* stream.Backup(w, from) into file n at the current state, then since =
\* last + 1 and saveSince.  On error (os.Create, the stream, the gzip or
\* file Close) the file is absent, untouched, or truncated and unusable,
\* and since keeps its value s0.
Backup(n, from, s0) ==
    LET dumped == {v \in 1..dbVer : v >= from}
        last   == IF dumped = {} THEN 0 ELSE MaxOf(dumped)
    IN  \/ /\ files' = [files EXCEPT ![n] = dumped]
           /\ since' = last + 1
           /\ SaveSince(last + 1)
        \/ /\ files' \in {files, [files EXCEPT ![n] = {}]}
           /\ since' = s0
           /\ UNCHANGED sinceFile

\* doFull: FullBackupToFile(ctx, full-<v>-<day>) streams from 0.
DoFull(t) == Backup(FullName(t), 0, since) /\ lastFullTry' = t

\* Mutant: the incremental streams from since + 1.
DoIncrFromNext(t) == Backup(IncrName(t), since + 1, since) /\ UNCHANGED lastFullTry

\* doIncr: IncrementalBackupToFile(ctx, incr-<v>-<day>-<hour>, since).
DoIncr(t) == Backup(IncrName(t), since, since) /\ UNCHANGED lastFullTry

Init ==
    /\ clock \in 0..(DayLen - 1)
    /\ up = FALSE
    /\ restarts = 0
    /\ dbVer = 0
    /\ since = 0
    /\ sinceFile = 0
    /\ nextHour = 0
    /\ nextDay = 0
    /\ files = [n \in Names |-> {}]
    /\ lastFullTry = clock

\* RunBackupScheduleWithVersion: since = loadSince (0 when the file is
\* missing), a full backup when it is 0, and the goroutine aligns its
\* first hour and day.
Start ==
    /\ ~up
    /\ up' = TRUE
    /\ nextHour' = NextBoundary(clock, HourLen)
    /\ nextDay' = NextBoundary(clock, DayLen)
    /\ \/ /\ LoadSince = 0
          /\ Backup(FullName(clock), 0, 0)
          /\ lastFullTry' = clock
       \/ /\ LoadSince # 0
          /\ since' = LoadSince
          /\ UNCHANGED <<files, sinceFile, lastFullTry>>
    /\ UNCHANGED <<clock, restarts, dbVer>>

\* The process stops (crash, deploy, ctx cancelled): the goroutine and the
\* in-memory since are gone; files and the database remain.
Crash ==
    /\ up
    /\ restarts < MaxRestarts
    /\ up' = FALSE
    /\ restarts' = restarts + 1
    /\ UNCHANGED <<clock, dbVer, since, sinceFile, nextHour, nextDay, files,
                   lastFullTry>>

\* A client commits a write.
Write ==
    /\ up
    /\ dbVer < MaxVersions
    /\ dbVer' = dbVer + 1
    /\ UNCHANGED <<clock, up, restarts, since, sinceFile, nextHour, nextDay,
                   files, lastFullTry>>

\* Mutant: the midnight branch forgets to move nextDay.
TickKeepsNextDay ==
    /\ up
    /\ LET due == IF nextHour > clock THEN nextHour ELSE clock IN
       \E t \in due..(due + MaxLate) :
          /\ t <= MaxTime
          /\ clock' = t
          /\ IF t > nextDay - MinuteLen /\ t < nextDay + MinuteLen
             THEN DoFull(t) /\ UNCHANGED nextDay
             ELSE DoIncr(t) /\ UNCHANGED nextDay
          /\ nextHour' = nextHour + HourLen
    /\ UNCHANGED <<up, restarts, dbVer>>

\* The timer fires at nextHour, or at once when nextHour has passed, possibly
\* late.  Near midnight (strictly within a minute of nextDay) it takes a full
\* backup and moves nextDay by a day; otherwise an incremental one.  Then
\* nextHour moves by an hour and the timer is reset to it.
Tick ==
    /\ up
    /\ LET due == IF nextHour > clock THEN nextHour ELSE clock IN
       \E t \in due..(due + MaxLate) :
          /\ t <= MaxTime
          /\ clock' = t
          /\ IF t > nextDay - MinuteLen /\ t < nextDay + MinuteLen
             THEN DoFull(t) /\ nextDay' = nextDay + DayLen
             ELSE DoIncr(t) /\ UNCHANGED nextDay
          /\ nextHour' = nextHour + HourLen
    /\ UNCHANGED <<up, restarts, dbVer>>

Next == Start \/ Crash \/ Write \/ Tick

Spec == Init /\ [][Next]_vars

-----------------------------------------------------------------------------
TypeOK ==
    /\ clock \in 0..MaxTime
    /\ up \in BOOLEAN
    /\ restarts \in 0..MaxRestarts
    /\ dbVer \in 0..MaxVersions
    /\ since \in 0..(MaxVersions + 1)
    /\ sinceFile \in 0..(MaxVersions + 1)
    /\ nextHour \in Nat /\ nextDay \in Nat
    /\ files \in [Names -> SUBSET Versions]
    /\ lastFullTry \in 0..MaxTime

\* Every version below s is in some backup file.
CoveredBelow(s) == \A v \in 1..dbVer : v < s => \E n \in Names : v \in files[n]

\* The next incremental backup streams from since, and after a restart from
\* the since file: every committed version below either of them is already
\* held by a backup file, so the chain full + incrementals misses no write.
NoVersionLost == CoveredBelow(since) /\ CoveredBelow(sinceFile)

\* While the process runs, a full backup is attempted at least once a day:
\* the midnight window of the timer loop is never skipped for good.
FullBackupEveryDay == up => clock - lastFullTry <= DayLen + MaxLate
=============================================================================
