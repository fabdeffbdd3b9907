------------------------ MODULE BackupScheduleProofs ------------------------
(***************************************************************************)
(* Proof that the backup chain misses no committed write, for every clock  *)
(* and every bound, provided timers are never later than an hour less a    *)
(* minute (Timing).  A backup that fails truncates its file, so the chain  *)
(* is safe only because every file the timer loop writes is new: the       *)
(* incremental of an hour and the full backup of a day are written into    *)
(* names no earlier step has used.  The inductive invariant IInv says so   *)
(* (HoursAhead, DaysAhead), together with where the goroutine's nextHour   *)
(* and nextDay stand with respect to the clock (TimerAligned).  With a     *)
(* later timer two wake-ups share an hour, or a late wake-up before        *)
(* midnight reuses the day's full name, and NoVersionLost fails (the       *)
(* catch-up configuration shows it).                                       *)
(***************************************************************************)
EXTENDS BackupSchedule, Integers, TLAPS

\* A timer is late by less than an hour minus a minute, and the horizon
\* covers the first day.
Timing ==
    /\ MaxLate + MinuteLen <= HourLen
    /\ DayLen <= MaxTime + 1

\* No incremental file of an hour after the clock's hour has been written.
HoursAhead ==
    \A t \in 0..MaxTime :
        t \div HourLen > clock \div HourLen => files[IncrName(t)] = {}

\* No full file of a day after the clock's day has been written.
DaysAhead ==
    \A t \in 0..MaxTime :
        t \div DayLen > clock \div DayLen => files[FullName(t)] = {}

\* While the goroutine runs, nextHour is the clock's next hour boundary and
\* nextDay a day boundary that is still ahead, or one the timer has passed
\* by an hour (a missed midnight).
TimerAligned ==
    /\ \E k \in 0..nextHour : nextHour = k * HourLen
    /\ \E j \in 0..nextDay : nextDay = j * DayLen
    /\ clock < nextHour
    /\ clock < nextDay \/ nextDay + HourLen <= nextHour

IInv ==
    /\ clock \in 0..MaxTime
    /\ up \in BOOLEAN
    /\ dbVer \in Nat
    /\ since \in 0..(dbVer + 1)
    /\ sinceFile \in 0..(dbVer + 1)
    /\ nextHour \in Nat
    /\ nextDay \in Nat
    /\ files \in [Names -> SUBSET Nat]
    /\ NoVersionLost
    /\ HoursAhead
    /\ DaysAhead
    /\ up => TimerAligned

-----------------------------------------------------------------------------
(* Arithmetic of the hour and day boundaries.                              *)

LEMMA DivBounds ==
    ASSUME NEW a \in Nat, NEW D \in Nat \ {0}
    PROVE  /\ a \div D \in Nat
           /\ (a \div D) * D <= a
           /\ a < (a \div D) * D + D
    BY SMT

LEMMA MulLess ==
    ASSUME NEW x \in Int, NEW y \in Int, NEW D \in Nat \ {0}, x * D < y * D
    PROVE  x < y
    BY SMT

\* A time before the j-th boundary lies in an earlier period.
LEMMA DivBelow ==
    ASSUME NEW a \in Nat, NEW j \in Nat, NEW D \in Nat \ {0}, a < j * D
    PROVE  a \div D < j
    BY DivBounds, MulLess

\* A time at or after the j-th boundary lies in period j or later.
LEMMA DivAbove ==
    ASSUME NEW a \in Nat, NEW j \in Nat, NEW D \in Nat \ {0}, j * D <= a
    PROVE  j <= a \div D
<1>1. j * D < (a \div D + 1) * D
    BY DivBounds
<1>2. QED
    BY <1>1, MulLess, DivBounds

LEMMA DivMono ==
    ASSUME NEW a \in Nat, NEW b \in Nat, NEW D \in Nat \ {0}, a <= b
    PROVE  a \div D <= b \div D
<1>1. (a \div D) * D <= b
    BY DivBounds
<1>2. QED
    BY <1>1, DivAbove, DivBounds

\* A time in [j * D, (j + 1) * D) lies in period j.
LEMMA DivExact ==
    ASSUME NEW a \in Nat, NEW j \in Nat, NEW D \in Nat \ {0},
           j * D <= a, a < j * D + D
    PROVE  a \div D = j
<1>1. a < (j + 1) * D
    OBVIOUS
<1>2. a \div D < j + 1
    BY <1>1, DivBelow
<1>3. QED
    BY <1>2, DivAbove, DivBounds

\* NextBoundary(t, d) is the boundary after t.
LEMMA BoundaryAhead ==
    ASSUME NEW a \in Nat, NEW D \in Nat \ {0}
    PROVE  /\ NextBoundary(a, D) = (a \div D + 1) * D
           /\ a \div D + 1 \in 0..NextBoundary(a, D)
           /\ a < NextBoundary(a, D)
           /\ NextBoundary(a, D) \in Nat
    BY DivBounds DEF NextBoundary

LEMMA ClockFacts ==
    /\ HourLen \in Nat \ {0}
    /\ DayLen \in Nat \ {0}
    /\ HourLen <= DayLen
    /\ MinuteLen \in Nat \ {0}
    /\ MaxLate \in Nat
    /\ MaxTime \in Nat
    BY ClockAssumption DEF DayLen

LEMMA MulGrows ==
    ASSUME NEW x \in Nat, NEW D \in Nat \ {0}
    PROVE  x <= x * D
    BY SMT

LEMMA MulLeq ==
    ASSUME NEW x \in Int, NEW y \in Int, NEW D \in Nat, x <= y
    PROVE  x * D <= y * D
    BY SMT

\* A day boundary is an hour boundary.
LEMMA DayInHours ==
    ASSUME NEW j \in Int
    PROVE  j * DayLen = (j * DayHours) * HourLen
    BY ClockAssumption, SMT DEF DayLen

-----------------------------------------------------------------------------
(* stream.Backup into one file.                                            *)

\* The largest of a non-empty set bounded by one of its elements.
LEMMA MaxOfTop ==
    ASSUME NEW S \in SUBSET Nat, NEW n \in S, \A x \in S : x <= n
    PROVE  MaxOf(S) = n
<1>1. MaxOf(S) \in S /\ \A x \in S : x <= MaxOf(S)
    BY DEF MaxOf
<1>2. MaxOf(S) \in Nat /\ n <= MaxOf(S) /\ MaxOf(S) <= n
    BY <1>1
<1>3. QED
    BY <1>2

\* The last version a backup dumps is a committed one, or 0.
LEMMA LastDumped ==
    ASSUME NEW N \in Nat, NEW from \in Nat
    PROVE  LET dumped == {v \in 1..N : v >= from}
           IN  (IF dumped = {} THEN 0 ELSE MaxOf(dumped)) \in 0..N
<1> DEFINE dumped == {v \in 1..N : v >= from}
<1>1. CASE dumped = {}
    BY <1>1
<1>2. CASE dumped # {}
    <2>1. N \in dumped /\ \A x \in dumped : x <= N
        BY <1>2
    <2>2. MaxOf(dumped) = N
        BY <2>1, MaxOfTop
    <2>3. QED
        BY <1>2, <2>2
<1>3. QED
    BY <1>1, <1>2

\* A backup into a file no earlier step has written, from 0 or from since:
\* every version is held by that file or by the files that held it before.
LEMMA FreshBackup ==
    ASSUME IInv, NEW n \in Names, files[n] = {}, NEW from \in {0, since},
           dbVer' = dbVer, Backup(n, from, since)
    PROVE  /\ NoVersionLost'
           /\ files' \in [Names -> SUBSET Nat]
           /\ \A m \in Names \ {n} : files'[m] = files[m]
           /\ since' \in 0..(dbVer' + 1)
           /\ sinceFile' \in 0..(dbVer' + 1)
<1> DEFINE dumped == {v \in 1..dbVer : v >= from}
           last == IF dumped = {} THEN 0 ELSE MaxOf(dumped)
<1>1. last \in 0..dbVer
    BY LastDumped DEF IInv
<1>2. CASE /\ files' = [files EXCEPT ![n] = dumped]
           /\ since' = last + 1
           /\ SaveSince(last + 1)
    <2>1. files' \in [Names -> SUBSET Nat] /\ \A m \in Names \ {n} : files'[m] = files[m]
        BY <1>2 DEF IInv
    <2>2. \A m \in Names : files[m] \subseteq files'[m]
        BY <1>2 DEF IInv
    <2>3. ASSUME NEW s, CoveredBelow(s) PROVE CoveredBelow(s)'
        BY <2>3, <2>2 DEF CoveredBelow
    <2>4. CoveredBelow(last + 1)'
        <3> SUFFICES ASSUME NEW v \in 1..dbVer, v < last + 1
                     PROVE  \E m \in Names : v \in files'[m]
            BY DEF CoveredBelow
        <3>1. CASE v >= from
            BY <1>2, <3>1 DEF IInv
        <3>2. CASE v < from
            <4>1. v < since
                BY <3>2
            <4>2. \E m \in Names : v \in files[m]
                BY <4>1 DEF IInv, NoVersionLost, CoveredBelow
            <4>3. QED
                BY <4>2, <2>2
        <3>3. QED
            BY <3>1, <3>2 DEF IInv
    <2>5. sinceFile' \in {sinceFile, last + 1}
        BY <1>2 DEF SaveSince
    <2>6. NoVersionLost'
        BY <1>2, <2>3, <2>4, <2>5 DEF NoVersionLost, IInv
    <2>7. QED
        BY <1>1, <1>2, <2>1, <2>5, <2>6 DEF IInv
<1>3. CASE /\ files' \in {files, [files EXCEPT ![n] = {}]}
           /\ since' = since
           /\ UNCHANGED sinceFile
    <2>1. files' = files
        BY <1>3 DEF IInv
    <2>2. QED
        BY <1>3, <2>1 DEF IInv, NoVersionLost, CoveredBelow
<1>4. QED
    BY <1>2, <1>3 DEF Backup

\* Start's full backup, taken when the since file holds 0: it succeeds and
\* holds every version, or it fails and since is 0 again.
LEMMA StartFull ==
    ASSUME IInv, sinceFile = 0, NEW n \in Names, dbVer' = dbVer,
           Backup(n, 0, 0)
    PROVE  /\ NoVersionLost'
           /\ files' \in [Names -> SUBSET Nat]
           /\ \A m \in Names \ {n} : files'[m] = files[m]
           /\ since' \in 0..(dbVer' + 1)
           /\ sinceFile' \in 0..(dbVer' + 1)
<1> DEFINE dumped == {v \in 1..dbVer : v >= 0}
           last == IF dumped = {} THEN 0 ELSE MaxOf(dumped)
<1>1. last \in 0..dbVer
    BY LastDumped DEF IInv
<1>2. CASE /\ files' = [files EXCEPT ![n] = dumped]
           /\ since' = last + 1
           /\ SaveSince(last + 1)
    <2>1. \A v \in 1..dbVer : v \in files'[n]
        BY <1>2 DEF IInv
    <2>2. ASSUME NEW s PROVE CoveredBelow(s)'
        BY <2>1, <1>2 DEF CoveredBelow
    <2>3. QED
        BY <1>1, <1>2, <2>2 DEF IInv, SaveSince, NoVersionLost
<1>3. CASE /\ files' \in {files, [files EXCEPT ![n] = {}]}
           /\ since' = 0
           /\ UNCHANGED sinceFile
    <2>1. files' \in [Names -> SUBSET Nat] /\ \A m \in Names \ {n} : files'[m] = files[m]
        BY <1>3 DEF IInv
    <2>2. QED
        BY <1>3, <2>1 DEF IInv, NoVersionLost, CoveredBelow
<1>4. QED
    BY <1>2, <1>3 DEF Backup

-----------------------------------------------------------------------------
(* The invariant is inductive: one lemma per action.                       *)

LEMMA InitIInv ==
    ASSUME Timing, Init
    PROVE  IInv
<1>1. clock \in 0..MaxTime
    BY ClockFacts DEF Init, Timing
<1>2. \A n \in Names : files[n] = {}
    BY DEF Init
<1>3. NoVersionLost
    BY DEF Init, NoVersionLost, CoveredBelow
<1>4. HoursAhead /\ DaysAhead
    <2>1. \A t \in 0..MaxTime : IncrName(t) \in Names /\ FullName(t) \in Names
        BY DEF Names
    <2>2. QED
        BY <1>2, <2>1 DEF HoursAhead, DaysAhead
<1>5. files \in [Names -> SUBSET Nat]
    BY DEF Init
<1>6. up \in BOOLEAN /\ (up => TimerAligned)
    BY DEF Init
<1>7. /\ dbVer \in Nat /\ since \in 0..(dbVer + 1) /\ sinceFile \in 0..(dbVer + 1)
      /\ nextHour \in Nat /\ nextDay \in Nat
    BY DEF Init
<1>8. QED
    BY <1>1, <1>3, <1>4, <1>5, <1>6, <1>7 DEF IInv

LEMMA CrashIInv ==
    ASSUME IInv, Crash
    PROVE  IInv'
    BY DEF Crash, IInv, NoVersionLost, CoveredBelow, HoursAhead, DaysAhead

\* A new commit is above since and the since file, so it needs no file yet.
LEMMA WriteIInv ==
    ASSUME IInv, Write
    PROVE  IInv'
<1>1. ASSUME NEW s \in 0..(dbVer + 1), CoveredBelow(s) PROVE CoveredBelow(s)'
    BY <1>1 DEF Write, CoveredBelow, IInv
<1>2. NoVersionLost'
    BY <1>1 DEF Write, IInv, NoVersionLost
<1>3. QED
    BY <1>2 DEF Write, IInv, HoursAhead, DaysAhead, TimerAligned

\* Start aligns the timer on the clock, and its full backup writes the
\* file of the clock's day, the only full file it may reuse.
LEMMA StartIInv ==
    ASSUME IInv, Start
    PROVE  IInv'
<1>1. /\ clock' = clock /\ dbVer' = dbVer /\ up' = TRUE
      /\ nextHour' = NextBoundary(clock, HourLen)
      /\ nextDay' = NextBoundary(clock, DayLen)
    BY DEF Start
<1>2. TimerAligned'
    <2>1. clock \in Nat
        BY DEF IInv
    <2>2. QED
        BY <1>1, <2>1, ClockFacts, BoundaryAhead DEF TimerAligned
<1>3. nextHour' \in Nat /\ nextDay' \in Nat
    BY <1>1, ClockFacts, BoundaryAhead DEF IInv
<1>4. FullName(clock) \in Names
    BY DEF IInv, Names
<1>5. CASE LoadSince = 0 /\ Backup(FullName(clock), 0, 0)
    <2>1. /\ NoVersionLost'
          /\ files' \in [Names -> SUBSET Nat]
          /\ \A m \in Names \ {FullName(clock)} : files'[m] = files[m]
          /\ since' \in 0..(dbVer' + 1)
          /\ sinceFile' \in 0..(dbVer' + 1)
        BY <1>1, <1>4, <1>5, StartFull DEF LoadSince
    <2>2. ASSUME NEW t \in 0..MaxTime, t \div HourLen > clock \div HourLen
          PROVE  files'[IncrName(t)] = {}
        <3>1. IncrName(t) \in Names /\ IncrName(t) # FullName(clock)
            BY DEF IncrName, FullName, Names
        <3>2. files[IncrName(t)] = {}
            BY <2>2 DEF IInv, HoursAhead
        <3>3. QED
            BY <2>1, <3>1, <3>2
    <2>6. HoursAhead'
        BY <1>1, <2>2 DEF HoursAhead
    <2>3. ASSUME NEW t \in 0..MaxTime, t \div DayLen > clock \div DayLen
          PROVE  files'[FullName(t)] = {}
        <3>1. FullName(t) \in Names
            BY DEF Names
        <3>4. t \div DayLen # clock \div DayLen
            BY <2>3, ClockFacts, DivBounds DEF IInv
        <3>5. FullName(t) # FullName(clock)
            BY <3>4 DEF FullName
        <3>2. files[FullName(t)] = {}
            BY <2>3 DEF IInv, DaysAhead
        <3>3. QED
            BY <2>1, <3>1, <3>2, <3>5
    <2>4. DaysAhead'
        BY <1>1, <2>3 DEF DaysAhead
    <2>5. QED
        BY <1>1, <1>2, <1>3, <2>1, <2>6, <2>4 DEF IInv
<1>6. CASE LoadSince # 0 /\ since' = LoadSince
           /\ UNCHANGED <<files, sinceFile, lastFullTry>>
    BY <1>1, <1>2, <1>3, <1>6
       DEF IInv, LoadSince, NoVersionLost, CoveredBelow, HoursAhead, DaysAhead
<1>7. QED
    BY <1>5, <1>6 DEF Start

\* A wake-up at time t that writes the file of its own hour or day leaves
\* every file of a later hour and day unwritten.
LEMMA AheadAfter ==
    ASSUME IInv, NEW t \in 0..MaxTime, clock <= t, clock' = t,
           NEW n \in {IncrName(t), FullName(t)},
           \A m \in Names \ {n} : files'[m] = files[m]
    PROVE  HoursAhead' /\ DaysAhead'
<1>1. clock \in Nat
    BY DEF IInv
<1>2. ASSUME NEW u \in 0..MaxTime, u \div HourLen > t \div HourLen
      PROVE  files'[IncrName(u)] = {}
    <2>1. IncrName(u) \in Names
        BY DEF Names
    <2>2. IncrName(u) # n
        BY <1>2, ClockFacts, DivBounds DEF IncrName, FullName
    <2>3. u \div HourLen > clock \div HourLen
        BY <1>1, <1>2, ClockFacts, DivMono, DivBounds
    <2>4. files[IncrName(u)] = {}
        BY <2>3 DEF IInv, HoursAhead
    <2>5. QED
        BY <2>1, <2>2, <2>4
<1>3. ASSUME NEW u \in 0..MaxTime, u \div DayLen > t \div DayLen
      PROVE  files'[FullName(u)] = {}
    <2>1. FullName(u) \in Names
        BY DEF Names
    <2>2. FullName(u) # n
        BY <1>3, ClockFacts, DivBounds DEF IncrName, FullName
    <2>3. u \div DayLen > clock \div DayLen
        BY <1>1, <1>3, ClockFacts, DivMono, DivBounds
    <2>4. files[FullName(u)] = {}
        BY <2>3 DEF IInv, DaysAhead
    <2>5. QED
        BY <2>1, <2>2, <2>4
<1>4. QED
    BY <1>2, <1>3 DEF HoursAhead, DaysAhead

\* The timer's wake-up: it lands in the hour of nextHour, so its
\* incremental file is new; when it is within a minute of midnight it lands
\* in the day of nextDay (it is not late enough to have left the previous
\* hour), so its full file is new too.
LEMMA TickIInv ==
    ASSUME Timing, IInv, Tick
    PROVE  IInv'
<1>1. /\ up /\ TimerAligned
      /\ up' = up /\ dbVer' = dbVer
    BY DEF Tick, IInv
<1>2. PICK k \in 0..nextHour : nextHour = k * HourLen
    BY <1>1 DEF TimerAligned
<1>3. PICK j \in 0..nextDay : nextDay = j * DayLen
    BY <1>1 DEF TimerAligned
<1>4. clock < nextHour
    BY <1>1 DEF TimerAligned
<1> DEFINE W(t) == t > nextDay - MinuteLen /\ t < nextDay + MinuteLen
<1>5. PICK t \in nextHour..(nextHour + MaxLate) :
          /\ t <= MaxTime
          /\ clock' = t
          /\ IF W(t) THEN DoFull(t) /\ nextDay' = nextDay + DayLen
                     ELSE DoIncr(t) /\ UNCHANGED nextDay
          /\ nextHour' = nextHour + HourLen
    <2>1. (IF nextHour > clock THEN nextHour ELSE clock) = nextHour
        BY <1>4
    <2>2. QED
        BY <2>1 DEF Tick
<1>6. /\ t \in 0..MaxTime /\ clock <= t
      /\ nextHour <= t /\ t <= nextHour + MaxLate /\ t < nextHour + HourLen
    BY <1>4, <1>5, ClockFacts, Timing DEF IInv, Timing
<1>7. t \div HourLen = k
    BY <1>2, <1>6, ClockFacts, DivExact DEF IInv
<1>8. clock \div HourLen < k
    BY <1>2, <1>4, ClockFacts, DivBelow DEF IInv
<1>9. /\ k + 1 \in 0..nextHour'
      /\ nextHour' = (k + 1) * HourLen
      /\ nextHour' \in Nat
      /\ clock' < nextHour'
    BY <1>2, <1>5, <1>6, ClockFacts, MulGrows DEF IInv
<1>10. CASE W(t)
    <2>1. DoFull(t) /\ nextDay' = nextDay + DayLen
        BY <1>5, <1>10
    <2>2. nextDay <= nextHour
        <3> DEFINE m == j * DayHours
        <3>1. m \in Nat /\ nextDay = m * HourLen
            BY <1>3, DayInHours, ClockAssumption
        <3>2. nextDay - HourLen < nextHour
            BY <1>6, <1>10, Timing, ClockFacts DEF IInv, Timing, W
        <3>3. (m - 1) * HourLen < k * HourLen
            BY <3>1, <3>2, <1>2, ClockFacts
        <3>4. m <= k
            BY <3>1, <3>3, ClockFacts, MulLess
        <3>5. QED
            BY <3>1, <3>4, <1>2, ClockFacts, MulLeq
    <2>3. clock < nextDay
        <3>1. ~(nextDay + HourLen <= nextHour)
            BY <1>6, <1>10, Timing, ClockFacts DEF IInv, Timing, W
        <3>2. QED
            BY <3>1, <1>1 DEF TimerAligned
    <2>4. t < nextDay + DayLen
        BY <1>6, <1>10, Timing, ClockFacts DEF IInv, Timing, W
    <2>5. t \div DayLen = j
        BY <1>3, <1>6, <2>2, <2>4, ClockFacts, DivExact DEF IInv
    <2>6. clock \div DayLen < j
        BY <1>3, <2>3, ClockFacts, DivBelow DEF IInv
    <2>7. FullName(t) \in Names /\ files[FullName(t)] = {}
        BY <1>6, <2>5, <2>6 DEF IInv, DaysAhead, Names
    <2>8. /\ NoVersionLost'
          /\ files' \in [Names -> SUBSET Nat]
          /\ \A m \in Names \ {FullName(t)} : files'[m] = files[m]
          /\ since' \in 0..(dbVer' + 1)
          /\ sinceFile' \in 0..(dbVer' + 1)
        BY <1>1, <2>1, <2>7, FreshBackup DEF DoFull
    <2>9. HoursAhead' /\ DaysAhead'
        BY <1>5, <1>6, <2>8, AheadAfter
    <2>10. TimerAligned'
        <3>1. j + 1 \in 0..nextDay' /\ nextDay' = (j + 1) * DayLen
            BY <1>3, <2>1, ClockFacts, MulGrows DEF IInv
        <3>2. clock' < nextDay'
            BY <1>5, <2>1, <2>4
        <3>3. QED
            BY <1>9, <3>1, <3>2 DEF TimerAligned
    <2>11. nextDay' \in Nat
        BY <2>1, ClockFacts DEF IInv
    <2>12. QED
        BY <1>1, <1>6, <1>5, <1>9, <2>8, <2>9, <2>10, <2>11 DEF IInv
<1>11. CASE ~W(t)
    <2>1. DoIncr(t) /\ nextDay' = nextDay
        BY <1>5, <1>11
    <2>2. IncrName(t) \in Names /\ files[IncrName(t)] = {}
        BY <1>6, <1>7, <1>8 DEF IInv, HoursAhead, Names
    <2>3. /\ NoVersionLost'
          /\ files' \in [Names -> SUBSET Nat]
          /\ \A m \in Names \ {IncrName(t)} : files'[m] = files[m]
          /\ since' \in 0..(dbVer' + 1)
          /\ sinceFile' \in 0..(dbVer' + 1)
        BY <1>1, <2>1, <2>2, FreshBackup DEF DoIncr
    <2>4. HoursAhead' /\ DaysAhead'
        BY <1>5, <1>6, <2>3, AheadAfter
    <2>5. clock' < nextDay' \/ nextDay' + HourLen <= nextHour'
        <3>1. CASE nextHour < nextDay
            <4> DEFINE m == j * DayHours
            <4>1. m \in Nat /\ nextDay = m * HourLen
                BY <1>3, DayInHours, ClockAssumption
            <4>2. k < m
                BY <4>1, <3>1, <1>2, ClockFacts, MulLess
            <4>3. (k + 1) * HourLen <= m * HourLen
                <5>1. k + 1 <= m
                    BY <4>1, <4>2
                <5>2. QED
                    BY <5>1, <4>1, ClockFacts, MulLeq
            <4>4. QED
                BY <1>5, <1>6, <1>9, <2>1, <4>1, <4>3
        <3>2. CASE nextDay <= nextHour
            BY <1>5, <1>9, <2>1, <3>2, ClockFacts DEF IInv
        <3>3. QED
            BY <3>1, <3>2, ClockFacts DEF IInv
    <2>6. TimerAligned'
        BY <1>3, <1>9, <2>1, <2>5 DEF TimerAligned
    <2>7. QED
        BY <1>1, <1>6, <1>5, <1>9, <2>1, <2>3, <2>4, <2>6 DEF IInv
<1>12. QED
    BY <1>10, <1>11

LEMMA NextIInv ==
    ASSUME Timing, IInv, [Next]_vars
    PROVE  IInv'
<1>1. CASE Start
    BY <1>1, StartIInv
<1>2. CASE Crash
    BY <1>2, CrashIInv
<1>3. CASE Write
    BY <1>3, WriteIInv
<1>4. CASE Tick
    BY <1>4, TickIInv
<1>5. CASE UNCHANGED vars
    BY <1>5 DEF vars, IInv, NoVersionLost, CoveredBelow, HoursAhead, DaysAhead,
                TimerAligned
<1>6. QED
    BY <1>1, <1>2, <1>3, <1>4, <1>5 DEF Next

\* Whatever the restarts, the failed backups and the timers' lateness up to
\* an hour less a minute, every committed version below the in-memory since
\* and below the since file is held by some backup file: an incremental
\* chain resumed from either misses no write, because a failing backup only
\* ever truncates a file no version is in yet.
THEOREM NoVersionLostHolds ==
    ASSUME Timing
    PROVE  Spec => []NoVersionLost
<1>1. Init => IInv
    BY InitIInv
<1>2. IInv /\ [Next]_vars => IInv'
    BY NextIInv
<1>3. IInv => NoVersionLost
    BY DEF IInv
<1>4. QED
    BY <1>1, <1>2, <1>3, PTL DEF Spec

-----------------------------------------------------------------------------
(* Type correctness.  TypeOK is inductive by itself; its only condition on *)
(* the constants beyond ClockAssumption is that the first day fits under  *)
(* MaxTime, since Init starts the clock anywhere in the first day.         *)

FirstDayFits == DayLen <= MaxTime + 1

\* A backup leaves every file a set of committed versions and since, and
\* the since file, at most one past the last committed version.
LEMMA BackupType ==
    ASSUME TypeOK, NEW n \in Names, NEW from \in Nat,
           NEW s0 \in 0..(MaxVersions + 1), Backup(n, from, s0)
    PROVE  /\ files' \in [Names -> SUBSET Versions]
           /\ since' \in 0..(MaxVersions + 1)
           /\ sinceFile' \in 0..(MaxVersions + 1)
<1> DEFINE dumped == {v \in 1..dbVer : v >= from}
           last == IF dumped = {} THEN 0 ELSE MaxOf(dumped)
<1>1. last \in 0..dbVer /\ dbVer \in 0..MaxVersions
    BY LastDumped DEF TypeOK
<1>2. dumped \in SUBSET Versions
    <2>1. \A v \in dumped : v \in 1..MaxVersions
        BY <1>1, ClockAssumption
    <2>2. QED
        BY <2>1 DEF Versions
<1>3. CASE /\ files' = [files EXCEPT ![n] = dumped]
           /\ since' = last + 1
           /\ SaveSince(last + 1)
    <2>1. files' \in [Names -> SUBSET Versions]
        BY <1>2, <1>3, Zenon DEF TypeOK
    <2>2. since' \in 0..(MaxVersions + 1) /\ sinceFile' \in 0..(MaxVersions + 1)
        BY <1>1, <1>3, ClockAssumption DEF TypeOK, SaveSince
    <2>3. QED
        BY <2>1, <2>2
<1>4. CASE /\ files' \in {files, [files EXCEPT ![n] = {}]}
           /\ since' = s0
           /\ UNCHANGED sinceFile
    BY <1>4 DEF TypeOK
<1>5. QED
    BY <1>3, <1>4 DEF Backup

LEMMA InitType ==
    ASSUME FirstDayFits, Init
    PROVE  TypeOK
<1>1. clock \in 0..MaxTime
    BY ClockFacts DEF Init, FirstDayFits
<1>2. files \in [Names -> SUBSET Versions]
    BY Zenon DEF Init
<1>3. /\ restarts \in 0..MaxRestarts /\ dbVer \in 0..MaxVersions
      /\ since \in 0..(MaxVersions + 1) /\ sinceFile \in 0..(MaxVersions + 1)
      /\ nextHour \in Nat /\ nextDay \in Nat
    BY ClockAssumption DEF Init
<1>4. QED
    BY <1>1, <1>2, <1>3, Zenon DEF Init, TypeOK

LEMMA StartType ==
    ASSUME TypeOK, Start
    PROVE  TypeOK'
<1>1. clock \in Nat
    BY DEF TypeOK
<1>2. nextHour' \in Nat /\ nextDay' \in Nat
    BY <1>1, ClockFacts, DivBounds DEF Start, NextBoundary
<1>3. FullName(clock) \in Names
    BY DEF TypeOK, Names
<1>4. CASE /\ LoadSince = 0
           /\ Backup(FullName(clock), 0, 0)
           /\ lastFullTry' = clock
    <2>1. /\ files' \in [Names -> SUBSET Versions]
          /\ since' \in 0..(MaxVersions + 1)
          /\ sinceFile' \in 0..(MaxVersions + 1)
        BY <1>3, <1>4, BackupType, ClockAssumption
    <2>2. QED
        BY <1>2, <1>4, <2>1 DEF Start, TypeOK
<1>5. CASE /\ LoadSince # 0
           /\ since' = LoadSince
           /\ UNCHANGED <<files, sinceFile, lastFullTry>>
    BY <1>2, <1>5 DEF Start, TypeOK, LoadSince
<1>6. QED
    BY <1>4, <1>5 DEF Start

LEMMA TickType ==
    ASSUME TypeOK, Tick
    PROVE  TypeOK'
<1> DEFINE due == IF nextHour > clock THEN nextHour ELSE clock
<1>1. PICK t \in due..(due + MaxLate) :
          /\ t <= MaxTime
          /\ clock' = t
          /\ IF t > nextDay - MinuteLen /\ t < nextDay + MinuteLen
             THEN DoFull(t) /\ nextDay' = nextDay + DayLen
             ELSE DoIncr(t) /\ UNCHANGED nextDay
          /\ nextHour' = nextHour + HourLen
    BY DEF Tick
<1>2. t \in 0..MaxTime
    BY <1>1, ClockFacts DEF TypeOK
<1>3. FullName(t) \in Names /\ IncrName(t) \in Names
    BY <1>2 DEF Names
<1>4. /\ UNCHANGED <<up, restarts, dbVer>>
      /\ nextHour' \in Nat
    BY <1>1, ClockFacts DEF Tick, TypeOK
<1>5. CASE t > nextDay - MinuteLen /\ t < nextDay + MinuteLen
    <2>1. Backup(FullName(t), 0, since) /\ lastFullTry' = t
          /\ nextDay' = nextDay + DayLen
        BY <1>1, <1>5 DEF DoFull
    <2>2. /\ files' \in [Names -> SUBSET Versions]
          /\ since' \in 0..(MaxVersions + 1)
          /\ sinceFile' \in 0..(MaxVersions + 1)
        BY <1>3, <2>1, BackupType DEF TypeOK
    <2>3. nextDay' \in Nat
        BY <2>1, ClockFacts DEF TypeOK
    <2>4. QED
        BY <1>1, <1>2, <1>4, <2>1, <2>2, <2>3 DEF TypeOK
<1>6. CASE ~(t > nextDay - MinuteLen /\ t < nextDay + MinuteLen)
    <2>1. Backup(IncrName(t), since, since) /\ UNCHANGED lastFullTry
          /\ UNCHANGED nextDay
        BY <1>1, <1>6 DEF DoIncr
    <2>2. /\ files' \in [Names -> SUBSET Versions]
          /\ since' \in 0..(MaxVersions + 1)
          /\ sinceFile' \in 0..(MaxVersions + 1)
        BY <1>3, <2>1, BackupType DEF TypeOK
    <2>3. QED
        BY <1>1, <1>2, <1>4, <2>1, <2>2 DEF TypeOK
<1>7. QED
    BY <1>5, <1>6

LEMMA NextType == TypeOK /\ [Next]_vars => TypeOK'
<1> SUFFICES ASSUME TypeOK, [Next]_vars PROVE TypeOK'
    OBVIOUS
<1>1. CASE Start
    BY <1>1, StartType
<1>2. CASE Crash
    <2>1. files' \in [Names -> SUBSET Versions]
        BY <1>2, Zenon DEF Crash, TypeOK
    <2>2. restarts' \in 0..MaxRestarts
        BY <1>2, ClockAssumption DEF Crash, TypeOK
    <2>3. QED
        BY <1>2, <2>1, <2>2, Zenon DEF Crash, TypeOK
<1>3. CASE Write
    <2>1. files' \in [Names -> SUBSET Versions]
        BY <1>3, Zenon DEF Write, TypeOK
    <2>2. QED
        BY <1>3, <2>1, ClockAssumption DEF Write, TypeOK
<1>4. CASE Tick
    BY <1>4, TickType
<1>5. CASE UNCHANGED vars
    BY <1>5 DEF vars, TypeOK
<1>6. QED
    BY <1>1, <1>2, <1>3, <1>4, <1>5 DEF Next

\* Whenever the first day fits under MaxTime, every reachable state of the
\* schedule is well typed: since and the since file never pass the last
\* committed version by more than one, and every backup file holds
\* committed versions only, whatever the timer delays and the failures.
THEOREM BackupTypeCorrect ==
    ASSUME FirstDayFits
    PROVE  Spec => []TypeOK
<1>1. Init => TypeOK
    BY InitType
<1>2. QED
    BY <1>1, NextType, PTL DEF Spec

=============================================================================
