\* One minute is 2 units, one hour 6, one day 2 hours; timers fire at most
\* half a minute late.  Three days of horizon, two writes, one restart.
CONSTANTS
    MinuteLen = 2
    HourLen = 6
    DayHours = 2
    MaxLate = 1
    MaxTime = 36
    MaxVersions = 2
    MaxRestarts = 1
SPECIFICATION Spec
INVARIANTS TypeOK NoVersionLost FullBackupEveryDay
\* The runs stop at the time horizon MaxTime.
CHECK_DEADLOCK FALSE
