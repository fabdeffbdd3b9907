\* One minute is 2 units, one hour 6, one day 2 hours; timers fire at most
\* up to an hour late.  Three days of horizon, two writes, one restart.
CONSTANTS
    MinuteLen = 2
    HourLen = 6
    DayHours = 2
    MaxLate = 6
    MaxTime = 36
    MaxVersions = 2
    MaxRestarts = 1
SPECIFICATION Spec
INVARIANT NoVersionLost
\* The runs stop at the time horizon MaxTime.
CHECK_DEADLOCK FALSE
