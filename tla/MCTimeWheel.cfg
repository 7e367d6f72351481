SPECIFICATION FairSpec
CONSTANTS
    Timers = {t1, t2}
    NoTimer = NoTimer
    WheelSize = 3
    Interval = 2
    Delays = {0, 6, 7}
    Repeats = {0, 7}
INVARIANTS TypeOK NeverLate
PROPERTIES FiresOnTime TickEnds
CHECK_DEADLOCK FALSE
