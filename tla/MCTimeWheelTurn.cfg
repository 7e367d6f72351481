SPECIFICATION Spec
CONSTANTS
    Timers = {t1, t2}
    NoTimer = NoTimer
    WheelSize = 2
    Interval = 2
    Delays = {0, 4, 5}
    Repeats = {0, 4}
PROPERTY FiresOnTime
CHECK_DEADLOCK FALSE
