SPECIFICATION ScheduleSpec
CONSTANTS
    BLOCK_COUNT = 3
    MaxInterval = 6
    MaxClock = 24
    Harmonic = TRUE
INVARIANTS TickIsGcd OnSchedule
CHECK_DEADLOCK FALSE
