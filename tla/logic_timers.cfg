CONSTANTS
    EventRun = {"e1", "e2"}
    MaxEvents = 2
    MaxSaves = 1
    MaxErrors = 1
    MaxRestarts = 1
SPECIFICATION Spec
INVARIANTS TypeOK NothingLeftOn RemovedStaysGone
PROPERTIES FiresOncePerTrigger EveryDelayFires EveryPulseEnds
CHECK_DEADLOCK FALSE
