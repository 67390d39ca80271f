SPECIFICATION FairSpec
CONSTANT MaxSignals = 3
INVARIANT TypeOK
INVARIANT ExitHasCause
PROPERTY ControllersServe
PROPERTY FirstSignalEnds
PROPERTY SecondSignalEnds
CHECK_DEADLOCK FALSE
