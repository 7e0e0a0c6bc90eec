SPECIFICATION SpecSwarm
CONSTANT N = 2
PROPERTY InterruptEndsWorkers
CHECK_DEADLOCK FALSE
