SPECIFICATION LcFairSpec
CONSTANTS
    Instances = {"n1"}
    Ports = {1, 2}
    AnyPort = 0
    NoPort = 3
    MaxStarts = 2
CHECK_DEADLOCK FALSE
PROPERTY LcTasksExit
