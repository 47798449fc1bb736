CONSTANTS
    Kids = {1, 2, 3}
    MINCHILDNUM = 1
    MAXCHILDNUM = 2
    Checks = 1
    Asked = 1
    MaxSize = 1
    MaxCommands = 1
    MaxDeaths = 1
    MaxWorks = 1
SPECIFICATION FairSpec
INVARIANT ChildrenSound
PROPERTIES ShrinkSparesWorkers DeadServed
CHECK_DEADLOCK FALSE
