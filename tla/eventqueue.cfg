CONSTANTS
    Producers = {p1, p2}
    Consumers = {c1, c2}
    Priorities = {0, 1}
    MaxTasks = 2
    MayCancel = TRUE
    MayClear = TRUE
    NoTask = NoTask
    Nobody = Nobody
SPECIFICATION FairSpec
INVARIANT QueueSound
PROPERTIES TaskQueueSpec TasksServed
CHECK_DEADLOCK FALSE
