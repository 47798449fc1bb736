CONSTANTS
    Minsize = 5
    Maxsize = 7
    Defsize = 6
    Hload = 80
    Lload = 20
    Commands <- OneMoreOneLess
    SilverBound = 6
    DriftBound = 1
    Clients = {c1, c2}
    Creator = c1
    Monitor = Monitor
    Nobody = Nobody
SPECIFICATION MCSpec
INVARIANTS  CommandSound
PROPERTIES BusyPoolRelieved CommandsServed
CHECK_DEADLOCK FALSE
