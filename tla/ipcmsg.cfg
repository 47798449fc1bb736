CONSTANTS
    Clients = {c1, c2}
    MsgCap = 2
    MaxCalls = 3
    MaxQueues = 2
    t1 = t1
    t2 = t2
    t3 = t3
    d1 = d1
    d2 = d2
    Threads = {t1, t2, t3}
    DescOf <- TwoShareOne
    Handlers = {h1, h2}
    Shared = d1
    PCap = 2
    MaxMsgs = 3
    Receivers = {t1, t2}
    Senders = {t2, t3}
    Enders = {t3}
SPECIFICATION MCSpec
INVARIANTS AnswersRight PosixSound
PROPERTIES CallsEnd NotifiedServed
CHECK_DEADLOCK FALSE
