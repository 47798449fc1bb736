CONSTANTS
    Threads = {t1, t2}
    Names = {n1, n2}
    Period = 1
    Sizes = {1, 2}
    MaxConfs = 3
    MaxLogs = 4
    MaxFails = 1
    w1 = w1
    w2 = w2
    w3 = w3
    Writers = {w1, w2, w3}
    Owner <- TwoProcesses
    MaxSize = 1
    MaxCount = 2
    MaxWrites = 5
    MaxFaults = 2
    BufMin = 4
    BufMaxes = {0, 4, 5}
    MarkLen = 1
    TextLens = {1, 2, 5}
    Widths <- PlainAndWide
    MaxSpecs = 3
    MaxMsgs = 2
    MaxReallocs = 1
    Width = 4
    Bytes = 2
    DefaultLevels <- Defaults
    Options <- SomeOptions
    LevelLines <- SomeLevels
    FormatNames = {"simple", "bad"}
    RuleLines <- SomeRules
    Categories <- SomeCategories
    MaxLines = 2
    FileThreads = {t1, t2, t3}
    FileMsgs = 3
    FileMoves = 2
    FileFaults = 1
    RuleThreads = {r1, r2}
    RuleKinds = {"single", "each", "pipe"}
    Terminal = {1, 2}
    FdLimit = 5
    FsyncPeriod = 2
    MaxRules <- OneThenThree
    RuleMsgs <- ManyThenTwo
    MaxRuleFaults = 1
    MaxProcesses = 2
    Patterns <- SomePatterns
    MdcValues = {1}
    MaxTick = 2
    MaxReloads = 1
    MaxEvents = 2
    MaxEventFails = 1
SPECIFICATION MCSpec
INVARIANTS EnvSound ConfSound BufSound MessagesSound FilesSound
PROPERTY LoggingSteps
CHECK_DEADLOCK FALSE
