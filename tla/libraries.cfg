CONSTANTS
    Keys = {1, 2, 3, 4, 5, 6, 7, 8}
    MaxChanges = 9
    MaxDeletes = 2
    StKeys = {1, 2, 3, 4, 5, 6, 7}
    StMaxChanges = 8
    Letters = {a, b}
    Odd = o
    MaxKey = 3
    TrieMaxCalls = 6
    PageSize = 12
    Header = 2
    Word = 2
    AlignBit = 4
    FailLimit = 2
    CountMod = 8
    PoolSizes = {3, 11}
    MaxPages = 3
    MaxLarges = 1
    MaxAllocs = 6
    Users = {u1, u2}
    BlockNum = 2
    ShmInserts = 4
    ShmDeaths = 1
    ShmFormats = 2
    HtKeys = {1, 2, 3, 4, 5}
    HtHash <- Hashes
    HtValues = {1, 2}
    HtSize = 1
    HtMaxCalls = 6
    Num = 7
    Cutoff = 2
    SortKeys = {1, 2, 3}
    OutKeys = {1, 9}
    RlHeads = {h1, h2}
    RlCells = {n1, n2, n3, n4}
    Sections = {s1, s2}
    ItemKeys = {k1, k2}
    MaxLines = 3
    MaxEdits = 1
    MaxFails = 1
SPECIFICATION MCSpec
INVARIANTS TreesSound StoresSound
PROPERTY LibrarySteps
CHECK_DEADLOCK FALSE
