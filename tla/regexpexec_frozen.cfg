SPECIFICATION ExecSpec
CONSTANTS
    Regex = {r1, r2}
    Pattern = {"any", "end"}
    Global = {"any"}
    Subject = {"", "b"}
    SubjectLength <- MCLength
    MatchEnd <- MCMatchEnd
    NoMatch = NoMatch
    Index = {0}
    NoRegex = NoRegex
    Valued = Valued
    SubjectCell = {h1}
    Unused = Unused
    CacheLimit = 1
    MaxCompiled = 2
    MaxSweeps = 0
    MaxBegun = 1
    FreezesInside = TRUE
PROPERTY ReadOnlyKept
CHECK_DEADLOCK FALSE
