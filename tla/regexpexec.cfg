SPECIFICATION ExecSpec
CONSTANTS
    Regex = {r1, r2}
    Pattern = {"any", "end"}
    Global = {"any"}
    Subject = {"", "b"}
    SubjectLength <- MCLength
    MatchEnd <- MCMatchEnd
    NoMatch = NoMatch
    Index = {0}
    NoRegex = NoRegex
    Valued = Valued
    SubjectCell = {h1, h2}
    Unused = Unused
    CacheLimit = 1
    MaxCompiled = 3
    MaxSweeps = 1
    MaxBegun = 1
    FreezesInside = FALSE
SYMMETRY Symmetry
INVARIANT CompiledAreCached
PROPERTY ImplementsRegExpObjects
CHECK_DEADLOCK FALSE
