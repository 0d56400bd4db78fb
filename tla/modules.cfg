SPECIFICATION Spec
CONSTANTS
    Module <- Names
    Graphs <- MCGraphs
    NoError = NoError
    MaxStarts = 2
INVARIANTS
    DependenciesFirst
    SettledTruly
PROPERTIES
    EveryEvaluationSettles
CHECK_DEADLOCK FALSE
