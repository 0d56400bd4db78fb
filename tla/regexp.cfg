SPECIFICATION Spec
CONSTANTS
    Calls <- MCCalls
    Fold <- MCFold
    Alphabet <- MCAlphabet
CHECK_DEADLOCK FALSE
INVARIANTS
    MatchIsSpecified
    UndoRestores
    ChoicesDiffer
PROPERTIES
    Terminates
