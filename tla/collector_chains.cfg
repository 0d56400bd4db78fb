SPECIFICATION Spec
CONSTANTS
    Cell = {c1, c2, c3, c4}
    Slot = {}
    Null = Null
    NoEntry = NoEntry
    Kinds = {"plain", "weak"}
SYMMETRY Symmetry
CONSTRAINT OneRecordFullOnly
INVARIANTS
    FullCollectionExact
    PendingComplete
