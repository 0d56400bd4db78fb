SPECIFICATION Spec
CONSTANTS
    Key = {"a", "b", "c"}
    Value = {"x", "y"}
    Hash <- EndHash
    FirstCapacity = 2
    Deleted = Deleted
    Walk = {"w"}
    MaxPositions = 4
    WeakKey = {"a", "b"}
    Fresh = {"a", "x"}
    StringCell = {s1, s2, s3, s4}
    NoAtom = NoAtom
    NoText = NoText
SYMMETRY Symmetry
INVARIANTS
    SearchesEnd
    YoungEntriesListed
PROPERTIES
    ImplementsLiveEntries
    ImplementsWeakMapping
    ImplementsInterning
