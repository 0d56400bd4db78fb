SPECIFICATION Spec
CONSTANTS
    Cell = {c1, c2, c3}
    Slot = {s1}
    Null = Null
    NoEntry = NoEntry
    Kinds = {"linked", "string", "plain", "table", "weak"}
SYMMETRY Symmetry
CONSTRAINT LinksOrEntries
INVARIANTS
    NoDangling
    OldToYoungListed
    MinorCollectionExact
    AtomTableExact
PROPERTIES
    LiveEntriesKept
    DeadEntriesDropped
