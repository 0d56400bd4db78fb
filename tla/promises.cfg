SPECIFICATION Spec
CONSTANTS
    CompactAt = 2
    StorageKept = 2
    MaxPromises = 3
    MaxReactions = 2
    MaxShareds = 2
    MaxMade = 4
    MaxAsyncs = 1
    MaxEvals = 2
INVARIANTS
    OneSettler
    ReactionsRunInOrder
PROPERTIES
    NothingEnteredOnceStopped
    ImplementsFifo
    EveryReactionRuns
CHECK_DEADLOCK FALSE
