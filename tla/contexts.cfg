SPECIFICATION FairSpec
CONSTANTS
    Thread = {t1,t2}
    Context = {x1,x2,x3}
    NoContext = NoContext
    NoThread = NoThread
    MaxSlots = 3
    LastGeneration = 1
    MaxCalls = 3
CHECK_DEADLOCK FALSE
INVARIANTS
    RegistryExact
    PublishedBeforeUse
PROPERTIES
    DestroyedOutsideRegistry
    ImplementsTable
    CallsReturn
    FreedIsDestroyed
