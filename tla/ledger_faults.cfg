SPECIFICATION FairSpec
CONSTANTS
    Writers <- MCWriters
    Readers <- MCReaders
    NoWriter = NoWriter
    EventType <- MCEventType
    Batches <- MCBatches
    Faults = {"crash", "short", "power"}
    MaxEvents = 3
INVARIANTS
    TypeOK
    ChainIntact
    ViewVerifies
    NoSilentLoss
    ViewIsStable
PROPERTIES
    TornNeverExtended
    ImplementsLog
    AppendReturns
