SPECIFICATION FairSpec
CONSTANTS
    reading = reading
    noValue = noValue
    noise = noise
    None = None
    Packets <- MCPackets
    Messages <- MCPackets
    Kind <- MCKind
    QueueSize = 1
    TtySize = 1
    InFlight = 2
    MaxDeaths = 2
INVARIANTS
    TypeOK
    HeapOwned
PROPERTIES
    HandsOn
    NothingForgotten
    Delivered
