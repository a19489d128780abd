SPECIFICATION FairSpec
CONSTANTS
    Distances <- MCDistances
    Alert1 = 200
    Alert2 = 1500
    MaxBuses = 2
    MaxAge = 1
INVARIANTS
    TypeOK
    NoStaleToken
    NeverStranded
    BitMatchesLink
    EventsBounded
PROPERTIES
    OncePerApproach
    Recovers
    Rejoins
