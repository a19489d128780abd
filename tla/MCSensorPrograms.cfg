SPECIFICATION FairSpec
CONSTANTS
    Roms <- MCRoms
    Slow <- MCSlow
    Temps <- MCTemps
    Noises <- MCNoises
INVARIANTS
    TypeOK
    ResetBeforeAddress
    ValueRight
    FreshReading
PROPERTY
    GoesOn
