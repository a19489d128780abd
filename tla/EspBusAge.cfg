\* The age on the screen while the answers fail.
SPECIFICATION Spec
CONSTANTS
    Distances <- MCDistances
    Alert1 = 200
    Alert2 = 1500
    MaxBuses = 2
    MaxAge = 1
INVARIANT
    AgeHonest
