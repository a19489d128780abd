\* The text of the distances from 20 km on.
SPECIFICATION OutputsSpec
CONSTANTS
    number1 = number1
    distance1 = distance1
    number2 = number2
    elapsed = elapsed
    old = old
    new = new
    blank = blank
    bus = bus
    clock = clock
    first = first
    second = second
    Fields <- MCFields
    Texts <- MCTexts
    Template <- MCTemplate
    Cleared = blank
    Tasks <- MCTasks
    Zone <- MCZone
    Layout <- MCLayout
    Buses <- MCBuses
    Ages <- MCAges
    BusStop = 70
    BusLine <- MCLine
    Slots <- MCSlots
    PollGap = 20
INVARIANT
    FarAwayTold
