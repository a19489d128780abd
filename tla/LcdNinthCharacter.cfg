SPECIFICATION Spec
CONSTANTS
    Ram <- MCRam
    PowerOn <- MCPowerOn
    MaxFaults = 1
    Displays = {1, 2, 4}
    Letters <- MCLetters
    CellsOf <- MCCellsOf
    Texts <- MCTexts
    AskedColumns = {0, 1, 19, 39, 79}
    Characters <- MCCharacters
    Pictures <- MCPictures
    LineSize = 8
    MaxCalls = 3
PROPERTY
    DrawingKeepsText
CHECK_DEADLOCK FALSE
