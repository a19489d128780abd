SPECIFICATION FairSpec
CONSTANTS
    Ram <- MCRam
    PowerOn <- MCPowerOn
    MaxFaults = 1
PROPERTY
    PanelRecovers
