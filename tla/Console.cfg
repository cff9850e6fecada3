CONSTANTS
    BufLen = 4
    Lines <- MCLines
    Half = 4
    Steps <- MCSteps
    Breaks <- MCBreaks
    Pcs <- MCPcs
    MaxInput = 4
SPECIFICATION FairSpec
INVARIANTS
    ConsoleInv
    StepNeverOverruns
PROPERTIES
    LinesTakenAgain
CHECK_DEADLOCK FALSE
