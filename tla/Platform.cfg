CONSTANTS
    BufSize = 3
    Char <- MCChar
    Lines <- MCLines
    Configs <- MCConfigs
    MaxTyped = 2
    MaxSend = 1
SPECIFICATION FairSpec
INVARIANTS
    TypeOK
    ClaimExclusive
    MaskFollowsClaim
    HandlerHoldsClaim
PROPERTIES
    RefinesQueue
    InputSignalled
    InputRead
    HandlersEnd
