CONSTANTS
    PmpCount = 4
    PerReg = 2
    ConfigWrites <- MCConfigWrites
    AddrWrites <- MCAddrWrites
    Accesses <- MCAccesses
    Valid <- MCValid
SPECIFICATION Spec
INVARIANTS
    PmpInv
    IdsMatch
    GrantedIsAllowed
    SealedNotWritten
PROPERTIES
    LockedRangeFixed
