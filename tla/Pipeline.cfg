CONSTANTS
    AddrSpace = 12
    Parcel <- MCParcel
    LongParcel <- MCLong
    ZeroParcel <- MCZero
    Garbled <- MCGarbled
    Images <- MCImages
    Regs <- MCRegs
    CodeOf <- MCCodeOf
    TrapPc = 4
    Entry = 2
    TrapContext = 6
    Boot <- MCBoot
SPECIFICATION FairSpec
INVARIANTS
    TypeOK
    PrecisePc
    StallExcludesFlush
    AnswerMatchesRequest
    FetchSeesContext
    NoAnswerWhileDraining
    WaitIsServed
    IsaInv
PROPERTIES
    RefinesIsa
    Progress
