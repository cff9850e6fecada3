CONSTANTS
    AddrSpace = 12
    Parcel <- MCParcel
    LongParcel <- MCLong
    ZeroParcel <- MCZero
    Garbled <- MCGarbled
    Images <- MCImages
    Regs <- MCRegs
    CodeOf <- MCCodeOf
    TrapPc = 4
    TrapContext = 6
    Entry = 2
    Boot <- SkipBoot
SPECIFICATION FairSpec
PROPERTIES
    Progress
