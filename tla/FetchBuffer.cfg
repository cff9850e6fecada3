CONSTANTS
    AddrSpace = 8
    Parcel <- MCParcel
    LongParcel <- MCLong
    ZeroParcel = "z"
    Garbled = "garbled"
    Images <- MCImages
SPECIFICATION EnvSpec
INVARIANTS
    FetchTypeOK
    BufferMirrorsImage
    OfferIsProgram
    EnvInv
PROPERTIES
    AcceptedIsStored
