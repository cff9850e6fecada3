CONSTANTS
    Irqs <- MCIrqs
    Exceptions <- MCExceptions
    Delegable <- MCDelegable
    StatusValues <- MCStatusValues
SPECIFICATION Spec
INVARIANTS
    TypeOK
    MprvOnlyInM
    TrapsInv
PROPERTIES
    VectorMatchesMode
    HandlerNotReentered
    SretRestores
