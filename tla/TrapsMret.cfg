CONSTANTS
    Irqs <- MCIrqs
    Exceptions <- MCExceptions
    Delegable <- MCDelegable
    StatusValues <- MCStatusValues
SPECIFICATION Spec
PROPERTIES
    MretRestores
