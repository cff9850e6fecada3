CONSTANTS
    Fan = 2
    Ptes <- MCPtes
    Tables <- MCTables
    Satps <- MCSatps
    Reqs <- MCReqs
    TlbSize = 3
    ResiduePte <- MCResidue
    FirstTables <- MCFirst
    Stores <- MCStores
SPECIFICATION Spec
INVARIANTS
    TransInv
    NoStaleEntry
PROPERTIES
    RefinesSv32
