CONSTANTS
    Base = 2
    WordBytes = 4
    Counter = 0
    Scratch = 8
    Threads = {t1, t2}
    MaxCount = 4
SPECIFICATION Spec
INVARIANTS
    NoLostUpdate
