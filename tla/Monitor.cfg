SPECIFICATION FairSpec
CONSTANTS
    Pages = 3
    Page = 2
    Values = 2
    Internal = {3}
    NOP = 1
    Latchable = {0, 1}
    CpuAddresses = {1}
    Starts = {2, 5}
    MaxTransfer = 2
    FreeToggles = {}
INVARIANTS NoContention MemoryAsMeant
PROPERTIES FinishesConnected TakesTheCell CommandEnds
CHECK_DEADLOCK FALSE
