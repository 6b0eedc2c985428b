SPECIFICATION Spec
CONSTANTS
    Base = 3
    Files <- MCFiles
    MaxVersions = 1
    CpuAddresses = {0, 1, 2, 3}
    CpuBytes = {1}
    SERIAL = 2
    Capacity = 2
    Input <- MCInput
    Output <- MCOutput
INVARIANTS NoContention ReadsServed SerialInOrder
PROPERTY StoresAreWrites
CHECK_DEADLOCK FALSE
