SPECIFICATION FairSpec
CONSTANTS
    CpuAddresses = {0, 8192, 8193, 8195, 8449, 24572, 65532, 65533}
    Byte = {0, 1}
    NOP = 1
INVARIANT NoContention
PROPERTIES ReadsServed StoresAreWrites ExchangeWhole ResetEnds
CHECK_DEADLOCK FALSE
