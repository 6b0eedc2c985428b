\* Any order of reads and writes. Bytes of three and two bits: LO counts further
\* than the fewest cycles between two accesses, and HI wraps.
CONSTANTS
  LoSize = 8
  HiSize = 4
  MinGap = 4
SPECIFICATION CounterSpec
INVARIANTS CountsFromReset ShownUpToCarry
