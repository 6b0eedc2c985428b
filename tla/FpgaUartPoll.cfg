\* The host types when it likes.
CONSTANTS
  CLK_DIVISOR = 6
  DataBits = 2
  HostBit = {7}
  Nothing = nothing
  Payload <- MCPayload
  HalfDuplex = FALSE
SPECIFICATION Spec
INVARIANT NothingMissed
