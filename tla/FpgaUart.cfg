\* The host types when the program is not sending.  A bit of the host lasts a tick
\* longer than the receiver thinks, as one of this UART's transmitter does.
CONSTANTS
  CLK_DIVISOR = 6
  DataBits = 2
  HostBit = {7}
  Nothing = nothing
  Payload <- MCPayload
  HalfDuplex = TRUE
SPECIFICATION FairSpec
INVARIANT Decoded
PROPERTIES ReceiverIsMailbox TransmitterIsMailbox PutcReturns
