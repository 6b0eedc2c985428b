\* The host may send while the master is talking to the slave.
CONSTANTS
  DeviceId = {}
  RxData = {65}
  TxData = {}
  SpiCapacity = 3
  UartCapacity = 2
  SlowRequests = {}
  RxDuringExchange = TRUE
  Garbage = {0}
  MaxRx = 2
  MaxTx = 0
SPECIFICATION Spec
INVARIANT RxConservation
