\* The slave as shipped, with its debugging output: it is slow with the select
\* requests and with the release (17, 20, 23), and handles every other request
\* before the next exchange.  The host is quiet while the master talks to it.
CONSTANTS
  DeviceId = {1, 4}
  RxData = {65, 66, 67}
  TxData = {1, 17}
  SpiCapacity = 3
  UartCapacity = 2
  SlowRequests = {17, 20, 23}
  RxDuringExchange = FALSE
  Garbage = {0}
  MaxRx = 3
  MaxTx = 2
SPECIFICATION FairSpec
ACTION_CONSTRAINT Explored
INVARIANTS AtMostOneSelected NoContention DeviceReached AnswerFetched RxConservation TxConservation AsleepMeansDrained
PROPERTY EveryRequestHandled
