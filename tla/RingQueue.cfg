CONSTANTS
  Size = 4
  Data = {d1, d2}
  NoData = ff
SPECIFICATION QueueSpec
PROPERTY ImplementsFifo
