SPECIFICATION FairSpec
CONSTANTS
    Bits = 3
    Payload <- MCPayload
    CounterSize = 3
    Divisors = {0, 1}
    Polarities = {0}
    Nothing = Nothing
PROPERTIES SwapsBytes ExchangeReturns
CHECK_DEADLOCK FALSE
