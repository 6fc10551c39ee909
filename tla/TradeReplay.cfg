\* Five calls with an intent each, two records at most, windows that end.
SPECIFICATION Spec
CONSTANTS
    c1 = c1
    c2 = c2
    c3 = c3
    c4 = c4
    c5 = c5
    i1 = i1
    i2 = i2
    i3 = i3
    i4 = i4
    i5 = i5
    sell = sell
    other = other
    third = third
    Calls = {c1, c2, c3, c4, c5}
    IntentOf <- MCIntentOf
    Intents = {i1, i2, i3, i4, i5}
    RequestIds = {1, 2, 3, 4}
    IdOf <- MCIdOf
    Trades = {sell, other, third}
    TradeOf <- MCTradeOf
    ExpiryOf <- MCExpiryOf
    Skew = 1
    Lifetime = 2
    MaxRecords = 2
    MaxTime = 4
    None = None
INVARIANTS
    TradesRecordedOnce
    InFlightIsExecuting
    SaleIsRecorded
PROPERTIES
    NoSecondSaleInWindow
\* Every call is made once and the clock is bounded.
CHECK_DEADLOCK FALSE
