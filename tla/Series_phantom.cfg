CONSTANTS
  MaxOccs = 3
  FailCap = 2
  Orders = {order1, order2}
  MaxTsCrashes = 0
SPECIFICATION SeriesSpec
INVARIANTS NoPhantomSeries
CHECK_DEADLOCK FALSE
