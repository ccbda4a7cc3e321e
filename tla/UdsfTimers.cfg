SPECIFICATION ExpirySpec
CONSTANTS
  Workers = {w1, w2}
  MaxTime = 3
  MaxChanges = 2
  MaxStops = 1
  MaxCount = 1
  Period = 1
INVARIANT
  TimersStayScheduled
