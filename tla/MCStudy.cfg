\* Two cards that take turns, past the second due time of one (20, then 10
\* minutes after [Again]).
SPECIFICATION StudySpec
CONSTANTS
  MaxReps = 1
  MaxEase = 250
  MaxNow = 31
  Items = {1, 2}
  Mine = 2
  OtherIntervals = {10}
  OtherDue = {}
  TTL = 12
  MaxChat = 3
  MaxFaults = 0
PROPERTIES
  EarnedInterval
