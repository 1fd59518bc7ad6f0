\* One card and one fault are enough: a save that fails once.
SPECIFICATION Spec
CONSTANTS
  Items <- MCItems
  Grades <- MCGrades
  Delays <- MCDelays
  NewInterval = 1
  FirstDue = {0, 1}
  TTL = 2
  MaxNow = 2
  MaxChat = 4
  MaxFaults = 1
INVARIANT RetryCanSucceed
