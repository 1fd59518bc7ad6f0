SPECIFICATION Spec
CONSTANTS
  run = run
  Run = Run
  back1 = back1
  back2 = back2
  Fronts <- Spellings
  normalize_front <- TwoWords
  Backs <- TwoBacks
  MaxChat = 3
  MaxFaults = 0
PROPERTIES
  SkipBindsToItsCard
