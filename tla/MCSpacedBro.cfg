SPECIFICATION Spec
CONSTANTS
  Environments <- EnvironmentCases
  MaxCrashes = 3
  Texts = {"german", "en", "hund", "review"}
  ReviewIntents = {"review"}
  LANG_CODES = {"en", "de"}
  LANG_NAME_TO_CODE <- Names
  MaxFaults = 2
INVARIANTS
  TypeOK
  MigratedBeforeTraffic
  FailsFast
  GreenMeansConfigured
  AskedOnce
PROPERTIES
  Serves
  ReplyClosesQuestion
  ReplayHarmless
