SPECIFICATION Spec
CONSTANTS
  Texts = {"german", "en", "hund", "review"}
  ReviewIntents = {"review"}
  LANG_CODES = {"en", "de"}
  LANG_NAME_TO_CODE <- Names
  MaxFaults = 0
PROPERTIES
  SingleConfirmInsufficient
