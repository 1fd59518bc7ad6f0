SPECIFICATION Spec
CONSTANTS
  Calls = {c1, c2}
  PROVIDER = "openai_compatible"
  LLM_TIMEOUT = 1
  LLM_MAX_RETRIES = 1
  BACKOFF_BASE = 2
  BACKOFF_CAP = 1
  RetryAfters <- MCRetryAfters
  NoHeader = NoHeader
INVARIANTS
  TypeOK
  BoundedTime
  MappingIsExact
  EveryCallCounted
PROPERTIES
  CallEnds
  CallProgresses
  ImplementsLlmCall
