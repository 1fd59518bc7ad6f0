SPECIFICATION Spec
CONSTANTS
  Users <- OneUser
  Fresh <- NoUser
  HISTORY_HOURS = 3
  COLD_START_FIRST_HOUR = 1
  COLD_START_LAST_HOUR = 2
  HIGH_ACTIVITY_HOURS = 2
  ACTIVITY_WINDOW_DAYS = 0
  BACKOFF_DAYS = 1
  MaxNow = 4
  MaxTouches = 2
  MaxNudges = 6
  MaxFaults = 0
PROPERTIES
  CapPerUtcDay
