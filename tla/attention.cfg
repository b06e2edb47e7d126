SPECIFICATION FairAttention
CONSTANTS
  Devices = {"d1", "d2"}
  Events = {"e1"}
  Prompt = {"d1"}
  KindsRaised = {"request", "news", "health", "update"}
  MaxStage = 2
  MaxAttempts = 2
  MaxMishaps = 1
INVARIANTS
  AttentionTypeOK
  EventAlertsOnce
PROPERTIES
  NoAlertAfterAnswer
  AlertComes
CHECK_DEADLOCK FALSE
