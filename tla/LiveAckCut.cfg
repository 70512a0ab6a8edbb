SPECIFICATION Spec
CONSTANTS
  Faults = {}
  HasTemplate = TRUE
INVARIANTS OptOutIsAcknowledged
