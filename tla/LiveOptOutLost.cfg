SPECIFICATION Spec
CONSTANTS
  Faults = {"live", "tts"}
  HasTemplate = TRUE
INVARIANTS OptOutIsFinal
