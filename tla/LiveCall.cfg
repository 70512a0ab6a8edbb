SPECIFICATION FairSpec
CONSTANTS
  Faults <- AllFaults
  HasTemplate = TRUE
INVARIANTS TypeOK OptOutWins BookingIsReported LiveIsCutOff LegIsFreed
PROPERTIES AgentHangupIsVerified OptOutEndsCall CallerHangupEndsCall
