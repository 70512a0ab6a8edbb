SPECIFICATION Spec
CONSTANTS
  Callers <- MCCallers
  Segments <- MCSegments
  Leaves <- MCLeaves
  Required <- MCRequired
  LockedPaths <- MCLocked
  ProsePaths <- MCProse
  Paths <- MCPaths
  Atoms <- MCAtoms
  BadType = "mistyped"
  Harmful = "harm"
  Defaults <- MCDefaults
  MaxVersions = 4
  ToolCalls <- MCToolCalls
  MaxCalls = 2
  MaxRetries = 1
  MaxTurns = 1
  PanelPatches <- MCPanelPatches
  ApiPatches <- MCApiPatches
  Book <- Booking
  Calendar <- CalendarOn
  Tenants = {"mine", "other"}
  Owner = "mine"
  Providers <- MCProviders
  Unlocks <- MCUnlocks
  Seeded <- MCSeeded
  Workers = {w1, w2}
  Flows = {s1, s2}
  MaxLogins = 2
  Casts <- MCCasts
INVARIANTS StudioTypeOK EveryVersionPassedTheGate TurnReportsWhatItSaved PanelShowsOnlyServerValues ConnectionsMatchTokens
PROPERTIES CheckedEditLosesNothing
SYMMETRY FlowSymmetry
CHECK_DEADLOCK FALSE
