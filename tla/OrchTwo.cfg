SPECIFICATION Spec
CONSTANTS
  c1 = c1
  c2 = c2
  b1 = b1
  Campaigns = {c1, c2}
  Leads = {l1, l2, b1}
  CampaignOf <- TwoCampaigns
  Drives = {d1, d2}
  None = None
  Outcomes = {"booked"}
  MaxAttempts = 1
  MaxConcurrent = 1
  CallsPerMinute = 2
  Commands = {"authorize", "pause", "resume", "stop"}
  Faults = {"crash", "emit"}
  MaxFaults = 1
SYMMETRY DriveSymmetry
INVARIANTS ConcurrencyCap
PROPERTIES KillSwitchHonored
