SPECIFICATION Spec
CONSTANTS
  c1 = c1
  c2 = c2
  b1 = b1
  Campaigns = {c1}
  Leads = {l1, l2}
  CampaignOf <- SingleCampaign
  Drives = {d1, d2}
  None = None
  Outcomes = {"opted_out", "no_answer"}
  MaxAttempts = 2
  MaxConcurrent = 1
  CallsPerMinute = 1
  Commands = {"authorize", "pause", "resume", "autopause", "stop", "clear"}
  Faults = {"crash"}
  MaxFaults = 1
SYMMETRY LeadSymmetry
INVARIANTS NoDoubleDial
