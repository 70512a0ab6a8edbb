SPECIFICATION FairSpec
CONSTANTS
  c1 = c1
  c2 = c2
  b1 = b1
  Campaigns = {c1}
  Leads = {l1, l2}
  CampaignOf <- SingleCampaign
  Drives = {d1, d2}
  None = None
  Outcomes = {"no_answer"}
  MaxAttempts = 1
  MaxConcurrent = 2
  CallsPerMinute = 1
  Commands = {"authorize", "pause", "resume"}
  Faults = {}
  MaxFaults = 0
PROPERTIES RunningIsDriven
