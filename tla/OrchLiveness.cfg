SPECIFICATION FairSpec
CONSTANTS
  c1 = c1
  c2 = c2
  b1 = b1
  Campaigns = {c1}
  Leads = {l1, l2}
  CampaignOf <- SingleCampaign
  Drives = {d1}
  None = None
  Outcomes = {"qualified", "no_answer"}
  MaxAttempts = 2
  MaxConcurrent = 2
  CallsPerMinute = 2
  Commands = {"authorize", "pause", "stop"}
  Faults = {}
  MaxFaults = 0
PROPERTIES PauseDrains RunningCompletes
