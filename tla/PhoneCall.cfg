SPECIFICATION FairSpec
CONSTANTS
  Faults = {"place", "send", "stop", "hangup"}
  MaxInbox = 2
INVARIANTS TypeOK DialLeavesNoCall
PROPERTIES TokenAdmitsOneStream CalleeLeavingEndsDial
