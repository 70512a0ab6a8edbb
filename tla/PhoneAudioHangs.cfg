SPECIFICATION FairSpec
CONSTANTS
  Faults = {"send", "stop"}
  MaxInbox = 1
PROPERTIES AudioEndsWithCall
