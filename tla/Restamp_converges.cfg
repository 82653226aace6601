CONSTANTS
  Plugin <- TwoVersions
  Texts = {"guide"}
  Skills = {"skill"}
  Servers = {"server", "tool"}
  Tasks = {"task"}
  Order <- Listed
  Mine = 3
  MaxRsCommands = 3
  MaxRsEdits = 1
  MaxRsFaults = 1
SPECIFICATION RestampSpec
INVARIANT RestampConverges
CHECK_DEADLOCK FALSE
