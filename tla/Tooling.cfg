CONSTANTS
  NoVar = NoVar
  Skill <- Document
  Items <- Named
  Needs <- Reads
  Reversible = {"call"}
  Barrel = "l1"
  Found = {"l2"}
  Answers <- Says
  SkVars = {"token", "owner"}
  MaxSkRuns = 2
  MaxSkFaults = 1
  t1 = t1  t2 = t2  t3 = t3  i1 = i1  i2 = i2
  Tokens = {t1, t2, t3}
  Ids = {i1, i2}
  None = None
  Preset = t1
  MaxRaRuns = 2
  MaxRaFaults = 1
  Plugin <- TwoVersions
  Texts = {"guide"}
  Skills = {"skill"}
  Servers = {"server", "tool"}
  Tasks = {"task"}
  Order <- Listed
  Mine = 3
  MaxRsCommands = 3
  MaxRsEdits = 2
  MaxRsFaults = 1
  MaxMgRuns = 2
  MaxMgEdits = 2
  MaxMgFaults = 1
  MaxWzRuns = 2
  MaxWzFaults = 1
  MaxWiCommands = 3
  MaxWiFaults = 1
  MaxUnCommands = 2
  MaxUnFaults = 1
  PullScripts = {s1, s2}
  s1 = s1  s2 = s2  hand = hand
  ByHand = hand
  MaxIpCommands = 4
  MaxIpFaults = 1
SPECIFICATION ToolingSpec
INVARIANTS ToolingTypeOK 
CHECK_DEADLOCK FALSE
