CONSTANTS
  m1 = m1  m2 = m2  run1 = run1  tool1 = tool1  ncl1 = ncl1  deny1 = deny1
  Incoming <- TwoIn
  Outgoing <- AllOut
  Author <- AllAuthors
  migration = migration
  Migrations = {migration}
  MaxUpCrashes = 1
  q1 = q1  k1 = k1  k2 = k2
  Asked = {q1}
  Options = {"yes", "no"}
  Taps = {k1, k2}
  NoTap = NoTap
  MaxAttempts = 2
  MaxQuFaults = 1
  ReplyTexts <- ShortTexts
  Limit = 3
  ChunksOf <- ShortChunks
  MaxPasses = 3
  MaxCrFaults = 1
  call1 = call1
  Calls = {call1}
  MaxTries = 2
  MaxScopes = 2
  MaxNcFaults = 1
  botP = botP  botN = botN  adP1 = adP1  adP2 = adP2  adN = adN  msgX = msgX  msgY = msgY
  Bots = {botP, botN}
  NamedBots = {botN}
  Adapters = {adP1, adP2, adN}
  BotOf <- BotOfEach
  Chats = {msgX, msgY}
  WithFile = {msgX}
  SeenBy <- SeenByEach
  NoAdapter = NoAdapter
  MaxTrouble = 1
  bash = bash  other = other
  Tools = {bash, other}
  Declares <- LongBash
  Ceiling = 2
  NoTool = NoTool
  LastMoment = 7
SPECIFICATION OuterSpec
INVARIANTS SInv IdsResolve WindowIsTheTurn OuterTypeOK 
PROPERTIES RolledBackWhole OuterLive
CHECK_DEADLOCK FALSE
