CONSTANTS
  c1 = c1  m1 = m1  m2 = m2
  NoContainer = NoContainer
  Messages <- QueueRows
  Kind <- TaskChat
  Containers <- QueueContainers
  Cap = 2
  MaxTries = 1
  MaxFaults = 2
  RuntimeFaults = FALSE
  hold = hold  cred = cred  click1 = click1  click2 = click2
  Holds = {hold}
  Creds = {cred}
  Clicks = {click1, click2}
  NoHold = NoHold
  MaxApCrashes = 1
  a1 = a1  a2 = a2  an = an  mail1 = mail1  mail2 = mail2  user = user
  Mail = {mail1, mail2}
  Author <- OneAuthor
  Existing = {a1, a2}
  NewAgent = an
  Presses = {click1, click2}
  Wirings <- Channels
  NoMail = NoMail
  MaxAdCrashes = 1
  MaxFlips = 1
  order1 = order1
  MaxOccs = 4
  FailCap = 2
  Orders = {order1}
  MaxTsCrashes = 1
  TurnPlans <- Talks
  NoTurn = NoTurn
  NoText = NoText
  x1 = x1  x2 = x2  y1 = y1  post1 = post1
  Texts = {x1, x2, y1}
  ThreadOf <- TwoThreads
  Posts = {post1}
  Unborn = Unborn
  MaxCvFaults = 1
  g1 = g1  gt = gt  h1 = h1  w1 = w1  ask_1 = ask_1  ask_2 = ask_2  reply = reply
  Letters = {ask_1, ask_2, reply}
  Sessions = {g1, gt, h1, w1}
  TaskSessions = {gt}
  GroupOf <- Home
  Age <- Born
  Voices <- Writers
  Aims <- Readers
  NoSession = NoSession
  NoLetter = NoLetter
  MaxTrials = 2
  MaxMailFaults = 1
  MaxEdits = 2
SPECIFICATION PartsSpec
INVARIANTS PartsTypeOK ApprovalSafety  SeriesSafety TurnSafety ConversationSafety MailSafety
PROPERTIES PartsLive
CHECK_DEADLOCK FALSE
