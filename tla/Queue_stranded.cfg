CONSTANTS
  m1 = m1  m2 = m2  m3 = m3  m4 = m4  m5 = m5  m6 = m6  m7 = m7  c1 = c1  c2 = c2
  NoContainer = NoContainer
  Messages <- Two
  Kind <- ChatChat
  Containers <- OneContainer
  Cap = 2
  MaxTries = 1
  MaxFaults = 0
  RuntimeFaults = FALSE
SPECIFICATION MCSpec
INVARIANTS StrandedClaimsAreStuck
