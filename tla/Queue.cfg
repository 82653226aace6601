CONSTANTS
  m1 = m1  m2 = m2  m3 = m3  m4 = m4  m5 = m5  m6 = m6  m7 = m7  c1 = c1  c2 = c2
  NoContainer = NoContainer
  Messages <- Seven
  Kind <- EachKind
  Containers <- TwoContainers
  Cap = 2
  MaxTries = 1
  MaxFaults = 3
  RuntimeFaults = TRUE
SPECIFICATION MCSpec
INVARIANTS Served ClaimsHeld 
PROPERTIES AckedNeverReplayed NoOvertake ContextRidesAlong
SYMMETRY Twins
