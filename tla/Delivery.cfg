CONSTANTS
  s1 = s1  s2 = s2  r1 = r1  r2 = r2  r3 = r3  r4 = r4
  NoSession = NoSession
  Sessions <- TwoSessions
  Rows <- FourRows
  Owner <- Owners
  Class <- Classes
  MaxAttempts = 2
  MaxCrashes = 1
SPECIFICATION MCSpec
INVARIANTS IInv OneDrainPerSession NoDuplicateWithoutFault GivesUpAtTheLimit FannedAtMostOnce FirstDeliveryOnce
PROPERTIES InOrder KeepsPromise EventuallySettled HungPollIsolated
