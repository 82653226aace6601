CONSTANTS
  MaxWzRuns = 1
  MaxWzFaults = 1
SPECIFICATION WizardSpec
INVARIANTS DefaultIsInTheImage
CHECK_DEADLOCK FALSE
