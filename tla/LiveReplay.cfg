SPECIFICATION Spec
CONSTANTS
  MaxAge <- MCMaxAge
  Complement <- MCComplement
  NoBaskets <- MCNoBaskets
  YesBaskets <- MCYesBaskets
  Quantities = 1
  Scenarios <- MCScenarios
  MaxFree = 4
  JournalMayFail = FALSE
INVARIANTS
  LiveIsReplay
  AbsenceWasChecked
\* The replay reaches the end of the recorded stream.
CHECK_DEADLOCK FALSE
