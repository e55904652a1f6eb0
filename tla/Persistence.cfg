SPECIFICATION MCSpec
CONSTANTS
  MaxRecords = 3
  MaxOpens = 3
  MaxAge <- MCMaxAge
  Complement <- MCComplement
  NoBaskets <- MCBaskets
  YesBaskets <- MCBaskets
  Quantities = 1
  Prologue <- MCPrologue
  Bodies <- MCBodies
  MaxOrdinal = 7
  MaxStarts = 3
INVARIANTS
  NeverSilentlyLost
  StoredDecisionsRegenerate
  EvidenceHasNoHole
  NothingLostUnnoticed
  KnowledgeIsThePrefix
PROPERTIES
  OnlyWritingBehindATear
  DecidesAsReplayWould
  SteadySpec
\* The bounds on opens and records are reached, or no process is started any more.
CHECK_DEADLOCK FALSE
