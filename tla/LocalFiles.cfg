\* Two processes that share the triage files and the report archive. A step of the clock is
\* as long as a suppression lives and longer than an event is kept.
SPECIFICATION LocalSpec
CONSTANTS
  Procs = {p, q}
  Findings = {f}
  Bases = {main, dev}
  NoBase = NoBase
  Configs <- MCConfigs
  Dates = {3}
  Lifetime = 1
  EventDays = 0
  Retention = 1
  Artifacts = 2
  MaxActive = 1
  MaxNow = 2
  MaxEdits = 1
  MaxStarts = 3
  MaxTrouble = 1
SYMMETRY MCSymmetry
INVARIANTS
  HiddenByAgreement
  EveryEndIsLogged
  ArchivesKept
CHECK_DEADLOCK FALSE
