SPECIFICATION Spec
CONSTANTS
  Paths <- PathsDef
  Key <- KeyDef
  Bytes <- BytesDef
  Suffix <- SuffixDef
  ConfigRoots = {"tsconfig.json"}
  Packages = {"package.json"}
  Dirs = {".", "src"}
  RootDir = "."
  Tree <- TreeDef
  DirBytes <- DirBytesDef
  Ignored = {"gen.ts"}
  Hidden = {"hidden"}
  Tracked <- TrackedDef
  Existing <- ExistingDef
  Extends <- ExtendsDef
  PackageJson <- PackageJsonDef
  NoPath = "none"
  PathOrder <- PathOrderDef
  Orders <- OrdersDef
  Limits <- LimitsDef
  MaxTrouble = 2
  Changed <- ChangedDef
  ReasonBytes = 2
  BaseBytes = 3
  Timeout = 1
INVARIANTS
  WithinLimits
  NothingLostInSilence
  ResultAccountsForAll
PROPERTIES
  AnalysisEnds
CHECK_DEADLOCK FALSE
