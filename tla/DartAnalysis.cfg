\* The Dart analysis of a run that is started twice and shares a cache with its past; see MCDartAnalysis for the instance.
SPECIFICATION DartSpec
CONSTANTS
  Runs = {r1}
  NoKey = NoKey
  NoEntry = NoEntry
  Sdk = "sdk"
  Delays = 1
  MaxStarts = 2
  MaxEdits = 2
  MaxTrouble = 1
  PackageLimit = 9
  ManifestBytes = 3
  Versions <- MCVersions
  Files <- MCFiles
  Editable <- MCEditable
  Listed <- MCListed
  Inputs <- MCInputs
  Sources <- MCSources
  Ignored <- MCIgnored
  Implicit <- MCImplicit
  Outside <- MCOutside
  OptionsFiles <- MCOptionsFiles
  Included <- MCIncluded
  Configs <- MCConfigs
  IncludeOf <- MCIncludeOf
  Escapes <- MCEscapes
  Size <- MCSize
  Changes <- MCChanges
  Limits <- MCLimits
  Packages <- MCPackages
  Pkg <- MCPkg
  Dir <- MCDir
  Library <- MCLibrary
INVARIANTS
  ServedRestsOnItsInputs
  EveryFileAccounted
PROPERTIES
  DartRunEnds
CHECK_DEADLOCK FALSE
