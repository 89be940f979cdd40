CONSTANTS
  Globs <- MCGlobs
  Matching <- MCMatching
  Lines <- MCLines
  PathOrder <- MCPathOrder
  MainFiles <- MCMainFiles
  BadIds <- MCBadIds
  Similar <- MCSimilar
  InvalidNames <- MCInvalidNames
  Separators <- MCSeparators
  FileOrder <- MCFileOrder
  StemOrder <- MCStemOrder
  Quoting <- MCQuoting
  OddLine <- MCOddLine
  Packages <- MCPackages
  NoFile = NoFile
  Unreadable = Unreadable
  WrongType = WrongType
  Null = Null
  Rejected = Rejected
SPECIFICATION LoadSpec
\* A package that has been checked, or of which a check stopped the verification, stays as it is.
CHECK_DEADLOCK FALSE
INVARIANTS
  DetectionIsDocumented
  LayersOverrideKeyByKey
  MetadataSurvivesDump
  SamplesShownOnceInOrder
  ErrorFreePackagesRender
  IncludesDecideEntryPoint
