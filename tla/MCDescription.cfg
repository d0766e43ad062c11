SPECIFICATION FairSpec
CONSTANTS
  m1 = m1
  w1 = w1
  meta = meta
  n1 = n1
  n2 = n2
  none = none
  text = text
  MRs = {m1}
  Workers = {w1}
  MaxGroups = 3
  Names = {n1, n2}
  Texts = {none, text}
  Empty = none
  Nil = Nil
  FlagDisabled = FALSE
  ExtNames <- MCExtNames
  NoExt = NoExt
  NoSpec = NoSpec
  NoMR = NoMR
  MetaName <- MCMetaName
  Specs <- MCSpecs
  ConditionReasons <- MCReasons
  MaxEdits = 2
  MaxFaults = 0
  MaxCrashes = 0
  MaxDrift = 0
CHECK_DEADLOCK FALSE
PROPERTIES
  DescriptionIsCleared
