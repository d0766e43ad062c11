SPECIFICATION FairSpec
CONSTANTS
  m1 = m1
  w1 = w1
  w2 = w2
  c1 = c1
  c2 = c2
  n1 = n1
  n2 = n2
  none = none
  text = text
  domain = domain
  MRs = {m1}
  Workers = {w1}
  Channels = {c1, c2}
  Names = {n1, n2}
  ExtNames = {c1, c2, n1, n2}
  Texts = {none, text, domain}
  UrlTexts = {text, domain}
  LinkTarget <- MCLinkTarget
  Empty = none
  Nil = Nil
  NoName = NoName
  NoExt = NoExt
  NoSpec = NoSpec
  NoMR = NoMR
  MetaName <- MCMetaName
  Specs <- MixedSpecs
  ConditionReasons <- MCReasons
  MaxEdits = 2
  MaxFaults = 1
  MaxCrashes = 0
  MaxDrift = 1
CHECK_DEADLOCK FALSE
INVARIANTS
  OneChannelPerResource
PROPERTIES
  OnlyMeantChanges
  ImplementsBook
  UsersDecide
  Converges
  DeletionCompletes
