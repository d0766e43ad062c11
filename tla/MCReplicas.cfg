SPECIFICATION Spec
CONSTANTS
  m1 = m1
  w1 = w1
  w2 = w2
  c1 = c1
  c2 = c2
  n1 = n1
  n2 = n2
  none = none
  text = text
  domain = domain
  MRs = {m1}
  Workers = {w1, w2}
  Channels = {c1, c2}
  Names = {n1, n2}
  ExtNames = {c1, c2, n1, n2}
  Texts = {none, text}
  UrlTexts = {text}
  LinkTarget <- MCLinkTarget
  Empty = none
  Nil = Nil
  NoName = NoName
  NoExt = NoExt
  NoSpec = NoSpec
  NoMR = NoMR
  MetaName <- MCMetaName
  Specs <- OneSpec
  ConditionReasons <- MCReasons
  MaxEdits = 2
  MaxFaults = 1
  MaxCrashes = 1
  MaxDrift = 0
SYMMETRY Replicas
CHECK_DEADLOCK FALSE
INVARIANTS
  TypeOK
  NoForgottenChannel
  CreateExclusive
PROPERTIES
  ImplementsLease
  CreatorNames
