SPECIFICATION FairSpec
CONSTANTS
  m1 = m1
  w1 = w1
  c1 = c1
  c2 = c2
  conv1 = conv1
  meta = meta
  l1 = l1
  l2 = l2
  t1 = t1
  u1 = u1
  u2 = u2
  e1 = e1
  MRs = {m1}
  Workers = {w1}
  Channels = {c1}
  Convs = {conv1}
  Gone = Gone
  MaxBookmarks = 3
  Links = {l1, l2}
  Messages = {t1}
  People = {u1}
  Emails = {e1}
  Bot = Bot
  NoUser = NoUser
  NoItem = NoItem
  NoExt = NoExt
  NoSpec = NoSpec
  NoMR = NoMR
  ExtNames <- MCNames
  MetaName <- MCMetaName
  Specs <- FewSpecs
  ConditionReasons <- MCReasons
  MaxEdits = 2
  MaxFaults = 1
  MaxCrashes = 1
  MaxDrift = 1
CHECK_DEADLOCK FALSE
INVARIANTS
  TypeOK
PROPERTIES
  NeverForgotten
  Converges
  DeletionCompletes
