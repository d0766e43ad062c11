SPECIFICATION FairSpec
CONSTANTS
  m1 = m1
  w1 = w1
  n1 = n1
  g1 = g1
  e1 = e1
  e2 = e2
  u1 = u1
  u2 = u2
  MRs = {m1}
  Workers = {w1}
  GroupIDs = {g1}
  Emails = {e1, e2}
  Users = {u1, u2}
  NoUser = NoUser
  Unasked = Unasked
  ExtNames = {g1, n1}
  NoExt = NoExt
  NoSpec = NoSpec
  NoMR = NoMR
  MetaName <- MCMetaName
  Specs <- MCSpecs
  ConditionReasons <- MCReasons
  MaxEdits = 2
  MaxFaults = 1
  MaxCrashes = 1
  MaxDrift = 1
CHECK_DEADLOCK FALSE
INVARIANTS
  TypeOK
PROPERTIES
  OnlyMeantMembers
  NeverEmptied
  UpToDateIsExact
  Converges
