SPECIFICATION FairSpec
CONSTANTS
  w1 = w1
  s1 = s1
  u1 = u1
  Workers = {w1}
  Secrets = {s1}
  NoRef = NoRef
  Users = {u1}
  MaxEdits = 4
  MaxFaults = 1
  MaxCrashes = 1
INVARIANTS
  TypeOK
  RestsRight
PROPERTIES
  InUseIsKept
  Converges
  DeletionCompletes
