SPECIFICATION Spec
CONSTANTS
  old = old
  pub1 = pub1
  imp1 = imp1
  imp2 = imp2
  del1 = del1
  del2 = del2
  men = men
  t1 = t1
  t2 = t2
  NoRequest = NoRequest
  Requests = {pub1, imp1, imp2, del1, del2}
  Publishers = {pub1}
  Deleters = {del1, del2}
  Imports = {imp1, imp2}
  Old = {old}
  Pairs = {men}
  PairOf <- MCPairOf
  Contents = {t1, t2}
  ContentOf <- MCContentOf
  Victim <- MCVictim
  Faults = {"busy", "crash"}
INVARIANTS
  TypeOK
  IInv
  OneCurrentPerPair
  ChangesAudited
PROPERTIES
  RepeatedImportKeepsSnapshot
  ImplementsHistory
CHECK_DEADLOCK FALSE
