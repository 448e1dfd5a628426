SPECIFICATION Spec
CONSTANTS
  l1 = l1
  l2 = l2
  l3 = l3
  out = out
  rot1 = rot1
  rot2 = rot2
  cmd = cmd
  get = get
  coach = coach
  NoRequest = NoRequest
  NoSession = NoSession
  Requests = {l1, l2, l3, out, rot1, rot2, cmd, get}
  Logins = {l1, l2, l3}
  Logouts = {out}
  Rotations = {rot1, rot2}
  Commands = {cmd}
  Reads = {get}
  Users = {coach}
  Owner <- MCOwner
  Editor = {coach}
  MaxActive = 1
  Casts <- MCCasts
INVARIANTS
  IInv
  DisplacedByASession
PROPERTIES
  CapRestored
  StaleCredentialsRefused
  ImplementsRegistry
SYMMETRY MCSymmetry
CHECK_DEADLOCK FALSE
