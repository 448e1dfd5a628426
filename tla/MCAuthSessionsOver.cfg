SPECIFICATION Spec
CONSTANTS
  l1 = l1
  l2 = l2
  l3 = l3
  out = out
  rot1 = rot1
  rot2 = rot2
  cmd = cmd
  get = get
  coach = coach
  NoRequest = NoRequest
  NoSession = NoSession
  Requests = {l1, l2}
  Logins = {l1, l2}
  Logouts = {}
  Rotations = {}
  Commands = {}
  Reads = {}
  Users = {coach}
  Owner <- MCOwner
  Editor = {coach}
  MaxActive = 1
  Casts = {{l1, l2}}
INVARIANTS
  ActiveSessionsCapped
CHECK_DEADLOCK FALSE
