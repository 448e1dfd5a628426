SPECIFICATION Spec
CONSTANTS
  old = old
  u1 = u1
  u2 = u2
  u3 = u3
  u4 = u4
  logo = logo
  photo = photo
  NoRequest = NoRequest
  Requests = {u1, u4}
  Old = {old}
  Images = {logo, photo}
  ImageOf <- MCImageOf
  Faults = {}
INVARIANTS
  DuplicateAnswered
CHECK_DEADLOCK FALSE
