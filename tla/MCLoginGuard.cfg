SPECIFICATION FairSpec
CONSTANTS
  q1 = q1
  q2 = q2
  q3 = q3
  q4 = q4
  q5 = q5
  coach = coach
  admin = admin
  home = home
  office = office
  NoClient = NoClient
  Requests = {q1, q2, q3, q4, q5}
  Logins = {coach, admin}
  Clients = {home, office}
  Login <- MCLogin
  Client <- MCClient
  MaxAttempts = 2
  Window = 2
  MaxTracked = 3
  Concurrency = 2
  MaxTime = 3
INVARIANTS
  IInv
  FrequencyBounded
  TableBounded
PROPERTIES
  RefusedOnlyWhenFull
  EveryAdmittedAnswered
CHECK_DEADLOCK FALSE
