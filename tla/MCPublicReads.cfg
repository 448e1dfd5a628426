SPECIFICATION Spec
CONSTANTS
  league = league
  cup = cup
  NoMatch = NoMatch
  Matches = {1, 2, 3}
  Competitions = {league, cup}
  Now = 1
  Limit = 2
  PageSize = 2
  Wanted = "finished"
  Rows <- MCRows
  Together <- MCTogether
  MaxCommits = 2
INVARIANTS
  IInv
  NothingLost
  ResultsToldOnce
  PagesComplete
  PagesDistinct
CHECK_DEADLOCK FALSE
