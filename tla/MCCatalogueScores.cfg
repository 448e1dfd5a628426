SPECIFICATION Spec
CONSTANTS
  r1 = r1
  r2 = r2
  r3 = r3
  men = men
  women = women
  nobody = nobody
  shot = shot
  ghost = ghost
  ann = ann
  bob = bob
  gold = gold
  silver = silver
  cup = cup
  hall = hall
  arena = arena
  final = final
  extra = extra
  game = game
  g1 = g1
  a1 = a1
  NoRequest = NoRequest
  NoIdentity = NoIdentity
  NoReference = NoReference
  NoRow = NoRow
  Requests = {r1, r2}
  Teams = {men, women, nobody}
  Assets = {shot, ghost}
  Competitions = {cup}
  Venues = {hall, arena}
  Matches = {final, extra, game}
  Players = {ann, bob}
  Achievements = {gold, silver}
  Identities = {g1, a1}
  Menus <- MCEdits
  Catalogues <- MCCatalogues
  Faults = {}
INVARIANTS
  ScoresFit
SYMMETRY MCSymmetry
CHECK_DEADLOCK FALSE
