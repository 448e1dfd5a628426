SPECIFICATION Spec
CONSTANTS
  r1 = r1
  r2 = r2
  r3 = r3
  mens = mens
  womens = womens
  comp = comp
  venue = venue
  table = table
  v1 = v1
  v2 = v2
  NoRequest = NoRequest
  NoRow = NoRow
  Requests = {r1, r2}
  Targets = {mens, womens}
  Target <- MCTarget
  Items = {comp, venue, table}
  Venues = {venue}
  Tables = {table}
  Contents = {v1, v2}
  Plan <- MCPlan
  Bundle <- MCBundle
  Catalogues <- MCCatalogues
  Faults = {}
PROPERTIES
  ConflictMeansRunning
CHECK_DEADLOCK FALSE
