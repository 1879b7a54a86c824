SPECIFICATION Spec
CONSTANTS
  o = o
  u = u
  v = v
  Users = {o, u, v}
  Owner = o
  Lead = o
  Invites = {i1, i2}
  Handlers = {h1, h2}
  TeamLimit = 1
  MaxRows = 3
  MaxAsks = 3
  MaxCrashes = 1
  RoleTtl = 2
  MaxLag = 1
SYMMETRY Sym
INVARIANTS WorkspacesSafe ProjectsSafe
CHECK_DEADLOCK FALSE
