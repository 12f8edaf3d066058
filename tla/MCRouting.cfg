\* Four changes make every tree of three routers, and a circle in it.
SPECIFICATION Spec
CONSTANTS
  app = app
  a = a
  b = b
  p1 = p1
  p2 = p2
  h1 = h1
  h2 = h2
  db = db
  fake = fake
  App = app
  Router = {app, a, b}
  Path = {p1, p2}
  Handler = {h1, h2}
  Dependency = {db, fake}
  Depends <- MCDepends
  Overrides <- MCOverrides
  Transport = {t1, t2}
  MaxChanges = 4
SYMMETRY Symmetric
INVARIANTS
  RoutesFollowPrecedence
  TransportsAgree
PROPERTIES
  PathsAreKept
\* A server whose routers are circular cannot start, and changes are bounded.
CHECK_DEADLOCK FALSE
