CONSTANTS
  q1 = q1
  q2 = q2
  i1 = i1
  i2 = i2
  t1 = t1
  s1 = s1
  s2 = s2
  admin = admin
  responder = responder
  u1 = u1
  u2 = u2
  k1 = k1
  k2 = k2
  A = A
  B = B
  None = None
  NoScope = NoScope
  Invitations = {i1, i2}
  Resets = {t1}
  Sessions = {s1, s2}
  Requests = {q1, q2}
  Roles = {admin, responder}
  MFARoles = {admin}
  Users = {u1, u2}
  Departments = {A, B}
  Positions <- SomePositions
  Calls = {k1, k2}
SPECIFICATION IdentitySpec
INVARIANTS
  NeverSilentlyActive
SYMMETRY IdentitySymmetry
