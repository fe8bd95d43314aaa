SPECIFICATION Spec
CONSTANTS
  Users = {u1}
  Sessions = {s1, s2}
  Requests = {r1, r2}
  Accounts = {a1}
  Grants = {g1}
  None = None
  MaxKeys = 2
INVARIANTS TypeOK KeysAgree OneOffGuardsNothing
SYMMETRY Symmetry
CHECK_DEADLOCK FALSE
