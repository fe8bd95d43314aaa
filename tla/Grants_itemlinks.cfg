SPECIFICATION Spec
CONSTANTS
  u1 = u1
  u2 = u2
  a1 = a1
  a2 = a2
  c1 = c1
  c2 = c2
  c3 = c3
  Users = {u1, u2}
  Accounts = {a1, a2}
  Owner <- MCOwner
  Collections = {c1, c2, c3}
  Holds <- MCHolds
  Patches = {}
  None = None
  MaxId = 2
  MaxKey <- MCMaxKey
  Grants = {g1}
  Requests = {r1}
  Uids = {x, y}
  New = New
INVARIANTS ItemLinksWriteTheirItem
CHECK_DEADLOCK FALSE
