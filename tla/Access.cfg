CONSTANTS
  Users = {u1, u2}
  Emails = {e1, e2}
  Accounts = {g1}
  States = {s1}
  Challenges = {c1}
  Passkeys = {p1}
  Keys = {k1, k2, k3}
  Requests = {r1, r2}
  MaxKeys = 1
  MaxChanges = 1
  MaxRows = 3
  None = None
SPECIFICATION Spec
SYMMETRY Symmetry
CONSTRAINT KeysAlone
INVARIANTS TypeOK UsedOnce ChangeEndsSessions KeysBounded
