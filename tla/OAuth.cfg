CONSTANTS
  Clients = {app, svc, sys}
  Service = svc
  System = sys
  Account = bot
  Users = {u1, u2}
  Codes = {k1}
  Devices = {d1}
  Requests = {r1, r2}
  MaxTokens = 3
  MaxGrants = 1
  MaxExpired = 1
  None = None
SPECIFICATION Spec
SYMMETRY Symmetry
INVARIANTS TypeOK TokensFromConsent OneRowPerGrant RevokedForGood
CHECK_DEADLOCK FALSE
