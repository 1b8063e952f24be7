CONSTANTS
  Requests = {r1, r2}
  Codes = {c1, c2}
  Addresses = {e1, e2}
  MaxMaxUses = 2
  None = None
SPECIFICATION FairSpec
INVARIANTS RegistrationTypeOK UsersWithinMax
PROPERTIES CommitsUnderLiveCode RegistrationsEnd
