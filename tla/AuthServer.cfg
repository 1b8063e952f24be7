CONSTANTS
  Clients = {c1}
  States = {s1}
  Resources = {api}
  Scopes = {read, write}
  Requests = {r1, r2}
  MaxLogins = 1
  MaxPairs = 3
  MaxExpired = 1
  MaxCrashes = 1
  None = None
SPECIFICATION Spec
SYMMETRY Symmetry
INVARIANTS TypeOK CodeAnsweredOnce LoginKept NewestRefreshes TermsKept
CHECK_DEADLOCK FALSE
