CONSTANTS
  Channels = {c1, c2}
  Senders = {s1, s2}
  Waiters = {w1}
  Pagers = {p1}
  Limits = {0, 1, 3}
  MaxReadLimit = 2
  MaxPerChannel = 3
  MaxChannels = 1
  MaxSends = 4
  None = None
SPECIFICATION Spec
SYMMETRY Symmetry
INVARIANTS TypeOK AttachedMissNothing PagesLeaveNoGap
PROPERTY ImplementsLog
