CONSTANTS
  Channels = {c1, c2}
  Kept = {c1}
  Tasks = {t1, t2}
  MaxPerChannel = 2
  MaxChannels = 2
  MaxSends = 3
  None = None
SPECIFICATION Spec
SYMMETRY Symmetry
INVARIANT SenderOrderKept
PROPERTY ImplementsLog
