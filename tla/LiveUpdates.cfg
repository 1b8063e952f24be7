CONSTANTS
  Tabs = {a}
  Authors = {a, b}
  Tables = {todos}
  Capacity = 1
  Changes = 2
  Outages = 1
  Drops = 1
  Failures = 1
  Sentinel = Sentinel
  Asked = Asked
SPECIFICATION FairSpec
INVARIANTS TypeOK NothingLost
PROPERTY ShownInTheEnd
CHECK_DEADLOCK FALSE
