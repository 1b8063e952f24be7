CONSTANTS
  Users = {u}
  Caller = u
  Todos = {t1, t2}
  Titles = {x, y}
  Sent = {"pending", "completed"}
  None = None
  Unset = Unset
  Notes = {n1, n2}
  Pages = {p}
  Comments = {c}
  Snippets = {s}
  Categories = {k}
  Feeds = {f}
  Recurring = {r}
  Agents = {a1, a2}
  AgentSent = {"blocked", "completed"}
  MaxWrites = 3
SPECIFICATION ToolsSpec
SYMMETRY Symmetry
INVARIANTS ToolsTypeOK BlockedHasReason
PROPERTIES NotesKept NoTwins
