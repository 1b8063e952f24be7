CONSTANTS
  Requests = {r1, r2}
  Names = {a, b, c}
  Files = {f}
  Urls = {x, y}
  Projects = {1, 2, 3, 4, 5, 6}
  None = None
  MaxProjects = 2
  Batched = {a, b}
  MaxBegun = 3
SPECIFICATION WorkspaceSpec
INVARIANTS WorkspaceTypeOK FilesAgree
PROPERTY RequestsEnd
CHECK_DEADLOCK FALSE
