CONSTANTS
  Requests = {r1, r2}
  Names = {a, b}
  Files = {f}
  Urls = {x}
  Projects = {1, 2, 3, 4, 5, 6}
  None = None
  MaxProjects = 1
  Batched = {a, b}
  MaxBegun = 2
SPECIFICATION WorkspaceSpec
INVARIANT ProjectsWithinMax
CHECK_DEADLOCK FALSE
