CONSTANTS
  Users = {u1, u2}
  Todos = {t1, t2, t3}
  Titles = {a, b}
  Sent = {"cancelled"}
  None = None
  Unset = Unset
SPECIFICATION Spec
SYMMETRY Symmetry
CONSTRAINT NotDated
INVARIANTS TypeOK DependenciesAcyclic HierarchyAcyclic
