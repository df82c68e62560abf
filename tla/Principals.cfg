\* Three principals, one user: every service and commits of two rows.
SPECIFICATION Spec
CONSTANTS
  Principal = {p1, p2, p3}
  PrincipalType = {person, company, group}
  Person = person
  Container = {company, group}
  CanHaveParent = {person, group}
  User = {u1}
  NoOne = NoOne
  Thrown = Thrown
  MaxDepth = 2
  MaxRows = 2
SYMMETRY Interchangeable
INVARIANTS HierarchyIsAForest RefreshedRootsAreCurrent ServicesKeepStructure
  OneUserOnePrincipal RootsExist
CHECK_DEADLOCK FALSE
