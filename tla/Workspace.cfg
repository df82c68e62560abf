SPECIFICATION Spec
CONSTANTS
  division = division
  team = team
  ann = ann
  bob = bob
  company = company
  squad = squad
  user1 = user1
  user2 = user2
  newUser = newUser
  None = None
  Stored = {division, team, ann, bob}
  Draft = {company, squad}
  Container = {division, team, company, squad}
  CanHaveParent = {division, team, ann, bob, squad}
  Person = {ann, bob}
  User = {user1, user2}
  DraftUser = {newUser}
  Anchor = division
  Catalogs <- MCCatalogs
  Rank <- MCRank
  Licensed = {team}
  MaxEdits = 3
  MaxWrites = 2
  MaxOthers = 1
INVARIANTS WorkspaceIsForest RemovedCanBeRestored RefusalsAreExplained
  StoreStaysSound FailuresLeaveNoTrace DraftsAreCreatedOnce
PROPERTIES CommitMeansWorkspace
CHECK_DEADLOCK FALSE
