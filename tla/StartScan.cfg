\* Three requests of any kind, a crash, a lookup and any statement that fails.
CONSTANTS
  c1 = c1
  c2 = c2
  c3 = c3
  r1 = r1
  u1 = u1
  NoBranch = NoBranch
  Main = Main
  Malformed = Malformed
  Absent = Absent
  Clients <- MCClients
  Posts <- MCClients
  RepoIds <- MCRepoIds
  Scans <- MCScans
  ValidUrls <- MCValidUrls
  Bodies <- MCBodies
  DBMayFail = TRUE
  MaxCrashes = 1
  MaxErrors = 1
SPECIFICATION StartFairSpec
INVARIANTS RepoTypeOK ScansHaveRepository IdsTypeOK NoIdClash
PROPERTIES ImplementsCatalog PostsAreAnswered
\* Every request may have been answered.
CHECK_DEADLOCK FALSE
