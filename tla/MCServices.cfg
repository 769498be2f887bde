SPECIFICATION ServicesSpec
CONSTANTS
  Publisher = {u, v}
  PubOrg = {a, b}
  NoOwner = nobody
  Mishaps = {"fail", "unheard", "stop"}
  Replica = {x1, x2}
  Delegation = {g1}
  DelegationLag = 2
  EveryRun = 2
  LastTick = 7
  MaxRunFailures = 2
  Joiner = {j1, j2, j3}
  MaxUses = 2
  RoomFor = 3
  MaxLinkFaults = 1
  MaxLeaves = 1
  Company = {o1, o2}
  Name = {n1, n2, n3}
  NoName = noname
  DomainNames <- OneProves
  MaxMishaps = 1
  Issuer = {i1}
  Credential = {c1, c2}
  IssuerOf <- OneIssuer
  LastHour = 3
  MaxExits = 2
  Report = {r1, r2, r3}
  NoReportRow = noreport
  MaxModFaults = 2
  Category = {games, tools}
  NoCategory = none
  MaxSaves = 3
  Backfilling = TRUE
  AppKey = {k1}
  Login = {1, 2}
  Copy = {c1, c2}
  Revoker = {r1}
  Code = {m1, m2}
  Exchange = {e1, e2}
  LoginTtl = 1
  CodeTtl = 1
  TokenTtl = 3
  CodeRetention = 3
  EndOfTime = 5
  Person = {alice, bob}
  Handle = {h1, h2}
  NoHandle = nohandle
  Upsert = {u1}
  PartlyRefused = TRUE
  MaxActions = 3
  LinkId = {l1, l2, l3}
  LinkText = {"a", "b"}
  MaxLinks = 3
  MaxPatches = 2
  MaxRedeliveries = 1
  StatValue = {1, 2}
  MaxReports = 3
  RepoOwner = {alice, bob}
  Registrar = {w1, w2}
  MaxKeys = 3
  MaxDeletions = 1
  Proposal = {1, 2, 3}
  Batch = 1
  MaxSlips = 1
INVARIANTS
  OneOwnerEverywhere
  NoDelegationIsSkipped
  RunsAreSpaced
  UsesAreTheJoins
  FailedChangesAreUndone
  LeaversStaySuspended
  VerdictsAgree
  RestorableWhileDown
  CachedCountsAreCurrent
  CodesAreUsedOnce
  RowFollowsProfile
  UpsertReachesTheLinks
  RowFollowsDocument
  OneIdentityPerRepository
PROPERTIES
  AppOwnershipKept
  RevokedForGood
  StuckProposalsStarveNobody
CHECK_DEADLOCK FALSE
