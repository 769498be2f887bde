SPECIFICATION Spec
CONSTANTS
  Person = {p1, p2, p3}
  NoPerson = none
  Id = {1, 2, 3}
  Team = {t1}
  App = {}
  MaxActive = 2
  MaxTeams = 1
  Grantable = {"MEMBER"}
  StartRoles = {"OWNER"}
  MaxPending = 2
  Reports = {TRUE, FALSE}
  Faults = {"unwritten", "unheard", "lost"}
SYMMETRY PersonSymmetry
INVARIANTS
  LiveOrgHasOwner
  TeamsHoldActiveMembers
  OneOpenRecord
