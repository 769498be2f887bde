SPECIFICATION Spec
CONSTANTS
  Person = {p1, p2, p3}
  NoPerson = none
  Id = {1, 2, 3, 4}
  Team = {t1}
  App = {}
  MaxActive = 2
  MaxTeams = 1
  Grantable = {"ADMIN", "MEMBER"}
  StartRoles = {"OWNER"}
  MaxPending = 2
  Reports = {TRUE, FALSE}
  Faults = {"unwritten"}
SYMMETRY PersonSymmetry
INVARIANTS
  DocumentNeverRefuses
  MirrorAgrees
PROPERTIES
  OwnersChangeOnlyByLeaving
