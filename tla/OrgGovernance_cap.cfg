SPECIFICATION GovFairSpec
CONSTANTS
  Person = {p1, p2}
  NoPerson = none
  Id = {1, 2, 3}
  Team = {}
  App = {}
  MaxActive = 1
  MaxTeams = 0
  Grantable = {}
  StartRoles = {"OWNER"}
  MaxPending = 1
  Reports = {}
  Faults = {}
  TimelockDelay = 1
  RecoveryDelay = 1
  ProposalTTL = 2
  Slot = {1}
  Kinds = {"RECOVER"}
  MaxProposals = 2
  MinVerified = 1
  MaxNow = 3
PROPERTIES
  RecoveryIsNotBlockable
