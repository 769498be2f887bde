SPECIFICATION GovFairSpec
CONSTANTS
  Person = {p1, p2}
  NoPerson = none
  Id = {1, 2, 3}
  Team = {}
  App = {a1}
  MaxActive = 2
  MaxTeams = 0
  Grantable = {}
  StartRoles = {"OWNER"}
  MaxPending = 0
  Reports = {TRUE, FALSE}
  Faults = {"unwritten"}
  TimelockDelay = 1
  RecoveryDelay = 1
  ProposalTTL = 2
  Slot = {1}
  Kinds = {"ADD_OWNER", "REMOVE_OWNER", "DELETE_ORG", "RECOVER", "FREEZE_APP", "UNFREEZE_APP"}
  MaxProposals = 2
  MinVerified = 1
  MaxNow = 3
PROPERTIES
  EveryProposalIsDecided
  ExecutedMeansDone
INVARIANTS
  ArchivedIsEmpty
  FreezeMirrored
