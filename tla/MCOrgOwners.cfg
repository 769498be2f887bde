SPECIFICATION OwnersSpec
CONSTANTS
  Person = {1, 2, 3}
  NoPerson = none
  Id = {1, 2, 3}
  Team = {}
  App = {}
  MaxActive = 3
  MaxTeams = 0
  Grantable = {}
  StartRoles = {"OWNER", "MEMBER"}
  MaxPending = 0
  Reports = {}
  Faults = {"unwritten", "lost"}
  TimelockDelay = 1
  RecoveryDelay = 1
  ProposalTTL = 2
  Slot = {1, 2}
  Kinds = {"ADD_OWNER", "REMOVE_OWNER", "DELETE_ORG", "RECOVER"}
  MaxProposals = 2
  MinVerified = 1
  MaxNow = 3
INVARIANTS
  ExpiredNeverMatured
PROPERTIES
  OwnersConsent
  DecidedStaysDecided
CONSTRAINT OneInstance
