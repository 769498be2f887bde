----------------------------- MODULE MCOrgOwners -----------------------------
(* OrgGovernance for TLC where owners come and go, in two instances of one run.            *)
EXTENDS OrgGovernance

\* two persons and two proposals, of owners, or of owners and deletion; no write is lost
Pairs ==
  /\ org.members[3].status = "NONE" /\ org = doc
  /\ domainAge = -1
  /\ proposals[1].kind # "DELETE_ORG"

\* three owners and one proposal to remove one or to recover, made at once; writes are lost
Stops ==
  /\ proposals[2] = NoProposal /\ proposals[1].createdAt = 0
  /\ proposals[1] = NoProposal \/ proposals[1].kind \in {"REMOVE_OWNER", "RECOVER"}
  /\ now < MaxNow /\ domainAge = MinVerified

\* Persons are interchangeable.  They are numbers, that of their first record: the first is
\* an owner, and the one who makes the first proposal.
Numbered ==
  /\ \A i \in Id : IsActive(org.members[i]) => org.members[i].address = i
  /\ IsOwner(org.members[1])

OwnersInit ==
  /\ GovInit /\ Numbered
  /\ \/ Pairs
     \/ Stops /\ Cardinality(OwnerIds(org)) = 3

OwnersSpec == OwnersInit /\ [][GovNext]_vars

\* bound: a behaviour stays within its instance
OneInstance == (Pairs \/ Stops) /\ proposals[1].proposer \in {NoPerson, 1}
==============================================================================
