---------------------------- MODULE MCOrgMembers ----------------------------
(* OrgMembers for TLC: the persons are interchangeable. *)
EXTENDS OrgMembers, TLC

PersonSymmetry == Permutations(Person)
==============================================================================
