------------------------------ MODULE OrgMembers ------------------------------
(***************************************************************************)
(* The memberships and teams of one organisation: every mutation of        *)
(* areas/members.ts and areas/teams.ts that changes who belongs, what role *)
(* they have or which team holds them.                                     *)
(*                                                                         *)
(* Each mutation runs from its first read to its last write under the      *)
(* org:<id> lock (module KeyedLock), so it is one action here.  What a     *)
(* mutation cannot make atomic is the pair store + document: it commits    *)
(* the store, then sends the actions to the document, and undoes the store *)
(* when that fails.  WriteDocument enumerates how that ends.               *)
(***************************************************************************)
EXTENDS OrgRecord

CONSTANTS Grantable,    \* the roles callers ask for in invites and role changes
          StartRoles,   \* the roles held in an initial state, see Init
          MaxPending,   \* MAX_PENDING_INVITES (200)
          Reports,      \* what resolveOrgReport sets takenDown to
          Faults        \* the ways a document write may go wrong, see WriteDocument

ASSUME MembersAssumption ==
  /\ Grantable \subseteq Role \ {"OWNER"}
  /\ StartRoles \subseteq Role
  /\ MaxPending \in Nat
  /\ Reports \subseteq BOOLEAN
  /\ Faults \subseteq {"unwritten", "unheard", "lost"}

VARIABLES org,       \* the organisation in the store
          doc,       \* the organisation in its document
          docError,  \* whether an operation of the document's history holds an error
          expired    \* the invites whose 14 days are over

memberVars == <<org, doc, docError, expired>>

(***************************************************************************)
(* Guards shared by the mutations                                          *)
(***************************************************************************)
\* requireOrg with writable left at true
Writable == ~org.archived /\ ~org.takenDown

\* requireRole: the caller's ACTIVE membership, with at least the role min
HasRole(p, min) ==
  \E i \in OpenIds(org, p) : IsActive(org.members[i]) /\ RoleAtLeast(org.members[i].role, min)

\* Mutant: an owner is managed like anybody else.
ManagesOwners(p, roles) == "ADMIN" \in roles => HasRole(p, "OWNER")

\* assertManages: owners change through proposals, admins are managed by owners
Manages(p, roles) ==
  /\ "OWNER" \notin roles
  /\ "ADMIN" \in roles => HasRole(p, "OWNER")

\* isExpiredInvite
ExpiredInvite(i) == org.members[i].status = "INVITED" /\ i \in expired

LiveInvites == {i \in Id : org.members[i].status = "INVITED" /\ i \notin expired}

\* A fresh id is used by neither half; |Id| bounds the records of a behaviour.
FreshIds == {i \in Id : org.members[i].status = "NONE" /\ doc.members[i].status = "NONE"}

\* One of them: ids are opaque, so which one makes no difference.
NewIds == {i \in FreshIds : \A j \in FreshIds : i <= j}

(***************************************************************************)
(* The end of every mutation: the store already holds next, the batch goes *)
(* to the document.                                                        *)
(***************************************************************************)
Written(next, batch) ==
  /\ ~batch.failed
  /\ org' = next
  /\ doc' = batch.org
  /\ UNCHANGED docError

(***************************************************************************)
(* writeDocument saw an error, undid the store and throws                  *)
(* SERVICE_UNAVAILABLE.  A reducer refused an action, while the other      *)
(* actions of the batch stay applied; or the service was not reached       *)
(* ("unwritten"), or applied the batch but the caller saw an error         *)
(* ("unheard"); or the undo itself failed ("lost").                        *)
(***************************************************************************)
Unavailable(next, batch) ==
  \/ /\ batch.failed \/ "unheard" \in Faults
     /\ doc' = batch.org
     /\ docError' = (docError \/ batch.failed)
     /\ UNCHANGED org
  \/ /\ "unwritten" \in Faults
     /\ UNCHANGED <<org, doc, docError>>
  \/ /\ "lost" \in Faults
     /\ org' = next
     /\ UNCHANGED <<doc, docError>>

\* The process stopped between the two writes.
Stopped(next) ==
  /\ "lost" \in Faults
  /\ org' = next
  /\ UNCHANGED <<doc, docError>>

WriteDocument(next, batch) ==
  Written(next, batch) \/ Unavailable(next, batch) \/ Stopped(next)

\* Mutants: the last owner goes too; or the store keeps the team places of who went.
EndAnyMembership(i, status) ==
  WriteDocument(WithoutPlaces(WithStatus(org, i, status), i),
                SetMemberStatus(Begin(doc), i, status))

EndMembershipOnly(i, status) ==
  /\ IsOwner(org.members[i]) => Cardinality(OwnerIds(org)) > 1
  /\ WriteDocument(WithStatus(org, i, status), SetMemberStatus(Begin(doc), i, status))

\* endMembership, which inlines the LAST_OWNER check
EndMembership(i, status) ==
  /\ IsOwner(org.members[i]) => Cardinality(OwnerIds(org)) > 1
  /\ WriteDocument(WithoutPlaces(WithStatus(org, i, status), i),
                   SetMemberStatus(Begin(doc), i, status))

(***************************************************************************)
(* Mutations.  They leave the expiry of invites alone.                     *)
(***************************************************************************)
\* Mutant: nobody looks for an open record of the invitee.
InviteAnyway(caller, invitee, role) ==
  /\ Writable
  /\ HasRole(caller, "ADMIN")
  /\ Manages(caller, {role})
  /\ \E new \in NewIds :
       WriteDocument(WithRecord(org, new, Invited(invitee, role)),
                     InviteMember(Begin(doc), new, invitee, role))
  /\ UNCHANGED expired

InviteOrgMember(caller, invitee, role) ==
  /\ Writable
  /\ HasRole(caller, "ADMIN")
  /\ Manages(caller, {role})
  /\ \A i \in OpenIds(org, invitee) : ExpiredInvite(i)
  /\ Cardinality(LiveInvites) < MaxPending
  /\ \E new \in NewIds :
       \/ /\ OpenIds(org, invitee) = {}
          /\ WriteDocument(WithRecord(org, new, Invited(invitee, role)),
                           InviteMember(Begin(doc), new, invitee, role))
       \/ \E old \in OpenIds(org, invitee) :
            WriteDocument(WithRecord(WithStatus(org, old, "REVOKED"), new, Invited(invitee, role)),
                          InviteMember(SetMemberStatus(Begin(doc), old, "REVOKED"),
                                       new, invitee, role))
  /\ UNCHANGED expired

\* Mutant: no assertRoomFor.
AcceptOverTheCap(i) ==
  /\ Writable
  /\ i \in LiveInvites
  /\ WriteDocument(WithStatus(org, i, "ACTIVE"), SetMemberStatus(Begin(doc), i, "ACTIVE"))
  /\ UNCHANGED expired

AcceptOrgInvite(i) ==
  /\ Writable
  /\ i \in LiveInvites
  /\ Cardinality(ActiveIds(org)) < MaxActive
  /\ WriteDocument(WithStatus(org, i, "ACTIVE"), SetMemberStatus(Begin(doc), i, "ACTIVE"))
  /\ UNCHANGED expired

\* acceptOrgInviteLink, with a use of the link to be had (module InviteLinks): one batch makes
\* the member.  Links grant neither ownership nor ADMIN.
AcceptOrgInviteLink(caller, role) ==
  /\ Writable
  /\ role # "ADMIN"
  /\ \A i \in OpenIds(org, caller) : ExpiredInvite(i)
  /\ Cardinality(ActiveIds(org)) < MaxActive
  /\ \E new \in NewIds :
       \/ /\ OpenIds(org, caller) = {}
          /\ WriteDocument(WithRecord(org, new, Joined(caller, role)),
                           Join(Begin(doc), new, caller, role))
       \/ \E old \in OpenIds(org, caller) :
            WriteDocument(WithRecord(WithStatus(org, old, "REVOKED"), new, Joined(caller, role)),
                          Join(SetMemberStatus(Begin(doc), old, "REVOKED"), new, caller, role))
  /\ UNCHANGED expired

\* Declining works in a taken-down organisation (and, by its status, never after archiving).
DeclineOrgInvite(i) ==
  /\ i \in LiveInvites
  /\ EndMembership(i, "DECLINED")
  /\ UNCHANGED expired

RevokeOrgInvite(caller, i) ==
  /\ Writable
  /\ HasRole(caller, "ADMIN")
  /\ org.members[i].status = "INVITED"
  /\ Manages(caller, {org.members[i].role})
  /\ EndMembership(i, "REVOKED")
  /\ UNCHANGED expired

LeaveOrganization(caller) ==
  /\ HasRole(caller, "MEMBER")
  /\ \E i \in OpenIds(org, caller) : EndMembership(i, "LEFT")
  /\ UNCHANGED expired

RemoveOrgMember(caller, target) ==
  /\ target # caller
  /\ Writable
  /\ HasRole(caller, "ADMIN")
  /\ \E i \in OpenIds(org, target) :
       /\ IsActive(org.members[i])
       /\ Manages(caller, {org.members[i].role})
       /\ EndMembership(i, "REMOVED")
  /\ UNCHANGED expired

SetOrgMemberRole(caller, target, role) ==
  /\ Writable
  /\ HasRole(caller, "ADMIN")
  /\ \E i \in OpenIds(org, target) :
       /\ Manages(caller, {org.members[i].role, role})
       /\ org.members[i].role # role
       /\ WriteDocument(WithRole(org, i, role), SetMemberRole(Begin(doc), i, role))
  /\ UNCHANGED expired

\* team ids are never reused: a new one is in neither half
CreateOrgTeam(caller, t) ==
  /\ Writable
  /\ HasRole(caller, "ADMIN")
  /\ t \notin org.teams \cup doc.teams
  /\ Cardinality(org.teams) < MaxTeams
  /\ WriteDocument(WithTeam(org, t), AddTeam(Begin(doc), t))
  /\ UNCHANGED expired

DeleteOrgTeam(caller, t) ==
  /\ Writable
  /\ HasRole(caller, "ADMIN")
  /\ t \in org.teams
  /\ WriteDocument(WithoutTeam(org, t), RemoveTeam(Begin(doc), t))
  /\ UNCHANGED expired

SetOrgTeamMembers(caller, t, ids) ==
  /\ Writable
  /\ HasRole(caller, "ADMIN")
  /\ t \in org.teams
  /\ ids \subseteq ActiveIds(org)
  /\ WriteDocument(WithPlaces(org, t, ids), SetTeamMembers(Begin(doc), t, ids))
  /\ UNCHANGED expired

\* resolveOrgReport with TAKE_DOWN or RESTORE: it resolves a report, so it may repeat itself
ResolveOrgReport(down) ==
  /\ WriteDocument([org EXCEPT !.takenDown = down], SetTakenDown(Begin(doc), down))
  /\ UNCHANGED expired

\* Time: the 14 days of an invite pass.
InviteExpires(i) ==
  /\ i \in LiveInvites
  /\ expired' = expired \cup {i}
  /\ UNCHANGED <<org, doc, docError>>

(***************************************************************************)
(* Specification.  A behaviour starts from an organisation whose members   *)
(* are active and written in both halves: createOrganization writes one    *)
(* with a single OWNER, ADD_OWNER proposals and accepted invites (module   *)
(* OrgGovernance, and the actions above) lead to the others.               *)
(***************************************************************************)
StartMember == {NoMember} \cup [address: Person, role: StartRoles, status: {"ACTIVE"}]

StartMembers ==
  {m \in [Id -> StartMember] :
     /\ \E i \in Id : IsOwner(m[i])
     /\ \A i, j \in Id : i # j /\ IsActive(m[i]) => m[i].address # m[j].address
     /\ \A i, j \in Id : i < j /\ IsActive(m[j]) => IsActive(m[i])
     /\ Cardinality({i \in Id : IsActive(m[i])}) <= MaxActive}

Start(m) == [members |-> m, teams |-> {}, places |-> {},
             apps |-> [a \in App |-> "none"], archived |-> FALSE, takenDown |-> FALSE]

Init ==
  /\ \E m \in StartMembers : org = Start(m) /\ doc = Start(m)
  /\ docError = FALSE
  /\ expired = {}

Next ==
  \/ \E p, q \in Person, r \in Grantable :
       InviteOrgMember(p, q, r) \/ SetOrgMemberRole(p, q, r)
  \/ \E p \in Person, r \in Grantable : AcceptOrgInviteLink(p, r)
  \/ \E i \in Id : AcceptOrgInvite(i) \/ DeclineOrgInvite(i) \/ InviteExpires(i)
  \/ \E p \in Person, i \in Id : RevokeOrgInvite(p, i)
  \/ \E p \in Person : LeaveOrganization(p)
  \/ \E p, q \in Person : RemoveOrgMember(p, q)
  \/ \E p \in Person, t \in Team : CreateOrgTeam(p, t) \/ DeleteOrgTeam(p, t)
  \/ \E p \in Person, t \in Team, ids \in SUBSET Id : SetOrgTeamMembers(p, t, ids)
  \/ \E down \in Reports : ResolveOrgReport(down)

Spec == Init /\ [][Next]_memberVars

(***************************************************************************)
(* Properties                                                              *)
(***************************************************************************)
TypeOK ==
  /\ org \in OrgState
  /\ doc \in OrgState
  /\ docError \in BOOLEAN
  /\ expired \subseteq Id

\* An organisation that is not archived has an active owner, whatever became
\* of its document writes: nobody could change it otherwise.
LiveOrgHasOwner == ~org.archived => OwnerIds(org) # {}

\* The same of the document, which counts owners on its own (assertKeepsAnOwner)
\* and may have missed some of the changes.
DocumentHasOwner == ~doc.archived => OwnerIds(doc) # {}

\* Teams hold active members of existing teams: a person whose membership ended
\* has lost the app scope the team gave, even if they are invited again.
TeamsHoldActiveMembers == org.places \subseteq org.teams \X ActiveIds(org)

\* The store's checks and the document's reducers are written separately; while
\* no write is lost the reducers never refuse what the store accepted.
DocumentNeverRefuses == ~docError

\* ... and both halves say the same between any two mutations.
MirrorAgrees == doc = org

\* No mutation of this module makes an owner, and none ends an owner's role but
\* the owner's own leaveOrganization.
OwnersChangeOnlyByLeaving ==
  [][/\ OwnerIds(org') \subseteq OwnerIds(org)
     /\ \A i \in OwnerIds(org) \ OwnerIds(org') : org'.members[i].status = "LEFT"]_memberVars

\* Nobody ever holds two open memberships of one organisation, whatever became of
\* the document writes: openMember answers with one record and every role check
\* rests on it.
OneOpenRecord ==
  \A i, j \in Id :
    /\ IsOpen(org.members[i].status)
    /\ IsOpen(org.members[j].status)
    /\ org.members[i].address = org.members[j].address
    => i = j
==============================================================================
