-------------------------- MODULE OrgMembers_proofs --------------------------
(***************************************************************************)
(* The memberships and teams for any number of people, records and teams:  *)
(* types, the last owner, one open record per person, teams of active      *)
(* members, and that the document follows the store.                       *)
(***************************************************************************)
EXTENDS OrgMembers, OrgRecord_proofs

(***************************************************************************)
(* What holds of the store between any two mutations.  The parts need each *)
(* other: an owner can only be counted on while records are well-formed,   *)
(* and a re-invited person is placed nowhere because only active records   *)
(* are.                                                                    *)
(***************************************************************************)
OneOpen(o) ==
  \A i, j \in Id :
    /\ IsOpen(o.members[i].status)
    /\ IsOpen(o.members[j].status)
    /\ o.members[i].address = o.members[j].address
    => i = j

Placed(o) == o.places \subseteq o.teams \X ActiveIds(o)

\* Ownership is never invited to: accepting an invite makes no owner.
NoOwnerInvited(o) ==
  \A i \in Id : o.members[i].status = "INVITED" => o.members[i].role # "OWNER"

Sound(o) == o \in OrgState /\ Owned(o) /\ OneOpen(o) /\ Placed(o) /\ NoOwnerInvited(o)

\* Nobody becomes an owner; who stops being one has left.
OwnersLeave(o, next) ==
  /\ OwnerIds(next) \subseteq OwnerIds(o)
  /\ \A i \in OwnerIds(o) \ OwnerIds(next) : next.members[i].status = "LEFT"

\* Replacing the record i by m keeps the store sound if an owner remains, the address
\* has no other open record, and a record that is not active has no place.
LEMMA RecordSound ==
  ASSUME NEW o, Sound(o), NEW i \in Id, NEW m \in Member, NEW q \in OrgState,
         q.members = [o.members EXCEPT ![i] = m],
         q.teams = o.teams, q.places \subseteq o.places, q.archived = o.archived,
         KeepsAnOwner(o, i, m),
         IsOpen(m.status) =>
           \A j \in Id \ {i} : IsOpen(o.members[j].status) => o.members[j].address # m.address,
         ~IsActive(m) => \A pl \in q.places : pl[2] # i,
         m.status = "INVITED" => m.role # "OWNER"
  PROVE  /\ Sound(q)
         /\ OwnerIds(q) = (OwnerIds(o) \ {i}) \cup (IF IsOwner(m) THEN {i} ELSE {})
<1>1. o \in OrgState /\ Owned(o) /\ OneOpen(o) /\ Placed(o) /\ NoOwnerInvited(o)
  BY DEF Sound
<1>2. q.members[i] = m /\ \A j \in Id \ {i} : q.members[j] = o.members[j]
  BY <1>1 DEF OrgState
<1>3. OwnerIds(q) = OwnerIds(WithRecord(o, i, m))
  BY <1>1, RecordType, SameMembersSameOwners
<1>4. Owned(q)
  BY <1>1, <1>3, OwnerRemains, RecordType DEF Owned
<1>5. OneOpen(q)
  BY <1>1, <1>2 DEF OneOpen
<1>6. Placed(q)
  <2> SUFFICES ASSUME NEW pl \in q.places
               PROVE  pl \in q.teams \X ActiveIds(q)
    BY DEF Placed
  <2>1. pl \in o.teams \X ActiveIds(o) /\ pl[2] \in Id
    BY <1>1 DEF Placed, ActiveIds
  <2>2. pl[2] \in ActiveIds(q)
    BY <1>2, <2>1 DEF ActiveIds
  <2> QED
    BY <2>1, <2>2
<1>7. NoOwnerInvited(q)
  BY <1>1, <1>2 DEF NoOwnerInvited
<1> QED
  BY <1>1, <1>3, <1>4, <1>5, <1>6, <1>7, OwnersOfRecord DEF Sound

\* A change of teams and places keeps it sound if what is left is placed.
LEMMA TeamsSound ==
  ASSUME NEW o, Sound(o), NEW q \in OrgState,
         q.members = o.members, q.archived = o.archived, Placed(q)
  PROVE  Sound(q) /\ OwnerIds(q) = OwnerIds(o)
BY SameMembersSameOwners DEF Sound, Owned, OneOpen, NoOwnerInvited

\* Ending a membership that may end (members.ts, endMembership).
LEMMA EndSound ==
  ASSUME NEW o, Sound(o), NEW i \in Id, NEW status \in {"DECLINED", "REVOKED", "LEFT", "REMOVED"},
         IsOwner(o.members[i]) => Cardinality(OwnerIds(o)) > 1
  PROVE  LET q == WithoutPlaces(WithStatus(o, i, status), i)
         IN  Sound(q) /\ OwnerIds(q) = OwnerIds(o) \ {i}
<1> DEFINE m == [o.members[i] EXCEPT !.status = status]
           q == WithoutPlaces(WithStatus(o, i, status), i)
<1>1. o \in OrgState /\ status \in Status
  BY DEF Sound, Status
<1>2. /\ m \in Member
      /\ q \in OrgState
      /\ q.members = [o.members EXCEPT ![i] = m]
      /\ q.teams = o.teams
      /\ q.places = {pl \in o.places : pl[2] # i}
      /\ q.archived = o.archived
  BY <1>1, StatusType, PlacesType
<1>3. m.status = status
  BY <1>1 DEF OrgState, Member
<1>4. ~IsOpen(m.status) /\ ~IsOwner(m) /\ ~IsActive(m) /\ m.status # "INVITED"
  BY <1>3 DEF IsOpen, IsOwner, IsActive
<1>5. KeepsAnOwner(o, i, m)
  BY DEF KeepsAnOwner
<1>6. Sound(q) /\ OwnerIds(q) = (OwnerIds(o) \ {i}) \cup (IF IsOwner(m) THEN {i} ELSE {})
  <2> HIDE DEF m, q
  <2> QED
    BY <1>2, <1>4, <1>5, RecordSound
<1> QED
  BY <1>4, <1>6

\* A fresh record for an address without an open one.
LEMMA InviteSound ==
  ASSUME NEW o, Sound(o), NEW i \in Id, NEW p \in Person, NEW role \in Role,
         role # "OWNER", o.members[i].status = "NONE", OpenIds(o, p) = {}
  PROVE  LET q == WithRecord(o, i, Invited(p, role))
         IN  Sound(q) /\ OwnerIds(q) = OwnerIds(o)
<1> DEFINE m == Invited(p, role)
           q == WithRecord(o, i, m)
<1>1. o \in OrgState /\ m \in Member /\ m.address = p /\ m.status = "INVITED" /\ m.role = role
  BY InvitedType DEF Sound, Invited
<1>2. /\ q \in OrgState
      /\ q.members = [o.members EXCEPT ![i] = m]
      /\ q.teams = o.teams /\ q.places = o.places /\ q.archived = o.archived
  BY <1>1, RecordType
<1>3. ~IsOwner(o.members[i]) /\ ~IsActive(o.members[i]) /\ ~IsOwner(m)
  BY <1>1 DEF IsOwner, IsActive
<1>4. \A j \in Id \ {i} : IsOpen(o.members[j].status) => o.members[j].address # m.address
  BY <1>1 DEF OpenIds
<1>5. \A pl \in q.places : pl[2] # i
  BY <1>2, <1>3 DEF Sound, Placed, ActiveIds
<1>6. Sound(q) /\ OwnerIds(q) = (OwnerIds(o) \ {i}) \cup (IF IsOwner(m) THEN {i} ELSE {})
  <2> HIDE DEF m, q
  <2> QED
    BY <1>1, <1>2, <1>3, <1>4, <1>5, RecordSound DEF KeepsAnOwner
<1>7. i \notin OwnerIds(o)
  BY <1>3 DEF OwnerIds
<1> QED
  BY <1>3, <1>6, <1>7

LEMMA JoinedType ==
  ASSUME NEW p \in Person, NEW role \in Role
  PROVE  /\ Invited(p, role) \in Member /\ Invited(p, role).address = p
         /\ Invited(p, role).status = "INVITED"
         /\ Joined(p, role) \in Member /\ Joined(p, role).address = p
         /\ Joined(p, role).status = "ACTIVE" /\ Joined(p, role).role = role
BY DEF Joined, Invited, Member, Status

\* A record that no open one competes with becomes a member's at once.
LEMMA JoinSound ==
  ASSUME NEW o, Sound(o), NEW i \in Id, NEW p \in Person, NEW role \in Role,
         o.members[i].status = "NONE", OpenIds(o, p) = {}
  PROVE  LET q == WithRecord(o, i, Joined(p, role))
         IN  /\ Sound(q)
             /\ OwnerIds(q) = OwnerIds(o) \cup (IF role = "OWNER" THEN {i} ELSE {})
             /\ q.members[i].address = p
             /\ q.archived = o.archived /\ q.apps = o.apps
<1> DEFINE m == Joined(p, role)
           q == WithRecord(o, i, m)
<1>1. m \in Member /\ m.status = "ACTIVE" /\ m.role = role /\ m.address = p
  BY JoinedType
<1> HIDE DEF m
<1>2. o \in OrgState /\ o.members \in [Id -> Member]
  BY DEF Sound, OrgState
<1>3. /\ q \in OrgState /\ q.members = [o.members EXCEPT ![i] = m]
      /\ q.teams = o.teams /\ q.places = o.places
      /\ q.archived = o.archived /\ q.apps = o.apps
  BY <1>1, <1>2, RecordType
<1> HIDE DEF q
<1>4. /\ IsOwner(m) <=> role = "OWNER"
      /\ IsActive(m) /\ m.status # "INVITED"
      /\ ~IsOwner(o.members[i]) /\ i \notin OwnerIds(o)
  BY <1>1 DEF IsOwner, IsActive, OwnerIds
<1>5. \A j \in Id \ {i} : IsOpen(o.members[j].status) => o.members[j].address # m.address
  BY <1>1 DEF OpenIds
<1>6. Sound(q) /\ OwnerIds(q) = (OwnerIds(o) \ {i}) \cup (IF IsOwner(m) THEN {i} ELSE {})
  BY <1>1, <1>3, <1>4, <1>5, RecordSound DEF KeepsAnOwner
<1>7. OwnerIds(q) = OwnerIds(o) \cup (IF role = "OWNER" THEN {i} ELSE {})
  BY <1>4, <1>6
<1>8. q.members[i].address = p
  BY <1>1, <1>2, <1>3
<1> QED
  BY <1>3, <1>6, <1>7, <1>8 DEF q, m

\* An invite that is not expired becomes a membership.
LEMMA AcceptSound ==
  ASSUME NEW o, Sound(o), NEW i \in Id, o.members[i].status = "INVITED"
  PROVE  LET q == WithStatus(o, i, "ACTIVE")
         IN  Sound(q) /\ OwnerIds(q) = OwnerIds(o)
<1> DEFINE m == [o.members[i] EXCEPT !.status = "ACTIVE"]
           q == WithStatus(o, i, "ACTIVE")
<1>1. o \in OrgState /\ "ACTIVE" \in Status
  BY DEF Sound, Status
<1>2. /\ m \in Member /\ q \in OrgState
      /\ q.members = [o.members EXCEPT ![i] = m]
      /\ q.teams = o.teams /\ q.places = o.places /\ q.archived = o.archived
  BY <1>1, StatusType
<1>3. m.status = "ACTIVE" /\ m.address = o.members[i].address
  BY <1>1 DEF OrgState, Member
<1>4. /\ ~IsOwner(o.members[i]) /\ IsActive(m) /\ IsOpen(o.members[i].status)
      /\ m.status # "INVITED"
  BY <1>3 DEF IsOwner, IsActive, IsOpen
<1>5. \A j \in Id \ {i} : IsOpen(o.members[j].status) => o.members[j].address # m.address
  BY <1>3, <1>4 DEF Sound, OneOpen
<1>6. Sound(q) /\ OwnerIds(q) = (OwnerIds(o) \ {i}) \cup (IF IsOwner(m) THEN {i} ELSE {})
  <2> HIDE DEF m, q
  <2> QED
    BY <1>2, <1>4, <1>5, RecordSound DEF KeepsAnOwner
<1>7. ~IsOwner(m) /\ i \notin OwnerIds(o)
  <2>1. m.role = o.members[i].role /\ o.members[i].role # "OWNER"
    BY <1>1 DEF Sound, NoOwnerInvited, OrgState, Member
  <2> QED
    BY <2>1, <1>4 DEF IsOwner, OwnerIds
<1> QED
  BY <1>6, <1>7

\* Another role for an open record, if an owner remains.
LEMMA RoleSound ==
  ASSUME NEW o, Sound(o), NEW i \in Id, IsOpen(o.members[i].status), NEW role \in Role,
         role = "OWNER" => IsActive(o.members[i]),
         KeepsAnOwner(o, i, [o.members[i] EXCEPT !.role = role])
  PROVE  LET q == WithRole(o, i, role)
             m == [o.members[i] EXCEPT !.role = role]
         IN  /\ Sound(q)
             /\ OwnerIds(q) = (OwnerIds(o) \ {i}) \cup (IF IsOwner(m) THEN {i} ELSE {})
<1> DEFINE m == [o.members[i] EXCEPT !.role = role]
           q == WithRole(o, i, role)
<1>1. o \in OrgState
  BY DEF Sound
<1>2. /\ m \in Member /\ q \in OrgState
      /\ q.members = [o.members EXCEPT ![i] = m]
      /\ q.teams = o.teams /\ q.places = o.places /\ q.archived = o.archived
  BY <1>1, RoleType
<1>3. /\ m.status = o.members[i].status /\ m.address = o.members[i].address
      /\ m.role = role
  BY <1>1 DEF OrgState, Member
<1>4. \A j \in Id \ {i} : IsOpen(o.members[j].status) => o.members[j].address # m.address
  BY <1>3 DEF Sound, OneOpen
<1>5. ~IsActive(m) => \A pl \in q.places : pl[2] # i
  BY <1>2, <1>3 DEF Sound, Placed, ActiveIds, IsActive
<1>6. KeepsAnOwner(o, i, m)
  OBVIOUS
<1>7. m.status = "INVITED" => m.role # "OWNER"
  BY <1>3 DEF IsActive
<1>8. Sound(q) /\ OwnerIds(q) = (OwnerIds(o) \ {i}) \cup (IF IsOwner(m) THEN {i} ELSE {})
  <2> HIDE DEF m, q
  <2> QED
    BY <1>2, <1>4, <1>5, <1>6, <1>7, RecordSound
<1> QED
  BY <1>8

(***************************************************************************)
(* The document accepts what the store accepted, and ends up the same.     *)
(***************************************************************************)
Follows(batch, next) == ~batch.failed /\ batch.org = next

LEMMA EndFollows ==
  ASSUME NEW b \in Batch, ~b.failed, Sound(b.org), NEW i \in Id,
         NEW status \in {"DECLINED", "REVOKED", "LEFT", "REMOVED"},
         status \in NextStatus(b.org.members[i].status),
         IsOwner(b.org.members[i]) => Cardinality(OwnerIds(b.org)) > 1
  PROVE  Follows(SetMemberStatus(b, i, status),
                 WithoutPlaces(WithStatus(b.org, i, status), i))
<1>1. KeepsAnOwner(b.org, i, [b.org.members[i] EXCEPT !.status = status])
  BY DEF KeepsAnOwner
<1>2. SetMemberStatus(b, i, status)
        = [org |-> WithoutPlaces(WithStatus(b.org, i, status), i), failed |-> FALSE]
  BY <1>1 DEF SetMemberStatus, Reduce, Batch
<1> QED
  BY <1>2 DEF Follows

LEMMA AcceptFollows ==
  ASSUME NEW b \in Batch, ~b.failed, NEW i \in Id, b.org.members[i].status = "INVITED",
         Cardinality(ActiveIds(b.org)) < MaxActive
  PROVE  Follows(SetMemberStatus(b, i, "ACTIVE"), WithStatus(b.org, i, "ACTIVE"))
<1>1. KeepsAnOwner(b.org, i, [b.org.members[i] EXCEPT !.status = "ACTIVE"])
  BY DEF KeepsAnOwner, IsOwner
<1>2. "ACTIVE" \in NextStatus(b.org.members[i].status)
  BY DEF NextStatus
<1>3. SetMemberStatus(b, i, "ACTIVE")
        = [org |-> WithStatus(b.org, i, "ACTIVE"), failed |-> FALSE]
  BY <1>1, <1>2 DEF SetMemberStatus, Reduce, Batch
<1> QED
  BY <1>3 DEF Follows

LEMMA InviteFollows ==
  ASSUME NEW b \in Batch, ~b.failed, NEW i \in Id, NEW p \in Person, NEW role \in Role,
         b.org.members[i].status = "NONE", OpenIds(b.org, p) = {}
  PROVE  Follows(InviteMember(b, i, p, role), WithRecord(b.org, i, Invited(p, role)))
<1>1. InviteMember(b, i, p, role)
        = [org |-> WithRecord(b.org, i, Invited(p, role)), failed |-> FALSE]
  BY DEF InviteMember, Reduce, Batch
<1> QED
  BY <1>1 DEF Follows

\* Two actions of a batch: the invite takes no member's room, and the acceptance follows if
\* there is room.
LEMMA JoinInvites ==
  ASSUME NEW b \in Batch, ~b.failed, NEW i \in Id, NEW p \in Person, NEW role \in Role,
         b.org.members[i].status = "NONE", OpenIds(b.org, p) = {}
  PROVE  LET first == InviteMember(b, i, p, role)
         IN  /\ first \in Batch /\ ~first.failed
             /\ first.org = WithRecord(b.org, i, Invited(p, role))
             /\ first.org.members[i].status = "INVITED"
             /\ ActiveIds(first.org) = ActiveIds(b.org)
<1> DEFINE first == InviteMember(b, i, p, role)
<1>1. first \in Batch
  BY InviteAnswers
<1>2. ~first.failed /\ first.org = WithRecord(b.org, i, Invited(p, role))
  BY InviteFollows DEF Follows
<1> HIDE DEF first
<1>3. b.org \in OrgState /\ b.org.members \in [Id -> Member]
  BY DEF Batch, OrgState
<1>4. first.org.members = [b.org.members EXCEPT ![i] = Invited(p, role)]
  BY <1>2, <1>3, JoinedType, RecordType
<1>5. first.org.members[i].status = "INVITED" /\ ~IsActive(b.org.members[i])
  BY <1>3, <1>4, JoinedType DEF IsActive
<1>6. \A j \in Id : IsActive(first.org.members[j]) <=> IsActive(b.org.members[j])
  BY <1>3, <1>4, <1>5 DEF IsActive
<1> QED
  BY <1>1, <1>2, <1>5, <1>6 DEF ActiveIds, first

LEMMA JoinFollows ==
  ASSUME NEW b \in Batch, ~b.failed, NEW i \in Id, NEW p \in Person, NEW role \in Role,
         b.org.members[i].status = "NONE", OpenIds(b.org, p) = {},
         Cardinality(ActiveIds(b.org)) < MaxActive
  PROVE  Follows(Join(b, i, p, role), WithRecord(b.org, i, Joined(p, role)))
<1> DEFINE first == InviteMember(b, i, p, role)
<1>1. /\ first \in Batch /\ ~first.failed
      /\ first.org = WithRecord(b.org, i, Invited(p, role))
      /\ first.org.members[i].status = "INVITED"
      /\ ActiveIds(first.org) = ActiveIds(b.org)
  BY JoinInvites
<1> HIDE DEF first
<1>2. Follows(SetMemberStatus(first, i, "ACTIVE"), WithStatus(first.org, i, "ACTIVE"))
  BY <1>1, AcceptFollows
<1>3. WithStatus(first.org, i, "ACTIVE") = WithRecord(b.org, i, Joined(p, role))
  <2> DEFINE m == Invited(p, role)
             n == [m EXCEPT !.status = "ACTIVE"]
  <2>1. n = Joined(p, role)
    BY DEF Joined
  <2>2. WithStatus(WithRecord(b.org, i, m), i, "ACTIVE") = WithRecord(b.org, i, n)
    <3>1. b.org \in OrgState
      BY DEF Batch
    <3> HIDE DEF m
    <3> QED
      BY <3>1 DEF WithStatus, WithRecord, OrgState
  <2> QED
    BY <1>1, <2>1, <2>2
<1> QED
  BY <1>2, <1>3 DEF Join, first

LEMMA RoleFollows ==
  ASSUME NEW b \in Batch, ~b.failed, NEW i \in Id, NEW role \in Role,
         IsOpen(b.org.members[i].status),
         KeepsAnOwner(b.org, i, [b.org.members[i] EXCEPT !.role = role])
  PROVE  Follows(SetMemberRole(b, i, role), WithRole(b.org, i, role))
<1>1. SetMemberRole(b, i, role) = [org |-> WithRole(b.org, i, role), failed |-> FALSE]
  BY DEF SetMemberRole, Reduce, Batch
<1> QED
  BY <1>1 DEF Follows

\* A record that is not active holds no place, so there is none to remove.
LEMMA NothingToUnplace ==
  ASSUME NEW o, Sound(o), NEW i \in Id, ~IsActive(o.members[i]), NEW status \in Status
  PROVE  WithoutPlaces(WithStatus(o, i, status), i) = WithStatus(o, i, status)
<1>1. o \in OrgState /\ \A pl \in o.places : pl[2] # i
  BY DEF Sound, Placed, ActiveIds
<1>2. {pl \in o.places : pl[2] # i} = o.places
  BY <1>1
<1>3. WithStatus(o, i, status) \in OrgState /\ WithStatus(o, i, status).places = o.places
  BY <1>1, StatusType
<1> QED
  BY <1>2, <1>3 DEF WithoutPlaces, OrgState

\* Once its only open record is ended, an address has none.
LEMMA RevokedIsClosed ==
  ASSUME NEW o, Sound(o), NEW p \in Person, NEW old \in OpenIds(o, p)
  PROVE  OpenIds(WithStatus(o, old, "REVOKED"), p) = {}
<1> DEFINE q == WithStatus(o, old, "REVOKED")
<1>1. o \in OrgState /\ old \in Id /\ o.members[old].address = p /\ IsOpen(o.members[old].status)
  BY DEF Sound, OpenIds
<1>2. /\ q.members[old] = [o.members[old] EXCEPT !.status = "REVOKED"]
      /\ \A j \in Id \ {old} : q.members[j] = o.members[j]
  <2>1. "REVOKED" \in Status
    BY DEF Status
  <2>2. q.members = [o.members EXCEPT ![old] = [o.members[old] EXCEPT !.status = "REVOKED"]]
    BY <1>1, <2>1, StatusType
  <2>3. o.members \in [Id -> Member]
    BY <1>1 DEF OrgState
  <2> HIDE DEF q
  <2> QED
    BY <1>1, <2>2, <2>3
<1>3. q.members[old].status = "REVOKED"
  BY <1>1, <1>2 DEF OrgState, Member
<1>4. \A j \in Id \ {old} : ~(o.members[j].address = p /\ IsOpen(o.members[j].status))
  BY <1>1 DEF Sound, OneOpen
<1>5. \A j \in Id : ~(q.members[j].address = p /\ IsOpen(q.members[j].status))
  BY <1>2, <1>3, <1>4 DEF IsOpen
<1> QED
  BY <1>5 DEF OpenIds

(***************************************************************************)
(* Every mutation writes a sound store and a batch the document follows    *)
(* with, and then comes to one of the ends WriteDocument enumerates.       *)
(***************************************************************************)
\* The same organisation, but for its apps: what is attached to the store reaches the
\* document later or never (mirrorOrgApp), and no change of members or teams reads it.
Same(o, d) == d = [o EXCEPT !.apps = d.apps]

LEMMA SameShape ==
  ASSUME NEW o \in OrgState, NEW d \in OrgState, Same(o, d)
  PROVE  /\ d.members = o.members /\ d.teams = o.teams /\ d.places = o.places
         /\ d.archived = o.archived /\ d.takenDown = o.takenDown
         /\ ActiveIds(d) = ActiveIds(o) /\ OwnerIds(d) = OwnerIds(o)
         /\ \A p : OpenIds(d, p) = OpenIds(o, p)
         /\ Sound(o) => Sound(d)
<1>1. /\ d.members = o.members /\ d.teams = o.teams /\ d.places = o.places
      /\ d.archived = o.archived /\ d.takenDown = o.takenDown
  BY DEF Same, OrgState
<1>2. /\ ActiveIds(d) = ActiveIds(o) /\ OwnerIds(d) = OwnerIds(o)
      /\ \A p : OpenIds(d, p) = OpenIds(o, p)
  BY <1>1 DEF ActiveIds, OwnerIds, OpenIds
<1> QED
  BY <1>1, <1>2 DEF Sound, Owned, OneOpen, Placed, NoOwnerInvited

LEMMA StatusApart ==
  ASSUME NEW o \in OrgState, NEW d \in OrgState, Same(o, d), NEW i \in Id, NEW status
  PROVE  WithStatus(d, i, status) = [WithStatus(o, i, status) EXCEPT !.apps = d.apps]
BY DEF Same, OrgState, WithStatus

LEMMA RoleApart ==
  ASSUME NEW o \in OrgState, NEW d \in OrgState, Same(o, d), NEW i \in Id, NEW role
  PROVE  WithRole(d, i, role) = [WithRole(o, i, role) EXCEPT !.apps = d.apps]
BY DEF Same, OrgState, WithRole

LEMMA RecordApart ==
  ASSUME NEW o \in OrgState, NEW d \in OrgState, Same(o, d), NEW i \in Id, NEW m
  PROVE  WithRecord(d, i, m) = [WithRecord(o, i, m) EXCEPT !.apps = d.apps]
BY DEF Same, OrgState, WithRecord

LEMMA EndApart ==
  ASSUME NEW o \in OrgState, NEW d \in OrgState, Same(o, d), NEW i \in Id, NEW status
  PROVE  WithoutPlaces(WithStatus(d, i, status), i) = [WithoutPlaces(WithStatus(o, i, status), i) EXCEPT !.apps = d.apps]
BY DEF Same, OrgState, WithStatus, WithoutPlaces

LEMMA RejoinApart ==
  ASSUME NEW o \in OrgState, NEW d \in OrgState, Same(o, d), NEW i \in Id, NEW j \in Id, NEW status, NEW m
  PROVE  WithRecord(WithStatus(d, j, status), i, m) = [WithRecord(WithStatus(o, j, status), i, m) EXCEPT !.apps = d.apps]
BY DEF Same, OrgState, WithStatus, WithRecord

LEMMA TeamApart ==
  ASSUME NEW o \in OrgState, NEW d \in OrgState, Same(o, d), NEW t
  PROVE  WithTeam(d, t) = [WithTeam(o, t) EXCEPT !.apps = d.apps]
BY DEF Same, OrgState, WithTeam

LEMMA PlacesApart ==
  ASSUME NEW o \in OrgState, NEW d \in OrgState, Same(o, d), NEW t, NEW ids
  PROVE  WithPlaces(d, t, ids) = [WithPlaces(o, t, ids) EXCEPT !.apps = d.apps]
BY DEF Same, OrgState, WithPlaces

LEMMA NoTeamApart ==
  ASSUME NEW o \in OrgState, NEW d \in OrgState, Same(o, d), NEW t
  PROVE  WithoutTeam(d, t) = [WithoutTeam(o, t) EXCEPT !.apps = d.apps]
BY DEF Same, OrgState, WithPlaces, WithoutTeam

LEMMA ArchivedApart ==
  ASSUME NEW o \in OrgState, NEW d \in OrgState, Same(o, d)
  PROVE  Archived(d) = [Archived(o) EXCEPT !.apps = d.apps]
BY DEF Same, OrgState, Archived

\* An archived organisation with nothing left in it.
Over(o) ==
  o.archived /\ (\A i \in Id : ~IsOpen(o.members[i].status)) /\ o.places = {}

Change(next, batch) ==
  /\ Sound(next)
  /\ batch \in Batch
  /\ Owned(doc) => Owned(batch.org)
  /\ Same(org, doc) => Follows(batch, [next EXCEPT !.apps = doc.apps])
  /\ OwnersLeave(org, next)
  /\ next.archived = org.archived
  /\ next.apps = org.apps
  /\ Over(org) => next.members = org.members /\ next.places = org.places

Mutates == \E next, batch : Change(next, batch) /\ WriteDocument(next, batch)

LEMMA EndMutates ==
  ASSUME TypeOK, Sound(org), NEW i \in Id,
         NEW status \in {"DECLINED", "REVOKED", "LEFT", "REMOVED"},
         status \in NextStatus(org.members[i].status),
         IsOwner(org.members[i]) => status = "LEFT",
         EndMembership(i, status)
  PROVE  Mutates
<1> DEFINE b == Begin(doc)
           next == WithoutPlaces(WithStatus(org, i, status), i)
           batch == SetMemberStatus(b, i, status)
<1>1. org \in OrgState /\ doc \in OrgState /\ status \in Status
  BY DEF TypeOK, Status
<1>2. b \in Batch /\ b.org = doc /\ ~b.failed
  BY <1>1, BeginType
<1>3. IsOwner(org.members[i]) => Cardinality(OwnerIds(org)) > 1
  BY DEF EndMembership
<1>4. Sound(next) /\ OwnerIds(next) = OwnerIds(org) \ {i}
  BY <1>3, EndSound
<1>5. Keeps(b, batch)
  BY <1>1, <1>2, SetStatusKeeps
<1>6. ASSUME Same(org, doc) PROVE Follows(batch, [next EXCEPT !.apps = doc.apps])
  <2>1. Sound(doc) /\ doc.members = org.members /\ OwnerIds(doc) = OwnerIds(org)
    BY <1>1, <1>6, SameShape
  <2>2. Follows(batch, WithoutPlaces(WithStatus(doc, i, status), i))
    BY <1>2, <1>3, <2>1, EndFollows
  <2> QED
    BY <1>1, <1>6, <2>2, EndApart
<1>7. /\ next.archived = org.archived /\ next.apps = org.apps
      /\ next.members = [org.members EXCEPT ![i] = [org.members[i] EXCEPT !.status = status]]
  <2> DEFINE set == WithStatus(org, i, status)
  <2>1. /\ set \in OrgState /\ set.archived = org.archived /\ set.apps = org.apps
        /\ set.members = [org.members EXCEPT ![i] = [org.members[i] EXCEPT !.status = status]]
    BY <1>1, StatusType
  <2>2. /\ WithoutPlaces(set, i).members = set.members
        /\ WithoutPlaces(set, i).archived = set.archived
        /\ WithoutPlaces(set, i).apps = set.apps
    BY <2>1, PlacesType
  <2> QED
    BY <2>1, <2>2
<1>8. OwnersLeave(org, next)
  <2>1. next.members[i].status = status
    BY <1>1, <1>7 DEF OrgState, Member
  <2>2. \A j \in OwnerIds(org) \ OwnerIds(next) : j = i /\ IsOwner(org.members[i])
    BY <1>4 DEF OwnerIds
  <2> QED
    BY <1>4, <2>1, <2>2 DEF OwnersLeave
<1>9. WriteDocument(next, batch)
  BY DEF EndMembership
<1>10. ~Over(org)
  BY DEF Over, NextStatus, IsOpen
<1>11. Change(next, batch)
  BY <1>2, <1>4, <1>5, <1>6, <1>7, <1>8, <1>10 DEF Change, Keeps
<1> QED
  BY <1>9, <1>11 DEF Mutates

LEMMA InviteMutates ==
  ASSUME TypeOK, Sound(org), NEW p \in Person, NEW q \in Person, NEW role \in Grantable,
         InviteOrgMember(p, q, role)
  PROVE  Mutates
<1> DEFINE b == Begin(doc)
<1>0. ~Over(org)
  BY DEF InviteOrgMember, Writable, Over
<1>1. org \in OrgState /\ doc \in OrgState /\ role \in Role /\ role # "OWNER"
  BY MembersAssumption DEF TypeOK
<1>2. b \in Batch /\ b.org = doc /\ ~b.failed
  BY <1>1, BeginType
<1>3. PICK new \in NewIds :
       \/ /\ OpenIds(org, q) = {}
          /\ WriteDocument(WithRecord(org, new, Invited(q, role)), InviteMember(b, new, q, role))
       \/ \E old \in OpenIds(org, q) :
            WriteDocument(WithRecord(WithStatus(org, old, "REVOKED"), new, Invited(q, role)),
                          InviteMember(SetMemberStatus(b, old, "REVOKED"), new, q, role))
  BY DEF InviteOrgMember
<1>4. new \in Id /\ org.members[new].status = "NONE"
  BY DEF NewIds, FreshIds
<1>5. CASE /\ OpenIds(org, q) = {}
           /\ WriteDocument(WithRecord(org, new, Invited(q, role)), InviteMember(b, new, q, role))
  <2> DEFINE next == WithRecord(org, new, Invited(q, role))
             batch == InviteMember(b, new, q, role)
  <2>1. Sound(next) /\ OwnerIds(next) = OwnerIds(org)
    BY <1>1, <1>4, <1>5, InviteSound
  <2>2. Keeps(b, batch)
    BY <1>1, <1>2, <1>4, InviteKeeps
  <2>3. ASSUME Same(org, doc) PROVE Follows(batch, [next EXCEPT !.apps = doc.apps])
    <3>1. doc.members = org.members /\ OpenIds(doc, q) = OpenIds(org, q)
      BY <1>1, <2>3, SameShape
    <3>2. Follows(batch, WithRecord(doc, new, Invited(q, role)))
      BY <1>1, <1>2, <1>4, <1>5, <3>1, InviteFollows
    <3> QED
      BY <1>1, <1>4, <2>3, <3>2, RecordApart
  <2>4. next.archived = org.archived /\ next.apps = org.apps
    BY <1>1, <1>4, InvitedType, RecordType
  <2>5. Change(next, batch)
    BY <1>0, <1>2, <2>1, <2>2, <2>3, <2>4 DEF Change, Keeps, OwnersLeave
  <2> QED
    BY <1>5, <2>5 DEF Mutates
<1>6. ASSUME NEW old \in OpenIds(org, q),
             WriteDocument(WithRecord(WithStatus(org, old, "REVOKED"), new, Invited(q, role)),
                           InviteMember(SetMemberStatus(b, old, "REVOKED"), new, q, role))
      PROVE  Mutates
  <2> DEFINE revoked == WithStatus(org, old, "REVOKED")
             first == SetMemberStatus(b, old, "REVOKED")
             next == WithRecord(revoked, new, Invited(q, role))
             batch == InviteMember(first, new, q, role)
  <2>1. old \in Id /\ org.members[old].status = "INVITED"
    BY DEF InviteOrgMember, ExpiredInvite, OpenIds
  <2>2. old # new /\ ~IsActive(org.members[old]) /\ ~IsOwner(org.members[old])
    BY <1>4, <2>1 DEF IsActive, IsOwner
  <2>3. WithoutPlaces(revoked, old) = revoked
    BY <2>1, <2>2, NothingToUnplace DEF Status
  <2>4. Sound(revoked) /\ OwnerIds(revoked) = OwnerIds(org)
    <3>1. Sound(revoked) /\ OwnerIds(revoked) = OwnerIds(org) \ {old}
      BY <2>1, <2>2, <2>3, EndSound
    <3>2. old \notin OwnerIds(org)
      BY <2>2 DEF OwnerIds
    <3> QED
      BY <3>1, <3>2
  <2>5. /\ revoked \in OrgState /\ revoked.members[new].status = "NONE"
        /\ revoked.archived = org.archived /\ revoked.apps = org.apps
    <3>1. "REVOKED" \in Status
      BY DEF Status
    <3>2. /\ revoked \in OrgState
          /\ revoked.archived = org.archived /\ revoked.apps = org.apps
          /\ revoked.members
               = [org.members EXCEPT ![old] = [org.members[old] EXCEPT !.status = "REVOKED"]]
      BY <1>1, <2>1, <3>1, StatusType
    <3>3. revoked.members[new] = org.members[new]
      BY <1>1, <1>4, <2>1, <2>2, <3>2 DEF OrgState
    <3> QED
      BY <1>4, <3>2, <3>3
  <2>6. OpenIds(revoked, q) = {}
    BY RevokedIsClosed
  <2>7. Sound(next) /\ OwnerIds(next) = OwnerIds(org)
    BY <1>1, <1>4, <2>4, <2>5, <2>6, InviteSound
  <2>8. Keeps(b, first)
    BY <1>2, <2>1, SetStatusKeeps DEF Status
  <2>9. Keeps(first, batch)
    BY <1>1, <1>4, <2>8, InviteKeeps DEF Keeps
  <2>10. ASSUME Same(org, doc) PROVE Follows(batch, [next EXCEPT !.apps = doc.apps])
    <3>1. Sound(doc) /\ doc.members = org.members /\ OpenIds(doc, q) = OpenIds(org, q)
      BY <1>1, <2>10, SameShape
    <3>2. Follows(first, WithStatus(doc, old, "REVOKED"))
      BY <1>2, <2>1, <2>2, <3>1, EndFollows, NothingToUnplace DEF NextStatus, Status
    <3>3. OpenIds(WithStatus(doc, old, "REVOKED"), q) = {}
      BY <3>1, RevokedIsClosed
    <3>4. WithStatus(doc, old, "REVOKED").members[new].status = "NONE"
      BY <1>1, <1>4, <2>2, <3>1 DEF WithStatus, OrgState
    <3>5. Follows(batch, WithRecord(WithStatus(doc, old, "REVOKED"), new, Invited(q, role)))
      BY <1>1, <1>4, <2>8, <3>2, <3>3, <3>4, InviteFollows DEF Follows, Keeps
    <3> QED
      BY <1>1, <1>4, <2>1, <2>10, <3>5, RejoinApart
  <2>12. next.archived = org.archived /\ next.apps = org.apps
    BY <1>1, <1>4, <2>5, InvitedType, RecordType
  <2>13. Change(next, batch)
    BY <1>0, <1>2, <2>7, <2>8, <2>9, <2>10, <2>12 DEF Change, Keeps, OwnersLeave
  <2> QED
    BY <1>6, <2>13 DEF Mutates
<1> QED
  BY <1>3, <1>5, <1>6

LEMMA JoinKeeps ==
  ASSUME NEW b \in Batch, NEW i \in Id, NEW p \in Person, NEW role \in Role
  PROVE  Keeps(b, Join(b, i, p, role))
<1> DEFINE first == InviteMember(b, i, p, role)
<1>1. Keeps(b, first)
  BY InviteKeeps
<1>2. Keeps(first, SetMemberStatus(first, i, "ACTIVE"))
  <2>1. first \in Batch /\ "ACTIVE" \in Status
    BY <1>1 DEF Keeps, Status
  <2> HIDE DEF first
  <2> QED
    BY <2>1, SetStatusKeeps
<1> QED
  BY <1>1, <1>2 DEF Join, Keeps

\* The same with the use of a link instead of an invite: one batch makes the member.
LEMMA LinkMutates ==
  ASSUME TypeOK, Sound(org), NEW q \in Person, NEW role \in Grantable,
         AcceptOrgInviteLink(q, role)
  PROVE  Mutates
<1> DEFINE b == Begin(doc)
<1>0. ~Over(org) /\ Cardinality(ActiveIds(org)) < MaxActive
  BY DEF AcceptOrgInviteLink, Writable, Over
<1>1. org \in OrgState /\ doc \in OrgState /\ role \in Role /\ role # "OWNER"
  BY MembersAssumption DEF TypeOK
<1>2. b \in Batch /\ b.org = doc /\ ~b.failed
  BY <1>1, BeginType
<1>3. PICK new \in NewIds :
       \/ /\ OpenIds(org, q) = {}
          /\ WriteDocument(WithRecord(org, new, Joined(q, role)), Join(b, new, q, role))
       \/ \E old \in OpenIds(org, q) :
            WriteDocument(WithRecord(WithStatus(org, old, "REVOKED"), new, Joined(q, role)),
                          Join(SetMemberStatus(b, old, "REVOKED"), new, q, role))
  BY DEF AcceptOrgInviteLink
<1>4. new \in Id /\ org.members[new].status = "NONE"
  BY DEF NewIds, FreshIds
<1>5. CASE /\ OpenIds(org, q) = {}
           /\ WriteDocument(WithRecord(org, new, Joined(q, role)), Join(b, new, q, role))
  <2> DEFINE next == WithRecord(org, new, Joined(q, role))
             batch == Join(b, new, q, role)
  <2>1. /\ Sound(next) /\ OwnerIds(next) = OwnerIds(org)
        /\ next.archived = org.archived /\ next.apps = org.apps
    <3>1. /\ Sound(next)
          /\ OwnerIds(next) = OwnerIds(org) \cup (IF role = "OWNER" THEN {new} ELSE {})
          /\ next.archived = org.archived /\ next.apps = org.apps
      BY <1>1, <1>4, <1>5, JoinSound
    <3> HIDE DEF next
    <3> QED
      BY <1>1, <3>1
  <2>2. Keeps(b, batch)
    BY <1>1, <1>2, <1>4, JoinKeeps
  <2>3. ASSUME Same(org, doc) PROVE Follows(batch, [next EXCEPT !.apps = doc.apps])
    <3>1. /\ doc.members = org.members /\ OpenIds(doc, q) = OpenIds(org, q)
          /\ ActiveIds(doc) = ActiveIds(org)
      BY <1>1, <2>3, SameShape
    <3>2. Follows(batch, WithRecord(doc, new, Joined(q, role)))
      BY <1>0, <1>1, <1>2, <1>4, <1>5, <3>1, JoinFollows
    <3> QED
      BY <1>1, <1>4, <2>3, <3>2, RecordApart
  <2> HIDE DEF next, batch
  <2>4. Change(next, batch)
    BY <1>0, <1>2, <2>1, <2>2, <2>3 DEF Change, Keeps, OwnersLeave
  <2> QED
    BY <1>5, <2>4 DEF Mutates, next, batch
<1>6. ASSUME NEW old \in OpenIds(org, q),
             WriteDocument(WithRecord(WithStatus(org, old, "REVOKED"), new, Joined(q, role)),
                           Join(SetMemberStatus(b, old, "REVOKED"), new, q, role))
      PROVE  Mutates
  <2> DEFINE revoked == WithStatus(org, old, "REVOKED")
             first == SetMemberStatus(b, old, "REVOKED")
             next == WithRecord(revoked, new, Joined(q, role))
             batch == Join(first, new, q, role)
  <2>1. old \in Id /\ org.members[old].status = "INVITED"
    BY DEF AcceptOrgInviteLink, ExpiredInvite, OpenIds
  <2>2. old # new /\ ~IsActive(org.members[old]) /\ ~IsOwner(org.members[old])
    BY <1>4, <2>1 DEF IsActive, IsOwner
  <2>3. WithoutPlaces(revoked, old) = revoked
    BY <2>1, <2>2, NothingToUnplace DEF Status
  <2>4. Sound(revoked) /\ OwnerIds(revoked) = OwnerIds(org)
    <3>1. Sound(revoked) /\ OwnerIds(revoked) = OwnerIds(org) \ {old}
      BY <2>1, <2>2, <2>3, EndSound
    <3>2. old \notin OwnerIds(org)
      BY <2>2 DEF OwnerIds
    <3> QED
      BY <3>1, <3>2
  <2>5. /\ revoked.members[new].status = "NONE"
        /\ revoked.archived = org.archived /\ revoked.apps = org.apps
    <3>1. /\ revoked.archived = org.archived /\ revoked.apps = org.apps
          /\ revoked.members
               = [org.members EXCEPT ![old] = [org.members[old] EXCEPT !.status = "REVOKED"]]
      BY <1>1, <2>1, StatusType DEF Status
    <3>2. revoked.members[new] = org.members[new]
      BY <1>1, <1>4, <2>1, <2>2, <3>1 DEF OrgState
    <3> QED
      BY <1>4, <3>1, <3>2
  <2>6. OpenIds(revoked, q) = {}
    BY RevokedIsClosed
  <2>7. /\ Sound(next) /\ OwnerIds(next) = OwnerIds(org)
        /\ next.archived = org.archived /\ next.apps = org.apps
    <3> HIDE DEF revoked
    <3>1. /\ Sound(next)
          /\ OwnerIds(next) = OwnerIds(revoked) \cup (IF role = "OWNER" THEN {new} ELSE {})
          /\ next.archived = revoked.archived /\ next.apps = revoked.apps
      BY <1>1, <1>4, <2>4, <2>5, <2>6, JoinSound
    <3> HIDE DEF next
    <3> QED
      BY <1>1, <2>4, <2>5, <3>1
  <2>8. Keeps(b, first)
    BY <1>2, <2>1, SetStatusKeeps DEF Status
  <2>9. Keeps(first, batch)
    BY <1>1, <1>4, <2>8, JoinKeeps DEF Keeps
  <2>10. ASSUME Same(org, doc) PROVE Follows(batch, [next EXCEPT !.apps = doc.apps])
    <3> DEFINE left == WithStatus(doc, old, "REVOKED")
    <3>1. /\ Sound(doc) /\ doc.members = org.members /\ OpenIds(doc, q) = OpenIds(org, q)
          /\ ActiveIds(doc) = ActiveIds(org)
      BY <1>1, <2>10, SameShape
    <3>2. Follows(first, left)
      BY <1>2, <2>1, <2>2, <3>1, EndFollows, NothingToUnplace DEF NextStatus, Status
    <3>3. OpenIds(left, q) = {}
      BY <3>1, RevokedIsClosed
    <3>4. /\ left.members[new].status = "NONE"
          /\ ActiveIds(left) = ActiveIds(org)
      <4>0. "REVOKED" \in Status
        BY DEF Status
      <4>1. left.members
              = [org.members EXCEPT ![old] = [org.members[old] EXCEPT !.status = "REVOKED"]]
        <5>1. left.members
                = [doc.members EXCEPT ![old] = [doc.members[old] EXCEPT !.status = "REVOKED"]]
          BY <1>1, <2>1, <4>0, StatusType
        <5> QED
          BY <3>1, <5>1
      <4>2. org.members \in [Id -> Member]
        BY <1>1 DEF OrgState
      <4> HIDE DEF left
      <4>3. \A j \in Id : IsActive(left.members[j]) <=> IsActive(org.members[j])
        BY <2>1, <4>1, <4>2 DEF IsActive, Member
      <4> QED
        BY <1>4, <2>2, <4>1, <4>2, <4>3 DEF ActiveIds
    <3>5. Follows(batch, WithRecord(left, new, Joined(q, role)))
      <4>1. first \in Batch /\ first.org = left /\ ~first.failed
        BY <2>8, <3>2 DEF Follows, Keeps
      <4> HIDE DEF first, left
      <4> QED
        BY <1>0, <1>1, <1>4, <3>3, <3>4, <4>1, JoinFollows
    <3> QED
      BY <1>1, <1>4, <2>1, <2>10, <3>5, RejoinApart
  <2> HIDE DEF next, batch, first
  <2>11. Change(next, batch)
    BY <1>0, <1>2, <2>7, <2>8, <2>9, <2>10 DEF Change, Keeps, OwnersLeave
  <2> QED
    BY <1>6, <2>11 DEF Mutates, next, batch, first
<1> QED
  BY <1>3, <1>5, <1>6

LEMMA AcceptMutates ==
  ASSUME TypeOK, Sound(org), NEW i \in Id, AcceptOrgInvite(i)
  PROVE  Mutates
<1> DEFINE b == Begin(doc)
           next == WithStatus(org, i, "ACTIVE")
           batch == SetMemberStatus(b, i, "ACTIVE")
<1>1. /\ org \in OrgState /\ doc \in OrgState /\ "ACTIVE" \in Status
      /\ org.members[i].status = "INVITED"
      /\ Cardinality(ActiveIds(org)) < MaxActive
      /\ WriteDocument(next, batch)
  BY DEF TypeOK, AcceptOrgInvite, LiveInvites, Status
<1>2. b \in Batch /\ b.org = doc /\ ~b.failed
  BY <1>1, BeginType
<1>3. Sound(next) /\ OwnerIds(next) = OwnerIds(org)
  BY <1>1, AcceptSound
<1>4. Keeps(b, batch)
  BY <1>1, <1>2, SetStatusKeeps
<1>5. ASSUME Same(org, doc) PROVE Follows(batch, [next EXCEPT !.apps = doc.apps])
  <2>1. doc.members = org.members /\ ActiveIds(doc) = ActiveIds(org)
    BY <1>1, <1>5, SameShape
  <2>2. Follows(batch, WithStatus(doc, i, "ACTIVE"))
    BY <1>1, <1>2, <2>1, AcceptFollows
  <2> QED
    BY <1>1, <1>5, <2>2, StatusApart
<1>6. next.archived = org.archived /\ next.apps = org.apps
  BY <1>1, StatusType
<1>7. OwnersLeave(org, next)
  BY <1>3 DEF OwnersLeave
<1>8. ~Over(org)
  BY DEF AcceptOrgInvite, Writable, Over
<1>9. Change(next, batch)
  BY <1>2, <1>3, <1>4, <1>5, <1>6, <1>7, <1>8 DEF Change, Keeps
<1> QED
  BY <1>1, <1>9 DEF Mutates

LEMMA RoleMutates ==
  ASSUME TypeOK, Sound(org), NEW p \in Person, NEW q \in Person, NEW role \in Grantable,
         SetOrgMemberRole(p, q, role)
  PROVE  Mutates
<1> DEFINE b == Begin(doc)
<1>1. org \in OrgState /\ doc \in OrgState /\ role \in Role /\ role # "OWNER"
  BY MembersAssumption DEF TypeOK
<1>2. b \in Batch /\ b.org = doc /\ ~b.failed
  BY <1>1, BeginType
<1>3. PICK i \in OpenIds(org, q) :
       /\ Manages(p, {org.members[i].role, role})
       /\ WriteDocument(WithRole(org, i, role), SetMemberRole(b, i, role))
  BY DEF SetOrgMemberRole
<1> DEFINE next == WithRole(org, i, role)
           batch == SetMemberRole(b, i, role)
           m == [org.members[i] EXCEPT !.role = role]
<1>4. i \in Id /\ IsOpen(org.members[i].status)
  BY DEF OpenIds
<1>5. ~IsOwner(org.members[i])
  BY <1>3 DEF Manages, IsOwner
<1>6. KeepsAnOwner(org, i, m)
  BY <1>5 DEF KeepsAnOwner
<1>7. m.role = role
  BY <1>1, <1>4 DEF OrgState, Member
<1>8. ~IsOwner(m) /\ i \notin OwnerIds(org)
  BY <1>1, <1>5, <1>7 DEF IsOwner, OwnerIds
<1>9. Sound(next) /\ OwnerIds(next) = OwnerIds(org)
  <2>1. Sound(next) /\ OwnerIds(next) = (OwnerIds(org) \ {i}) \cup (IF IsOwner(m) THEN {i} ELSE {})
    BY <1>1, <1>4, <1>6, RoleSound
  <2> QED
    BY <1>8, <2>1
<1>10. Keeps(b, batch)
  BY <1>1, <1>2, <1>4, SetRoleKeeps
<1>11. ASSUME Same(org, doc) PROVE Follows(batch, [next EXCEPT !.apps = doc.apps])
  <2>1. doc.members = org.members
    BY <1>1, <1>11, SameShape
  <2>2. KeepsAnOwner(doc, i, [doc.members[i] EXCEPT !.role = role])
    BY <1>5, <2>1 DEF KeepsAnOwner
  <2>3. Follows(batch, WithRole(doc, i, role))
    BY <1>1, <1>2, <1>4, <2>1, <2>2, RoleFollows
  <2> QED
    BY <1>1, <1>4, <1>11, <2>3, RoleApart
<1>12. next.archived = org.archived /\ next.apps = org.apps
  BY <1>1, <1>4, RoleType
<1>13. ~Over(org)
  BY DEF SetOrgMemberRole, Writable, Over
<1>14. Change(next, batch)
  BY <1>2, <1>9, <1>10, <1>11, <1>12, <1>13 DEF Change, Keeps, OwnersLeave
<1> QED
  BY <1>3, <1>14 DEF Mutates

\* The team mutations: none touches a member.
LEMMA TeamMutates ==
  ASSUME TypeOK, Sound(org), NEW next \in OrgState, NEW batch,
         next.members = org.members, next.archived = org.archived, next.apps = org.apps,
         Placed(next), Keeps(Begin(doc), batch),
         Same(org, doc) => Follows(batch, [next EXCEPT !.apps = doc.apps]),
         Over(org) => next.places = org.places,
         WriteDocument(next, batch)
  PROVE  Mutates
<1>1. Begin(doc).org = doc
  BY BeginType DEF TypeOK
<1>2. Sound(next) /\ OwnerIds(next) = OwnerIds(org)
  BY TeamsSound
<1>3. Change(next, batch)
  BY <1>1, <1>2 DEF Change, Keeps, OwnersLeave
<1> QED
  BY <1>3 DEF Mutates

LEMMA CreateTeamMutates ==
  ASSUME TypeOK, Sound(org), NEW p \in Person, NEW t \in Team, CreateOrgTeam(p, t)
  PROVE  Mutates
<1> DEFINE b == Begin(doc)
           next == WithTeam(org, t)
           batch == AddTeam(b, t)
<1>1. org \in OrgState /\ b \in Batch /\ b.org = doc /\ ~b.failed
  BY BeginType DEF TypeOK
<1>2. /\ next \in OrgState /\ next.members = org.members /\ next.places = org.places
      /\ next.teams = org.teams \cup {t}
      /\ next.archived = org.archived /\ next.apps = org.apps
  BY <1>1, TeamTypes
<1>3. Placed(next)
  <2>1. ActiveIds(next) = ActiveIds(org)
    BY <1>2 DEF ActiveIds
  <2> QED
    BY <1>2, <2>1 DEF Sound, Placed
<1>4. Keeps(b, batch)
  BY <1>1, TeamReducersKeep
<1>5. ASSUME Same(org, doc) PROVE Follows(batch, [next EXCEPT !.apps = doc.apps])
  <2>1. doc.teams = org.teams /\ ActiveIds(doc) = ActiveIds(org)
    BY <1>1, <1>5, SameShape DEF TypeOK
  <2>2. batch = [org |-> WithTeam(doc, t), failed |-> FALSE]
    BY <1>1, <2>1 DEF CreateOrgTeam, AddTeam, Reduce, Batch
  <2>3. WithTeam(doc, t) = [next EXCEPT !.apps = doc.apps]
    BY <1>5, TeamApart DEF TypeOK
  <2> QED
    BY <2>2, <2>3 DEF Follows
<1>6. WriteDocument(next, batch) /\ ~Over(org)
  BY DEF CreateOrgTeam, Writable, Over
<1> QED
  <2> HIDE DEF b, next, batch
  <2> QED
    BY <1>2, <1>3, <1>4, <1>5, <1>6, TeamMutates DEF b

LEMMA DeleteTeamMutates ==
  ASSUME TypeOK, Sound(org), NEW p \in Person, NEW t \in Team, DeleteOrgTeam(p, t)
  PROVE  Mutates
<1> DEFINE b == Begin(doc)
           next == WithoutTeam(org, t)
           batch == RemoveTeam(b, t)
<1>1. org \in OrgState /\ b \in Batch /\ b.org = doc /\ ~b.failed
  BY BeginType DEF TypeOK
<1>2. /\ next \in OrgState /\ next.members = org.members
      /\ next.places = {pl \in org.places : pl[1] # t}
      /\ next.teams = org.teams \ {t}
      /\ next.archived = org.archived /\ next.apps = org.apps
  BY <1>1, NoTeamType
<1>3. Placed(next)
  <2>1. ActiveIds(next) = ActiveIds(org)
    BY <1>2 DEF ActiveIds
  <2>2. org.places \subseteq org.teams \X ActiveIds(org)
    BY DEF Sound, Placed
  <2>3. {pl \in org.places : pl[1] # t} \subseteq (org.teams \ {t}) \X ActiveIds(org)
    BY <2>2
  <2> QED
    BY <1>2, <2>1, <2>3 DEF Placed
<1>4. Keeps(b, batch)
  BY <1>1, TeamReducersKeep
<1>5. ASSUME Same(org, doc) PROVE Follows(batch, [next EXCEPT !.apps = doc.apps])
  <2>1. doc.teams = org.teams /\ ActiveIds(doc) = ActiveIds(org)
    BY <1>1, <1>5, SameShape DEF TypeOK
  <2>2. batch = [org |-> WithoutTeam(doc, t), failed |-> FALSE]
    BY <1>1, <2>1 DEF DeleteOrgTeam, RemoveTeam, Reduce, Batch
  <2>3. WithoutTeam(doc, t) = [next EXCEPT !.apps = doc.apps]
    BY <1>5, NoTeamApart DEF TypeOK
  <2> QED
    BY <2>2, <2>3 DEF Follows
<1>6. WriteDocument(next, batch) /\ ~Over(org)
  BY DEF DeleteOrgTeam, Writable, Over
<1> QED
  <2> HIDE DEF b, next, batch
  <2> QED
    BY <1>2, <1>3, <1>4, <1>5, <1>6, TeamMutates DEF b

LEMMA SetTeamMutates ==
  ASSUME TypeOK, Sound(org), NEW p \in Person, NEW t \in Team, NEW ids \in SUBSET Id,
         SetOrgTeamMembers(p, t, ids)
  PROVE  Mutates
<1> DEFINE b == Begin(doc)
           next == WithPlaces(org, t, ids)
           batch == SetTeamMembers(b, t, ids)
<1>1. org \in OrgState /\ b \in Batch /\ b.org = doc /\ ~b.failed
  BY BeginType DEF TypeOK
<1>2. /\ next \in OrgState /\ next.members = org.members
      /\ next.places = {pl \in org.places : pl[1] # t} \cup ({t} \X ids)
      /\ next.teams = org.teams
      /\ next.archived = org.archived /\ next.apps = org.apps
  BY <1>1, TeamPlacesType
<1>3. Placed(next)
  <2>1. ActiveIds(next) = ActiveIds(org)
    BY <1>2 DEF ActiveIds
  <2>2. org.places \subseteq org.teams \X ActiveIds(org)
    BY DEF Sound, Placed
  <2>3. t \in org.teams /\ ids \subseteq ActiveIds(org)
    BY DEF SetOrgTeamMembers
  <2>4. {pl \in org.places : pl[1] # t} \cup ({t} \X ids) \subseteq org.teams \X ActiveIds(org)
    BY <2>2, <2>3
  <2> QED
    BY <1>2, <2>1, <2>4 DEF Placed
<1>4. Keeps(b, batch)
  BY <1>1, TeamReducersKeep
<1>5. ASSUME Same(org, doc) PROVE Follows(batch, [next EXCEPT !.apps = doc.apps])
  <2>1. doc.teams = org.teams /\ ActiveIds(doc) = ActiveIds(org)
    BY <1>1, <1>5, SameShape DEF TypeOK
  <2>2. batch = [org |-> WithPlaces(doc, t, ids), failed |-> FALSE]
    BY <1>1, <2>1 DEF SetOrgTeamMembers, SetTeamMembers, Reduce, Batch
  <2>3. WithPlaces(doc, t, ids) = [next EXCEPT !.apps = doc.apps]
    BY <1>5, PlacesApart DEF TypeOK
  <2> QED
    BY <2>2, <2>3 DEF Follows
<1>6. WriteDocument(next, batch) /\ ~Over(org)
  BY DEF SetOrgTeamMembers, Writable, Over
<1> QED
  <2> HIDE DEF b, next, batch
  <2> QED
    BY <1>2, <1>3, <1>4, <1>5, <1>6, TeamMutates DEF b

LEMMA ReportMutates ==
  ASSUME TypeOK, Sound(org), NEW down \in Reports, ResolveOrgReport(down)
  PROVE  Mutates
<1> DEFINE b == Begin(doc)
           next == [org EXCEPT !.takenDown = down]
           batch == SetTakenDown(b, down)
<1>1. org \in OrgState /\ b \in Batch /\ b.org = doc /\ ~b.failed /\ down \in BOOLEAN
  BY BeginType, MembersAssumption DEF TypeOK
<1>2. /\ next \in OrgState /\ next.members = org.members
      /\ next.places = org.places /\ next.teams = org.teams
      /\ next.archived = org.archived /\ next.apps = org.apps
  BY <1>1, TakenDownType
<1>3. Placed(next)
  <2>1. ActiveIds(next) = ActiveIds(org)
    BY <1>2 DEF ActiveIds
  <2> QED
    BY <1>2, <2>1 DEF Sound, Placed
<1>4. Keeps(b, batch)
  BY <1>1, OrgReducersKeep
<1>5. ASSUME Same(org, doc) PROVE Follows(batch, [next EXCEPT !.apps = doc.apps])
  <2>1. batch = [org |-> [doc EXCEPT !.takenDown = down], failed |-> FALSE]
    BY <1>1 DEF SetTakenDown, Reduce, Batch
  <2>2. [doc EXCEPT !.takenDown = down] = [next EXCEPT !.apps = doc.apps]
    BY <1>5 DEF Same, TypeOK, OrgState
  <2> QED
    BY <2>1, <2>2 DEF Follows
<1>6. WriteDocument(next, batch)
  BY DEF ResolveOrgReport
<1> QED
  <2> HIDE DEF b, next, batch
  <2> QED
    BY <1>2, <1>3, <1>4, <1>5, <1>6, TeamMutates DEF b

\* One step of the module: a mutation, or an invite expires.
LEMMA NextMutates ==
  ASSUME TypeOK, Sound(org), Next
  PROVE  \/ Mutates /\ UNCHANGED expired
         \/ expired' \subseteq Id /\ UNCHANGED <<org, doc, docError>>
<1>0. org \in OrgState /\ expired \subseteq Id
  BY DEF TypeOK
<1>1. ASSUME NEW p \in Person, NEW q \in Person, NEW r \in Grantable, InviteOrgMember(p, q, r)
      PROVE  Mutates /\ UNCHANGED expired
  BY <1>1, InviteMutates DEF InviteOrgMember
<1>2. ASSUME NEW p \in Person, NEW q \in Person, NEW r \in Grantable, SetOrgMemberRole(p, q, r)
      PROVE  Mutates /\ UNCHANGED expired
  BY <1>2, RoleMutates DEF SetOrgMemberRole
<1>3. ASSUME NEW i \in Id, AcceptOrgInvite(i)
      PROVE  Mutates /\ UNCHANGED expired
  BY <1>3, AcceptMutates DEF AcceptOrgInvite
<1>4. ASSUME NEW i \in Id, DeclineOrgInvite(i)
      PROVE  Mutates /\ UNCHANGED expired
  <2>1. org.members[i].status = "INVITED" /\ EndMembership(i, "DECLINED") /\ UNCHANGED expired
    BY <1>4 DEF DeclineOrgInvite, LiveInvites
  <2> QED
    BY <2>1, EndMutates DEF NextStatus, IsOwner
<1>5. ASSUME NEW p \in Person, NEW i \in Id, RevokeOrgInvite(p, i)
      PROVE  Mutates /\ UNCHANGED expired
  <2>1. org.members[i].status = "INVITED" /\ EndMembership(i, "REVOKED") /\ UNCHANGED expired
    BY <1>5 DEF RevokeOrgInvite
  <2> QED
    BY <2>1, EndMutates DEF NextStatus, IsOwner
<1>6. ASSUME NEW p \in Person, LeaveOrganization(p)
      PROVE  Mutates /\ UNCHANGED expired
  <2>1. PICK j \in OpenIds(org, p) : IsActive(org.members[j])
    BY <1>6 DEF LeaveOrganization, HasRole
  <2>2. PICK i \in OpenIds(org, p) : EndMembership(i, "LEFT")
    BY <1>6 DEF LeaveOrganization
  <2>3. i \in Id /\ org.members[i].status = "ACTIVE"
    BY <2>1, <2>2 DEF OpenIds, Sound, OneOpen, IsActive
  <2> QED
    BY <1>6, <2>2, <2>3, EndMutates DEF NextStatus, LeaveOrganization
<1>7. ASSUME NEW p \in Person, NEW q \in Person, RemoveOrgMember(p, q)
      PROVE  Mutates /\ UNCHANGED expired
  <2>1. PICK i \in OpenIds(org, q) :
          /\ IsActive(org.members[i])
          /\ Manages(p, {org.members[i].role})
          /\ EndMembership(i, "REMOVED")
    BY <1>7 DEF RemoveOrgMember
  <2>2. i \in Id /\ org.members[i].status = "ACTIVE" /\ ~IsOwner(org.members[i])
    BY <2>1 DEF OpenIds, IsActive, IsOwner, Manages
  <2> QED
    BY <1>7, <2>1, <2>2, EndMutates DEF NextStatus, RemoveOrgMember
<1>8. ASSUME NEW p \in Person, NEW t \in Team, CreateOrgTeam(p, t)
      PROVE  Mutates /\ UNCHANGED expired
  BY <1>8, CreateTeamMutates DEF CreateOrgTeam
<1>9. ASSUME NEW p \in Person, NEW t \in Team, DeleteOrgTeam(p, t)
      PROVE  Mutates /\ UNCHANGED expired
  BY <1>9, DeleteTeamMutates DEF DeleteOrgTeam
<1>10. ASSUME NEW p \in Person, NEW t \in Team, NEW ids \in SUBSET Id, SetOrgTeamMembers(p, t, ids)
       PROVE  Mutates /\ UNCHANGED expired
  BY <1>10, SetTeamMutates DEF SetOrgTeamMembers
<1>11. ASSUME NEW down \in Reports, ResolveOrgReport(down)
       PROVE  Mutates /\ UNCHANGED expired
  BY <1>11, ReportMutates DEF ResolveOrgReport
<1>12. ASSUME NEW i \in Id, InviteExpires(i)
       PROVE  expired' \subseteq Id /\ UNCHANGED <<org, doc, docError>>
  BY <1>0, <1>12 DEF InviteExpires
<1>13. ASSUME NEW p \in Person, NEW r \in Grantable, AcceptOrgInviteLink(p, r)
       PROVE  Mutates /\ UNCHANGED expired
  BY <1>13, LinkMutates DEF AcceptOrgInviteLink
<1> QED
  BY <1>1, <1>2, <1>3, <1>4, <1>5, <1>6, <1>7, <1>8, <1>9, <1>10, <1>11, <1>12, <1>13 DEF Next

(***************************************************************************)
(* The inductive invariant.                                                *)
(***************************************************************************)
MembersInv == TypeOK /\ Sound(org) /\ Owned(doc)

LEMMA MembersInvInit == Init => MembersInv /\ doc = org /\ ~docError
<1> SUFFICES ASSUME Init PROVE MembersInv /\ doc = org /\ ~docError
  OBVIOUS
<1>1. PICK m \in StartMembers : org = Start(m) /\ doc = Start(m)
  BY DEF Init
<1>2. NoMember \in Member /\ [address: Person, role: StartRoles, status: {"ACTIVE"}] \subseteq Member
  BY MembersAssumption DEF NoMember, Member, Role, Status
<1>3. m \in [Id -> Member]
  BY <1>2 DEF StartMembers, StartMember
<1>4. \A i \in Id : m[i] = NoMember \/ m[i].status = "ACTIVE"
  BY DEF StartMembers, StartMember
<1>5. org \in OrgState /\ org.members = m /\ org.places = {}
  BY <1>1, <1>3 DEF Start, OrgState
<1>6. Owned(org)
  <2>1. \E i \in Id : IsOwner(m[i])
    BY DEF StartMembers
  <2> QED
    BY <1>5, <2>1 DEF Owned, OwnerIds
<1>7. \A i \in Id : IsOpen(m[i].status) => IsActive(m[i])
  BY <1>4 DEF IsOpen, IsActive, NoMember
<1>8. OneOpen(org)
  <2>1. \A i, j \in Id : i # j /\ IsActive(m[i]) => m[i].address # m[j].address
    BY DEF StartMembers
  <2> QED
    BY <1>5, <1>7, <2>1 DEF OneOpen
<1>9. NoOwnerInvited(org)
  BY <1>4, <1>5 DEF NoOwnerInvited, NoMember
<1>10. Sound(org)
  BY <1>5, <1>6, <1>8, <1>9 DEF Sound, Placed
<1> QED
  BY <1>1, <1>5, <1>6, <1>10 DEF MembersInv, TypeOK, Init

\* The ends of a document write: the store is the one before or the one written.
LEMMA WriteEnds ==
  ASSUME TypeOK, NEW next, NEW batch \in Batch, WriteDocument(next, batch)
  PROVE  org' \in {org, next} /\ doc' \in {doc, batch.org} /\ docError' \in BOOLEAN
<1>1. batch.failed \in BOOLEAN /\ docError \in BOOLEAN
  BY DEF Batch, TypeOK
<1> QED
  BY <1>1 DEF WriteDocument, Written, Unavailable, Stopped

LEMMA MembersInvKept == MembersInv /\ [Next]_memberVars => MembersInv'
<1> SUFFICES ASSUME MembersInv, [Next]_memberVars
             PROVE  MembersInv'
  OBVIOUS
<1>1. ASSUME Mutates, UNCHANGED expired
      PROVE  MembersInv'
  <2>1. PICK next, batch : Change(next, batch) /\ WriteDocument(next, batch)
    BY <1>1 DEF Mutates
  <2>2. /\ Sound(next) /\ next \in OrgState
        /\ batch \in Batch /\ batch.org \in OrgState
        /\ Owned(batch.org)
    BY <2>1 DEF Change, Sound, Batch, MembersInv
  <2>3. org' \in {org, next} /\ doc' \in {doc, batch.org} /\ docError' \in BOOLEAN
    BY <2>1, <2>2, WriteEnds DEF MembersInv
  <2>4. Sound(org')
    BY <2>2, <2>3 DEF MembersInv
  <2>5. doc' \in OrgState /\ Owned(doc')
    BY <2>2, <2>3 DEF MembersInv, TypeOK
  <2> QED
    BY <1>1, <2>3, <2>4, <2>5 DEF MembersInv, TypeOK, Sound
<1>2. CASE expired' \subseteq Id /\ UNCHANGED <<org, doc, docError>>
  BY <1>2 DEF MembersInv, TypeOK
<1>3. CASE UNCHANGED memberVars
  BY <1>3 DEF MembersInv, TypeOK, memberVars
<1> QED
  BY <1>1, <1>2, <1>3, NextMutates DEF MembersInv

THEOREM MembersInvariant == Spec => []MembersInv
BY MembersInvInit, MembersInvKept, PTL DEF Spec

\* Both halves always have the shape of an organisation.
THEOREM MembersTypeCorrect == Spec => []TypeOK
<1>1. MembersInv => TypeOK
  BY DEF MembersInv
<1> QED
  BY <1>1, MembersInvariant, PTL

\* Whatever becomes of its document writes, an organisation keeps an active owner
\* (endMembership's LAST_OWNER, SetMemberRole's assertManages).
THEOREM OwnerRemainsInStore == Spec => []LiveOrgHasOwner
<1>1. MembersInv => LiveOrgHasOwner
  BY DEF MembersInv, Sound, Owned, LiveOrgHasOwner
<1> QED
  BY <1>1, MembersInvariant, PTL

\* ... and so does its document (assertKeepsAnOwner of the document model), although
\* writes may be lost or applied unheard.
THEOREM OwnerRemainsInDocument == Spec => []DocumentHasOwner
<1>1. MembersInv => DocumentHasOwner
  BY DEF MembersInv, Owned, DocumentHasOwner
<1> QED
  BY <1>1, MembersInvariant, PTL

\* Nobody holds two open records of one organisation.
THEOREM OneRecordEach == Spec => []OneOpenRecord
<1>1. MembersInv => OneOpenRecord
  BY DEF MembersInv, Sound, OneOpen, OneOpenRecord
<1> QED
  BY <1>1, MembersInvariant, PTL

\* A place in a team ends with the membership.
THEOREM PlacesAreActive == Spec => []TeamsHoldActiveMembers
<1>1. MembersInv => TeamsHoldActiveMembers
  BY DEF MembersInv, Sound, Placed, TeamsHoldActiveMembers
<1> QED
  BY <1>1, MembersInvariant, PTL

\* While the document service fails only by not being reached, the document never
\* refuses what the store accepted and both stay the same.
THEOREM DocumentFollows ==
  ASSUME Faults \subseteq {"unwritten"}
  PROVE  Spec => [](MirrorAgrees /\ DocumentNeverRefuses)
<1> DEFINE Inv == MembersInv /\ doc = org /\ ~docError
<1>1. Init => Inv
  BY MembersInvInit
<1>2. Inv /\ [Next]_memberVars => Inv'
  <2> SUFFICES ASSUME Inv, [Next]_memberVars
               PROVE  Inv'
    OBVIOUS
  <2>1. MembersInv'
    BY MembersInvKept
  <2>2. ASSUME Mutates
        PROVE  doc' = org' /\ ~docError'
    <3>1. PICK next, batch : Change(next, batch) /\ WriteDocument(next, batch)
      BY <2>2 DEF Mutates
    <3>2. next \in OrgState /\ next.apps = org.apps /\ org \in OrgState
      BY <3>1 DEF Change, Sound, MembersInv
    <3>3. Same(org, doc) /\ [next EXCEPT !.apps = doc.apps] = next
      BY <3>2 DEF Same, OrgState
    <3>4. ~batch.failed /\ batch.org = next
      BY <3>1, <3>3 DEF Change, Follows
    <3>5. "unheard" \notin Faults /\ "lost" \notin Faults
      OBVIOUS
    <3> QED
      BY <3>1, <3>4, <3>5 DEF WriteDocument, Written, Unavailable, Stopped
  <2> QED
    BY <2>1, <2>2, NextMutates DEF MembersInv, memberVars
<1>3. Inv => MirrorAgrees /\ DocumentNeverRefuses
  BY DEF MirrorAgrees, DocumentNeverRefuses
<1> QED
  BY <1>1, <1>2, <1>3, PTL DEF Spec

\* In particular no reducer refuses what a mutation's own checks let through: the
\* checks of areas/members.ts and areas/teams.ts are as strong as the document's.
THEOREM NothingIsRefused ==
  ASSUME Faults \subseteq {"unwritten"}
  PROVE  Spec => []DocumentNeverRefuses
BY DocumentFollows, PTL

\* No mutation of this module makes an owner; only leaving unmakes one.
THEOREM OwnersOnlyLeave == Spec => OwnersChangeOnlyByLeaving
<1> DEFINE Step == /\ OwnerIds(org') \subseteq OwnerIds(org)
                   /\ \A i \in OwnerIds(org) \ OwnerIds(org') : org'.members[i].status = "LEFT"
<1>1. MembersInv /\ [Next]_memberVars => [Step]_memberVars
  <2> SUFFICES ASSUME MembersInv, Next
               PROVE  Step
    OBVIOUS
  <2>1. ASSUME Mutates
        PROVE  Step
    <3>1. PICK next, batch : Change(next, batch) /\ WriteDocument(next, batch)
      BY <2>1 DEF Mutates
    <3>2. OwnersLeave(org, next) /\ batch \in Batch
      BY <3>1 DEF Change
    <3>3. org' \in {org, next}
      BY <3>1, <3>2, WriteEnds DEF MembersInv
    <3> QED
      BY <3>2, <3>3 DEF OwnersLeave
  <2> QED
    BY <2>1, NextMutates DEF MembersInv
<1> QED
  BY <1>1, MembersInvariant, PTL DEF Spec, OwnersChangeOnlyByLeaving

(***************************************************************************)
(* The two halves when the document service fails only by not being        *)
(* reached, for the module that also recovers organisations (where the     *)
(* document may refuse what the store accepted): each change leaves them   *)
(* alike, whether the document takes all of its batch or refuses some.     *)
(***************************************************************************)
Mirrored(o, d) == Mirrors(o, d) /\ SameFreezes(o, d)

\* Where the halves stand after a batch was reduced.
Whole(next, batch) ==
  /\ batch \in Batch
  /\ Mirrored(IF batch.failed THEN org ELSE next, batch.org)

LEMMA MirroredEnds ==
  ASSUME Faults \subseteq {"unwritten"}, Mirrored(org, doc), NEW next, NEW batch,
         Whole(next, batch), WriteDocument(next, batch)
  PROVE  Mirrored(org', doc')
<1>1. "unheard" \notin Faults /\ "lost" \notin Faults
  OBVIOUS
<1> QED
  BY <1>1 DEF WriteDocument, Written, Unavailable, Stopped, Whole, Batch

\* The batch is begun with the document.
LEMMA Begun ==
  ASSUME TypeOK
  PROVE  /\ org \in OrgState /\ doc \in OrgState
         /\ Begin(doc) \in Batch /\ Begin(doc).org = doc /\ ~Begin(doc).failed
BY BeginType DEF TypeOK

\* One action about one record, which both halves have.
LEMMA RecordMirrored ==
  ASSUME TypeOK, Mirrored(org, doc), NEW i \in Id, NEW m, NEW n, NEW next, NEW batch \in Batch,
         next.members = [org.members EXCEPT ![i] = m], next.apps = org.apps,
         RefusedBy(Begin(doc), batch) \/ Rewrites(Begin(doc), batch, i, n),
         ~batch.failed =>
           /\ Alike(m, n)
           /\ org.members[i].status # "NONE" \/ doc.members[i].status # "INVITED"
           /\ m.status = "INVITED" =>
                n.status = "INVITED" \/ \E j \in Id \ {i} : Stray(org, doc, j, m.address)
  PROVE  Whole(next, batch)
<1>1. CASE batch.failed
  <2>1. batch.org = doc
    BY <1>1, Begun DEF RefusedBy, Rewrites
  <2> QED
    BY <1>1, <2>1 DEF Whole
<1>2. CASE ~batch.failed
  <2>1. batch.org.members = [doc.members EXCEPT ![i] = n] /\ batch.org.apps = doc.apps
    BY <1>2, Begun DEF RefusedBy, Rewrites
  <2>2. Mirrors(next, batch.org)
    BY <1>2, <2>1, Begun, PairChanges DEF Mirrored
  <2> QED
    BY <1>2, <2>1, <2>2 DEF Whole, Mirrored, SameFreezes
<1> QED
  BY <1>1, <1>2 DEF Batch

LEMMA EndMirrored ==
  ASSUME TypeOK, Mirrored(org, doc), NEW i \in Id, IsOpen(org.members[i].status),
         NEW status \in {"DECLINED", "REVOKED", "LEFT", "REMOVED"}
  PROVE  Whole(WithoutPlaces(WithStatus(org, i, status), i),
               SetMemberStatus(Begin(doc), i, status))
<1> DEFINE set == WithStatus(org, i, status)
           next == WithoutPlaces(set, i)
           batch == SetMemberStatus(Begin(doc), i, status)
           m == [org.members[i] EXCEPT !.status = status]
           n == [doc.members[i] EXCEPT !.status = status]
<1>1. status \in Status
  BY DEF Status
<1>2. /\ batch \in Batch
      /\ \/ RefusedBy(Begin(doc), batch)
         \/ /\ status \in NextStatus(doc.members[i].status)
            /\ Rewrites(Begin(doc), batch, i, n)
  BY <1>1, Begun, StatusAnswers
<1>3. next.members = [org.members EXCEPT ![i] = m] /\ next.apps = org.apps
  <2>1. set \in OrgState /\ set.members = [org.members EXCEPT ![i] = m] /\ set.apps = org.apps
    BY <1>1, Begun, StatusType
  <2> HIDE DEF set
  <2> QED
    BY <2>1, PlacesType
<1>4. /\ m.status = status /\ m.address = org.members[i].address /\ m.role = org.members[i].role
      /\ n.status = status /\ n.address = doc.members[i].address /\ n.role = doc.members[i].role
  BY Begun DEF OrgState, Member
<1>5. org.members[i].status # "NONE" /\ Alike(org.members[i], doc.members[i])
  BY DEF Mirrored, Mirrors, IsOpen
<1>6. status \in NextStatus(doc.members[i].status) => doc.members[i].status # "NONE"
  BY DEF NextStatus
<1>7. ~batch.failed => Rewrites(Begin(doc), batch, i, n) /\ Alike(m, n)
  <2> SUFFICES ASSUME ~batch.failed PROVE Rewrites(Begin(doc), batch, i, n) /\ Alike(m, n)
    OBVIOUS
  <2>1. Rewrites(Begin(doc), batch, i, n) /\ doc.members[i].status # "NONE"
    BY <1>2, <1>6 DEF RefusedBy
  <2> HIDE DEF m, n, batch
  <2> QED
    BY <1>4, <1>5, <2>1 DEF Alike, IsActive
<1> QED
  <2> HIDE DEF next, batch, m, n
  <2>1. Whole(next, batch)
    BY <1>2, <1>3, <1>4, <1>5, <1>7, RecordMirrored
  <2> QED
    BY <2>1 DEF next, batch

LEMMA AcceptMirrored ==
  ASSUME TypeOK, Mirrored(org, doc), NEW i \in Id, org.members[i].status = "INVITED"
  PROVE  Whole(WithStatus(org, i, "ACTIVE"), SetMemberStatus(Begin(doc), i, "ACTIVE"))
<1> DEFINE next == WithStatus(org, i, "ACTIVE")
           batch == SetMemberStatus(Begin(doc), i, "ACTIVE")
           m == [org.members[i] EXCEPT !.status = "ACTIVE"]
           n == [doc.members[i] EXCEPT !.status = "ACTIVE"]
<1>1. "ACTIVE" \in Status
  BY DEF Status
<1>2. /\ batch \in Batch
      /\ \/ RefusedBy(Begin(doc), batch)
         \/ /\ "ACTIVE" \in NextStatus(doc.members[i].status)
            /\ Rewrites(Begin(doc), batch, i, n)
  BY <1>1, Begun, StatusAnswers
<1>3. next.members = [org.members EXCEPT ![i] = m] /\ next.apps = org.apps
  BY <1>1, Begun, StatusType
<1>4. /\ m.status = "ACTIVE" /\ m.address = org.members[i].address /\ m.role = org.members[i].role
      /\ n.status = "ACTIVE" /\ n.address = doc.members[i].address /\ n.role = doc.members[i].role
  BY Begun DEF OrgState, Member
<1>5. Alike(org.members[i], doc.members[i])
  BY DEF Mirrored, Mirrors
<1>6. "ACTIVE" \in NextStatus(doc.members[i].status) => doc.members[i].status # "NONE"
  BY DEF NextStatus
<1>7. ~batch.failed => Rewrites(Begin(doc), batch, i, n) /\ Alike(m, n)
  <2> SUFFICES ASSUME ~batch.failed PROVE Rewrites(Begin(doc), batch, i, n) /\ Alike(m, n)
    OBVIOUS
  <2>1. Rewrites(Begin(doc), batch, i, n) /\ doc.members[i].status # "NONE"
    BY <1>2, <1>6 DEF RefusedBy
  <2> HIDE DEF m, n, batch
  <2> QED
    BY <1>4, <1>5, <2>1 DEF Alike, IsActive
<1> QED
  <2> HIDE DEF next, batch, m, n
  <2>1. Whole(next, batch)
    BY <1>2, <1>3, <1>4, <1>7, RecordMirrored
  <2> QED
    BY <2>1 DEF next, batch

LEMMA RoleMirrored ==
  ASSUME TypeOK, Mirrored(org, doc), NEW i \in Id, IsOpen(org.members[i].status), NEW role \in Role
  PROVE  Whole(WithRole(org, i, role), SetMemberRole(Begin(doc), i, role))
<1> DEFINE next == WithRole(org, i, role)
           batch == SetMemberRole(Begin(doc), i, role)
           m == [org.members[i] EXCEPT !.role = role]
           n == [doc.members[i] EXCEPT !.role = role]
<1>1. /\ batch \in Batch
      /\ \/ RefusedBy(Begin(doc), batch)
         \/ /\ IsOpen(doc.members[i].status)
            /\ Rewrites(Begin(doc), batch, i, n)
  BY Begun, RoleAnswers
<1>2. next.members = [org.members EXCEPT ![i] = m] /\ next.apps = org.apps
  BY Begun, RoleType
<1>3. /\ m.status = org.members[i].status /\ m.address = org.members[i].address /\ m.role = role
      /\ n.status = doc.members[i].status /\ n.address = doc.members[i].address /\ n.role = role
  BY Begun DEF OrgState, Member
<1>4. Alike(org.members[i], doc.members[i])
  BY DEF Mirrored, Mirrors
<1>5. ~batch.failed => Rewrites(Begin(doc), batch, i, n) /\ IsOpen(doc.members[i].status)
  BY <1>1 DEF RefusedBy
<1>6. ~batch.failed => Alike(m, n) /\ (m.status = "INVITED" => n.status = "INVITED")
  <2> SUFFICES ASSUME ~batch.failed PROVE Alike(m, n) /\ (m.status = "INVITED" => n.status = "INVITED")
    OBVIOUS
  <2> HIDE DEF m, n, batch
  <2> QED
    BY <1>3, <1>4, <1>5 DEF Alike, IsActive, IsOpen
<1> QED
  <2> HIDE DEF next, batch, m, n
  <2>1. Whole(next, batch)
    BY <1>1, <1>2, <1>5, <1>6, RecordMirrored DEF IsOpen
  <2> QED
    BY <2>1 DEF next, batch

LEMMA InviteMirrored ==
  ASSUME TypeOK, Mirrored(org, doc), NEW new \in NewIds, NEW p \in Person, NEW role \in Role
  PROVE  Whole(WithRecord(org, new, Invited(p, role)), InviteMember(Begin(doc), new, p, role))
<1> DEFINE next == WithRecord(org, new, Invited(p, role))
           batch == InviteMember(Begin(doc), new, p, role)
           m == Invited(p, role)
<1>1. /\ new \in Id /\ doc.members[new].status = "NONE"
  BY DEF NewIds, FreshIds
<1>2. batch \in Batch /\ (RefusedBy(Begin(doc), batch) \/ Rewrites(Begin(doc), batch, new, m))
  BY <1>1, Begun, InviteAnswers
<1>3. next.members = [org.members EXCEPT ![new] = m] /\ next.apps = org.apps
  BY <1>1, Begun, RecordType, InvitedType
<1>4. Alike(m, m) /\ m.status = "INVITED"
  BY DEF Alike, Invited
<1> QED
  <2> HIDE DEF next, batch, m
  <2>1. Whole(next, batch)
    BY <1>1, <1>2, <1>3, <1>4, RecordMirrored
  <2> QED
    BY <2>1 DEF next, batch

(***************************************************************************)
(* Inviting again: the old invite is revoked and a new record follows.     *)
(* The document takes both actions; or an invite it has and the store has  *)
(* not stands in the way of the new one.                                   *)
(***************************************************************************)
Again(b, old, new, p, role) ==
  InviteMember(SetMemberStatus(b, old, "REVOKED"), new, p, role)

Gone(m) == [m EXCEPT !.status = "REVOKED"]

Replaces(o, q, old, new, m) ==
  /\ q.members[old] = Gone(o.members[old])
  /\ q.members[new] = m
  /\ \A k \in Id \ {old, new} : q.members[k] = o.members[k]

LEMMA GoneRecord ==
  ASSUME NEW m \in Member
  PROVE  /\ Gone(m) \in Member /\ Gone(m).status = "REVOKED" /\ Gone(m).address = m.address
         /\ Gone(m).role = m.role
BY DEF Gone, Member, Status

\* One record is rewritten after the other.
LEMMA TwoRecords ==
  ASSUME NEW o \in OrgState, NEW old \in Id, NEW new \in Id, old # new, NEW m, NEW q,
         q.members = [[o.members EXCEPT ![old] = Gone(o.members[old])] EXCEPT ![new] = m]
  PROVE  Replaces(o, q, old, new, m)
BY DEF Replaces, OrgState

LEMMA Reinvited ==
  ASSUME TypeOK, OneOpen(org), Mirrored(org, doc), NEW old \in Id, NEW new \in NewIds,
         NEW p \in Person, NEW role \in Role,
         org.members[old].status = "INVITED", org.members[old].address = p
  PROVE  LET batch == Again(Begin(doc), old, new, p, role)
         IN  /\ batch \in Batch /\ batch.org.apps = doc.apps
             /\ \/ /\ ~batch.failed /\ doc.members[old].status = "INVITED"
                   /\ Replaces(doc, batch.org, old, new, Invited(p, role))
                \/ /\ batch.failed
                   /\ batch.org.members[new].status = "NONE"
                   /\ Mirrors(org, batch.org)
<1> DEFINE gone == Gone(doc.members[old])
           revoked == SetMemberStatus(Begin(doc), old, "REVOKED")
           batch == InviteMember(revoked, new, p, role)
<1>1. /\ new \in Id /\ org.members[new].status = "NONE" /\ doc.members[new].status = "NONE"
      /\ new # old
  BY DEF NewIds, FreshIds
<1>2. "REVOKED" \in Status
  BY DEF Status
<1>3. /\ revoked \in Batch
      /\ \/ RefusedBy(Begin(doc), revoked) /\ doc.members[old].status # "INVITED"
         \/ /\ "REVOKED" \in NextStatus(doc.members[old].status)
            /\ Rewrites(Begin(doc), revoked, old, gone)
  BY <1>2, Begun, StatusAnswers DEF Gone
<1> HIDE DEF revoked
<1>4. /\ batch \in Batch
      /\ \/ /\ RefusedBy(revoked, batch)
            /\ revoked.org.members[new].status # "NONE" \/ OpenIds(revoked.org, p) # {}
         \/ /\ OpenIds(revoked.org, p) = {}
            /\ Rewrites(revoked, batch, new, Invited(p, role))
  BY <1>1, <1>3, InviteAnswers
<1>5. /\ gone.status = "REVOKED" /\ gone.address = doc.members[old].address
      /\ gone.role = doc.members[old].role
  <2>1. doc.members[old] \in Member
    BY Begun DEF OrgState
  <2> QED
    BY <2>1, GoneRecord
<1> HIDE DEF batch, gone
<1>6. \A k \in Id : Alike(org.members[k], doc.members[k]) /\ Explained(org, doc, k)
  BY DEF Mirrored, Mirrors
<1>7. CASE RefusedBy(Begin(doc), revoked) /\ doc.members[old].status # "INVITED"
  <2>1. revoked.org = doc
    BY <1>7, Begun DEF RefusedBy
  <2>2. OpenIds(doc, p) # {}
    BY <1>6, <1>7 DEF Explained, Stray, OpenIds, IsOpen
  <2>3. batch.failed /\ batch.org = doc
    BY <1>4, <2>1, <2>2 DEF RefusedBy
  <2> QED
    BY <1>1, <1>4, <2>3 DEF Mirrored, batch, revoked, Again
<1>8. CASE /\ "REVOKED" \in NextStatus(doc.members[old].status)
           /\ Rewrites(Begin(doc), revoked, old, gone)
  <2>1. /\ ~revoked.failed /\ revoked.org.apps = doc.apps
        /\ revoked.org.members = [doc.members EXCEPT ![old] = gone]
    BY <1>8, Begun DEF Rewrites
  <2>2. doc.members[old].status = "INVITED"
    BY <1>8 DEF NextStatus
  <2>3. CASE Rewrites(revoked, batch, new, Invited(p, role))
    <3>1. /\ ~batch.failed /\ batch.org.apps = doc.apps
          /\ batch.org.members = [[doc.members EXCEPT ![old] = gone] EXCEPT ![new] = Invited(p, role)]
      BY <2>1, <2>3 DEF Rewrites
    <3>2. Replaces(doc, batch.org, old, new, Invited(p, role))
      BY <1>1, <3>1, Begun, TwoRecords DEF gone
    <3> QED
      BY <1>4, <2>2, <3>1, <3>2 DEF batch, revoked, Again
  <2>4. CASE /\ RefusedBy(revoked, batch)
             /\ revoked.org.members[new].status # "NONE" \/ OpenIds(revoked.org, p) # {}
    <3>1. /\ revoked.org.members[old] = gone
          /\ \A k \in Id : k # old => revoked.org.members[k] = doc.members[k]
      BY <2>1, Begun DEF OrgState
    <3>2. PICK k \in Id : k # old /\ doc.members[k].address = p /\ IsOpen(doc.members[k].status)
      BY <1>1, <1>5, <2>4, <3>1 DEF OpenIds, IsOpen
    <3>3. ~IsOpen(org.members[k].status)
      <4> SUFFICES ASSUME IsOpen(org.members[k].status) PROVE FALSE
        OBVIOUS
      <4>1. org.members[k].address = p
        BY <1>6, <3>2 DEF Alike, IsOpen
      <4>2. IsOpen(org.members[old].status)
        BY DEF IsOpen
      <4> QED
        BY <3>2, <4>1, <4>2 DEF OneOpen
    <3>4. Stray(org, doc, k, p)
      BY <1>6, <3>2, <3>3 DEF Alike, IsActive, IsOpen, Stray
    <3>5. Alike(org.members[old], gone)
      BY <1>5, <1>6, <2>2 DEF Alike, IsActive
    <3>6. org.members = [org.members EXCEPT ![old] = org.members[old]]
      BY Begun DEF OrgState
    <3>7. Mirrors(org, revoked.org)
      BY <2>1, <3>2, <3>4, <3>5, <3>6, Begun, PairChanges DEF Mirrored
    <3>8. batch.failed /\ batch.org = revoked.org
      BY <2>4 DEF RefusedBy
    <3> QED
      BY <1>1, <1>4, <2>1, <3>1, <3>7, <3>8 DEF batch, revoked, Again
  <2> QED
    BY <1>4, <2>3, <2>4
<1> QED
  BY <1>3, <1>7, <1>8

\* The old invite ends in both halves, and the new record is alike, too; or the store
\* keeps the old invite and the document has the new one.
LEMMA AgainMirrors ==
  ASSUME TypeOK, Mirrored(org, doc), NEW old \in Id, NEW new \in NewIds, NEW p \in Person,
         org.members[old].status = "INVITED", org.members[old].address = p,
         doc.members[old].status = "INVITED",
         NEW n, NEW e, Replaces(doc, e, old, new, n), n.status # "NONE",
         NEW q,
         \/ \E m : Replaces(org, q, old, new, m) /\ Alike(m, n) /\ m.status = n.status
         \/ q = org /\ n.status = "INVITED" /\ n.address = p
  PROVE  Mirrors(q, e)
<1> DEFINE d == WithRecord(doc, new, n)
<1>1. /\ new \in Id /\ org.members[new].status = "NONE" /\ doc.members[new].status = "NONE"
      /\ new # old
  BY DEF NewIds, FreshIds
<1>2. Becomes(doc, d, new, n) /\ Becomes(d, e, old, Gone(doc.members[old]))
      /\ d.members[old] = doc.members[old] /\ d.members[new] = n
  <2>1. d.members = [doc.members EXCEPT ![new] = n]
    BY Begun DEF WithRecord, OrgState
  <2> HIDE DEF d
  <2> QED
    BY <1>1, <2>1, Begun DEF Becomes, Replaces, OrgState
<1> HIDE DEF d
<1>3. /\ Alike(org.members[old], doc.members[old])
      /\ org.members[old] \in Member /\ doc.members[old] \in Member
  BY Begun DEF Mirrored, Mirrors, OrgState
<1>4. CASE \E m : Replaces(org, q, old, new, m) /\ Alike(m, n) /\ m.status = n.status
  <2>1. PICK m : Replaces(org, q, old, new, m) /\ Alike(m, n) /\ m.status = n.status
    BY <1>4
  <2> DEFINE o == WithRecord(org, new, m)
  <2>2. Becomes(org, o, new, m) /\ Becomes(o, q, old, Gone(org.members[old]))
        /\ o.members[old] = org.members[old]
    <3>1. o.members = [org.members EXCEPT ![new] = m]
      BY Begun DEF WithRecord, OrgState
    <3> HIDE DEF o
    <3> QED
      BY <1>1, <2>1, <3>1, Begun DEF Becomes, Replaces, OrgState
  <2> HIDE DEF o
  <2>3. Mirrors(o, d)
    BY <1>1, <1>2, <2>1, <2>2, PairBecomes DEF Mirrored
  <2>4. Alike(Gone(org.members[old]), Gone(doc.members[old])) /\ Gone(org.members[old]).status = "REVOKED"
    BY <1>3, GoneRecord DEF Alike, IsActive
  <2> QED
    BY <1>2, <2>2, <2>3, <2>4, PairBecomes
<1>5. CASE q = org /\ n.status = "INVITED" /\ n.address = p
  <2>1. /\ Becomes(org, org, new, org.members[new])
        /\ Becomes(org, org, old, org.members[old])
        /\ Alike(org.members[new], n)
    BY <1>1, <1>5 DEF Alike, IsActive, Becomes
  <2>2. Mirrors(org, d)
    BY <1>1, <1>2, <2>1, PairBecomes DEF Mirrored
  <2>3. Stray(org, d, new, p)
    BY <1>1, <1>2, <1>5 DEF Stray
  <2>4. Alike(org.members[old], Gone(doc.members[old]))
    BY <1>3, GoneRecord DEF Alike, IsActive
  <2> QED
    BY <1>1, <1>2, <1>5, <2>1, <2>2, <2>3, <2>4, PairBecomes
<1> QED
  BY <1>4, <1>5

\* How a batch ends that leaves apps alone.
LEMMA WholeRefused ==
  ASSUME Mirrored(org, doc), NEW next, NEW batch \in Batch, batch.failed,
         batch.org.apps = doc.apps, Mirrors(org, batch.org)
  PROVE  Whole(next, batch)
BY DEF Whole, Mirrored, SameFreezes

LEMMA WholeTaken ==
  ASSUME Mirrored(org, doc), NEW next, NEW batch \in Batch, ~batch.failed,
         batch.org.apps = doc.apps, next.apps = org.apps, Mirrors(next, batch.org)
  PROVE  Whole(next, batch)
BY DEF Whole, Mirrored, SameFreezes

\* Joining: the document takes the new member, or an open record keeps them out, or it
\* is full and the new member stays invited there.
LEMMA JoinReduced ==
  ASSUME NEW b \in Batch, NEW new \in Id, NEW p \in Person, NEW role \in Role,
         b.org.members[new].status = "NONE"
  PROVE  LET r == Join(b, new, p, role)
         IN  /\ r \in Batch /\ r.org.apps = b.org.apps
             /\ \/ r.failed /\ r.org = b.org
                \/ /\ r.failed
                   /\ r.org.members = [b.org.members EXCEPT ![new] = Invited(p, role)]
                \/ /\ r.failed = b.failed
                   /\ r.org.members = [b.org.members EXCEPT ![new] = Joined(p, role)]
<1> DEFINE first == InviteMember(b, new, p, role)
           r == SetMemberStatus(first, new, "ACTIVE")
           m == first.org.members[new]
<1>1. /\ first \in Batch
      /\ \/ RefusedBy(b, first)
         \/ Rewrites(b, first, new, Invited(p, role))
  BY InviteAnswers
<1> HIDE DEF first
<1>2. /\ r \in Batch
      /\ \/ RefusedBy(first, r)
         \/ /\ "ACTIVE" \in NextStatus(m.status)
            /\ Rewrites(first, r, new, [m EXCEPT !.status = "ACTIVE"])
  BY <1>1, StatusAnswers DEF Status
<1> HIDE DEF r
<1>3. b.org.members \in [Id -> Member]
  BY DEF Batch, OrgState
<1>4. CASE RefusedBy(b, first)
  <2>1. "ACTIVE" \notin NextStatus(m.status)
    BY <1>4 DEF RefusedBy, NextStatus
  <2>2. r.failed /\ r.org = b.org
    BY <1>2, <1>4, <2>1 DEF RefusedBy
  <2> QED
    BY <1>2, <2>2 DEF r, first, Join
<1>5. CASE Rewrites(b, first, new, Invited(p, role)) /\ RefusedBy(first, r)
  BY <1>2, <1>5 DEF Rewrites, RefusedBy, r, first, Join
<1>6. CASE /\ Rewrites(b, first, new, Invited(p, role))
           /\ Rewrites(first, r, new, [m EXCEPT !.status = "ACTIVE"])
  <2>1. m = Invited(p, role)
    BY <1>3, <1>6 DEF Rewrites
  <2>2. [m EXCEPT !.status = "ACTIVE"] = Joined(p, role)
    BY <2>1 DEF Joined
  <2> DEFINE members == b.org.members
             left == Invited(p, role)
             right == Joined(p, role)
  <2>3. r.failed = b.failed /\ r.org.apps = b.org.apps
        /\ r.org.members = [[members EXCEPT ![new] = left] EXCEPT ![new] = right]
    BY <1>6, <2>2 DEF Rewrites
  <2>4. [[members EXCEPT ![new] = left] EXCEPT ![new] = right] = [members EXCEPT ![new] = right]
    <3> HIDE DEF left, right
    <3> QED
      BY <1>3
  <2> QED
    BY <1>2, <2>3, <2>4 DEF r, first, Join
<1> QED
  BY <1>1, <1>2, <1>4, <1>5, <1>6

LEMMA JoinedAlike ==
  ASSUME NEW p \in Person, NEW role \in Role
  PROVE  Alike(Joined(p, role), Joined(p, role))
BY JoinedType DEF Alike

\* Somebody without an open record joins.
LEMMA JoinMirrored ==
  ASSUME TypeOK, Mirrored(org, doc), NEW new \in NewIds, NEW p \in Person, NEW role \in Role
  PROVE  LET next == WithRecord(org, new, Joined(p, role))
         IN  Whole(next, Join(Begin(doc), new, p, role))
<1> DEFINE next == WithRecord(org, new, Joined(p, role))
           batch == Join(Begin(doc), new, p, role)
<1>1. /\ new \in Id /\ org.members[new].status = "NONE" /\ doc.members[new].status = "NONE"
  BY DEF NewIds, FreshIds
<1>2. /\ batch \in Batch /\ batch.org.apps = doc.apps
      /\ \/ batch.failed /\ batch.org = doc
         \/ /\ batch.failed
            /\ batch.org.members = [doc.members EXCEPT ![new] = Invited(p, role)]
         \/ /\ ~batch.failed
            /\ batch.org.members = [doc.members EXCEPT ![new] = Joined(p, role)]
  BY <1>1, Begun, JoinReduced
<1>3. next.members = [org.members EXCEPT ![new] = Joined(p, role)] /\ next.apps = org.apps
  BY <1>1, JoinedType, JoinedAlike, Begun, RecordType
<1> HIDE DEF next, batch
<1>4. ASSUME batch.failed, batch.org = doc PROVE Whole(next, batch)
  BY <1>2, <1>4, WholeRefused DEF Mirrored
<1>5. ASSUME batch.failed, batch.org.members = [doc.members EXCEPT ![new] = Invited(p, role)]
      PROVE  Whole(next, batch)
  <2>1. Alike(org.members[new], Invited(p, role))
    BY <1>1, JoinedType, JoinedAlike DEF Alike, IsActive
  <2>2. Becomes(org, org, new, org.members[new]) /\ Becomes(doc, batch.org, new, Invited(p, role))
    BY <1>1, <1>5, Begun DEF Becomes, OrgState
  <2>3. Mirrors(org, batch.org)
    BY <1>1, <2>1, <2>2, PairBecomes DEF Mirrored
  <2> QED
    BY <1>2, <1>5, <2>3, WholeRefused
<1>6. ASSUME ~batch.failed, batch.org.members = [doc.members EXCEPT ![new] = Joined(p, role)]
      PROVE  Whole(next, batch)
  <2>1. Becomes(org, next, new, Joined(p, role)) /\ Becomes(doc, batch.org, new, Joined(p, role))
    BY <1>1, <1>3, <1>6, Begun DEF Becomes, OrgState
  <2>2. Alike(Joined(p, role), Joined(p, role)) /\ Joined(p, role).status # "INVITED"
    BY JoinedType, JoinedAlike
  <2>3. Mirrors(next, batch.org)
    BY <1>1, <2>1, <2>2, PairBecomes DEF Mirrored
  <2> QED
    BY <1>2, <1>3, <1>6, <2>3, WholeTaken
<1> QED
  BY <1>2, <1>4, <1>5, <1>6 DEF next, batch

\* Somebody with an open invite does.
LEMMA RejoinMirrored ==
  ASSUME TypeOK, OneOpen(org), Mirrored(org, doc), NEW old \in Id, NEW new \in NewIds,
         NEW p \in Person, NEW role \in Role,
         org.members[old].status = "INVITED", org.members[old].address = p
  PROVE  LET next == WithRecord(WithStatus(org, old, "REVOKED"), new, Joined(p, role))
         IN  Whole(next, Join(SetMemberStatus(Begin(doc), old, "REVOKED"), new, p, role))
<1> DEFINE left == WithStatus(org, old, "REVOKED")
           next == WithRecord(left, new, Joined(p, role))
           again == Again(Begin(doc), old, new, p, role)
           batch == SetMemberStatus(again, new, "ACTIVE")
           m == again.org.members[new]
<1>1. /\ new \in Id /\ new # old /\ org.members[new].status = "NONE"
      /\ doc.members[new].status = "NONE"
  BY DEF NewIds, FreshIds
<1>2. /\ again \in Batch /\ again.org.apps = doc.apps
      /\ \/ /\ ~again.failed /\ doc.members[old].status = "INVITED"
            /\ Replaces(doc, again.org, old, new, Invited(p, role))
         \/ again.failed /\ m.status = "NONE" /\ Mirrors(org, again.org)
  BY <1>1, Reinvited
<1>3. next.apps = org.apps /\ Replaces(org, next, old, new, Joined(p, role))
  <2>1. /\ left \in OrgState /\ left.apps = org.apps
        /\ left.members = [org.members EXCEPT ![old] = Gone(org.members[old])]
    BY Begun, StatusType DEF Status, Gone
  <2> HIDE DEF left
  <2>2. /\ next.apps = org.apps
        /\ next.members = [[org.members EXCEPT ![old] = Gone(org.members[old])] EXCEPT ![new] = Joined(p, role)]
    BY <1>1, <2>1, JoinedType, JoinedAlike, RecordType
  <2> HIDE DEF next
  <2> QED
    BY <1>1, <2>2, Begun, TwoRecords
<1>4. batch = Join(SetMemberStatus(Begin(doc), old, "REVOKED"), new, p, role)
  BY DEF Again, Join
<1> HIDE DEF again
<1>5. /\ batch \in Batch
      /\ \/ RefusedBy(again, batch)
         \/ /\ "ACTIVE" \in NextStatus(m.status)
            /\ Rewrites(again, batch, new, [m EXCEPT !.status = "ACTIVE"])
  BY <1>1, <1>2, StatusAnswers DEF Status
<1> HIDE DEF next, batch
<1>6. ASSUME again.failed, m.status = "NONE", Mirrors(org, again.org)
      PROVE  Whole(next, batch)
  <2>1. "ACTIVE" \notin NextStatus(m.status)
    BY <1>6 DEF NextStatus
  <2>2. batch.failed /\ batch.org = again.org
    BY <1>5, <2>1 DEF RefusedBy
  <2> QED
    BY <1>2, <1>5, <1>6, <2>2, WholeRefused
<1>7. ASSUME ~again.failed, doc.members[old].status = "INVITED",
             Replaces(doc, again.org, old, new, Invited(p, role))
      PROVE  Whole(next, batch)
  <2>1. CASE RefusedBy(again, batch)
    <3>1. batch.failed /\ batch.org = again.org
      BY <2>1 DEF RefusedBy
    <3>2. Invited(p, role).status = "INVITED" /\ Invited(p, role).address = p
      BY JoinedType, JoinedAlike
    <3>3. Mirrors(org, again.org)
      BY <1>7, <3>2, AgainMirrors
    <3> QED
      BY <1>2, <1>5, <3>1, <3>3, WholeRefused
  <2>2. CASE Rewrites(again, batch, new, [m EXCEPT !.status = "ACTIVE"])
    <3>1. m = Invited(p, role)
      BY <1>7 DEF Replaces
    <3>2. [m EXCEPT !.status = "ACTIVE"] = Joined(p, role)
      BY <3>1 DEF Joined
    <3>3. /\ ~batch.failed /\ batch.org.apps = doc.apps
          /\ batch.org.members = [again.org.members EXCEPT ![new] = Joined(p, role)]
      BY <1>2, <1>7, <2>2, <3>2 DEF Rewrites
    <3>4. Replaces(doc, batch.org, old, new, Joined(p, role))
      <4>1. again.org.members \in [Id -> Member]
        BY <1>2 DEF Batch, OrgState
      <4> HIDE DEF m
      <4> QED
        BY <1>1, <1>7, <3>3, <4>1 DEF Replaces
    <3>5. Alike(Joined(p, role), Joined(p, role)) /\ Joined(p, role).status # "NONE"
      BY JoinedType, JoinedAlike
    <3>6. Mirrors(next, batch.org)
      BY <1>3, <1>7, <3>4, <3>5, AgainMirrors
    <3> QED
      BY <1>3, <1>5, <3>3, <3>6, WholeTaken
  <2> QED
    BY <1>5, <2>1, <2>2
<1> QED
  BY <1>2, <1>4, <1>6, <1>7 DEF next

\* A change that is not about memberships or apps.
LEMMA SameMirrored ==
  ASSUME TypeOK, Mirrored(org, doc), NEW next, NEW accepts \in BOOLEAN, NEW after \in OrgState,
         next.members = org.members, next.apps = org.apps,
         after.members = doc.members, after.apps = doc.apps
  PROVE  Whole(next, Reduce(Begin(doc), accepts, after))
<1> DEFINE batch == Reduce(Begin(doc), accepts, after)
<1>1. batch \in Batch /\ batch.org \in {doc, after}
  BY Begun, ReduceAnswers DEF RefusedBy
<1> HIDE DEF batch
<1>2. Mirrored(IF batch.failed THEN org ELSE next, batch.org)
  BY <1>1 DEF Mirrored, Mirrors, SameFreezes, Explained, Stray
<1> QED
  BY <1>1, <1>2 DEF Whole, batch

\* A mutation after which the halves are alike.
MutatesAlike == \E next, batch : Whole(next, batch) /\ WriteDocument(next, batch)

LEMMA EndsAlike ==
  ASSUME TypeOK, Mirrored(org, doc), NEW i \in Id, IsOpen(org.members[i].status),
         NEW status \in {"DECLINED", "REVOKED", "LEFT", "REMOVED"}, EndMembership(i, status)
  PROVE  MutatesAlike
BY EndMirrored DEF EndMembership, MutatesAlike

LEMMA InvitesAlike ==
  ASSUME TypeOK, OneOpen(org), Mirrored(org, doc), NEW p \in Person, NEW q \in Person,
         NEW role \in Grantable, InviteOrgMember(p, q, role)
  PROVE  MutatesAlike
<1>0. role \in Role
  BY MembersAssumption
<1>1. PICK new \in NewIds :
        \/ WriteDocument(WithRecord(org, new, Invited(q, role)), InviteMember(Begin(doc), new, q, role))
        \/ \E old \in OpenIds(org, q) :
             WriteDocument(WithRecord(WithStatus(org, old, "REVOKED"), new, Invited(q, role)),
                           Again(Begin(doc), old, new, q, role))
  BY DEF InviteOrgMember, Again
<1>2. CASE WriteDocument(WithRecord(org, new, Invited(q, role)), InviteMember(Begin(doc), new, q, role))
  BY <1>0, <1>2, InviteMirrored DEF MutatesAlike
<1>3. ASSUME NEW old \in OpenIds(org, q),
             WriteDocument(WithRecord(WithStatus(org, old, "REVOKED"), new, Invited(q, role)),
                           Again(Begin(doc), old, new, q, role))
      PROVE  MutatesAlike
  <2> DEFINE left == WithStatus(org, old, "REVOKED")
             next == WithRecord(left, new, Invited(q, role))
             batch == Again(Begin(doc), old, new, q, role)
  <2>1. old \in Id /\ org.members[old].status = "INVITED" /\ org.members[old].address = q
    BY DEF InviteOrgMember, ExpiredInvite, OpenIds
  <2>2. new \in Id /\ Invited(q, role) \in Member
    BY <1>0, InvitedType DEF NewIds, FreshIds
  <2>3. next.apps = org.apps /\ Replaces(org, next, old, new, Invited(q, role))
    <3>1. /\ left \in OrgState /\ left.apps = org.apps
          /\ left.members = [org.members EXCEPT ![old] = Gone(org.members[old])]
      BY <2>1, Begun, StatusType DEF Status, Gone
    <3> HIDE DEF left
    <3>2. /\ next.apps = org.apps
          /\ next.members = [[org.members EXCEPT ![old] = Gone(org.members[old])]
                               EXCEPT ![new] = Invited(q, role)]
      BY <2>2, <3>1, RecordType
    <3> HIDE DEF next
    <3> QED
      BY <2>1, <2>2, <3>2, Begun, TwoRecords DEF NewIds, FreshIds
  <2> HIDE DEF next
  <2>4. batch \in Batch /\ batch.org.apps = doc.apps
        /\ \/ ~batch.failed /\ doc.members[old].status = "INVITED"
              /\ Replaces(doc, batch.org, old, new, Invited(q, role))
           \/ batch.failed /\ Mirrors(org, batch.org)
    BY <1>0, <2>1, Reinvited
  <2> HIDE DEF batch
  <2>5. CASE batch.failed /\ Mirrors(org, batch.org)
    BY <1>3, <2>4, <2>5, WholeRefused DEF MutatesAlike, next, batch
  <2>6. CASE ~batch.failed /\ doc.members[old].status = "INVITED"
             /\ Replaces(doc, batch.org, old, new, Invited(q, role))
    <3>1. /\ Alike(Invited(q, role), Invited(q, role))
          /\ Invited(q, role).status # "NONE"
      BY DEF Alike, Invited
    <3>2. Mirrors(next, batch.org)
      BY <2>1, <2>3, <2>6, <3>1, AgainMirrors
    <3> QED
      BY <1>3, <2>3, <2>4, <2>6, <3>2, WholeTaken DEF MutatesAlike, next, batch
  <2> QED
    BY <2>4, <2>5, <2>6
<1> QED
  BY <1>1, <1>2, <1>3

LEMMA LinksAlike ==
  ASSUME TypeOK, OneOpen(org), Mirrored(org, doc), NEW q \in Person, NEW role \in Grantable,
         AcceptOrgInviteLink(q, role)
  PROVE  MutatesAlike
<1>1. PICK new \in NewIds :
        \/ WriteDocument(WithRecord(org, new, Joined(q, role)), Join(Begin(doc), new, q, role))
        \/ \E old \in OpenIds(org, q) :
             WriteDocument(WithRecord(WithStatus(org, old, "REVOKED"), new, Joined(q, role)),
                           Join(SetMemberStatus(Begin(doc), old, "REVOKED"), new, q, role))
  BY DEF AcceptOrgInviteLink
<1>2. \A old \in OpenIds(org, q) :
        old \in Id /\ org.members[old].status = "INVITED" /\ org.members[old].address = q
  BY DEF AcceptOrgInviteLink, ExpiredInvite, OpenIds
<1>3. role \in Role
  BY MembersAssumption
<1>4. Whole(WithRecord(org, new, Joined(q, role)), Join(Begin(doc), new, q, role))
  BY <1>3, JoinMirrored
<1>5. \A old \in OpenIds(org, q) :
        Whole(WithRecord(WithStatus(org, old, "REVOKED"), new, Joined(q, role)),
              Join(SetMemberStatus(Begin(doc), old, "REVOKED"), new, q, role))
  BY <1>2, <1>3, RejoinMirrored
<1> QED
  BY <1>1, <1>4, <1>5 DEF MutatesAlike

LEMMA TeamsAlike ==
  ASSUME TypeOK, Mirrored(org, doc), NEW p \in Person, NEW t \in Team, NEW ids \in SUBSET Id,
         CreateOrgTeam(p, t) \/ DeleteOrgTeam(p, t) \/ SetOrgTeamMembers(p, t, ids)
  PROVE  MutatesAlike
<1>0. org \in OrgState /\ doc \in OrgState /\ Begin(doc).org = doc
  BY Begun
<1>1. CASE CreateOrgTeam(p, t)
  <2>1. Whole(WithTeam(org, t), AddTeam(Begin(doc), t))
    BY <1>0, TeamTypes, SameMirrored DEF AddTeam
  <2> QED
    BY <1>1, <2>1 DEF CreateOrgTeam, MutatesAlike
<1>2. CASE DeleteOrgTeam(p, t)
  <2>1. (t \in doc.teams) \in BOOLEAN
    OBVIOUS
  <2>2. Whole(WithoutTeam(org, t), RemoveTeam(Begin(doc), t))
    BY <1>0, <2>1, NoTeamType, SameMirrored DEF RemoveTeam
  <2> QED
    BY <1>2, <2>2 DEF DeleteOrgTeam, MutatesAlike
<1>3. CASE SetOrgTeamMembers(p, t, ids)
  <2> DEFINE accepts == t \in doc.teams /\ ids \subseteq ActiveIds(doc)
  <2>1. accepts \in BOOLEAN /\ SetTeamMembers(Begin(doc), t, ids)
                                 = Reduce(Begin(doc), accepts, WithPlaces(doc, t, ids))
    BY <1>0 DEF SetTeamMembers
  <2>2. Whole(WithPlaces(org, t, ids), SetTeamMembers(Begin(doc), t, ids))
    <3> HIDE DEF accepts
    <3>1. Whole(WithPlaces(org, t, ids), Reduce(Begin(doc), accepts, WithPlaces(doc, t, ids)))
      BY <1>0, <2>1, TeamPlacesType, SameMirrored
    <3> QED
      BY <2>1, <3>1
  <2> QED
    BY <1>3, <2>2 DEF SetOrgTeamMembers, MutatesAlike
<1> QED
  BY <1>1, <1>2, <1>3

LEMMA ReportsAlike ==
  ASSUME TypeOK, Mirrored(org, doc), NEW down \in Reports, ResolveOrgReport(down)
  PROVE  MutatesAlike
<1>1. org \in OrgState /\ doc \in OrgState /\ Begin(doc).org = doc /\ down \in BOOLEAN
  BY Begun, MembersAssumption
<1>2. Whole([org EXCEPT !.takenDown = down], SetTakenDown(Begin(doc), down))
  BY <1>1, TakenDownType, SameMirrored DEF SetTakenDown
<1> QED
  BY <1>2 DEF ResolveOrgReport, MutatesAlike

LEMMA NextMirrored ==
  ASSUME Faults \subseteq {"unwritten"}, TypeOK, Sound(org), Mirrored(org, doc), Next
  PROVE  Mirrored(org', doc')
<1>1. CASE MutatesAlike
  BY <1>1, MirroredEnds DEF MutatesAlike
<1>2. ASSUME NEW p \in Person, NEW q \in Person, NEW r \in Grantable,
             InviteOrgMember(p, q, r) \/ SetOrgMemberRole(p, q, r)
      PROVE  MutatesAlike
  <2>1. CASE InviteOrgMember(p, q, r)
    BY <2>1, InvitesAlike DEF Sound
  <2>2. CASE SetOrgMemberRole(p, q, r)
    <3>1. PICK i \in OpenIds(org, q) :
            WriteDocument(WithRole(org, i, r), SetMemberRole(Begin(doc), i, r))
      BY <2>2 DEF SetOrgMemberRole
    <3> QED
      BY <3>1, RoleMirrored, MembersAssumption DEF OpenIds, MutatesAlike
  <2> QED
    BY <1>2, <2>1, <2>2
<1>3. ASSUME NEW i \in Id, AcceptOrgInvite(i)
      PROVE  MutatesAlike
  BY <1>3, AcceptMirrored DEF AcceptOrgInvite, LiveInvites, MutatesAlike
<1>4. ASSUME NEW i \in Id, DeclineOrgInvite(i) PROVE MutatesAlike
  <2>1. IsOpen(org.members[i].status) /\ EndMembership(i, "DECLINED")
    BY <1>4 DEF DeclineOrgInvite, LiveInvites, IsOpen
  <2> QED
    BY <2>1, EndsAlike
<1>5. ASSUME NEW p \in Person, NEW i \in Id, RevokeOrgInvite(p, i) PROVE MutatesAlike
  <2>1. IsOpen(org.members[i].status) /\ EndMembership(i, "REVOKED")
    BY <1>5 DEF RevokeOrgInvite, IsOpen
  <2> QED
    BY <2>1, EndsAlike
<1>6. ASSUME NEW p \in Person, LeaveOrganization(p) PROVE MutatesAlike
  <2>1. PICK i \in OpenIds(org, p) : EndMembership(i, "LEFT")
    BY <1>6 DEF LeaveOrganization
  <2> QED
    BY <2>1, EndsAlike DEF OpenIds
<1>7. ASSUME NEW p \in Person, NEW q \in Person, RemoveOrgMember(p, q) PROVE MutatesAlike
  <2>1. PICK i \in OpenIds(org, q) : EndMembership(i, "REMOVED")
    BY <1>7 DEF RemoveOrgMember
  <2> QED
    BY <2>1, EndsAlike DEF OpenIds
<1>8. ASSUME NEW p \in Person, NEW t \in Team, NEW ids \in SUBSET Id,
             CreateOrgTeam(p, t) \/ DeleteOrgTeam(p, t) \/ SetOrgTeamMembers(p, t, ids)
      PROVE  MutatesAlike
  BY <1>8, TeamsAlike
<1>9. ASSUME NEW down \in Reports, ResolveOrgReport(down) PROVE MutatesAlike
  BY <1>9, ReportsAlike
<1>10. ASSUME NEW i \in Id, InviteExpires(i) PROVE UNCHANGED <<org, doc>>
  BY <1>10 DEF InviteExpires
<1>11. {} \in SUBSET Id
  OBVIOUS
<1>12. ASSUME NEW p \in Person, NEW r \in Grantable, AcceptOrgInviteLink(p, r)
       PROVE  MutatesAlike
  BY <1>12, LinksAlike DEF Sound
<1> QED
  BY <1>1, <1>2, <1>3, <1>4, <1>5, <1>6, <1>7, <1>8, <1>9, <1>10, <1>11, <1>12 DEF Next
==============================================================================
