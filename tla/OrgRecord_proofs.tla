--------------------------- MODULE OrgRecord_proofs ---------------------------
(***************************************************************************)
(* Lemmas on the changes and reducers of OrgRecord: what they keep of the  *)
(* record's type, what they do to the owners, and that no reducer takes    *)
(* the last owner away.                                                    *)
(***************************************************************************)
EXTENDS OrgRecord, FiniteSetTheorems, TLAPS

(***************************************************************************)
(* Changes                                                                 *)
(***************************************************************************)
\* A change of one record is a new record in its place.
LEMMA RecordChanges ==
  ASSUME NEW o \in OrgState, NEW i \in Id
  PROVE  /\ \A status \in Status :
              WithStatus(o, i, status)
                = WithRecord(o, i, [o.members[i] EXCEPT !.status = status])
         /\ \A role \in Role :
              WithRole(o, i, role) = WithRecord(o, i, [o.members[i] EXCEPT !.role = role])
BY DEF WithStatus, WithRole, WithRecord, OrgState

LEMMA RecordType ==
  ASSUME NEW o \in OrgState, NEW i \in Id, NEW m \in Member
  PROVE  /\ WithRecord(o, i, m) \in OrgState
         /\ WithRecord(o, i, m).members = [o.members EXCEPT ![i] = m]
         /\ WithRecord(o, i, m).places = o.places
         /\ WithRecord(o, i, m).teams = o.teams
         /\ WithRecord(o, i, m).archived = o.archived
         /\ WithRecord(o, i, m).apps = o.apps
BY DEF WithRecord, OrgState

LEMMA StatusType ==
  ASSUME NEW o \in OrgState, NEW i \in Id, NEW status \in Status
  PROVE  /\ [o.members[i] EXCEPT !.status = status] \in Member
         /\ WithStatus(o, i, status) \in OrgState
         /\ WithStatus(o, i, status).members
              = [o.members EXCEPT ![i] = [o.members[i] EXCEPT !.status = status]]
         /\ WithStatus(o, i, status).places = o.places
         /\ WithStatus(o, i, status).teams = o.teams
         /\ WithStatus(o, i, status).archived = o.archived
         /\ WithStatus(o, i, status).apps = o.apps
<1>1. [o.members[i] EXCEPT !.status = status] \in Member
  BY DEF OrgState, Member
<1> QED
  BY <1>1, RecordChanges, RecordType

LEMMA RoleType ==
  ASSUME NEW o \in OrgState, NEW i \in Id, NEW role \in Role
  PROVE  /\ [o.members[i] EXCEPT !.role = role] \in Member
         /\ WithRole(o, i, role) \in OrgState
         /\ WithRole(o, i, role).members
              = [o.members EXCEPT ![i] = [o.members[i] EXCEPT !.role = role]]
         /\ WithRole(o, i, role).places = o.places
         /\ WithRole(o, i, role).teams = o.teams
         /\ WithRole(o, i, role).archived = o.archived
         /\ WithRole(o, i, role).apps = o.apps
<1>1. [o.members[i] EXCEPT !.role = role] \in Member
  BY DEF OrgState, Member
<1> QED
  BY <1>1, RecordChanges, RecordType

LEMMA PlacesType ==
  ASSUME NEW o \in OrgState, NEW i \in Id
  PROVE  /\ WithoutPlaces(o, i) \in OrgState
         /\ WithoutPlaces(o, i).members = o.members
         /\ WithoutPlaces(o, i).places = {pl \in o.places : pl[2] # i}
         /\ WithoutPlaces(o, i).teams = o.teams
         /\ WithoutPlaces(o, i).archived = o.archived
         /\ WithoutPlaces(o, i).apps = o.apps
BY DEF WithoutPlaces, OrgState

LEMMA InvitedType ==
  ASSUME NEW p \in Person, NEW role \in Role
  PROVE  Invited(p, role) \in Member
BY DEF Invited, Member, Status

LEMMA TeamTypes ==
  ASSUME NEW o \in OrgState, NEW t \in Team
  PROVE  /\ WithTeam(o, t) \in OrgState
         /\ WithTeam(o, t).members = o.members
         /\ WithTeam(o, t).places = o.places
         /\ WithTeam(o, t).teams = o.teams \cup {t}
         /\ WithTeam(o, t).archived = o.archived
         /\ WithTeam(o, t).apps = o.apps
BY DEF WithTeam, OrgState

LEMMA TeamPlacesType ==
  ASSUME NEW o \in OrgState, NEW t \in Team, NEW ids \in SUBSET Id
  PROVE  /\ WithPlaces(o, t, ids) \in OrgState
         /\ WithPlaces(o, t, ids).members = o.members
         /\ WithPlaces(o, t, ids).places = {pl \in o.places : pl[1] # t} \cup ({t} \X ids)
         /\ WithPlaces(o, t, ids).teams = o.teams
         /\ WithPlaces(o, t, ids).archived = o.archived
         /\ WithPlaces(o, t, ids).apps = o.apps
BY DEF WithPlaces, OrgState

LEMMA NoTeamType ==
  ASSUME NEW o \in OrgState, NEW t \in Team
  PROVE  /\ WithoutTeam(o, t) \in OrgState
         /\ WithoutTeam(o, t).members = o.members
         /\ WithoutTeam(o, t).places = {pl \in o.places : pl[1] # t}
         /\ WithoutTeam(o, t).teams = o.teams \ {t}
         /\ WithoutTeam(o, t).archived = o.archived
         /\ WithoutTeam(o, t).apps = o.apps
<1>1. WithPlaces(o, t, {}) \in OrgState
  BY TeamPlacesType
<1>2. WithPlaces(o, t, {}).places = {pl \in o.places : pl[1] # t}
  BY TeamPlacesType
<1> QED
  BY <1>1, <1>2, TeamPlacesType DEF WithoutTeam, OrgState

LEMMA AppType ==
  ASSUME NEW o \in OrgState, NEW a \in App, NEW state \in {"none", "open", "frozen"}
  PROVE  /\ WithApp(o, a, state) \in OrgState
         /\ WithApp(o, a, state).members = o.members
         /\ WithApp(o, a, state).places = o.places
         /\ WithApp(o, a, state).teams = o.teams
         /\ WithApp(o, a, state).archived = o.archived
         /\ WithApp(o, a, state).apps = [o.apps EXCEPT ![a] = state]
BY DEF WithApp, OrgState

LEMMA TakenDownType ==
  ASSUME NEW o \in OrgState, NEW down \in BOOLEAN
  PROVE  /\ [o EXCEPT !.takenDown = down] \in OrgState
         /\ [o EXCEPT !.takenDown = down].members = o.members
         /\ [o EXCEPT !.takenDown = down].places = o.places
         /\ [o EXCEPT !.takenDown = down].teams = o.teams
         /\ [o EXCEPT !.takenDown = down].archived = o.archived
         /\ [o EXCEPT !.takenDown = down].apps = o.apps
BY DEF OrgState

LEMMA ArchivedType ==
  ASSUME NEW o \in OrgState
  PROVE  /\ Archived(o) \in OrgState
         /\ Archived(o).members = [i \in Id |-> Ended(o.members[i])]
         /\ Archived(o).places = {}
         /\ Archived(o).archived
         /\ Archived(o).apps = o.apps
<1>1. \A m \in Member : Ended(m) \in Member
  BY DEF Ended, Member, Status
<1>2. [i \in Id |-> Ended(o.members[i])] \in [Id -> Member]
  BY <1>1 DEF OrgState
<1> QED
  BY <1>2 DEF Archived, OrgState

(***************************************************************************)
(* Owners                                                                  *)
(***************************************************************************)
LEMMA OwnersFinite ==
  ASSUME NEW o
  PROVE  IsFiniteSet(OwnerIds(o)) /\ Cardinality(OwnerIds(o)) \in Nat
<1>1. IsFiniteSet(Id) /\ OwnerIds(o) \subseteq Id
  BY RecordAssumption DEF OwnerIds
<1>2. IsFiniteSet(OwnerIds(o))
  BY <1>1, FS_Subset
<1> QED
  BY <1>2, FS_CardinalityType

\* Of more than one owner, another one remains.
LEMMA AnotherOwner ==
  ASSUME NEW o, Cardinality(OwnerIds(o)) > 1, NEW i
  PROVE  \E j \in OwnerIds(o) : j # i
<1>1. CASE OwnerIds(o) \subseteq {i}
  <2>1. OwnerIds(o) = {} \/ OwnerIds(o) = {i}
    BY <1>1
  <2>2. Cardinality(OwnerIds(o)) \in {0, 1}
    BY <2>1, FS_EmptySet, FS_Singleton
  <2> QED
    BY <2>2
<1> QED
  BY <1>1

\* Replacing a record decides only about that record.
LEMMA OwnersOfRecord ==
  ASSUME NEW o \in OrgState, NEW i \in Id, NEW m \in Member
  PROVE  OwnerIds(WithRecord(o, i, m))
           = (OwnerIds(o) \ {i}) \cup (IF IsOwner(m) THEN {i} ELSE {})
<1> DEFINE q == WithRecord(o, i, m)
<1>1. q.members = [o.members EXCEPT ![i] = m] /\ o.members \in [Id -> Member]
  BY RecordType DEF OrgState
<1>2. q.members[i] = m /\ \A j \in Id \ {i} : q.members[j] = o.members[j]
  BY <1>1
<1> QED
  BY <1>2 DEF OwnerIds

\* An organisation that is not archived has an owner.
Owned(o) == ~o.archived => OwnerIds(o) # {}

\* A record may be replaced unless it is the last owner's and no owner's afterwards.
LEMMA OwnerRemains ==
  ASSUME NEW o \in OrgState, NEW i \in Id, NEW m \in Member, Owned(o),
         KeepsAnOwner(o, i, m)
  PROVE  Owned(WithRecord(o, i, m))
<1>1. OwnerIds(WithRecord(o, i, m))
        = (OwnerIds(o) \ {i}) \cup (IF IsOwner(m) THEN {i} ELSE {})
  BY OwnersOfRecord
<1>2. WithRecord(o, i, m).archived = o.archived
  BY RecordType
<1>3. CASE ~IsOwner(o.members[i])
  <2>1. i \notin OwnerIds(o)
    BY <1>3 DEF OwnerIds
  <2> QED
    BY <2>1, <1>1, <1>2 DEF Owned
<1>4. CASE IsOwner(m)
  BY <1>4, <1>1 DEF Owned
<1>5. CASE Cardinality(OwnerIds(o)) > 1
  BY <1>5, <1>1, AnotherOwner DEF Owned
<1> QED
  BY <1>3, <1>4, <1>5 DEF KeepsAnOwner

\* Whoever leaves the members alone leaves the owners alone.
LEMMA SameMembersSameOwners ==
  ASSUME NEW o, NEW q, q.members = o.members
  PROVE  OwnerIds(q) = OwnerIds(o)
BY DEF OwnerIds

(***************************************************************************)
(* Reducers                                                                *)
(***************************************************************************)
LEMMA BeginType ==
  ASSUME NEW d \in OrgState
  PROVE  /\ Begin(d) \in Batch
         /\ Begin(d).org = d
         /\ ~Begin(d).failed
BY DEF Begin, Batch

\* A reducer answers a batch with a batch: the state before it or the one after.
LEMMA ReduceType ==
  ASSUME NEW b \in Batch, NEW accepts \in BOOLEAN, NEW after \in OrgState
  PROVE  /\ Reduce(b, accepts, after) \in Batch
         /\ accepts => /\ Reduce(b, accepts, after).org = after
                       /\ Reduce(b, accepts, after).failed = b.failed
         /\ ~accepts => Reduce(b, accepts, after).org = b.org
<1>1. Refused(b) \in Batch /\ Refused(b).org = b.org
  BY DEF Refused, Batch
<1>2. [org |-> after, failed |-> b.failed] \in Batch
  BY DEF Batch
<1> QED
  BY <1>1, <1>2 DEF Reduce

\* What every reducer keeps: the type, and an owner while the document is not archived.
Keeps(b, r) == r \in Batch /\ (Owned(b.org) => Owned(r.org))

LEMMA ReduceKeeps ==
  ASSUME NEW b \in Batch, NEW accepts \in BOOLEAN, NEW after \in OrgState,
         accepts /\ Owned(b.org) => Owned(after)
  PROVE  Keeps(b, Reduce(b, accepts, after))
BY ReduceType DEF Keeps

LEMMA InviteKeeps ==
  ASSUME NEW b \in Batch, NEW i \in Id, NEW p \in Person, NEW role \in Role
  PROVE  Keeps(b, InviteMember(b, i, p, role))
<1>1. b.org \in OrgState /\ WithRecord(b.org, i, Invited(p, role)) \in OrgState
  BY InvitedType, RecordType DEF Batch
<1>2. ASSUME b.org.members[i].status = "NONE", Owned(b.org)
      PROVE  Owned(WithRecord(b.org, i, Invited(p, role)))
  <2>1. KeepsAnOwner(b.org, i, Invited(p, role))
    BY <1>2 DEF KeepsAnOwner, IsOwner
  <2> QED
    BY <1>1, <1>2, <2>1, InvitedType, OwnerRemains
<1> QED
  BY <1>1, <1>2, ReduceKeeps DEF InviteMember

LEMMA SetStatusKeeps ==
  ASSUME NEW b \in Batch, NEW i \in Id, NEW status \in Status
  PROVE  Keeps(b, SetMemberStatus(b, i, status))
<1> DEFINE d == b.org
           m == [d.members[i] EXCEPT !.status = status]
           set == WithStatus(d, i, status)
           after == IF status = "ACTIVE" THEN set ELSE WithoutPlaces(set, i)
<1>1. d \in OrgState /\ m \in Member /\ set \in OrgState /\ set = WithRecord(d, i, m)
  BY StatusType, RecordChanges DEF Batch
<1>2. after \in OrgState /\ after.members = set.members /\ after.archived = set.archived
  BY <1>1, PlacesType
<1>3. ASSUME KeepsAnOwner(d, i, m), Owned(d)
      PROVE  Owned(after)
  <2>1. Owned(set)
    BY <1>1, <1>3, OwnerRemains
  <2> QED
    BY <2>1, <1>2, SameMembersSameOwners DEF Owned
<1> QED
  BY <1>2, <1>3, ReduceKeeps DEF SetMemberStatus

LEMMA SetRoleKeeps ==
  ASSUME NEW b \in Batch, NEW i \in Id, NEW role \in Role
  PROVE  Keeps(b, SetMemberRole(b, i, role))
<1> DEFINE d == b.org
           m == [d.members[i] EXCEPT !.role = role]
<1>1. /\ d \in OrgState /\ m \in Member /\ WithRole(d, i, role) \in OrgState
      /\ WithRole(d, i, role) = WithRecord(d, i, m)
  BY RoleType, RecordChanges DEF Batch
<1>2. KeepsAnOwner(d, i, m) /\ Owned(d) => Owned(WithRole(d, i, role))
  BY <1>1, OwnerRemains
<1> QED
  BY <1>1, <1>2, ReduceKeeps DEF SetMemberRole

LEMMA SameMembersKeep ==
  ASSUME NEW b \in Batch, NEW accepts \in BOOLEAN, NEW after \in OrgState,
         after.members = b.org.members, after.archived = b.org.archived
  PROVE  Keeps(b, Reduce(b, accepts, after))
<1>1. Owned(b.org) => Owned(after)
  BY SameMembersSameOwners DEF Owned
<1> QED
  BY <1>1, ReduceKeeps

LEMMA TeamReducersKeep ==
  ASSUME NEW b \in Batch, NEW t \in Team
  PROVE  /\ Keeps(b, AddTeam(b, t))
         /\ Keeps(b, RemoveTeam(b, t))
         /\ \A ids \in SUBSET Id : Keeps(b, SetTeamMembers(b, t, ids))
<1>0. b.org \in OrgState
  BY DEF Batch
<1>1. Keeps(b, AddTeam(b, t))
  BY <1>0, TeamTypes, SameMembersKeep DEF AddTeam
<1>2. Keeps(b, RemoveTeam(b, t))
  <2>1. /\ WithoutTeam(b.org, t) \in OrgState
        /\ WithoutTeam(b.org, t).members = b.org.members
        /\ WithoutTeam(b.org, t).archived = b.org.archived
    BY <1>0, NoTeamType
  <2>2. (t \in b.org.teams) \in BOOLEAN
    OBVIOUS
  <2>3. Keeps(b, Reduce(b, t \in b.org.teams, WithoutTeam(b.org, t)))
    BY <2>1, <2>2, SameMembersKeep
  <2> QED
    BY <2>3 DEF RemoveTeam
<1>3. ASSUME NEW ids \in SUBSET Id
      PROVE  Keeps(b, SetTeamMembers(b, t, ids))
  <2>1. /\ WithPlaces(b.org, t, ids) \in OrgState
        /\ WithPlaces(b.org, t, ids).members = b.org.members
        /\ WithPlaces(b.org, t, ids).archived = b.org.archived
    BY <1>0, TeamPlacesType
  <2> DEFINE accepts == t \in b.org.teams /\ ids \subseteq ActiveIds(b.org)
  <2>2. accepts \in BOOLEAN
    OBVIOUS
  <2>3. Keeps(b, Reduce(b, accepts, WithPlaces(b.org, t, ids)))
    <3> HIDE DEF accepts
    <3> QED
      BY <2>1, <2>2, SameMembersKeep
  <2> QED
    BY <2>3 DEF SetTeamMembers
<1> QED
  BY <1>1, <1>2, <1>3

LEMMA AppReducersKeep ==
  ASSUME NEW b \in Batch, NEW a \in App
  PROVE  /\ Keeps(b, AddOrgApp(b, a))
         /\ \A frozen \in BOOLEAN : Keeps(b, SetAppFrozen(b, a, frozen))
<1>0. b.org \in OrgState
  BY DEF Batch
<1>1. Keeps(b, AddOrgApp(b, a))
  BY <1>0, AppType, SameMembersKeep DEF AddOrgApp
<1>2. ASSUME NEW frozen \in BOOLEAN PROVE Keeps(b, SetAppFrozen(b, a, frozen))
  BY <1>0, AppType, SameMembersKeep DEF SetAppFrozen
<1> QED
  BY <1>1, <1>2

LEMMA OrgReducersKeep ==
  ASSUME NEW b \in Batch
  PROVE  /\ Keeps(b, ArchiveOrg(b))
         /\ \A down \in BOOLEAN : Keeps(b, SetTakenDown(b, down))
<1>0. b.org \in OrgState
  BY DEF Batch
<1>1. Keeps(b, ArchiveOrg(b))
  BY <1>0, ArchivedType, ReduceKeeps DEF ArchiveOrg, Owned
<1>2. ASSUME NEW down \in BOOLEAN PROVE Keeps(b, SetTakenDown(b, down))
  BY <1>0, TakenDownType, SameMembersKeep DEF SetTakenDown
<1> QED
  BY <1>1, <1>2

(***************************************************************************)
(* What a reducer that was asked answers: a refusal, or the change it is   *)
(* named for.                                                              *)
(***************************************************************************)
RefusedBy(b, r) == r.failed /\ r.org = b.org

Rewrites(b, r, i, m) ==
  /\ r.failed = b.failed
  /\ r.org.members = [b.org.members EXCEPT ![i] = m]
  /\ r.org.apps = b.org.apps

LEMMA ReduceAnswers ==
  ASSUME NEW b \in Batch, NEW accepts \in BOOLEAN, NEW after \in OrgState
  PROVE  /\ Reduce(b, accepts, after) \in Batch
         /\ ~accepts => RefusedBy(b, Reduce(b, accepts, after))
         /\ accepts => Reduce(b, accepts, after).org = after /\ Reduce(b, accepts, after).failed = b.failed
<1>1. Refused(b).failed /\ Refused(b).org = b.org
  BY DEF Refused, Batch
<1> QED
  BY <1>1, ReduceType DEF Reduce, RefusedBy

LEMMA StatusAnswers ==
  ASSUME NEW b \in Batch, NEW i \in Id, NEW status \in Status
  PROVE  LET r == SetMemberStatus(b, i, status)
             before == b.org.members[i]
         IN  /\ r \in Batch
             /\ \/ /\ RefusedBy(b, r)
                   /\ ~(status = "REVOKED" /\ before.status = "INVITED")
                \/ /\ status \in NextStatus(before.status)
                   /\ Rewrites(b, r, i, [before EXCEPT !.status = status])
<1> DEFINE d == b.org
           m == [d.members[i] EXCEPT !.status = status]
           set == WithStatus(d, i, status)
           after == IF status = "ACTIVE" THEN set ELSE WithoutPlaces(set, i)
           accepts == /\ status \in NextStatus(d.members[i].status)
                      /\ status = "ACTIVE" => Cardinality(ActiveIds(d)) < MaxActive
                      /\ KeepsAnOwner(d, i, m)
           r == SetMemberStatus(b, i, status)
<1>1. d \in OrgState /\ m \in Member /\ set \in OrgState /\ set.apps = d.apps
        /\ set.members = [d.members EXCEPT ![i] = m]
  BY StatusType DEF Batch
<1>2. after \in OrgState /\ after.members = set.members /\ after.apps = set.apps
  BY <1>1, PlacesType
<1>3. r = Reduce(b, accepts, after) /\ accepts \in BOOLEAN
  BY DEF SetMemberStatus
<1>4. status = "REVOKED" /\ d.members[i].status = "INVITED" => accepts
  BY DEF NextStatus, KeepsAnOwner, IsOwner
<1>5. accepts => status \in NextStatus(d.members[i].status)
  OBVIOUS
<1> HIDE DEF accepts, after, r, set, m
<1>6. r \in Batch /\ (~accepts => RefusedBy(b, r)) /\ (accepts => r.org = after /\ r.failed = b.failed)
  BY <1>2, <1>3, ReduceAnswers
<1> QED
  BY <1>1, <1>2, <1>4, <1>5, <1>6 DEF Rewrites, m, r

LEMMA InviteAnswers ==
  ASSUME NEW b \in Batch, NEW i \in Id, NEW p \in Person, NEW role \in Role
  PROVE  LET r == InviteMember(b, i, p, role)
         IN  /\ r \in Batch
             /\ \/ /\ RefusedBy(b, r)
                   /\ b.org.members[i].status # "NONE" \/ OpenIds(b.org, p) # {}
                \/ /\ b.org.members[i].status = "NONE" /\ OpenIds(b.org, p) = {}
                   /\ Rewrites(b, r, i, Invited(p, role))
<1> DEFINE d == b.org
           after == WithRecord(d, i, Invited(p, role))
           accepts == d.members[i].status = "NONE" /\ OpenIds(d, p) = {}
           r == InviteMember(b, i, p, role)
<1>1. d \in OrgState /\ Invited(p, role) \in Member
  BY InvitedType DEF Batch
<1>2. after \in OrgState /\ after.members = [d.members EXCEPT ![i] = Invited(p, role)] /\ after.apps = d.apps
  BY <1>1, RecordType
<1>3. r = Reduce(b, accepts, after) /\ accepts \in BOOLEAN
  BY DEF InviteMember
<1> HIDE DEF after, r
<1>4. r \in Batch /\ (~accepts => RefusedBy(b, r)) /\ (accepts => r.org = after /\ r.failed = b.failed)
  <2> HIDE DEF accepts
  <2> QED
    BY <1>2, <1>3, ReduceAnswers
<1> QED
  BY <1>2, <1>4 DEF Rewrites, r

LEMMA RoleAnswers ==
  ASSUME NEW b \in Batch, NEW i \in Id, NEW role \in Role
  PROVE  LET r == SetMemberRole(b, i, role)
             before == b.org.members[i]
         IN  /\ r \in Batch
             /\ \/ RefusedBy(b, r)
                \/ IsOpen(before.status) /\ Rewrites(b, r, i, [before EXCEPT !.role = role])
<1> DEFINE d == b.org
           m == [d.members[i] EXCEPT !.role = role]
           after == WithRole(d, i, role)
           accepts == IsOpen(d.members[i].status) /\ KeepsAnOwner(d, i, m)
           r == SetMemberRole(b, i, role)
<1>1. d \in OrgState /\ m \in Member /\ after \in OrgState /\ after.apps = d.apps
        /\ after.members = [d.members EXCEPT ![i] = m]
  BY RoleType DEF Batch
<1>2. r = Reduce(b, accepts, after) /\ accepts \in BOOLEAN
  BY DEF SetMemberRole
<1> HIDE DEF after, r, m
<1>3. r \in Batch /\ (~accepts => RefusedBy(b, r)) /\ (accepts => r.org = after /\ r.failed = b.failed)
  <2> HIDE DEF accepts
  <2> QED
    BY <1>1, <1>2, ReduceAnswers
<1> QED
  BY <1>1, <1>3 DEF Rewrites, m, r

(***************************************************************************)
(* The two halves of one organisation.  They may differ: a batch of which  *)
(* the document refuses an action leaves the others applied and the store  *)
(* undone, so that an invite may be in the document only (a stray), or     *)
(* open in the store and revoked in the document (and then there is a      *)
(* stray for the same person: it is why the new invite was refused).       *)
(***************************************************************************)
Alike(m, n) ==
  /\ IsActive(m) <=> IsActive(n)
  /\ m.status # "NONE" /\ n.status # "NONE" => m.address = n.address /\ m.role = n.role
  /\ n.status = "INVITED" => m.status \in {"INVITED", "NONE"}

Stray(o, d, j, p) ==
  o.members[j].status = "NONE" /\ d.members[j].status = "INVITED" /\ d.members[j].address = p

Explained(o, d, i) ==
  o.members[i].status = "INVITED" =>
    d.members[i].status = "INVITED" \/ \E j \in Id : Stray(o, d, j, o.members[i].address)

Mirrors(o, d) == \A i \in Id : Alike(o.members[i], d.members[i]) /\ Explained(o, d, i)

SameFreezes(o, d) == \A a \in App : o.apps[a] = "frozen" <=> d.apps[a] = "frozen"

\* A record that is no stray may become another one in both halves.
Becomes(o, q, i, m) == q.members[i] = m /\ \A j \in Id \ {i} : q.members[j] = o.members[j]

LEMMA PairBecomes ==
  ASSUME NEW o, NEW d, NEW q, NEW e, NEW i \in Id, NEW m, NEW n,
         Mirrors(o, d), Becomes(o, q, i, m), Becomes(d, e, i, n), Alike(m, n),
         o.members[i].status # "NONE" \/ d.members[i].status # "INVITED",
         m.status = "INVITED" =>
           n.status = "INVITED" \/ \E j \in Id \ {i} : Stray(o, d, j, m.address)
  PROVE  Mirrors(q, e)
<1>1. \A j \in Id : \A p : Stray(o, d, j, p) => j # i /\ Stray(q, e, j, p)
  BY DEF Stray, Becomes
<1>2. ASSUME NEW k \in Id
      PROVE  Alike(q.members[k], e.members[k]) /\ Explained(q, e, k)
  <2>1. CASE k = i
    BY <1>1, <2>1 DEF Explained, Becomes
  <2>2. CASE k # i
    BY <1>1, <2>2 DEF Mirrors, Explained, Becomes
  <2> QED
    BY <2>1, <2>2
<1> QED
  BY <1>2 DEF Mirrors

LEMMA PairChanges ==
  ASSUME NEW o \in OrgState, NEW d \in OrgState, NEW q, NEW e, NEW i \in Id, NEW m, NEW n,
         Mirrors(o, d),
         q.members = [o.members EXCEPT ![i] = m], e.members = [d.members EXCEPT ![i] = n],
         Alike(m, n),
         o.members[i].status # "NONE" \/ d.members[i].status # "INVITED",
         m.status = "INVITED" =>
           n.status = "INVITED" \/ \E j \in Id \ {i} : Stray(o, d, j, m.address)
  PROVE  Mirrors(q, e)
<1>1. Becomes(o, q, i, m) /\ Becomes(d, e, i, n)
  BY DEF OrgState, Becomes
<1> QED
  BY <1>1, PairBecomes
==============================================================================
