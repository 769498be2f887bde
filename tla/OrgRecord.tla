------------------------------ MODULE OrgRecord ------------------------------
(***************************************************************************)
(* One organisation as it is recorded twice: in the tables of renown-orgs  *)
(* (the store, which every check reads) and in its renown/organization     *)
(* document (the mirror other systems read).  Both have the same shape.    *)
(*                                                                         *)
(* The module gives the shape, the questions the code asks of it, and the  *)
(* reducers of the document model, each a function from a batch to a batch *)
(* so that a handler's list of actions is a composition of reducers.       *)
(***************************************************************************)
EXTENDS Integers, FiniteSets

CONSTANTS Person,      \* wallet addresses
          NoPerson,    \* the address of an unused record
          Id,          \* ids of membership records
          Team,        \* ids of teams
          App,         \* app DIDs the organisation may own
          MaxActive,   \* MAX_ACTIVE_MEMBERS (500)
          MaxTeams     \* MAX_TEAMS

ASSUME RecordAssumption ==
  /\ NoPerson \notin Person /\ IsFiniteSet(Person)
  /\ Id \subseteq Nat /\ IsFiniteSet(Id)
  /\ MaxActive \in Nat \ {0}
  /\ MaxTeams \in Nat

(***************************************************************************)
(* Shape                                                                   *)
(***************************************************************************)
Role == {"OWNER", "ADMIN", "PUBLISHER", "MEMBER"}

Rank == [OWNER |-> 3, ADMIN |-> 2, PUBLISHER |-> 1, MEMBER |-> 0]

RoleAtLeast(role, min) == Rank[role] >= Rank[min]

\* NONE marks an id no record uses yet.
Status == {"NONE", "INVITED", "ACTIVE", "DECLINED", "REVOKED", "LEFT", "REMOVED"}

Member == [address: Person \cup {NoPerson}, role: Role, status: Status]

NoMember == [address |-> NoPerson, role |-> "MEMBER", status |-> "NONE"]

Invited(p, role) == [address |-> p, role |-> role, status |-> "INVITED"]

Joined(p, role) == [Invited(p, role) EXCEPT !.status = "ACTIVE"]

\* A place is a row of org_team_members.
OrgState == [members: [Id -> Member],
             teams: SUBSET Team,
             places: SUBSET (Team \X Id),
             apps: [App -> {"none", "open", "frozen"}],
             archived: BOOLEAN,
             takenDown: BOOLEAN]

(***************************************************************************)
(* Questions                                                               *)
(***************************************************************************)
IsOpen(status) == status \in {"INVITED", "ACTIVE"}

IsActive(m) == m.status = "ACTIVE"

IsOwner(m) == m.status = "ACTIVE" /\ m.role = "OWNER"

ActiveIds(o) == {i \in Id : IsActive(o.members[i])}

OwnerIds(o) == {i \in Id : IsOwner(o.members[i])}

Owners(o) == {p \in Person : \E i \in OwnerIds(o) : o.members[i].address = p}

OpenIds(o, p) == {i \in Id : o.members[i].address = p /\ IsOpen(o.members[i].status)}

OwnedApps(o) == {a \in App : o.apps[a] # "none"}

(***************************************************************************)
(* Changes the store and the document make alike                           *)
(***************************************************************************)
WithStatus(o, i, status) == [o EXCEPT !.members[i].status = status]

WithRole(o, i, role) == [o EXCEPT !.members[i].role = role]

\* removeMemberFromTeams
WithoutPlaces(o, i) == [o EXCEPT !.places = {pl \in @ : pl[2] # i}]

WithRecord(o, i, m) == [o EXCEPT !.members[i] = m]

WithTeam(o, t) == [o EXCEPT !.teams = @ \cup {t}]

\* insertTeamMembers after deleteTeamMembers
WithPlaces(o, t, ids) == [o EXCEPT !.places = {pl \in @ : pl[1] # t} \cup ({t} \X ids)]

WithoutTeam(o, t) == [WithPlaces(o, t, {}) EXCEPT !.teams = @ \ {t}]

WithApp(o, a, state) == [o EXCEPT !.apps[a] = state]

(***************************************************************************)
(* The document model.  Actions sent together are reduced one by one: a    *)
(* reducer that throws records an error on its operation, leaves the state *)
(* as it was, and the actions after it are still reduced.                  *)
(***************************************************************************)
Batch == [org: OrgState, failed: BOOLEAN]

Begin(d) == [org |-> d, failed |-> FALSE]

Refused(b) == [b EXCEPT !.failed = TRUE]

Reduce(b, accepts, after) ==
  IF accepts THEN [org |-> after, failed |-> b.failed] ELSE Refused(b)

NextStatus(status) ==
  CASE status = "INVITED" -> {"ACTIVE", "DECLINED", "REVOKED"}
    [] status = "ACTIVE"  -> {"LEFT", "REMOVED"}
    [] OTHER -> {}

KeepsAnOwner(d, i, after) ==
  \/ ~IsOwner(d.members[i])
  \/ IsOwner(after)
  \/ Cardinality(OwnerIds(d)) > 1

InviteMember(b, i, p, role) ==
  LET d == b.org
  IN  Reduce(b, /\ d.members[i].status = "NONE"
                /\ OpenIds(d, p) = {},
             WithRecord(d, i, Invited(p, role)))

SetMemberStatus(b, i, status) ==
  LET d == b.org
      after == [d.members[i] EXCEPT !.status = status]
      set == WithStatus(d, i, status)
  IN  Reduce(b, /\ status \in NextStatus(d.members[i].status)
                /\ status = "ACTIVE" => Cardinality(ActiveIds(d)) < MaxActive
                /\ KeepsAnOwner(d, i, after),
             IF status = "ACTIVE" THEN set ELSE WithoutPlaces(set, i))

\* Two actions of one batch make a member who is not asked to accept.
Join(b, i, p, role) == SetMemberStatus(InviteMember(b, i, p, role), i, "ACTIVE")

SetMemberRole(b, i, role) ==
  LET d == b.org
  IN  Reduce(b, /\ IsOpen(d.members[i].status)
                /\ KeepsAnOwner(d, i, [d.members[i] EXCEPT !.role = role]),
             WithRole(d, i, role))

AddTeam(b, t) ==
  LET d == b.org
  IN  Reduce(b, t \notin d.teams /\ Cardinality(d.teams) < MaxTeams, WithTeam(d, t))

RemoveTeam(b, t) ==
  LET d == b.org
  IN  Reduce(b, t \in d.teams, WithoutTeam(d, t))

SetTeamMembers(b, t, ids) ==
  LET d == b.org
  IN  Reduce(b, t \in d.teams /\ ids \subseteq ActiveIds(d),
             WithPlaces(d, t, ids))

AddOrgApp(b, a) ==
  Reduce(b, b.org.apps[a] = "none", WithApp(b.org, a, "open"))

SetAppFrozen(b, a, frozen) ==
  Reduce(b, b.org.apps[a] # "none",
         WithApp(b.org, a, IF frozen THEN "frozen" ELSE "open"))

\* Archiving ends every open membership and empties every team.
Ended(m) ==
  CASE m.status = "INVITED" -> [m EXCEPT !.status = "REVOKED"]
    [] m.status = "ACTIVE"  -> [m EXCEPT !.status = "REMOVED"]
    [] OTHER -> m

Archived(o) == [o EXCEPT !.archived = TRUE,
                         !.members = [i \in Id |-> Ended(o.members[i])],
                         !.places = {}]

ArchiveOrg(b) == Reduce(b, TRUE, Archived(b.org))

SetTakenDown(b, down) == Reduce(b, TRUE, [b.org EXCEPT !.takenDown = down])
==============================================================================
