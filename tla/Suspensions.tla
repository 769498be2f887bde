----------------------------- MODULE Suspensions -----------------------------
(***************************************************************************)
(* The delegations that an organisation's members issue for one of its     *)
(* apps, and whether they count.  Those of a member who leaves or is       *)
(* removed are suspended one by one, or the member as a whole when they    *)
(* cannot be listed; admins suspend and unsuspend; the verdict on one      *)
(* delegation and on many are two pieces of code.                          *)
(*                                                                         *)
(* Every handler here holds the organisation's lock; a verdict is given in *)
(* between.  The organisation's document is a mirror nobody decides by.    *)
(* The store does not fail in the middle of a handler.                     *)
(***************************************************************************)
EXTENDS FiniteSets, Naturals

CONSTANTS Issuer,
          Credential,    \* delegations for the app
          IssuerOf,      \* who issues each
          LastHour,      \* bound: the clock
          MaxExits       \* bound: members leaving or removed

ASSUME SuspensionAssumption == IssuerOf \in [Credential -> Issuer]

VARIABLES
  hour,
  credential,   \* issuance time (0: not yet issued), whether the read model has it
  standing,     \* each issuer's membership: "out", or what a member may do with the app
  appState,     \* the app is frozen by the organisation, which is live or not
  suspended,    \* org_credential_suspensions
  suspendedAt,  \* org_member_suspensions, 0 without a row
  listing,      \* suspendedCredentialIds of the document
  exits,
  left          \* delegations that the exit of their issuer condemned (history)

suspensionVars ==
  <<hour, credential, standing, appState, suspended, suspendedAt, listing, exits, left>>

\* a role below publisher; a publisher without the app; publishers whose own list, whose
\* team or whose role or "all" scope covers it
Standings == {"out", "member", "publisher", "own", "team", "all"}

SuspensionInit ==
  /\ hour = 1
  /\ credential = [c \in Credential |-> [at |-> 0, indexed |-> FALSE]]
  /\ standing = [i \in Issuer |-> "own"]
  /\ appState = [frozen |-> FALSE, live |-> TRUE]
  /\ suspended = {} /\ suspendedAt = [i \in Issuer |-> 0] /\ listing = {}
  /\ exits = 0 /\ left = {}

\* credentialStatus: one read after the other
VerdictOnOne(c) ==
  LET who == IssuerOf[c]
  IN  CASE appState.frozen -> "APP_FROZEN"
        [] ~appState.frozen /\ c \in suspended -> "SUSPENDED"
        [] ~appState.frozen /\ c \notin suspended /\ suspendedAt[who] >= credential[c].at -> "SUSPENDED"
        [] OTHER -> IF standing[who] = "out" \/ ~appState.live THEN "ISSUER_NOT_MEMBER"
                    ELSE IF standing[who] \in {"own", "team", "all"} THEN "COUNTS"
                    ELSE "ISSUER_NOT_PUBLISHER"

\* Mutant: a delegation issued at the moment of the suspension escapes it.
StrictlyBefore(c, sus) == \E s \in sus : s[1] = IssuerOf[c] /\ s[2] > credential[c].at

CoveredBy(c, sus) == \E s \in sus : s[1] = IssuerOf[c] /\ s[2] >= credential[c].at

\* credentialStatuses: member data for all of them at once, and only when one of the apps
\* is not frozen; team scopes only for the publishers nothing else covers
VerdictsOnMany(C) ==
  LET open == IF appState.frozen THEN {} ELSE C
      issuers == {IssuerOf[c] : c \in open}
      rows == suspended \cap open
      memberRows == {<<i, suspendedAt[i]>> : i \in {j \in issuers : suspendedAt[j] > 0}}
      members == {i \in issuers : appState.live /\ standing[i] # "out"}
      needTeams == {i \in members : standing[i] \in {"publisher", "team"}}
      covered == {i \in members \ needTeams : standing[i] # "member"}
                   \cup {i \in needTeams : standing[i] = "team"}
  IN  [c \in C |->
        IF appState.frozen THEN "APP_FROZEN"
        ELSE IF c \in rows \/ CoveredBy(c, memberRows) THEN "SUSPENDED"
        ELSE IF IssuerOf[c] \notin members THEN "ISSUER_NOT_MEMBER"
        ELSE IF IssuerOf[c] \in covered THEN "COUNTS" ELSE "ISSUER_NOT_PUBLISHER"]

HourPasses ==
  /\ hour < LastHour
  /\ hour' = hour + 1
  /\ UNCHANGED <<credential, standing, appState, suspended, suspendedAt, listing, exits, left>>

Delegate(c) ==
  /\ credential[c].at = 0
  /\ credential' = [credential EXCEPT ![c].at = hour]
  /\ UNCHANGED <<hour, standing, appState, suspended, suspendedAt, listing, exits, left>>

IndexCredential(c) ==
  /\ credential[c].at > 0 /\ ~credential[c].indexed
  /\ credential' = [credential EXCEPT ![c].indexed = TRUE]
  /\ UNCHANGED <<hour, standing, appState, suspended, suspendedAt, listing, exits, left>>

\* liveCredentialsOf; issuedBy bounds the time of issuance
LiveCredentialsOf(i, issuedBy) ==
  {c \in Credential : IssuerOf[c] = i /\ credential[c].indexed /\ credential[c].at <= issuedBy}

\* endMembership and its hook; the suspensions stay when the document does not take them
SuspendOnExit(i) ==
  LET ids == LiveCredentialsOf(i, hour)
  IN  /\ left' = left \cup ids
      /\ \/ /\ suspended' = suspended \cup ids
            /\ \/ listing' = listing \cup (ids \ suspended)
               \/ UNCHANGED listing
            /\ UNCHANGED suspendedAt
         \/ /\ suspendedAt' = [suspendedAt EXCEPT ![i] = hour]
            /\ UNCHANGED <<suspended, listing>>

EndsMembership(i) ==
  /\ standing[i] # "out" /\ exits < MaxExits
  /\ exits' = exits + 1
  /\ standing' = [standing EXCEPT ![i] = "out"]
  /\ SuspendOnExit(i)
  /\ UNCHANGED <<hour, credential, appState>>

\* joining, a new role, a new scope, a team's members or apps
ChangeStanding(i, s) ==
  /\ s # "out" /\ s # standing[i]
  /\ standing' = [standing EXCEPT ![i] = s]
  /\ UNCHANGED <<hour, credential, appState, suspended, suspendedAt, listing, exits, left>>

\* FREEZE_APP, UNFREEZE_APP, a takedown and a restore
ChangeApp(state) ==
  /\ state # appState
  /\ appState' = state
  /\ UNCHANGED <<hour, credential, standing, suspended, suspendedAt, listing, exits, left>>

\* suspend(..., "ADMIN"): a document that cannot be written takes the new rows back
Suspend(ids) ==
  \/ /\ suspended' = suspended \cup ids
     /\ listing' = listing \cup (ids \ suspended)
  \/ ids \ suspended # {} /\ UNCHANGED <<suspended, listing>>

SuspendOrgCredentials(ids) ==
  /\ appState.live
  /\ Suspend(ids)
  /\ UNCHANGED <<hour, credential, standing, appState, suspendedAt, exits, left>>

\* the delegation's own row, when it has one; a document that lists it has the last word
UnsuspendRow(c, rows, mirrored) ==
  \/ /\ suspended' = rows \ {c}
     /\ listing' = IF c \in rows THEN mirrored \ {c} ELSE mirrored
     /\ left' = left \ {c}
  \/ /\ c \in rows /\ c \in mirrored
     /\ suspended' = rows /\ listing' = mirrored /\ UNCHANGED left

\* Mutant: the member's suspension is lifted and the others are forgotten.
LiftAlone(c) == {}

\* liftMemberSuspension: the issuer's other delegations get rows of their own
OthersCovered(c) == LiveCredentialsOf(IssuerOf[c], suspendedAt[IssuerOf[c]]) \ {c}

UnsuspendOrgCredential(c) ==
  LET who == IssuerOf[c]
      lifts == credential[c].indexed /\ suspendedAt[who] > 0 /\ suspendedAt[who] >= credential[c].at
      others == IF lifts THEN OthersCovered(c) ELSE {}
  IN  /\ appState.live
      /\ lifts \/ c \in suspended
      /\ \/ /\ suspendedAt' = IF lifts THEN [suspendedAt EXCEPT ![who] = 0] ELSE suspendedAt
            /\ UnsuspendRow(c, suspended \cup others, listing \cup (others \ suspended))
         \/ others \ suspended # {} /\ UNCHANGED <<suspended, suspendedAt, listing, left>>
  /\ UNCHANGED <<hour, credential, standing, appState, exits>>

SuspensionNext ==
  \/ HourPasses
  \/ \E c \in Credential : Delegate(c) \/ IndexCredential(c) \/ UnsuspendOrgCredential(c)
                           \/ (credential[c].indexed /\ SuspendOrgCredentials({c}))
  \/ \E i \in Issuer : \/ EndsMembership(i)
                       \/ \E s \in Standings : ChangeStanding(i, s)
                       \/ SuspendOrgCredentials(LiveCredentialsOf(i, hour))
  \/ \E state \in [frozen : BOOLEAN, live : BOOLEAN] : ChangeApp(state)

SuspensionSpec == SuspensionInit /\ [][SuspensionNext]_suspensionVars

\* "They stay suspended if the member re-joins": a delegation that its issuer had when they
\* left never counts again until an admin unsuspends that very one, whether the exit
\* listed it or suspended the member, and although lifting one delegation lifts the member.
LeaversStaySuspended == \A c \in left : VerdictOnOne(c) \in {"SUSPENDED", "APP_FROZEN"}

\* The verdict on many says of each what the verdict on one says, also at the very moment
\* of a suspension and for organisations that are not live.
VerdictsAgree ==
  LET issued == {c \in Credential : credential[c].indexed}
  IN  VerdictsOnMany(issued) = [c \in issued |-> VerdictOnOne(c)]
==============================================================================
