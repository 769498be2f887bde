---------------------------- MODULE OrgGovernance ----------------------------
(***************************************************************************)
(* The proposals of one organisation (areas/proposals.ts, the handlers of  *)
(* areas/proposal-kinds.ts, startOrgRecovery) over its memberships (module *)
(* OrgMembers), with the sweeper job that runs, expires and re-arms them.  *)
(*                                                                         *)
(* Everything a call or the sweeper does under the org:<id> lock is one    *)
(* action.  What interleaves: the sweeper's two lists, read outside the    *)
(* lock with the time its run started and worked off one proposal at a     *)
(* time; the attaching of apps (an insert that takes no org lock); the     *)
(* recovery domain, verified and lapsing on its own; and the clock.        *)
(***************************************************************************)
EXTENDS OrgMembers, ProposalRules

CONSTANTS Slot,         \* one per proposal of a behaviour: a bound
          Kinds,        \* the kinds proposed in this instance
          MaxProposals, \* MAX_PENDING_PROPOSALS (20)
          MinVerified,  \* RECOVERY_MIN_VERIFIED_DAYS (14)
          MaxNow        \* the clock's bound

ASSUME GovernanceAssumption ==
  /\ Slot \subseteq Nat /\ IsFiniteSet(Slot)
  /\ Kinds \subseteq ProposalKind
  /\ MaxProposals \in Nat
  /\ MinVerified \in Nat
  /\ MaxNow \in Nat

VARIABLES now,        \* the clock
          proposals,  \* the org_proposals rows
          domainAge,  \* how long the recovery domain is VERIFIED, -1 when it is not
          sweep       \* where the proposals job is

govVars == <<now, proposals, domainAge, sweep>>

vars == <<memberVars, govVars>>

ProposalStatus == {"NONE", "PENDING", "EXECUTED", "FAILED", "CANCELLED", "EXPIRED"}

\* about: the address or the app the payload names
Proposal == [kind: ProposalKind, about: Person \cup App \cup {NoPerson}, demote: BOOLEAN,
             proposer: Person \cup {NoPerson}, approvals: SUBSET Person, threshold: 0..2,
             createdAt: Nat, executableAt: Nat \cup {Never}, status: ProposalStatus]

NoProposal == [kind |-> "ADD_OWNER", about |-> NoPerson, demote |-> FALSE,
               proposer |-> NoPerson, approvals |-> {}, threshold |-> 0,
               createdAt |-> 0, executableAt |-> Never, status |-> "NONE"]

(***************************************************************************)
(* Questions                                                               *)
(***************************************************************************)
IsPending(s) == proposals[s].status = "PENDING"

\* isLive
IsLive(s, time) == IsPending(s) /\ ExpiresAt(proposals[s]) > time

Met(s) == ThresholdMet(proposals[s], Owners(org))

LivePending == {s \in Slot : IsLive(s, now)}

ActiveIdsOf(p) == {i \in OpenIds(org, p) : IsActive(org.members[i])}

IsActiveOwner(p) == \E i \in ActiveIdsOf(p) : IsOwner(org.members[i])

(***************************************************************************)
(* Making proposals                                                        *)
(***************************************************************************)
\* A new proposal takes the next slot.  Proposals are made while the clock can still
\* reach their expiry, so that the bound on the clock strands none.
NextSlot(s) ==
  /\ proposals[s].status = "NONE"
  /\ \A r \in Slot : proposals[r].status = "NONE" => s <= r
  /\ now + ProposalTTL <= MaxNow

Draft(kind, about, demote, proposer, approvals) ==
  [kind |-> kind, about |-> about, demote |-> demote, proposer |-> proposer,
   approvals |-> approvals, threshold |-> ThresholdFor(kind, Cardinality(Owners(org))),
   createdAt |-> now, executableAt |-> Never, status |-> "PENDING"]

CreateProposal(s, draft) ==
  /\ NextSlot(s)
  /\ proposals' = [proposals EXCEPT
       ![s] = [draft EXCEPT !.executableAt = ExecutableAtFor(draft, Owners(org), now, TRUE)]]
  /\ UNCHANGED <<memberVars, now, domainAge, sweep>>

\* orgAppOf: an app of the organisation, not yet as asked
Freezable(a, frozen) == org.apps[a] = (IF frozen THEN "open" ELSE "frozen")

\* The handlers' validate
Valid(kind, about) ==
  CASE kind = "ADD_OWNER"    -> ActiveIdsOf(about) # {} /\ ~IsActiveOwner(about)
    [] kind = "REMOVE_OWNER" -> IsActiveOwner(about) /\ Cardinality(OwnerIds(org)) >= 2
    [] kind = "DELETE_ORG"   -> OwnedApps(org) = {}
    [] kind = "FREEZE_APP"   -> Freezable(about, TRUE)
    [] kind = "UNFREEZE_APP" -> Freezable(about, FALSE)
    [] OTHER -> FALSE

Subjects(kind) ==
  CASE kind \in {"ADD_OWNER", "REMOVE_OWNER"} -> Person
    [] kind = "DELETE_ORG" -> {NoPerson}
    [] kind \in {"FREEZE_APP", "UNFREEZE_APP"} -> App
    [] OTHER -> {}

ProposeOrgChange(caller, s, kind, about, demote) ==
  /\ Writable
  /\ HasRole(caller, "OWNER")
  /\ Valid(kind, about)
  /\ demote => kind = "REMOVE_OWNER"
  /\ Cardinality(LivePending) < MaxProposals
  /\ \A r \in LivePending :
       ~(proposals[r].kind = kind /\ proposals[r].about = about /\ proposals[r].demote = demote)
  /\ CreateProposal(s, Draft(kind, about, demote, caller, {caller}))

\* startOrgRecovery once the domain's proof was found: what it checks again under the lock.
\* Anyone may start one; a RECOVER that expired unswept still counts as pending.
StartOrgRecovery(caller, s, newOwner) ==
  /\ Writable
  /\ domainAge >= MinVerified
  /\ ~IsActiveOwner(newOwner)
  /\ \A r \in Slot : IsPending(r) => proposals[r].kind # "RECOVER"
  /\ CreateProposal(s, Draft("RECOVER", newOwner, FALSE, caller, {}))

ApproveOrgProposal(caller, s) ==
  LET pr == proposals[s]
      approved == [pr EXCEPT !.approvals = @ \cup {caller}]
  IN  /\ Writable
      /\ HasRole(caller, "OWNER")
      /\ IsLive(s, now)
      /\ caller \notin pr.approvals
      /\ proposals' = [proposals EXCEPT
           ![s] = [approved EXCEPT
                     !.executableAt = ExecutableAtFor(approved, Owners(org), now, Met(s))]]
      /\ UNCHANGED <<memberVars, now, domainAge, sweep>>

CancelOrgProposal(caller, s) ==
  /\ Writable
  /\ caller = proposals[s].proposer \/ HasRole(caller, "OWNER")
  /\ IsPending(s)
  /\ proposals' = [proposals EXCEPT ![s].status = "CANCELLED"]
  /\ UNCHANGED <<memberVars, now, domainAge, sweep>>

(***************************************************************************)
(* Running a proposal: runProposal claims it (PENDING to EXECUTED) and     *)
(* lets its kind re-validate and apply the change.                         *)
(***************************************************************************)
Settled(s, status) == [proposals EXCEPT ![s].status = status]

\* The kind's handler returned a reason.
Fails(s) == proposals' = Settled(s, "FAILED") /\ UNCHANGED <<org, doc, docError>>

\* The handler returned null without a change.
NothingToDo(s) == proposals' = Settled(s, "EXECUTED") /\ UNCHANGED <<org, doc, docError>>

\* Mutant: the claim stands although the change could not be made.
AppliesOrNot(s, next, batch, settled) ==
  \/ Written(next, batch) /\ proposals' = settled
  \/ (Unavailable(next, batch) \/ Stopped(next) \/ Stopped(org)) /\ proposals' = settled

(***************************************************************************)
(* The handler wrote the change.  SERVICE_UNAVAILABLE puts the proposal    *)
(* back to PENDING; a process that stops after the claim leaves it         *)
(* EXECUTED, with the change in the store or without.                      *)
(***************************************************************************)
Applies(s, next, batch, settled) ==
  \/ Written(next, batch) /\ proposals' = settled
  \/ Unavailable(next, batch) /\ UNCHANGED proposals
  \/ (Stopped(next) \/ Stopped(org)) /\ proposals' = Settled(s, "EXECUTED")

AddOwner(s) ==
  LET p == proposals[s].about
  IN  \/ ActiveIdsOf(p) = {} /\ Fails(s)
      \/ IsActiveOwner(p) /\ Fails(s)
      \/ \E i \in ActiveIdsOf(p) :
           /\ ~IsActiveOwner(p)
           /\ Applies(s, WithRole(org, i, "OWNER"),
                      SetMemberRole(Begin(doc), i, "OWNER"), Settled(s, "EXECUTED"))

RemoveOwner(s) ==
  LET p == proposals[s].about
  IN  \/ ~IsActiveOwner(p) /\ Fails(s)
      \/ Cardinality(OwnerIds(org)) < 2 /\ Fails(s)
      \/ \E i \in ActiveIdsOf(p) :
           /\ IsActiveOwner(p)
           /\ Cardinality(OwnerIds(org)) >= 2
           /\ IF proposals[s].demote
                THEN Applies(s, WithRole(org, i, "ADMIN"),
                             SetMemberRole(Begin(doc), i, "ADMIN"), Settled(s, "EXECUTED"))
                ELSE Applies(s, WithoutPlaces(WithStatus(org, i, "REMOVED"), i),
                             SetMemberStatus(Begin(doc), i, "REMOVED"), Settled(s, "EXECUTED"))

\* Cancelling the other pending proposals is a follow-up that may stop half way.
DeleteOrg(s) ==
  \/ OwnedApps(org) # {} /\ Fails(s)
  \/ /\ OwnedApps(org) = {}
     /\ \E cancelled \in SUBSET {r \in Slot \ {s} : IsPending(r)} :
          Applies(s, Archived(org), ArchiveOrg(Begin(doc)),
                  [r \in Slot |->
                     IF r \in cancelled THEN [proposals[r] EXCEPT !.status = "CANCELLED"]
                     ELSE Settled(s, "EXECUTED")[r]])

Recover(s) ==
  LET p == proposals[s].about
  IN  \/ domainAge < MinVerified /\ Fails(s)
      \/ /\ domainAge >= MinVerified
         /\ \/ IsActiveOwner(p) /\ NothingToDo(s)
            \/ \E i \in ActiveIdsOf(p) :
                 /\ ~IsActiveOwner(p)
                 /\ Applies(s, WithRole(org, i, "OWNER"),
                            SetMemberRole(Begin(doc), i, "OWNER"), Settled(s, "EXECUTED"))
            \/ \E new \in NewIds :
                 \/ /\ OpenIds(org, p) = {}
                    /\ Applies(s, WithRecord(org, new, Joined(p, "OWNER")),
                               Join(Begin(doc), new, p, "OWNER"), Settled(s, "EXECUTED"))
                 \/ \E old \in OpenIds(org, p) \ ActiveIdsOf(p) :
                      Applies(s, WithRecord(WithStatus(org, old, "REVOKED"), new, Joined(p, "OWNER")),
                              Join(SetMemberStatus(Begin(doc), old, "REVOKED"), new, p, "OWNER"),
                              Settled(s, "EXECUTED"))

\* FREEZE_APP and UNFREEZE_APP: a document that lost its mirror of the app gets it back first.
FreezeApp(s) ==
  LET a == proposals[s].about
      frozen == proposals[s].kind = "FREEZE_APP"
      state == IF frozen THEN "frozen" ELSE "open"
      mirrored == IF doc.apps[a] = "none" THEN AddOrgApp(Begin(doc), a) ELSE Begin(doc)
  IN  \/ org.apps[a] = "none" /\ Fails(s)
      \/ org.apps[a] = state /\ NothingToDo(s)
      \/ /\ org.apps[a] \notin {"none", state}
         /\ Applies(s, WithApp(org, a, state),
                    SetAppFrozen(mirrored, a, frozen), Settled(s, "EXECUTED"))

Execute(s) ==
  CASE proposals[s].kind = "ADD_OWNER"    -> AddOwner(s)
    [] proposals[s].kind = "REMOVE_OWNER" -> RemoveOwner(s)
    [] proposals[s].kind = "DELETE_ORG"   -> DeleteOrg(s)
    [] proposals[s].kind = "RECOVER"      -> Recover(s)
    [] OTHER -> FreezeApp(s)

\* rearmProposal: a countdown for a live proposal whose threshold is met but has none
Rearm(s, time) ==
  /\ IsLive(s, time)
  /\ proposals[s].executableAt = Never
  /\ Met(s)
  /\ proposals' = [proposals EXCEPT
       ![s].executableAt = ExecutableAtFor(proposals[s], Owners(org), time, FALSE)]
  /\ UNCHANGED <<org, doc, docError>>

\* Consent was lost: the countdown goes.
Disarm(s) ==
  /\ ~Met(s)
  /\ proposals' = [proposals EXCEPT ![s].executableAt = Never]
  /\ UNCHANGED <<org, doc, docError>>

\* Mutant: a proposal matures no longer once its time is up.
MaturedUnexpired(s, time) ==
  LET at == proposals[s].executableAt
  IN  at # Never /\ at <= time /\ time < ExpiresAt(proposals[s])

Matured(s, time) ==
  LET at == proposals[s].executableAt
  IN  at # Never /\ at <= time /\ at < ExpiresAt(proposals[s])

\* Mutant: the caller's or the sweeper's older reading of the status is believed.
RunProposalUnread(s) ==
  /\ Met(s)
  /\ Matured(s, now)
  /\ \/ ~Writable /\ Fails(s)
     \/ Writable /\ Execute(s)

RunProposal(s) ==
  /\ IsPending(s)
  /\ \/ Disarm(s)
     \/ Rearm(s, now)
     \/ /\ Met(s)
        /\ Matured(s, now)
        /\ \/ ~Writable /\ Fails(s)
           \/ Writable /\ Execute(s)

\* Open to an owner and to the proposer, and in a taken-down organisation too
ExecuteOrgProposal(caller, s) ==
  /\ caller = proposals[s].proposer \/ HasRole(caller, "OWNER")
  /\ RunProposal(s)
  /\ UNCHANGED <<expired, now, domainAge, sweep>>

(***************************************************************************)
(* The proposals job of the sweeper.  One run at a time (createSweeper);   *)
(* sweep.at is the time the run was given, sweep.todo what is left of the  *)
(* list it read, each proposal read again under the lock.                  *)
(***************************************************************************)
Idle == [phase |-> "idle", at |-> 0, todo |-> {}]

\* Mutant: only proposals with a countdown are ever due.
MaturedProposals(time) ==
  {s \in Slot : /\ IsPending(s)
                /\ proposals[s].executableAt # Never
                /\ proposals[s].executableAt <= time}

DueProposals(time) ==
  {s \in Slot : /\ IsPending(s)
                /\ \/ proposals[s].executableAt # Never /\ proposals[s].executableAt <= time
                   \/ ExpiresAt(proposals[s]) <= time}

RearmableProposals(time) ==
  {s \in Slot : /\ IsLive(s, time)
                /\ proposals[s].executableAt = Never
                /\ Cardinality(proposals[s].approvals) >= proposals[s].threshold}

SweepBegins ==
  /\ sweep = Idle
  /\ sweep' = [phase |-> "due", at |-> now, todo |-> DueProposals(now)]
  /\ UNCHANGED <<memberVars, now, proposals, domainAge>>

Unsweepable(s) == UNCHANGED <<org, doc, docError, proposals>>

Expire(s) ==
  /\ proposals' = Settled(s, "EXPIRED")
  /\ UNCHANGED <<org, doc, docError>>

SweepDue(s) ==
  /\ sweep.phase = "due" /\ s \in sweep.todo
  /\ \/ Matured(s, sweep.at) /\ RunProposal(s)
     \/ /\ IsPending(s) /\ ~Matured(s, sweep.at) /\ ExpiresAt(proposals[s]) <= sweep.at
        /\ Expire(s)
     \/ /\ IsPending(s) => ~Matured(s, sweep.at) /\ ExpiresAt(proposals[s]) > sweep.at
        /\ Unsweepable(s)
  /\ sweep' = [sweep EXCEPT !.todo = @ \ {s}]
  /\ UNCHANGED <<expired, now, domainAge>>

SweepTurns ==
  /\ sweep.phase = "due" /\ sweep.todo = {}
  /\ sweep' = [sweep EXCEPT !.phase = "stuck", !.todo = RearmableProposals(sweep.at)]
  /\ UNCHANGED <<memberVars, now, proposals, domainAge>>

SweepStuck(s) ==
  /\ sweep.phase = "stuck" /\ s \in sweep.todo
  /\ \/ Rearm(s, sweep.at)
     \/ /\ ~(IsLive(s, sweep.at) /\ proposals[s].executableAt = Never /\ Met(s))
        /\ Unsweepable(s)
  /\ sweep' = [sweep EXCEPT !.todo = @ \ {s}]
  /\ UNCHANGED <<expired, now, domainAge>>

SweepEnds ==
  /\ sweep.phase = "stuck" /\ sweep.todo = {}
  /\ sweep' = Idle
  /\ UNCHANGED <<memberVars, now, proposals, domainAge>>

\* A restart forgets the run.
SweepStops ==
  /\ "lost" \in Faults
  /\ sweep # Idle
  /\ sweep' = Idle
  /\ UNCHANGED <<memberVars, now, proposals, domainAge>>

(***************************************************************************)
(* What changes beside the org lock                                        *)
(***************************************************************************)
\* Mutant: the insert does not look at the organisation.
AttachAppAnyway(a) ==
  /\ org.apps[a] = "none"
  /\ org' = WithApp(org, a, "open")
  /\ UNCHANGED <<doc, docError, expired, govVars>>

\* attachApp and insertOrgApp: one statement, into a live organisation
AttachApp(a) ==
  /\ Writable
  /\ org.apps[a] = "none"
  /\ org' = WithApp(org, a, "open")
  /\ UNCHANGED <<doc, docError, expired, govVars>>

\* mirrorOrgApp: it may fail, and nothing repeats it
MirrorApp(a) ==
  /\ org.apps[a] # "none"
  /\ doc.apps[a] = "none"
  /\ doc' = AddOrgApp(Begin(doc), a).org
  /\ UNCHANGED <<org, docError, expired, govVars>>

\* Mutant: a frozen app moves away.
DetachAnyApp(a) ==
  /\ org.apps[a] # "none"
  /\ org' = WithApp(org, a, "none")
  /\ doc' \in {doc, WithApp(doc, a, "none")}
  /\ UNCHANGED <<docError, expired, govVars>>

\* The app leaves: a failed attach is undone, or it is moved to another owner, which a
\* frozen app cannot be.  The document loses its mirror, or keeps it when that write fails.
DetachApp(a) ==
  /\ org.apps[a] = "open"
  /\ org' = WithApp(org, a, "none")
  /\ doc' \in {doc, WithApp(doc, a, "none")}
  /\ UNCHANGED <<docError, expired, govVars>>

DomainVerified ==
  /\ domainAge = -1
  /\ domainAge' = 0
  /\ UNCHANGED <<memberVars, now, proposals, sweep>>

DomainLapses ==
  /\ domainAge # -1
  /\ domainAge' = -1
  /\ UNCHANGED <<memberVars, now, proposals, sweep>>

Tick ==
  /\ now < MaxNow
  /\ now' = now + 1
  /\ domainAge' = (IF domainAge = -1 THEN -1 ELSE MinOf(domainAge + 1, MinVerified))
  /\ UNCHANGED <<memberVars, proposals, sweep>>

(***************************************************************************)
(* Specification                                                           *)
(***************************************************************************)
GovInit ==
  /\ Init
  /\ now = 0
  /\ proposals = [s \in Slot |-> NoProposal]
  /\ domainAge \in (IF "RECOVER" \in Kinds THEN {-1, MinVerified} ELSE {-1})
  /\ sweep = Idle

Propose ==
  \E p \in Person, s \in Slot, demote \in BOOLEAN, kind \in Kinds :
    \E about \in Subjects(kind) : ProposeOrgChange(p, s, kind, about, demote)

Recovery ==
  /\ "RECOVER" \in Kinds
  /\ \/ \E p, q \in Person, s \in Slot : StartOrgRecovery(p, s, q)
     \/ DomainVerified
     \/ DomainLapses

Sweep ==
  \/ SweepBegins \/ SweepTurns \/ SweepEnds
  \/ \E s \in Slot : SweepDue(s) \/ SweepStuck(s)

GovNext ==
  \/ Next /\ UNCHANGED govVars
  \/ Propose
  \/ Recovery
  \/ \E p \in Person, s \in Slot :
       ApproveOrgProposal(p, s) \/ CancelOrgProposal(p, s) \/ ExecuteOrgProposal(p, s)
  \/ Sweep
  \/ SweepStops
  \/ \E a \in App : AttachApp(a) \/ MirrorApp(a) \/ DetachApp(a)
  \/ Tick

GovSpec == GovInit /\ [][GovNext]_vars

(***************************************************************************)
(* Properties                                                              *)
(***************************************************************************)
GovTypeOK ==
  /\ TypeOK
  /\ now \in Nat
  /\ proposals \in [Slot -> Proposal]
  /\ domainAge \in -1..MinVerified
  /\ sweep \in [phase: {"idle", "due", "stuck"}, at: Nat, todo: SUBSET Slot]

(***************************************************************************)
(* What the owners agreed to: a pending proposal of the kind, about the    *)
(* subject, whose delay since it was made is over and which, unless it is  *)
(* a RECOVER, is approved right now by two current owners, or by the only  *)
(* one there is, and by no fewer than were needed when it was made.        *)
(***************************************************************************)
Consented(kind, about) ==
  \E s \in Slot :
    LET pr == proposals[s]
        consenting == Cardinality(pr.approvals \cap Owners(org))
    IN  /\ pr.status = "PENDING" /\ pr.kind = kind /\ pr.about = about
        /\ now >= pr.createdAt + DelayOf(kind)
        /\ \/ kind = "RECOVER"
           \/ consenting >= MinOf(2, Cardinality(Owners(org))) /\ consenting >= pr.threshold

\* The store may become next.
Agreed(next) ==
  /\ \A i \in OwnerIds(next) \ OwnerIds(org) :
       LET p == next.members[i].address
       IN  Consented("ADD_OWNER", p) \/ Consented("RECOVER", p)
  /\ \A i \in OwnerIds(org) \ OwnerIds(next) :
       \/ next.members[i].status = "LEFT"
       \/ Consented("REMOVE_OWNER", org.members[i].address)
       \/ next.archived /\ Consented("DELETE_ORG", NoPerson)
  /\ next.archived /\ ~org.archived => Consented("DELETE_ORG", NoPerson)
  /\ \A a \in App :
       /\ org.apps[a] # "frozen" /\ next.apps[a] = "frozen" => Consented("FREEZE_APP", a)
       /\ org.apps[a] = "frozen" /\ next.apps[a] # "frozen" => Consented("UNFREEZE_APP", a)

\* Whatever happens to memberships, proposals, clock and sweeper in between, a person
\* becomes an owner, stops being one (other than by leaving), an app is frozen or
\* unfrozen and the organisation is archived only with that consent.
OwnersConsent == [][Agreed(org')]_vars

\* While no process stops half way, a proposal is marked EXECUTED only when its change is
\* made, in the store and in the document.
Effective(s, o) ==
  LET pr == proposals[s]
  IN  CASE pr.kind \in {"ADD_OWNER", "RECOVER"} -> pr.about \in Owners(o)
        [] pr.kind = "REMOVE_OWNER" -> pr.about \notin Owners(o)
        [] pr.kind = "DELETE_ORG"   -> o.archived
        [] pr.kind = "FREEZE_APP"   -> o.apps[pr.about] = "frozen"
        [] OTHER -> o.apps[pr.about] # "frozen"  \* the document may have no mirror of the app

ExecutedMeansDone ==
  [][\A s \in Slot :
       IsPending(s) /\ proposals'[s].status = "EXECUTED"
         => Effective(s, org') /\ Effective(s, doc')]_vars

\* A decided proposal is never decided again or changed, although the sweeper works off
\* a list it read before other calls decided some of it.
DecidedStaysDecided ==
  [][\A s \in Slot :
       proposals[s].status \notin {"NONE", "PENDING"} => proposals'[s] = proposals[s]]_vars

\* The sweeper expires only what never matured: a proposal whose countdown ended in
\* time waits for its run however late the sweeper is.
ExpiredNeverMatured ==
  \A s \in Slot :
    proposals[s].status = "EXPIRED" =>
      \/ proposals[s].executableAt = Never
      \/ proposals[s].executableAt >= ExpiresAt(proposals[s])

\* An archived organisation is over: no open membership, no team place, no app, whatever
\* was attached or accepted while it was being deleted.
ArchivedIsEmpty ==
  org.archived =>
    /\ \A i \in Id : ~IsOpen(org.members[i].status)
    /\ org.places = {}
    /\ OwnedApps(org) = {}

\* The freeze of an app reads the same in both halves, though the document may have
\* lost (or never got) its mirror of the app.
FreezeMirrored == \A a \in App : org.apps[a] = "frozen" <=> doc.apps[a] = "frozen"

(***************************************************************************)
(* Liveness.  The clock moves, the sweeper's runs begin and continue (an   *)
(* interval per replica, never overlapping), and the document service is   *)
(* not down every time a proposal is due: SF on the step that settles it.  *)
(***************************************************************************)
Settles(s) == SweepDue(s) /\ proposals'[s].status # "PENDING"

GovFairness ==
  /\ WF_vars(Tick)
  /\ WF_vars(SweepBegins) /\ WF_vars(SweepTurns) /\ WF_vars(SweepEnds)
  /\ \A s \in Slot : WF_vars(SweepDue(s)) /\ WF_vars(SweepStuck(s)) /\ SF_vars(Settles(s))

GovFairSpec == GovSpec /\ GovFairness

\* No proposal stays pending: it is run, fails, expires or is cancelled.
EveryProposalIsDecided == \A s \in Slot : IsPending(s) ~> ~IsPending(s)

\* The comment on RECOVER (areas/proposal-kinds.ts:246): "Member caps do not apply:
\* recovery must not be blockable."  A recovery whose delay is over is carried out, or
\* fails for a reason that is not the number of members, in any case decided.
RecoveryIsNotBlockable ==
  \A s \in Slot :
    (proposals[s].kind = "RECOVER" /\ IsPending(s) /\ Matured(s, now)) ~> ~IsPending(s)
==============================================================================
