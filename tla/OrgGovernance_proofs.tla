------------------------- MODULE OrgGovernance_proofs -------------------------
(***************************************************************************)
(* Governance for any number of people, records, apps and proposals:       *)
(* types, an owner for every live organisation, the owners' consent to     *)
(* whatever changes the owners, and what decided proposals and archived    *)
(* organisations stay; then the two halves: what they always have in       *)
(* common, that what is executed is done in both, and which proposals the  *)
(* document can refuse.                                                    *)
(***************************************************************************)
EXTENDS OrgGovernance, OrgMembers_proofs

(***************************************************************************)
(* The rules                                                               *)
(***************************************************************************)
NeverMatured(pr) == pr.executableAt = Never \/ pr.executableAt >= ExpiresAt(pr)

\* A countdown never ends before the kind's delay since the proposal was made.
WaitsItsDelay(pr) ==
  pr.executableAt # Never => pr.executableAt >= pr.createdAt + DelayOf(pr.kind)

AboutItsSubject(pr) ==
  pr.status # "NONE" =>
    /\ pr.kind \in Kinds
    /\ pr.about \in (IF pr.kind = "RECOVER" THEN Person ELSE Subjects(pr.kind))

RowOK(pr) ==
  /\ pr \in Proposal
  /\ WaitsItsDelay(pr)
  /\ AboutItsSubject(pr)
  /\ pr.status = "EXPIRED" => NeverMatured(pr)

\* What a step may do to a proposal: nothing, or, while it is not decided, leave it well-formed.
RowStep(s) ==
  \/ proposals'[s] = proposals[s]
  \/ proposals[s].status \in {"NONE", "PENDING"} /\ RowOK(proposals'[s])

RowsStep == proposals' \in [Slot -> Proposal] /\ \A s \in Slot : RowStep(s)

LEMMA DelayIsTime == \A kind : DelayOf(kind) \in Nat
BY RulesAssumption DEF DelayOf

LEMMA PersonsFinite ==
  ASSUME NEW S \in SUBSET Person
  PROVE  IsFiniteSet(S) /\ Cardinality(S) \in Nat
<1>1. IsFiniteSet(S)
  BY RecordAssumption, FS_Subset
<1> QED
  BY <1>1, FS_CardinalityType

\* A countdown that is set or kept waits the delay.
LEMMA CountdownWaits ==
  ASSUME NEW pr \in Proposal, WaitsItsDelay(pr), NEW owners, NEW time \in Nat,
         NEW metBefore \in BOOLEAN,
         NEW at, at = ExecutableAtFor(pr, owners, time, metBefore)
  PROVE  /\ at \in Nat \cup {Never}
         /\ at # Never => at >= pr.createdAt + DelayOf(pr.kind)
<1>1. pr.createdAt \in Nat /\ DelayOf(pr.kind) \in Nat /\ pr.executableAt \in Nat \cup {Never}
  BY DelayIsTime DEF Proposal
<1>2. CASE at = Never
  BY <1>2
<1>3. CASE at = pr.executableAt
  BY <1>1, <1>3 DEF WaitsItsDelay
<1>4. CASE at = MaxOf(pr.createdAt + DelayOf(pr.kind), time)
  BY <1>1, <1>4 DEF MaxOf
<1> QED
  BY <1>2, <1>3, <1>4 DEF ExecutableAtFor

\* Another countdown or another status for a well-formed proposal.
LEMMA RearmedRow ==
  ASSUME NEW pr, RowOK(pr), pr.status = "PENDING", NEW at \in Nat \cup {Never},
         at # Never => at >= pr.createdAt + DelayOf(pr.kind)
  PROVE  RowOK([pr EXCEPT !.executableAt = at])
<1>1. pr \in Proposal
  BY DEF RowOK
<1> DEFINE q == [pr EXCEPT !.executableAt = at]
<1>2. /\ q \in Proposal /\ q.executableAt = at /\ q.createdAt = pr.createdAt
      /\ q.kind = pr.kind /\ q.status = pr.status /\ q.about = pr.about
  BY <1>1 DEF Proposal
<1> HIDE DEF q
<1>3. RowOK(q)
  BY <1>2 DEF RowOK, WaitsItsDelay, AboutItsSubject
<1> QED
  BY <1>3 DEF q

LEMMA SettledRow ==
  ASSUME NEW pr, RowOK(pr), pr.status = "PENDING",
         NEW status \in {"EXECUTED", "FAILED", "CANCELLED", "EXPIRED"},
         status = "EXPIRED" => NeverMatured(pr)
  PROVE  RowOK([pr EXCEPT !.status = status])
<1>1. pr \in Proposal
  BY DEF RowOK
<1> DEFINE q == [pr EXCEPT !.status = status]
<1>2. /\ q \in Proposal /\ q.executableAt = pr.executableAt /\ q.createdAt = pr.createdAt
      /\ q.kind = pr.kind /\ q.status = status /\ q.about = pr.about
  BY <1>1 DEF Proposal, ProposalStatus
<1> HIDE DEF q
<1>3. RowOK(q)
  BY <1>2 DEF RowOK, WaitsItsDelay, AboutItsSubject, NeverMatured, ExpiresAt
<1> QED
  BY <1>3 DEF q

(***************************************************************************)
(* Settling one row, and only one.                                         *)
(***************************************************************************)
Rows == proposals \in [Slot -> Proposal] /\ \A s \in Slot : RowOK(proposals[s])

LEMMA SettledStep ==
  ASSUME Rows, NEW s \in Slot, IsPending(s),
         NEW status \in {"EXECUTED", "FAILED", "CANCELLED", "EXPIRED"},
         status = "EXPIRED" => NeverMatured(proposals[s]),
         proposals' = Settled(s, status)
  PROVE  RowsStep
<1>1. RowOK([proposals[s] EXCEPT !.status = status])
  BY SettledRow DEF Rows, IsPending
<1>2. [proposals[s] EXCEPT !.status = status] \in Proposal
  BY <1>1 DEF RowOK
<1>3. proposals' = [proposals EXCEPT ![s] = [proposals[s] EXCEPT !.status = status]]
  BY DEF Settled, Rows
<1> DEFINE q == [proposals[s] EXCEPT !.status = status]
<1> HIDE DEF q
<1>4. RowOK(q) /\ q \in Proposal /\ proposals' = [proposals EXCEPT ![s] = q]
  BY <1>1, <1>2, <1>3 DEF q
<1>5. proposals' \in [Slot -> Proposal]
  BY <1>4 DEF Rows
<1>6. ASSUME NEW r \in Slot PROVE RowStep(r)
  BY <1>4 DEF Rows, RowStep, IsPending
<1> QED
  BY <1>5, <1>6 DEF RowsStep

LEMMA SameRows == ASSUME Rows, UNCHANGED proposals PROVE RowsStep
BY DEF Rows, RowsStep, RowStep

LEMMA RowsKept == ASSUME Rows, RowsStep PROVE Rows'
BY DEF Rows, RowsStep, RowStep

\* Putting a well-formed row in the place of one that is not decided.
LEMMA ReplacedStep ==
  ASSUME Rows, NEW s \in Slot, proposals[s].status \in {"NONE", "PENDING"},
         NEW q, RowOK(q), proposals' = [proposals EXCEPT ![s] = q]
  PROVE  RowsStep
<1>1. proposals' \in [Slot -> Proposal]
  BY DEF Rows, RowOK
<1>2. ASSUME NEW r \in Slot PROVE RowStep(r)
  BY DEF Rows, RowStep
<1> QED
  BY <1>1, <1>2 DEF RowsStep

LEMMA OwnersArePersons == Owners(org) \in SUBSET Person
BY DEF Owners

LEMMA CreateRows ==
  ASSUME Rows, now \in Nat, NEW s \in Slot,
         NEW kind \in Kinds, NEW p \in Person, NEW approvals \in SUBSET Person,
         NEW demote \in BOOLEAN,
         NEW about \in (IF kind = "RECOVER" THEN Person ELSE Subjects(kind)),
         CreateProposal(s, Draft(kind, about, demote, p, approvals))
  PROVE  RowsStep
<1> DEFINE draft == Draft(kind, about, demote, p, approvals)
           at == ExecutableAtFor(draft, Owners(org), now, TRUE)
           q == [draft EXCEPT !.executableAt = at]
<1>1. about \in Person \cup App \cup {NoPerson} /\ kind \in ProposalKind
  BY GovernanceAssumption DEF Subjects
<1>2. ThresholdFor(kind, Cardinality(Owners(org))) \in 0..2
  <2>1. Cardinality(Owners(org)) \in Nat
    BY OwnersArePersons, PersonsFinite
  <2> QED
    BY <2>1 DEF ThresholdFor, MinOf
<1>3. draft \in Proposal
  BY <1>1, <1>2 DEF Draft, Proposal, ProposalStatus, Never
<1>4. /\ draft.executableAt = Never /\ draft.status = "PENDING" /\ draft.kind = kind
      /\ draft.about = about
  BY DEF Draft
<1>5. RowOK(draft)
  BY <1>3, <1>4 DEF RowOK, WaitsItsDelay, AboutItsSubject
<1>6. at \in Nat \cup {Never} /\ (at # Never => at >= draft.createdAt + DelayOf(draft.kind))
  <2> HIDE DEF draft
  <2>1. at = Never \/ at = MaxOf(draft.createdAt + DelayOf(draft.kind), now)
    BY <1>4 DEF ExecutableAtFor
  <2>2. draft.createdAt \in Nat /\ DelayOf(draft.kind) \in Nat
    BY <1>3, DelayIsTime DEF Proposal
  <2> HIDE DEF at
  <2> QED
    BY <2>1, <2>2 DEF MaxOf
<1>7. RowOK(q)
  <2> HIDE DEF draft, at
  <2> QED
    BY <1>4, <1>5, <1>6, RearmedRow
<1>8. proposals' = [proposals EXCEPT ![s] = q] /\ proposals[s].status = "NONE"
  BY DEF CreateProposal, NextSlot
<1> QED
  <2> HIDE DEF q
  <2> QED
    BY <1>7, <1>8, ReplacedStep

LEMMA ApproveRows ==
  ASSUME Rows, now \in Nat, NEW s \in Slot, NEW p \in Person, ApproveOrgProposal(p, s)
  PROVE  RowsStep
<1> DEFINE pr == proposals[s]
           approved == [pr EXCEPT !.approvals = @ \cup {p}]
           at == ExecutableAtFor(approved, Owners(org), now, Met(s))
           q == [approved EXCEPT !.executableAt = at]
<1>1. RowOK(pr) /\ pr \in Proposal /\ pr.status = "PENDING"
  BY DEF Rows, RowOK, ApproveOrgProposal, IsLive, IsPending
<1>2. /\ approved \in Proposal /\ approved.executableAt = pr.executableAt
      /\ approved.createdAt = pr.createdAt /\ approved.kind = pr.kind
      /\ approved.status = pr.status /\ approved.about = pr.about
  BY <1>1 DEF Proposal
<1>3. RowOK(approved)
  <2> HIDE DEF approved
  <2> QED
    BY <1>1, <1>2 DEF RowOK, WaitsItsDelay, AboutItsSubject
<1>4. at \in Nat \cup {Never} /\ (at # Never => at >= approved.createdAt + DelayOf(approved.kind))
  <2>1. Met(s) \in BOOLEAN
    BY DEF Met, ThresholdMet
  <2> HIDE DEF approved
  <2> QED
    BY <1>3, <2>1, CountdownWaits DEF RowOK
<1>5. RowOK(q)
  <2> HIDE DEF approved, at
  <2> QED
    BY <1>1, <1>2, <1>3, <1>4, RearmedRow
<1>6. proposals' = [proposals EXCEPT ![s] = q]
  BY DEF ApproveOrgProposal
<1> QED
  <2> HIDE DEF q
  <2> QED
    BY <1>1, <1>5, <1>6, ReplacedStep

LEMMA CountdownRows ==
  ASSUME Rows, NEW s \in Slot, IsPending(s), NEW time \in Nat,
         Rearm(s, time) \/ Disarm(s)
  PROVE  RowsStep
<1> DEFINE pr == proposals[s]
<1>1. RowOK(pr) /\ pr \in Proposal /\ pr.status = "PENDING"
  BY DEF Rows, RowOK, IsPending
<1>2. PICK at : /\ at \in Nat \cup {Never} /\ (at # Never => at >= pr.createdAt + DelayOf(pr.kind))
                /\ proposals' = [proposals EXCEPT ![s].executableAt = at]
  <2>1. CASE Rearm(s, time)
    BY <1>1, <2>1, CountdownWaits DEF Rearm, RowOK
  <2>2. CASE Disarm(s)
    BY <2>2 DEF Disarm
  <2> QED
    BY <2>1, <2>2
<1> DEFINE q == [pr EXCEPT !.executableAt = at]
<1>3. RowOK(q)
  <2> HIDE DEF pr
  <2> QED
    BY <1>1, <1>2, RearmedRow
<1>4. proposals' = [proposals EXCEPT ![s] = q]
  BY <1>2
<1> QED
  <2> HIDE DEF q
  <2> QED
    BY <1>1, <1>3, <1>4, ReplacedStep

(***************************************************************************)
(* The inductive invariant.  The store is sound as under OrgMembers alone; *)
(* every row keeps its countdown and subject; an archived organisation is  *)
(* over.                                                                   *)
(***************************************************************************)
Empty(o) == Over(o) /\ OwnedApps(o) = {}

Halves(o, d, error) ==
  /\ Sound(o)
  /\ d \in OrgState /\ Owned(d)
  /\ error \in BOOLEAN
  /\ o.archived => Empty(o)

SweepOK == sweep \in [phase: {"idle", "due", "stuck"}, at: Nat, todo: SUBSET Slot]

GovInv ==
  /\ Halves(org, doc, docError)
  /\ expired \subseteq Id
  /\ Rows
  /\ now \in Nat
  /\ domainAge \in -1..MinVerified
  /\ SweepOK

LEMMA MatureIsConsent ==
  ASSUME Rows, now \in Nat, NEW s \in Slot, IsPending(s), Met(s), Matured(s, now)
  PROVE  Consented(proposals[s].kind, proposals[s].about)
<1> DEFINE pr == proposals[s]
           owners == Cardinality(Owners(org))
           consenting == Cardinality(pr.approvals \cap Owners(org))
<1>1. pr \in Proposal /\ WaitsItsDelay(pr) /\ pr.status = "PENDING"
  BY DEF Rows, RowOK, IsPending
<1>2. now >= pr.createdAt + DelayOf(pr.kind)
  <2>1. pr.executableAt # Never /\ pr.executableAt <= now
    BY DEF Matured
  <2>2. /\ pr.executableAt \in Nat \cup {Never} /\ pr.createdAt \in Nat /\ DelayOf(pr.kind) \in Nat
        /\ Never = -1
    BY <1>1, DelayIsTime DEF Proposal, Never
  <2> HIDE DEF pr
  <2> QED
    BY <1>1, <2>1, <2>2 DEF WaitsItsDelay
<1>3. ASSUME pr.kind # "RECOVER"
      PROVE  consenting >= MinOf(2, owners) /\ consenting >= pr.threshold
  <2>1. consenting \in Nat /\ owners \in Nat /\ pr.threshold \in 0..2
    <3>1. pr.approvals \cap Owners(org) \in SUBSET Person
      BY OwnersArePersons
    <3> QED
      BY <1>1, <3>1, OwnersArePersons, PersonsFinite DEF Proposal
  <2>2. consenting >= MaxOf(pr.threshold, MinOf(2, owners))
    BY <1>3 DEF Met, ThresholdMet, ValidApprovals, EffectiveThreshold, ThresholdFor
  <2> HIDE DEF consenting, owners, pr
  <2> QED
    BY <2>1, <2>2 DEF MaxOf, MinOf
<1> QED
  BY <1>1, <1>2, <1>3 DEF Consented

\* A store that keeps its owners, or lets them leave, its freezes and its life needs no consent.
LEMMA UnchangedIsAgreed ==
  ASSUME NEW next, OwnersLeave(org, next), next.archived = org.archived, next.apps = org.apps
  PROVE  Agreed(next)
BY DEF Agreed, OwnersLeave

(***************************************************************************)
(* Applying a change that was agreed to: whichever way the write ends, the *)
(* invariant is kept and the step consented.                               *)
(***************************************************************************)
Fine == Halves(org', doc', docError') /\ RowsStep /\ Agreed(org')

LEMMA StayIsFine ==
  ASSUME GovInv, UNCHANGED <<org, doc, docError>>, RowsStep
  PROVE  Fine
<1>1. Agreed(org)
  BY UnchangedIsAgreed DEF OwnersLeave
<1> QED
  BY <1>1 DEF Fine, GovInv, Halves

LEMMA AppliesIsFine ==
  ASSUME GovInv, NEW s \in Slot, IsPending(s), NEW next, NEW batch, NEW settled,
         Sound(next), next.archived => Empty(next), Agreed(next),
         Keeps(Begin(doc), batch),
         proposals' = settled => RowsStep,
         Applies(s, next, batch, settled)
  PROVE  Fine
<1>1. Begin(doc).org = doc /\ doc \in OrgState /\ Owned(doc) /\ docError \in BOOLEAN
  BY BeginType DEF GovInv, Halves
<1>2. batch \in Batch /\ batch.org \in OrgState /\ batch.failed \in BOOLEAN /\ Owned(batch.org)
  BY <1>1 DEF Keeps, Batch
<1>3. /\ org' \in {org, next} /\ doc' \in {doc, batch.org} /\ docError' \in BOOLEAN
      /\ proposals' \in {proposals, settled, Settled(s, "EXECUTED")}
  BY <1>1, <1>2 DEF Applies, Written, Unavailable, Stopped
<1>4. RowsStep
  BY <1>3, SameRows, SettledStep DEF GovInv
<1>5. Halves(org', doc', docError')
  BY <1>1, <1>2, <1>3 DEF Halves, GovInv
<1>6. Agreed(org) /\ Agreed(next)
  BY UnchangedIsAgreed DEF OwnersLeave
<1>7. Agreed(org')
  BY <1>3, <1>6
<1> QED
  BY <1>4, <1>5, <1>7 DEF Fine

LEMMA FailsIsFine ==
  ASSUME GovInv, NEW s \in Slot, IsPending(s), Fails(s) \/ NothingToDo(s) PROVE Fine
<1>1. RowsStep
  BY SettledStep DEF GovInv, Fails, NothingToDo
<1> QED
  BY <1>1, StayIsFine DEF Fails, NothingToDo

\* What is known when a proposal runs.
Running(s) == GovInv /\ s \in Slot /\ IsPending(s) /\ Met(s) /\ Matured(s, now) /\ Writable

LEMMA RunningFacts ==
  ASSUME NEW s, Running(s)
  PROVE  /\ Consented(proposals[s].kind, proposals[s].about)
         /\ org \in OrgState /\ Sound(org) /\ ~org.archived
         /\ Begin(doc) \in Batch /\ Begin(doc).org = doc
         /\ proposals' = Settled(s, "EXECUTED") => RowsStep
         /\ proposals[s] \in Proposal
         /\ AboutItsSubject(proposals[s]) /\ proposals[s].status = "PENDING"
<1>1. Consented(proposals[s].kind, proposals[s].about)
  BY MatureIsConsent DEF Running, GovInv
<1>2. org \in OrgState /\ Sound(org) /\ ~org.archived /\ doc \in OrgState
  BY DEF Running, GovInv, Halves, Sound, Writable
<1>3. proposals' = Settled(s, "EXECUTED") => RowsStep
  BY SettledStep DEF Running, GovInv
<1> QED
  BY <1>1, <1>2, <1>3, BeginType DEF Running, GovInv, Rows, RowOK, IsPending

(***************************************************************************)
(* One lemma per kind                                                      *)
(***************************************************************************)
\* An active member becomes an owner: ADD_OWNER, and RECOVER for a member.
LEMMA PromoteIsFine ==
  ASSUME NEW s, Running(s), proposals[s].kind \in {"ADD_OWNER", "RECOVER"},
         NEW i \in ActiveIdsOf(proposals[s].about),
         Applies(s, WithRole(org, i, "OWNER"), SetMemberRole(Begin(doc), i, "OWNER"),
                 Settled(s, "EXECUTED"))
  PROVE  Fine
<1> DEFINE p == proposals[s].about
           m == [org.members[i] EXCEPT !.role = "OWNER"]
           next == WithRole(org, i, "OWNER")
           batch == SetMemberRole(Begin(doc), i, "OWNER")
<1>1. /\ Consented(proposals[s].kind, p)
      /\ org \in OrgState /\ Sound(org) /\ ~org.archived
      /\ Begin(doc) \in Batch
      /\ proposals' = Settled(s, "EXECUTED") => RowsStep
      /\ GovInv /\ s \in Slot /\ IsPending(s)
  BY RunningFacts DEF Running
<1>2. /\ i \in Id /\ org.members[i].address = p
      /\ IsActive(org.members[i]) /\ IsOpen(org.members[i].status)
  BY DEF ActiveIdsOf, OpenIds
<1>3. "OWNER" \in Role
  BY DEF Role
<1>4. m.role = "OWNER" /\ m.status = "ACTIVE" /\ m.address = p
  BY <1>1, <1>2 DEF OrgState, Member, IsActive
<1>5. IsOwner(m)
  BY <1>4 DEF IsOwner
<1>6. Sound(next) /\ OwnerIds(next) = OwnerIds(org) \cup {i}
  <2>1. KeepsAnOwner(org, i, m)
    BY <1>5 DEF KeepsAnOwner
  <2>2. /\ Sound(next)
        /\ OwnerIds(next) = (OwnerIds(org) \ {i}) \cup (IF IsOwner(m) THEN {i} ELSE {})
    BY <1>1, <1>2, <1>3, <2>1, RoleSound
  <2> QED
    BY <1>5, <2>2
<1>7. /\ next.members = [org.members EXCEPT ![i] = m]
      /\ next.archived = org.archived /\ next.apps = org.apps
  BY <1>1, <1>2, <1>3, RoleType
<1>8. next.members[i].address = p
  BY <1>1, <1>2, <1>4, <1>7 DEF OrgState
<1>9. Agreed(next)
  <2> HIDE DEF next
  <2> QED
    BY <1>1, <1>6, <1>7, <1>8 DEF Agreed
<1>10. Keeps(Begin(doc), batch)
  BY <1>1, <1>2, <1>3, SetRoleKeeps
<1> QED
  <2> HIDE DEF next, batch
  <2>1. Applies(s, next, batch, Settled(s, "EXECUTED"))
    BY DEF next, batch
  <2> QED
    BY <1>1, <1>6, <1>7, <1>9, <1>10, <2>1, AppliesIsFine

LEMMA AddOwnerIsFine ==
  ASSUME NEW s, Running(s), proposals[s].kind = "ADD_OWNER", AddOwner(s)
  PROVE  Fine
<1>1. CASE Fails(s)
  BY <1>1, FailsIsFine DEF Running
<1>2. CASE ~Fails(s)
  BY <1>2, PromoteIsFine DEF AddOwner
<1> QED
  BY <1>1, <1>2

\* Of at least two owners one is demoted.
LEMMA DemoteIsFine ==
  ASSUME NEW s, Running(s), proposals[s].kind = "REMOVE_OWNER",
         Cardinality(OwnerIds(org)) >= 2,
         NEW i \in ActiveIdsOf(proposals[s].about),
         Applies(s, WithRole(org, i, "ADMIN"), SetMemberRole(Begin(doc), i, "ADMIN"),
                 Settled(s, "EXECUTED"))
  PROVE  Fine
<1> DEFINE p == proposals[s].about
           m == [org.members[i] EXCEPT !.role = "ADMIN"]
           next == WithRole(org, i, "ADMIN")
           batch == SetMemberRole(Begin(doc), i, "ADMIN")
<1>1. /\ Consented(proposals[s].kind, p)
      /\ org \in OrgState /\ Sound(org) /\ ~org.archived
      /\ Begin(doc) \in Batch
      /\ proposals' = Settled(s, "EXECUTED") => RowsStep
      /\ GovInv /\ s \in Slot /\ IsPending(s)
  BY RunningFacts DEF Running
<1>2. /\ i \in Id /\ org.members[i].address = p /\ IsOpen(org.members[i].status)
      /\ "ADMIN" \in Role
  BY DEF ActiveIdsOf, OpenIds, Role
<1>3. KeepsAnOwner(org, i, m)
  BY OwnersFinite DEF KeepsAnOwner
<1>4. m.role = "ADMIN"
  BY <1>1, <1>2 DEF OrgState, Member
<1>5. Sound(next) /\ OwnerIds(next) = OwnerIds(org) \ {i}
  <2>1. /\ Sound(next)
        /\ OwnerIds(next) = (OwnerIds(org) \ {i}) \cup (IF IsOwner(m) THEN {i} ELSE {})
    BY <1>1, <1>2, <1>3, RoleSound
  <2>2. ~IsOwner(m)
    BY <1>4 DEF IsOwner
  <2> QED
    BY <2>1, <2>2
<1>6. next.archived = org.archived /\ next.apps = org.apps
  BY <1>1, <1>2, RoleType
<1>7. Agreed(next)
  <2> HIDE DEF next
  <2> QED
    BY <1>1, <1>2, <1>5, <1>6 DEF Agreed
<1>8. Keeps(Begin(doc), batch)
  BY <1>1, <1>2, SetRoleKeeps
<1> QED
  <2> HIDE DEF next, batch
  <2>1. Applies(s, next, batch, Settled(s, "EXECUTED"))
    BY DEF next, batch
  <2> QED
    BY <1>1, <1>5, <1>6, <1>7, <1>8, <2>1, AppliesIsFine

\* ... or removed.
LEMMA ExpelIsFine ==
  ASSUME NEW s, Running(s), proposals[s].kind = "REMOVE_OWNER",
         Cardinality(OwnerIds(org)) >= 2,
         NEW i \in ActiveIdsOf(proposals[s].about),
         Applies(s, WithoutPlaces(WithStatus(org, i, "REMOVED"), i),
                 SetMemberStatus(Begin(doc), i, "REMOVED"), Settled(s, "EXECUTED"))
  PROVE  Fine
<1> DEFINE p == proposals[s].about
           set == WithStatus(org, i, "REMOVED")
           next == WithoutPlaces(set, i)
           batch == SetMemberStatus(Begin(doc), i, "REMOVED")
<1>1. /\ Consented(proposals[s].kind, p)
      /\ org \in OrgState /\ Sound(org) /\ ~org.archived
      /\ Begin(doc) \in Batch
      /\ proposals' = Settled(s, "EXECUTED") => RowsStep
      /\ GovInv /\ s \in Slot /\ IsPending(s)
  BY RunningFacts DEF Running
<1>2. /\ i \in Id /\ org.members[i].address = p
      /\ "REMOVED" \in Status
  BY DEF ActiveIdsOf, OpenIds, Status
<1>3. Cardinality(OwnerIds(org)) > 1
  BY OwnersFinite
<1>4. Sound(next) /\ OwnerIds(next) = OwnerIds(org) \ {i}
  BY <1>1, <1>2, <1>3, EndSound
<1>5. next.archived = org.archived /\ next.apps = org.apps
  <2>1. set \in OrgState /\ set.archived = org.archived /\ set.apps = org.apps
    BY <1>1, <1>2, StatusType
  <2> QED
    BY <1>2, <2>1, PlacesType
<1>6. Agreed(next)
  <2> HIDE DEF next
  <2> QED
    BY <1>1, <1>2, <1>4, <1>5 DEF Agreed
<1>7. Keeps(Begin(doc), batch)
  BY <1>1, <1>2, SetStatusKeeps
<1> QED
  <2> HIDE DEF next, batch
  <2>1. Applies(s, next, batch, Settled(s, "EXECUTED"))
    BY DEF next, batch
  <2> QED
    BY <1>1, <1>4, <1>5, <1>6, <1>7, <2>1, AppliesIsFine

LEMMA RemoveOwnerIsFine ==
  ASSUME NEW s, Running(s), proposals[s].kind = "REMOVE_OWNER", RemoveOwner(s)
  PROVE  Fine
<1>1. CASE Fails(s)
  BY <1>1, FailsIsFine DEF Running
<1>2. CASE ~Fails(s)
  BY <1>2, DemoteIsFine, ExpelIsFine DEF RemoveOwner
<1> QED
  BY <1>1, <1>2

\* The organisation is over; the follow-up cancels some of the other pending proposals.
LEMMA DeleteOrgIsFine ==
  ASSUME NEW s, Running(s), proposals[s].kind = "DELETE_ORG", DeleteOrg(s)
  PROVE  Fine
<1>1. CASE Fails(s)
  BY <1>1, FailsIsFine DEF Running
<1>2. CASE ~Fails(s)
  <2> DEFINE next == Archived(org)
             batch == ArchiveOrg(Begin(doc))
             rows(cancelled) ==
               [r \in Slot |->
                  IF r \in cancelled THEN [proposals[r] EXCEPT !.status = "CANCELLED"]
                  ELSE Settled(s, "EXECUTED")[r]]
  <2>1. /\ Consented(proposals[s].kind, proposals[s].about)
        /\ org \in OrgState /\ Sound(org) /\ ~org.archived
        /\ Begin(doc) \in Batch
        /\ GovInv /\ Rows /\ s \in Slot /\ IsPending(s)
    BY RunningFacts DEF Running, GovInv
  <2>2. /\ OwnedApps(org) = {}
        /\ \E cancelled \in SUBSET {r \in Slot \ {s} : IsPending(r)} :
             Applies(s, next, batch, rows(cancelled))
    BY <1>2 DEF DeleteOrg
  <2>3. PICK cancelled \in SUBSET {r \in Slot \ {s} : IsPending(r)} :
          Applies(s, next, batch, rows(cancelled))
    BY <2>2
  <2>4. /\ next \in OrgState /\ next.archived /\ next.apps = org.apps /\ next.places = {}
        /\ next.members = [i \in Id |-> Ended(org.members[i])]
    BY <2>1, ArchivedType
  <2>5. \A i \in Id : ~IsOpen(next.members[i].status)
    <3> SUFFICES ASSUME NEW i \in Id PROVE ~IsOpen(Ended(org.members[i]).status)
      BY <2>4
    <3>1. org.members[i] \in Member
      BY <2>1 DEF OrgState
    <3> QED
      BY <3>1 DEF Ended, IsOpen, Member
  <2>6. OwnerIds(next) = {}
    BY <2>5 DEF OwnerIds, IsOwner, IsOpen
  <2>7. Sound(next) /\ Empty(next)
    <3>1. Owned(next) /\ OneOpen(next) /\ Placed(next) /\ NoOwnerInvited(next)
      BY <2>4, <2>5 DEF Owned, OneOpen, Placed, NoOwnerInvited, IsOpen
    <3>2. OwnedApps(next) = {}
      BY <2>2, <2>4 DEF OwnedApps
    <3> QED
      BY <2>4, <2>5, <3>1, <3>2 DEF Sound, Empty, Over
  <2>8. proposals[s].about = NoPerson
    <3>1. AboutItsSubject(proposals[s]) /\ proposals[s].status = "PENDING"
      BY RunningFacts
    <3> QED
      BY <3>1 DEF AboutItsSubject, Subjects
  <2>9. Agreed(next)
    BY <2>1, <2>4, <2>6, <2>8 DEF Agreed
  <2>10. Keeps(Begin(doc), batch)
    BY <2>1, OrgReducersKeep
  <2>11. proposals' = rows(cancelled) => RowsStep
    <3> SUFFICES ASSUME proposals' = rows(cancelled)
                 PROVE  RowsStep
      OBVIOUS
    <3>1. ASSUME NEW r \in Slot
          PROVE  \/ proposals'[r] = proposals[r]
                 \/ /\ IsPending(r)
                    /\ \E status \in {"CANCELLED", "EXECUTED"} :
                         proposals'[r] = [proposals[r] EXCEPT !.status = status]
      <4>1. CASE r \in cancelled
        BY <4>1
      <4>2. CASE r \notin cancelled
        <5>1. proposals'[r] = Settled(s, "EXECUTED")[r]
          BY <4>2
        <5>2. Settled(s, "EXECUTED")
                = [proposals EXCEPT ![s] = [proposals[s] EXCEPT !.status = "EXECUTED"]]
          BY DEF Settled
        <5> QED
          BY <2>1, <5>1, <5>2 DEF Rows
      <4> QED
        BY <4>1, <4>2
    <3>2. ASSUME NEW r \in Slot
          PROVE  RowStep(r) /\ proposals'[r] \in Proposal
      <4>1. RowOK(proposals[r]) /\ (IsPending(r) => proposals[r].status = "PENDING")
        BY <2>1 DEF Rows, IsPending
      <4>2. \A status \in {"CANCELLED", "EXECUTED"} :
              IsPending(r) => RowOK([proposals[r] EXCEPT !.status = status])
        BY <4>1, SettledRow
      <4> QED
        BY <3>1, <4>1, <4>2 DEF RowStep, RowOK
    <3>3. proposals' = [r \in Slot |-> proposals'[r]]
      OBVIOUS
    <3> QED
      BY <3>2, <3>3 DEF RowsStep
  <2> QED
    <3> HIDE DEF next, batch, rows
    <3> QED
      BY <2>1, <2>3, <2>7, <2>9, <2>10, <2>11, AppliesIsFine
<1> QED
  BY <1>1, <1>2

LEMMA FreezeAppIsFine ==
  ASSUME NEW s, Running(s), proposals[s].kind \in {"FREEZE_APP", "UNFREEZE_APP"}, FreezeApp(s)
  PROVE  Fine
<1> DEFINE a == proposals[s].about
           frozen == proposals[s].kind = "FREEZE_APP"
           state == IF frozen THEN "frozen" ELSE "open"
           mirrored == IF doc.apps[a] = "none" THEN AddOrgApp(Begin(doc), a) ELSE Begin(doc)
           next == WithApp(org, a, state)
           batch == SetAppFrozen(mirrored, a, frozen)
<1>1. CASE Fails(s) \/ NothingToDo(s)
  BY <1>1, FailsIsFine DEF Running
<1>2. CASE ~(Fails(s) \/ NothingToDo(s))
  <2>1. /\ Consented(proposals[s].kind, a)
        /\ org \in OrgState /\ Sound(org) /\ ~org.archived
        /\ Begin(doc) \in Batch
        /\ proposals' = Settled(s, "EXECUTED") => RowsStep
        /\ GovInv /\ s \in Slot /\ IsPending(s)
    BY RunningFacts DEF Running
  <2>2. a \in App
    <3>1. AboutItsSubject(proposals[s]) /\ proposals[s].status = "PENDING"
      BY RunningFacts
    <3> QED
      BY <3>1 DEF AboutItsSubject, Subjects
  <2>3. Applies(s, next, batch, Settled(s, "EXECUTED"))
    BY <1>2 DEF FreezeApp
  <2>4. /\ next \in OrgState /\ next.members = org.members /\ next.places = org.places
        /\ next.teams = org.teams /\ next.archived = org.archived
        /\ next.apps = [org.apps EXCEPT ![a] = state]
    BY <2>1, <2>2, AppType
  <2>5. Sound(next) /\ OwnerIds(next) = OwnerIds(org)
    <3>1. Placed(next)
      BY <2>1, <2>4 DEF Sound, Placed, ActiveIds
    <3> QED
      BY <2>1, <2>4, <3>1, TeamsSound
  <2>6. Agreed(next)
    <3>1. \A c \in App : c # a => next.apps[c] = org.apps[c]
      BY <2>2, <2>4 DEF OrgState
    <3>2. next.apps[a] = state
      BY <2>1, <2>2, <2>4 DEF OrgState
    <3>3. \A c \in App :
            /\ org.apps[c] # "frozen" /\ next.apps[c] = "frozen" => Consented("FREEZE_APP", c)
            /\ org.apps[c] = "frozen" /\ next.apps[c] # "frozen" => Consented("UNFREEZE_APP", c)
      <4> HIDE DEF next
      <4> QED
        BY <2>1, <3>1, <3>2
    <3> HIDE DEF next
    <3> QED
      BY <2>1, <2>4, <2>5, <3>3 DEF Agreed
  <2>7. Keeps(Begin(doc), batch)
    <3>1. Keeps(Begin(doc), mirrored)
      <4>1. Keeps(Begin(doc), AddOrgApp(Begin(doc), a)) /\ Keeps(Begin(doc), Begin(doc))
        BY <2>1, <2>2, AppReducersKeep DEF Keeps
      <4> QED
        BY <4>1
    <3>2. frozen \in BOOLEAN
      OBVIOUS
    <3>3. Keeps(mirrored, batch)
      <4> HIDE DEF mirrored, frozen
      <4> QED
        BY <2>2, <3>1, <3>2, AppReducersKeep DEF Keeps
    <3> HIDE DEF mirrored, batch
    <3> QED
      BY <3>1, <3>3 DEF Keeps
  <2> QED
    <3> HIDE DEF next, batch
    <3> QED
      BY <2>1, <2>3, <2>4, <2>5, <2>6, <2>7, AppliesIsFine
<1> QED
  BY <1>1, <1>2

LEMMA RecoverIsFine ==
  ASSUME NEW s, Running(s), proposals[s].kind = "RECOVER", Recover(s)
  PROVE  Fine
<1> DEFINE p == proposals[s].about
<1>1. /\ Consented("RECOVER", p)
      /\ org \in OrgState /\ Sound(org) /\ ~org.archived
      /\ Begin(doc) \in Batch
      /\ proposals' = Settled(s, "EXECUTED") => RowsStep
      /\ GovInv /\ s \in Slot /\ IsPending(s)
  BY RunningFacts DEF Running
<1>2. p \in Person
  <2>1. AboutItsSubject(proposals[s]) /\ proposals[s].status = "PENDING"
    BY RunningFacts
  <2> QED
    BY <2>1 DEF AboutItsSubject
<1>3. CASE Fails(s) \/ NothingToDo(s)
  BY <1>3, FailsIsFine DEF Running
<1>4. CASE \E i \in ActiveIdsOf(p) :
             Applies(s, WithRole(org, i, "OWNER"), SetMemberRole(Begin(doc), i, "OWNER"),
                     Settled(s, "EXECUTED"))
  BY <1>4, PromoteIsFine
<1>5. ASSUME NEW o, Sound(o), OwnerIds(o) = OwnerIds(org),
             o.archived = org.archived, o.apps = org.apps,
             NEW new \in Id, o.members[new].status = "NONE", OpenIds(o, p) = {},
             NEW b \in Batch, Keeps(Begin(doc), b),
             Applies(s, WithRecord(o, new, Joined(p, "OWNER")), Join(b, new, p, "OWNER"),
                     Settled(s, "EXECUTED"))
      PROVE  Fine
  <2> DEFINE next == WithRecord(o, new, Joined(p, "OWNER"))
             batch == Join(b, new, p, "OWNER")
  <2>0. "OWNER" \in Role
    BY DEF Role
  <2>1. /\ Sound(next) /\ OwnerIds(next) = OwnerIds(org) \cup {new}
        /\ next.members[new].address = p
        /\ next.archived = org.archived /\ next.apps = org.apps
    BY <1>2, <1>5, <2>0, JoinSound
  <2>2. Agreed(next)
    <3> HIDE DEF next
    <3> QED
      BY <1>1, <2>1 DEF Agreed
  <2>3. Keeps(Begin(doc), batch)
    <3>1. Keeps(b, batch)
      BY <1>2, <1>5, <2>0, JoinKeeps
    <3> QED
      BY <1>5, <3>1 DEF Keeps
  <2>4. Applies(s, next, batch, Settled(s, "EXECUTED"))
    BY <1>5
  <2> HIDE DEF next, batch
  <2> QED
    BY <1>1, <2>1, <2>2, <2>3, <2>4, AppliesIsFine
<1>6. CASE \E new \in NewIds :
             /\ OpenIds(org, p) = {}
             /\ Applies(s, WithRecord(org, new, Joined(p, "OWNER")), Join(Begin(doc), new, p, "OWNER"),
                        Settled(s, "EXECUTED"))
  <2>1. PICK new \in NewIds :
             /\ OpenIds(org, p) = {}
             /\ Applies(s, WithRecord(org, new, Joined(p, "OWNER")), Join(Begin(doc), new, p, "OWNER"),
                        Settled(s, "EXECUTED"))
    BY <1>6
  <2>2. new \in Id /\ org.members[new].status = "NONE"
    BY DEF NewIds, FreshIds
  <2>3. Keeps(Begin(doc), Begin(doc))
    BY <1>1 DEF Keeps
  <2> QED
    BY <1>1, <1>5, <2>1, <2>2, <2>3
<1>7. CASE \E new \in NewIds : \E old \in OpenIds(org, p) \ ActiveIdsOf(p) :
             Applies(s, WithRecord(WithStatus(org, old, "REVOKED"), new, Joined(p, "OWNER")),
                     Join(SetMemberStatus(Begin(doc), old, "REVOKED"), new, p, "OWNER"),
                     Settled(s, "EXECUTED"))
  <2>1. PICK new \in NewIds, old \in OpenIds(org, p) \ ActiveIdsOf(p) :
             Applies(s, WithRecord(WithStatus(org, old, "REVOKED"), new, Joined(p, "OWNER")),
                     Join(SetMemberStatus(Begin(doc), old, "REVOKED"), new, p, "OWNER"),
                     Settled(s, "EXECUTED"))
    BY <1>7
  <2> DEFINE revoked == WithStatus(org, old, "REVOKED")
             b == SetMemberStatus(Begin(doc), old, "REVOKED")
  <2>2. /\ new \in Id /\ org.members[new].status = "NONE"
        /\ old \in Id /\ IsOpen(org.members[old].status) /\ ~IsActive(org.members[old])
        /\ "REVOKED" \in Status
    BY DEF NewIds, FreshIds, OpenIds, ActiveIdsOf, Status
  <2>3. old # new /\ ~IsOwner(org.members[old]) /\ old \notin OwnerIds(org)
    BY <2>2 DEF IsOpen, IsActive, IsOwner, OwnerIds
  <2>4. WithoutPlaces(revoked, old) = revoked
    BY <1>1, <2>2, NothingToUnplace
  <2>5. Sound(revoked) /\ OwnerIds(revoked) = OwnerIds(org)
    <3>1. Sound(revoked) /\ OwnerIds(revoked) = OwnerIds(org) \ {old}
      BY <1>1, <2>2, <2>3, <2>4, EndSound
    <3> QED
      BY <2>3, <3>1
  <2>6. /\ revoked.archived = org.archived /\ revoked.apps = org.apps
        /\ revoked.members[new].status = "NONE"
    <3>1. /\ revoked.archived = org.archived /\ revoked.apps = org.apps
          /\ revoked.members
               = [org.members EXCEPT ![old] = [org.members[old] EXCEPT !.status = "REVOKED"]]
      BY <1>1, <2>2, StatusType
    <3>2. revoked.members[new] = org.members[new]
      BY <1>1, <2>2, <2>3, <3>1 DEF OrgState
    <3> QED
      BY <2>2, <3>1, <3>2
  <2>7. OpenIds(revoked, p) = {}
    BY <1>1, <1>2, <2>1, RevokedIsClosed
  <2>8. Keeps(Begin(doc), b) /\ b \in Batch
    BY <1>1, <2>2, SetStatusKeeps DEF Keeps
  <2> HIDE DEF revoked, b
  <2>9. Applies(s, WithRecord(revoked, new, Joined(p, "OWNER")), Join(b, new, p, "OWNER"),
                Settled(s, "EXECUTED"))
    BY <2>1 DEF revoked, b
  <2> QED
    BY <1>5, <2>2, <2>5, <2>6, <2>7, <2>8, <2>9
<1> QED
  BY <1>3, <1>4, <1>6, <1>7 DEF Recover

LEMMA ExecuteIsFine ==
  ASSUME NEW s, Running(s), Execute(s)
  PROVE  Fine
<1>1. proposals[s].kind \in ProposalKind
  BY RunningFacts DEF Proposal
<1>2. CASE proposals[s].kind = "ADD_OWNER"
  BY <1>2, AddOwnerIsFine DEF Execute
<1>3. CASE proposals[s].kind = "REMOVE_OWNER"
  BY <1>3, RemoveOwnerIsFine DEF Execute
<1>4. CASE proposals[s].kind = "DELETE_ORG"
  BY <1>4, DeleteOrgIsFine DEF Execute
<1>5. CASE proposals[s].kind = "RECOVER"
  BY <1>5, RecoverIsFine DEF Execute
<1>6. CASE proposals[s].kind \in {"FREEZE_APP", "UNFREEZE_APP"}
  BY <1>6, FreezeAppIsFine DEF Execute
<1> QED
  BY <1>1, <1>2, <1>3, <1>4, <1>5, <1>6 DEF ProposalKind

LEMMA RunIsFine ==
  ASSUME GovInv, NEW s \in Slot, RunProposal(s)
  PROVE  Fine
<1>1. IsPending(s)
  BY DEF RunProposal
<1>2. CASE Disarm(s) \/ Rearm(s, now)
  <2>1. RowsStep
    BY <1>1, <1>2, CountdownRows DEF GovInv
  <2>2. UNCHANGED <<org, doc, docError>>
    BY <1>2 DEF Disarm, Rearm
  <2> QED
    BY <2>1, <2>2, StayIsFine
<1>3. CASE Fails(s)
  BY <1>1, <1>3, FailsIsFine
<1>4. CASE Met(s) /\ Matured(s, now) /\ Writable /\ Execute(s)
  BY <1>1, <1>4, ExecuteIsFine DEF Running
<1> QED
  BY <1>2, <1>3, <1>4 DEF RunProposal

(***************************************************************************)
(* Every action.  Part says what else than the halves and the rows it      *)
(* leaves well-formed.                                                     *)
(***************************************************************************)
Frame == expired' \subseteq Id /\ now' \in Nat /\ domainAge' \in -1..MinVerified /\ SweepOK'

\* An action that leaves both halves alone.
LEMMA RowsOnly ==
  ASSUME GovInv, UNCHANGED <<memberVars, now, domainAge, sweep>>, RowsStep
  PROVE  Fine /\ Frame
BY StayIsFine DEF memberVars, GovInv, Frame, SweepOK

LEMMA MembersAreFine ==
  ASSUME GovInv, Next, UNCHANGED govVars
  PROVE  Fine /\ Frame
<1>1. TypeOK /\ Sound(org)
  BY DEF GovInv, Halves, TypeOK, Sound
<1>2. RowsStep /\ now' \in Nat /\ domainAge' \in -1..MinVerified /\ SweepOK'
  BY SameRows DEF GovInv, govVars, SweepOK
<1>3. CASE expired' \subseteq Id /\ UNCHANGED <<org, doc, docError>>
  BY <1>2, <1>3, StayIsFine DEF Frame
<1>4. ASSUME Mutates, UNCHANGED expired
      PROVE  Fine /\ Frame
  <2>1. PICK next, batch : Change(next, batch) /\ WriteDocument(next, batch)
    BY <1>4 DEF Mutates
  <2>2. batch \in Batch /\ batch.org \in OrgState /\ Owned(batch.org)
    BY <2>1 DEF Change, Batch, GovInv, Halves
  <2>3. org' \in {org, next} /\ doc' \in {doc, batch.org} /\ docError' \in BOOLEAN
    BY <1>1, <2>1, <2>2, WriteEnds
  <2>4. Agreed(org) /\ Agreed(next)
    BY <2>1, UnchangedIsAgreed DEF Change, OwnersLeave
  <2>5. next.archived => Empty(next)
    <3> SUFFICES ASSUME next.archived PROVE Empty(next)
      OBVIOUS
    <3>1. org.archived /\ next.apps = org.apps /\ (Over(org) => next.members = org.members
                                                               /\ next.places = org.places)
      BY <2>1 DEF Change
    <3>2. Over(org) /\ OwnedApps(org) = {}
      BY <3>1 DEF GovInv, Halves, Empty
    <3> QED
      BY <3>1, <3>2 DEF Empty, Over, OwnedApps
  <2>6. Halves(org', doc', docError')
    BY <2>1, <2>2, <2>3, <2>5 DEF Halves, GovInv, Change
  <2>7. Agreed(org')
    BY <2>3, <2>4
  <2> QED
    BY <1>2, <1>4, <2>6, <2>7 DEF Fine, Frame, GovInv
<1> QED
  BY <1>1, <1>3, <1>4, NextMutates

LEMMA ProposingIsFine ==
  ASSUME GovInv, Propose
  PROVE  Fine /\ Frame
<1>1. PICK p \in Person, s \in Slot, demote \in BOOLEAN, kind \in Kinds :
        \E about \in Subjects(kind) : ProposeOrgChange(p, s, kind, about, demote)
  BY DEF Propose
<1>2. PICK about \in Subjects(kind) : ProposeOrgChange(p, s, kind, about, demote)
  BY <1>1
<1>3. kind \in ProposalKind /\ kind # "RECOVER"
  BY GovernanceAssumption DEF Subjects
<1>4. /\ CreateProposal(s, Draft(kind, about, demote, p, {p})) /\ {p} \in SUBSET Person
      /\ UNCHANGED <<memberVars, now, domainAge, sweep>>
  BY <1>2 DEF ProposeOrgChange, CreateProposal
<1>5. RowsStep
  BY <1>3, <1>4, CreateRows DEF GovInv
<1> QED
  BY <1>4, <1>5, RowsOnly

LEMMA RecoveryIsFine ==
  ASSUME GovInv, Recovery
  PROVE  Fine /\ Frame
<1>1. ASSUME NEW p \in Person, NEW q \in Person, NEW s \in Slot, StartOrgRecovery(p, s, q)
      PROVE  Fine /\ Frame
  <2>1. /\ CreateProposal(s, Draft("RECOVER", q, FALSE, p, {})) /\ {} \in SUBSET Person
        /\ UNCHANGED <<memberVars, now, domainAge, sweep>> /\ "RECOVER" \in Kinds
        /\ FALSE \in BOOLEAN
    BY <1>1 DEF StartOrgRecovery, CreateProposal, Recovery
  <2>2. RowsStep
    BY <2>1, CreateRows DEF GovInv
  <2> QED
    BY <2>1, <2>2, RowsOnly
<1>2. CASE DomainVerified \/ DomainLapses
  <2>1. UNCHANGED <<memberVars, now, proposals, sweep>> /\ domainAge' \in -1..MinVerified
    BY <1>2, GovernanceAssumption DEF DomainVerified, DomainLapses
  <2>2. RowsStep
    BY <2>1, SameRows DEF GovInv
  <2> QED
    BY <2>1, <2>2, StayIsFine DEF memberVars, GovInv, Frame, SweepOK
<1> QED
  BY <1>1, <1>2 DEF Recovery

LEMMA CallsAreFine ==
  ASSUME GovInv, NEW p \in Person, NEW s \in Slot,
         ApproveOrgProposal(p, s) \/ CancelOrgProposal(p, s) \/ ExecuteOrgProposal(p, s)
  PROVE  Fine /\ Frame
<1>1. CASE ApproveOrgProposal(p, s)
  <2>1. RowsStep
    BY <1>1, ApproveRows DEF GovInv
  <2> QED
    BY <1>1, <2>1, RowsOnly DEF ApproveOrgProposal
<1>2. CASE CancelOrgProposal(p, s)
  <2>1. IsPending(s) /\ proposals' = Settled(s, "CANCELLED")
    BY <1>2 DEF CancelOrgProposal, Settled
  <2>2. RowsStep
    BY <2>1, SettledStep DEF GovInv
  <2> QED
    BY <1>2, <2>2, RowsOnly DEF CancelOrgProposal
<1>3. CASE ExecuteOrgProposal(p, s)
  BY <1>3, RunIsFine DEF ExecuteOrgProposal, GovInv, Frame, SweepOK
<1> QED
  BY <1>1, <1>2, <1>3

LEMMA SweepingIsFine ==
  ASSUME GovInv, Sweep \/ SweepStops
  PROVE  Fine /\ Frame
<1>1. /\ sweep.at \in Nat /\ sweep.todo \in SUBSET Slot /\ sweep.phase \in {"idle", "due", "stuck"}
      /\ sweep \in [phase: {"idle", "due", "stuck"}, at: Nat, todo: SUBSET Slot]
  BY DEF GovInv, SweepOK
<1>2. CASE SweepBegins \/ SweepTurns \/ SweepEnds \/ SweepStops
  <2>1. UNCHANGED <<memberVars, now, proposals, domainAge>> /\ SweepOK'
    <3>1. CASE SweepBegins
      BY <3>1 DEF SweepBegins, SweepOK, DueProposals, GovInv
    <3>2. CASE SweepTurns
      <4>1. RearmableProposals(sweep.at) \in SUBSET Slot
        BY DEF RearmableProposals
      <4> QED
        BY <1>1, <3>2, <4>1 DEF SweepTurns, SweepOK
    <3>3. CASE SweepEnds \/ SweepStops
      BY <3>3 DEF SweepEnds, SweepStops, SweepOK, Idle
    <3> QED
      BY <1>2, <3>1, <3>2, <3>3
  <2>2. RowsStep
    BY <2>1, SameRows DEF GovInv
  <2> QED
    BY <2>1, <2>2, StayIsFine DEF memberVars, GovInv, Frame
<1>3. ASSUME NEW s \in Slot, SweepDue(s) \/ SweepStuck(s)
      PROVE  Fine /\ Frame
  <2>1. UNCHANGED <<expired, now, domainAge>> /\ SweepOK'
    BY <1>1, <1>3 DEF SweepDue, SweepStuck, SweepOK
  <2>2. Fine
    <3>1. CASE RunProposal(s)
      BY <3>1, RunIsFine
    <3>2. CASE Rearm(s, sweep.at)
      <4>1. RowsStep
        BY <1>1, <3>2, CountdownRows DEF GovInv, Rearm, IsLive
      <4> QED
        BY <3>2, <4>1, StayIsFine DEF Rearm
    <3>3. CASE Unsweepable(s)
      BY <3>3, SameRows, StayIsFine DEF Unsweepable, GovInv
    <3>4. CASE /\ IsPending(s) /\ ~Matured(s, sweep.at) /\ ExpiresAt(proposals[s]) <= sweep.at
               /\ Expire(s)
      <4>1. NeverMatured(proposals[s])
        <5>1. /\ proposals[s].executableAt \in Nat \cup {Never} /\ Never = -1
              /\ ExpiresAt(proposals[s]) \in Nat
          BY RulesAssumption DEF GovInv, Rows, Proposal, ExpiresAt, Never
        <5> QED
          BY <1>1, <3>4, <5>1 DEF NeverMatured, Matured
      <4>2. RowsStep
        BY <3>4, <4>1, SettledStep DEF GovInv, Expire
      <4> QED
        BY <3>4, <4>2, StayIsFine DEF Expire
    <3> QED
      BY <1>3, <3>1, <3>2, <3>3, <3>4 DEF SweepDue, SweepStuck
  <2> QED
    BY <2>1, <2>2 DEF Frame, GovInv
<1> QED
  BY <1>2, <1>3 DEF Sweep

LEMMA AppsAreFine ==
  ASSUME GovInv, NEW a \in App, AttachApp(a) \/ MirrorApp(a) \/ DetachApp(a)
  PROVE  Fine /\ Frame
<1>1. /\ org \in OrgState /\ Sound(org) /\ doc \in OrgState /\ Owned(doc) /\ docError \in BOOLEAN
      /\ org.archived => Empty(org)
  BY DEF GovInv, Halves, Sound
<1>2. RowsStep /\ Frame /\ UNCHANGED docError
  BY SameRows DEF GovInv, AttachApp, MirrorApp, DetachApp, govVars, Frame, SweepOK
<1>3. ASSUME NEW state \in {"none", "open"}, org.apps[a] # "frozen",
             org.archived => state = "none"
      PROVE  LET next == WithApp(org, a, state)
             IN  Sound(next) /\ Agreed(next) /\ (next.archived => Empty(next))
  <2> DEFINE next == WithApp(org, a, state)
  <2>1. /\ next \in OrgState /\ next.members = org.members /\ next.places = org.places
        /\ next.teams = org.teams /\ next.archived = org.archived
        /\ next.apps = [org.apps EXCEPT ![a] = state]
    <3>1. state \in {"none", "open", "frozen"}
      OBVIOUS
    <3>2. next = [org EXCEPT !.apps[a] = state]
      BY DEF WithApp
    <3> HIDE DEF next
    <3> QED
      BY <1>1, <3>1, <3>2 DEF OrgState
  <2>2. Sound(next) /\ OwnerIds(next) = OwnerIds(org)
    <3>1. Placed(next)
      BY <1>1, <2>1 DEF Sound, Placed, ActiveIds
    <3> QED
      BY <1>1, <2>1, <3>1, TeamsSound
  <2>3. /\ next.apps[a] = state
        /\ \A c \in App : c # a => next.apps[c] = org.apps[c]
    <3> HIDE DEF next
    <3> QED
      BY <1>1, <2>1 DEF OrgState
  <2>4. Agreed(next)
    <3> HIDE DEF next
    <3> QED
      BY <1>3, <2>1, <2>2, <2>3 DEF Agreed
  <2>5. next.archived => Empty(next)
    <3> HIDE DEF next
    <3> QED
      BY <1>1, <1>3, <2>1, <2>3 DEF Empty, Over, OwnedApps
  <2> QED
    BY <2>2, <2>4, <2>5
<1>4. CASE AttachApp(a)
  <2>1. /\ org' = WithApp(org, a, "open") /\ UNCHANGED doc
        /\ org.apps[a] # "frozen" /\ ~org.archived
    BY <1>4 DEF AttachApp, Writable
  <2>2. Sound(org') /\ Agreed(org') /\ (org'.archived => Empty(org'))
    BY <1>3, <2>1
  <2> QED
    BY <1>1, <1>2, <2>1, <2>2 DEF Fine, Halves
<1>5. CASE MirrorApp(a)
  <2>1. UNCHANGED org /\ doc' = AddOrgApp(Begin(doc), a).org
    BY <1>5 DEF MirrorApp
  <2>2. Keeps(Begin(doc), AddOrgApp(Begin(doc), a)) /\ Begin(doc).org = doc
    BY <1>1, BeginType, AppReducersKeep
  <2>3. doc' \in OrgState /\ Owned(doc')
    BY <1>1, <2>1, <2>2 DEF Keeps, Batch
  <2>4. Agreed(org)
    BY UnchangedIsAgreed DEF OwnersLeave
  <2> QED
    BY <1>1, <1>2, <2>1, <2>3, <2>4 DEF Fine, Halves
<1>6. CASE DetachApp(a)
  <2>1. /\ org' = WithApp(org, a, "none") /\ org.apps[a] # "frozen"
        /\ doc' \in {doc, WithApp(doc, a, "none")}
    BY <1>6 DEF DetachApp
  <2>2. Sound(org') /\ Agreed(org') /\ (org'.archived => Empty(org'))
    BY <1>3, <2>1
  <2>3. WithApp(doc, a, "none") \in OrgState /\ Owned(WithApp(doc, a, "none"))
    BY <1>1, AppType, SameMembersSameOwners DEF Owned
  <2> QED
    BY <1>1, <1>2, <2>1, <2>2, <2>3 DEF Fine, Halves
<1> QED
  BY <1>4, <1>5, <1>6

LEMMA TimeIsFine == ASSUME GovInv, Tick PROVE Fine /\ Frame
<1>1. UNCHANGED <<memberVars, proposals, sweep>> /\ now' \in Nat
  BY DEF Tick, GovInv
<1>2. domainAge' \in -1..MinVerified
  BY GovernanceAssumption DEF Tick, GovInv, MinOf
<1>3. RowsStep
  BY <1>1, SameRows DEF GovInv
<1> QED
  BY <1>1, <1>2, <1>3, StayIsFine DEF memberVars, GovInv, Frame, SweepOK

LEMMA StepIsFine == GovInv /\ [GovNext]_vars => Fine /\ Frame
<1> SUFFICES ASSUME GovInv, [GovNext]_vars PROVE Fine /\ Frame
  OBVIOUS
<1>1. CASE Next /\ UNCHANGED govVars
  BY <1>1, MembersAreFine
<1>2. CASE Propose
  BY <1>2, ProposingIsFine
<1>3. CASE Recovery
  BY <1>3, RecoveryIsFine
<1>4. CASE \E p \in Person, s \in Slot :
             ApproveOrgProposal(p, s) \/ CancelOrgProposal(p, s) \/ ExecuteOrgProposal(p, s)
  BY <1>4, CallsAreFine
<1>5. CASE Sweep \/ SweepStops
  BY <1>5, SweepingIsFine
<1>6. CASE \E a \in App : AttachApp(a) \/ MirrorApp(a) \/ DetachApp(a)
  BY <1>6, AppsAreFine
<1>7. CASE Tick
  BY <1>7, TimeIsFine
<1>8. CASE UNCHANGED vars
  <2>1. RowsStep
    BY <1>8, SameRows DEF GovInv, vars, govVars
  <2> QED
    BY <1>8, <2>1, StayIsFine DEF vars, memberVars, govVars, GovInv, Frame, SweepOK
<1> QED
  BY <1>1, <1>2, <1>3, <1>4, <1>5, <1>6, <1>7, <1>8 DEF GovNext

LEMMA GovInvInit == GovInit => GovInv
<1> SUFFICES ASSUME GovInit PROVE GovInv
  OBVIOUS
<1>1. MembersInv /\ docError = FALSE /\ expired = {}
  BY MembersInvInit DEF GovInit, Init
<1>2. ~org.archived
  BY DEF GovInit, Init, Start
<1>3. NoProposal \in Proposal /\ RowOK(NoProposal)
  <2>1. NoProposal \in Proposal
    BY DEF NoProposal, Proposal, ProposalKind, ProposalStatus
  <2> QED
    BY <2>1 DEF NoProposal, RowOK, WaitsItsDelay, AboutItsSubject
<1>4. Rows
  BY <1>3 DEF Rows, GovInit
<1>5. domainAge \in -1..MinVerified /\ now \in Nat /\ SweepOK
  BY GovernanceAssumption DEF GovInit, SweepOK, Idle
<1> QED
  BY <1>1, <1>2, <1>4, <1>5 DEF GovInv, Halves, MembersInv, TypeOK

LEMMA GovInvKept == GovInv /\ [GovNext]_vars => GovInv'
BY StepIsFine, RowsKept DEF Fine, Frame, Halves, GovInv

THEOREM GovInvariant == GovSpec => []GovInv
BY GovInvInit, GovInvKept, PTL DEF GovSpec

\* The types, with those of both halves.
THEOREM GovTypeCorrect == GovSpec => []GovTypeOK
<1>1. GovInv => GovTypeOK
  BY DEF GovInv, GovTypeOK, TypeOK, Halves, Sound, Rows, SweepOK
<1> QED
  BY <1>1, GovInvariant, PTL

\* With proposals, the sweeper and crashes, too, a live organisation has an owner:
\* REMOVE_OWNER counts owners again when it runs (proposal-kinds.ts, removeOwner).
THEOREM OwnerRemainsUnderGovernance == GovSpec => []LiveOrgHasOwner
<1>1. GovInv => LiveOrgHasOwner
  BY DEF GovInv, Halves, Sound, Owned, LiveOrgHasOwner
<1> QED
  BY <1>1, GovInvariant, PTL

\* The document keeps an owner by its own reducers, whatever it has missed: REMOVE_OWNER and
\* RECOVER reach it through the same ones as the members do.
THEOREM DocumentOwnerUnderGovernance == GovSpec => []DocumentHasOwner
<1>1. GovInv => DocumentHasOwner
  BY DEF GovInv, Halves, Owned, DocumentHasOwner
<1> QED
  BY <1>1, GovInvariant, PTL

\* An archived organisation stays over.
THEOREM ArchivedStaysEmpty == GovSpec => []ArchivedIsEmpty
<1>1. GovInv => ArchivedIsEmpty
  BY DEF GovInv, Halves, Empty, Over, ArchivedIsEmpty
<1> QED
  BY <1>1, GovInvariant, PTL

\* However late the sweeper is, it expires nothing whose countdown ended in time.
THEOREM OnlyUnmaturedExpire == GovSpec => []ExpiredNeverMatured
<1>1. GovInv => ExpiredNeverMatured
  BY DEF GovInv, Rows, RowOK, NeverMatured, ExpiredNeverMatured
<1> QED
  BY <1>1, GovInvariant, PTL

\* Owners, freezes and the end of the organisation change only with the owners' consent,
\* given on current ownership at the time of the change (effectiveThreshold).
THEOREM ChangesAreConsented == GovSpec => OwnersConsent
<1>1. GovInv /\ [GovNext]_vars => [Agreed(org')]_vars
  BY StepIsFine DEF Fine
<1> QED
  BY <1>1, GovInvariant, PTL DEF GovSpec, OwnersConsent

\* What was decided stays decided (the compare-and-set of updateProposal).
THEOREM DecisionsAreFinal == GovSpec => DecidedStaysDecided
<1> DEFINE Step == \A s \in Slot :
                     proposals[s].status \notin {"NONE", "PENDING"} => proposals'[s] = proposals[s]
<1>1. GovInv /\ [GovNext]_vars => [Step]_vars
  <2> SUFFICES ASSUME GovInv, [GovNext]_vars PROVE Step
    OBVIOUS
  <2>1. RowsStep
    BY StepIsFine DEF Fine
  <2> QED
    BY <2>1 DEF RowsStep, RowStep
<1> QED
  BY <1>1, GovInvariant, PTL DEF GovSpec, DecidedStaysDecided

\* What a recovery reads of its domain, seen as DomainChecks shows it to be.
RecoveryDomain == INSTANCE VerifiedDomain WITH
  standing <- IF domainAge = -1 THEN "no" ELSE "yes", age <- domainAge, MaxAge <- MinVerified

LEMMA OnlyTimeAndChecks ==
  ASSUME [GovNext]_vars
  PROVE  DomainVerified \/ DomainLapses \/ Tick \/ domainAge' = domainAge
<1>1. ASSUME (Next /\ UNCHANGED govVars) \/ UNCHANGED vars
      PROVE  domainAge' = domainAge
  BY <1>1 DEF govVars, vars
<1>2. ASSUME Propose PROVE domainAge' = domainAge
  BY <1>2 DEF Propose, ProposeOrgChange, CreateProposal
<1>3. ASSUME Recovery PROVE DomainVerified \/ DomainLapses \/ domainAge' = domainAge
  BY <1>3 DEF Recovery, StartOrgRecovery, CreateProposal
<1>4. ASSUME NEW p \in Person, NEW s \in Slot,
             ApproveOrgProposal(p, s) \/ CancelOrgProposal(p, s) \/ ExecuteOrgProposal(p, s)
      PROVE  domainAge' = domainAge
  BY <1>4 DEF ApproveOrgProposal, CancelOrgProposal, ExecuteOrgProposal
<1>5. ASSUME Sweep \/ SweepStops PROVE domainAge' = domainAge
  BY <1>5 DEF Sweep, SweepBegins, SweepTurns, SweepEnds, SweepDue, SweepStuck, SweepStops
<1>6. ASSUME NEW a \in App, AttachApp(a) \/ MirrorApp(a) \/ DetachApp(a)
      PROVE  domainAge' = domainAge
  BY <1>6 DEF AttachApp, MirrorApp, DetachApp, govVars
<1> QED
  BY <1>1, <1>2, <1>3, <1>4, <1>5, <1>6 DEF GovNext

\* The domain that a recovery rests on has been verified as long as its age says: no proposal,
\* sweep or restart makes it older or younger (VerifiedDomain, which DomainChecks implements).
THEOREM RecoveryDomainAges == GovSpec => RecoveryDomain!VerifiedDomainSpec
<1> DEFINE Step == RecoveryDomain!VerifiedDomainNext
<1>1. GovInv => domainAge \in -1..MinVerified
  BY DEF GovInv
<1>2. GovInv /\ [GovNext]_vars => [Step]_<<IF domainAge = -1 THEN "no" ELSE "yes", domainAge>>
  <2> SUFFICES ASSUME GovInv, [GovNext]_vars
               PROVE  Step \/ domainAge' = domainAge
    OBVIOUS
  <2>1. CASE DomainVerified \/ DomainLapses
    BY <2>1 DEF DomainVerified, DomainLapses, RecoveryDomain!VerifiedDomainNext,
                RecoveryDomain!Verify, RecoveryDomain!Lapse
  <2>2. CASE Tick
    <3>1. /\ domainAge \in -1..MinVerified /\ MinVerified \in Nat
          /\ domainAge' = (IF domainAge = -1 THEN -1 ELSE MinOf(domainAge + 1, MinVerified))
      BY <1>1, <2>2, GovernanceAssumption DEF Tick
    <3> QED
      BY <3>1 DEF MinOf, RecoveryDomain!VerifiedDomainNext, RecoveryDomain!GrowOlder
  <2> QED
    BY <2>1, <2>2, OnlyTimeAndChecks
<1>3. GovInit => RecoveryDomain!VerifiedDomainInit
  <2>1. GovInit => domainAge \in -1..MinVerified
    BY <1>1, GovInvInit
  <2> QED
    BY <2>1, GovernanceAssumption DEF RecoveryDomain!VerifiedDomainInit
<1> QED
  BY <1>2, <1>3, GovInvariant, PTL DEF GovSpec, RecoveryDomain!VerifiedDomainSpec

(***************************************************************************)
(* Both halves.  While the document service fails only by not being        *)
(* reached, every proposal leaves the halves alike, whatever the document  *)
(* refuses of its batch (a recovery may meet an invite the store no longer *)
(* has, or a full document), and is EXECUTED only with its change made.    *)
(***************************************************************************)
\* Halves that are alike have the same owners.
LEMMA OwnersAlike ==
  ASSUME NEW o, NEW d, Mirrors(o, d)
  PROVE  Owners(o) = Owners(d)
<1>1. \A i \in Id : /\ IsOwner(o.members[i]) <=> IsOwner(d.members[i])
                    /\ IsOwner(o.members[i]) => o.members[i].address = d.members[i].address
  BY DEF Mirrors, Alike, IsActive, IsOwner
<1> QED
  BY <1>1 DEF Owners, OwnerIds

\* What is done in one half is done in the other, except for archiving.
LEMMA EffectiveInBoth ==
  ASSUME Rows, NEW s \in Slot, proposals[s].status = "PENDING",
         proposals[s].kind # "DELETE_ORG",
         NEW o, NEW d, Mirrored(o, d), Effective(s, o)
  PROVE  Effective(s, d)
<1>1. /\ proposals[s].kind \in ProposalKind /\ AboutItsSubject(proposals[s])
  BY DEF Rows, RowOK, Proposal
<1>2. Owners(o) = Owners(d)
  BY OwnersAlike DEF Mirrored
<1>3. CASE proposals[s].kind \in {"ADD_OWNER", "RECOVER", "REMOVE_OWNER"}
  BY <1>2, <1>3 DEF Effective
<1>4. CASE proposals[s].kind \in {"FREEZE_APP", "UNFREEZE_APP"}
  <2>1. proposals[s].about \in App
    BY <1>1, <1>4 DEF AboutItsSubject, Subjects
  <2> QED
    BY <1>4, <2>1 DEF Effective, Mirrored, SameFreezes
<1> QED
  BY <1>1, <1>3, <1>4 DEF ProposalKind

\* A step about the proposal s: the halves stay alike, and it executes at most s, and s
\* only with its change.
OnlyThis(s) == \A r \in Slot \ {s} : IsPending(r) => proposals'[r].status # "EXECUTED"

Done(s) == Effective(s, org') /\ Effective(s, doc')

Good(s) ==
  /\ Mirrored(org', doc')
  /\ proposals'[s].status = "EXECUTED" => Done(s)
  /\ OnlyThis(s)

\* What is known when a proposal runs on halves that are alike.
RunningAlike(s) ==
  Faults \subseteq {"unwritten"} /\ Running(s) /\ Mirrored(org, doc)

LEMMA AlikeFacts ==
  ASSUME NEW s, RunningAlike(s)
  PROVE  /\ s \in Slot /\ IsPending(s) /\ Rows /\ proposals[s].status = "PENDING"
         /\ proposals[s].kind \in ProposalKind /\ AboutItsSubject(proposals[s])
         /\ TypeOK /\ Sound(org) /\ OneOpen(org) /\ Mirrored(org, doc)
         /\ org \in OrgState /\ doc \in OrgState
BY DEF RunningAlike, Running, GovInv, Halves, TypeOK, Sound, Rows, RowOK, Proposal, IsPending

LEMMA SettlesOnlyThis ==
  ASSUME Rows, NEW s \in Slot, NEW status, proposals' = Settled(s, status)
  PROVE  OnlyThis(s) /\ proposals'[s].status = status
<1>1. proposals' = [proposals EXCEPT ![s] = [proposals[s] EXCEPT !.status = status]]
  BY DEF Settled
<1>2. proposals[s] \in Proposal
  BY DEF Rows
<1>3. proposals'[s].status = status
  BY <1>1, <1>2 DEF Rows, Proposal
<1>4. \A r \in Slot \ {s} : proposals'[r] = proposals[r]
  BY <1>1 DEF Rows
<1> QED
  BY <1>3, <1>4 DEF OnlyThis, IsPending

LEMMA AppliesIsGood ==
  ASSUME NEW s, RunningAlike(s), NEW next, NEW batch, NEW settled,
         Whole(next, batch),
         ~batch.failed => Effective(s, next) /\ Effective(s, batch.org),
         proposals' = settled => OnlyThis(s),
         Applies(s, next, batch, settled)
  PROVE  Good(s)
<1>1. "unheard" \notin Faults /\ "lost" \notin Faults
  BY DEF RunningAlike
<1>2. CASE Written(next, batch) /\ proposals' = settled
  BY <1>2 DEF Written, Whole, Good, Done
<1>3. CASE Unavailable(next, batch) /\ UNCHANGED proposals
  <2>1. Mirrored(org', doc')
    BY <1>1, <1>3 DEF RunningAlike, Unavailable, Whole
  <2>2. proposals'[s].status # "EXECUTED" /\ OnlyThis(s)
    BY <1>3, AlikeFacts DEF OnlyThis, IsPending
  <2> QED
    BY <2>1, <2>2 DEF Good
<1> QED
  BY <1>1, <1>2, <1>3 DEF Applies, Stopped

\* Every kind but DELETE_ORG: what the store shows, the document shows.
LEMMA ChangeIsGood ==
  ASSUME NEW s, RunningAlike(s), proposals[s].kind # "DELETE_ORG", NEW next, NEW batch,
         Whole(next, batch), Effective(s, next),
         Applies(s, next, batch, Settled(s, "EXECUTED"))
  PROVE  Good(s)
<1>1. ~batch.failed => Effective(s, batch.org)
  BY AlikeFacts, EffectiveInBoth DEF Whole
<1>2. proposals' = Settled(s, "EXECUTED") => OnlyThis(s)
  BY AlikeFacts, SettlesOnlyThis
<1> QED
  BY <1>1, <1>2, AppliesIsGood

LEMMA FailsIsGood ==
  ASSUME NEW s, RunningAlike(s), Fails(s) PROVE Good(s)
<1>1. proposals'[s].status = "FAILED" /\ OnlyThis(s)
  BY AlikeFacts, SettlesOnlyThis DEF Fails
<1> QED
  BY <1>1, AlikeFacts DEF Good, Fails

LEMMA NothingToDoIsGood ==
  ASSUME NEW s, RunningAlike(s), proposals[s].kind # "DELETE_ORG", NothingToDo(s),
         Effective(s, org)
  PROVE  Good(s)
<1>1. OnlyThis(s) /\ UNCHANGED <<org, doc>>
  BY AlikeFacts, SettlesOnlyThis DEF NothingToDo
<1>2. Effective(s, doc)
  BY AlikeFacts, EffectiveInBoth
<1> QED
  BY <1>1, <1>2, AlikeFacts DEF Good, Done

LEMMA PromoteIsGood ==
  ASSUME NEW s, RunningAlike(s), proposals[s].kind \in {"ADD_OWNER", "RECOVER"},
         NEW i \in ActiveIdsOf(proposals[s].about), proposals[s].about \in Person,
         Applies(s, WithRole(org, i, "OWNER"), SetMemberRole(Begin(doc), i, "OWNER"),
                 Settled(s, "EXECUTED"))
  PROVE  Good(s)
<1> DEFINE p == proposals[s].about
           m == [org.members[i] EXCEPT !.role = "OWNER"]
           next == WithRole(org, i, "OWNER")
           batch == SetMemberRole(Begin(doc), i, "OWNER")
<1>1. /\ i \in Id /\ org.members[i].address = p /\ "OWNER" \in Role
      /\ IsActive(org.members[i]) /\ IsOpen(org.members[i].status)
  BY DEF ActiveIdsOf, OpenIds, Role
<1>2. Whole(next, batch)
  BY <1>1, AlikeFacts, RoleMirrored
<1>3. next.members = [org.members EXCEPT ![i] = m]
  <2>1. org \in OrgState
    BY AlikeFacts
  <2> QED
    BY <1>1, <2>1, RoleType
<1>4. m.role = "OWNER" /\ m.status = "ACTIVE" /\ m.address = p
  BY <1>1, AlikeFacts DEF OrgState, Member, IsActive
<1>5. p \in Owners(next)
  <2> HIDE DEF next, m
  <2>1. next.members[i] = m
    BY <1>1, <1>3, AlikeFacts DEF OrgState
  <2> QED
    BY <1>1, <1>4, <2>1 DEF Owners, OwnerIds, IsOwner
<1> QED
  <2> HIDE DEF next, batch
  <2>1. Applies(s, next, batch, Settled(s, "EXECUTED"))
    BY DEF next, batch
  <2>2. Effective(s, next)
    BY <1>5 DEF Effective
  <2> QED
    BY <1>2, <2>1, <2>2, ChangeIsGood

LEMMA AddOwnerIsGood ==
  ASSUME NEW s, RunningAlike(s), proposals[s].kind = "ADD_OWNER", AddOwner(s)
  PROVE  Good(s)
<1>1. proposals[s].about \in Person
  BY AlikeFacts DEF AboutItsSubject, Subjects
<1>2. CASE Fails(s)
  BY <1>2, FailsIsGood
<1>3. CASE ~Fails(s)
  BY <1>1, <1>3, PromoteIsGood DEF AddOwner
<1> QED
  BY <1>2, <1>3

\* Whoever's only open record is no owner's any more is no owner.
LEMMA NoOwnerLeft ==
  ASSUME OneOpen(org), NEW i \in Id, IsOpen(org.members[i].status),
         NEW next, OwnerIds(next) = OwnerIds(org) \ {i},
         \A j \in Id : j # i => next.members[j] = org.members[j]
  PROVE  org.members[i].address \notin Owners(next)
<1> SUFFICES ASSUME NEW j \in OwnerIds(next), next.members[j].address = org.members[i].address
             PROVE  FALSE
  BY DEF Owners
<1>1. j \in Id /\ j # i /\ IsOwner(org.members[j]) /\ org.members[j].address = org.members[i].address
  BY DEF OwnerIds
<1> QED
  BY <1>1 DEF OneOpen, IsOpen, IsOwner

LEMMA DemoteIsGood ==
  ASSUME NEW s, RunningAlike(s), proposals[s].kind = "REMOVE_OWNER",
         Cardinality(OwnerIds(org)) >= 2,
         NEW i \in ActiveIdsOf(proposals[s].about),
         Applies(s, WithRole(org, i, "ADMIN"), SetMemberRole(Begin(doc), i, "ADMIN"),
                 Settled(s, "EXECUTED"))
  PROVE  Good(s)
<1> DEFINE p == proposals[s].about
           m == [org.members[i] EXCEPT !.role = "ADMIN"]
           next == WithRole(org, i, "ADMIN")
           batch == SetMemberRole(Begin(doc), i, "ADMIN")
<1>1. /\ i \in Id /\ org.members[i].address = p /\ IsOpen(org.members[i].status)
      /\ "ADMIN" \in Role
  BY DEF ActiveIdsOf, OpenIds, Role
<1>2. Whole(next, batch)
  BY <1>1, AlikeFacts, RoleMirrored
<1>3. next.members = [org.members EXCEPT ![i] = m]
  <2>1. org \in OrgState
    BY AlikeFacts
  <2> QED
    BY <1>1, <2>1, RoleType
<1>4. m.role = "ADMIN"
  BY <1>1, AlikeFacts DEF OrgState, Member
<1>5. OwnerIds(next) = OwnerIds(org) \ {i} /\ \A j \in Id : j # i => next.members[j] = org.members[j]
  <2> HIDE DEF next, m
  <2>1. next.members[i] = m /\ \A j \in Id : j # i => next.members[j] = org.members[j]
    BY <1>1, <1>3, AlikeFacts DEF OrgState
  <2> QED
    BY <1>4, <2>1 DEF OwnerIds, IsOwner
<1> QED
  <2> HIDE DEF next, batch
  <2>1. Applies(s, next, batch, Settled(s, "EXECUTED"))
    BY DEF next, batch
  <2>2. Effective(s, next)
    BY <1>1, <1>5, AlikeFacts, NoOwnerLeft DEF Effective
  <2> QED
    BY <1>2, <2>1, <2>2, ChangeIsGood

LEMMA ExpelIsGood ==
  ASSUME NEW s, RunningAlike(s), proposals[s].kind = "REMOVE_OWNER",
         Cardinality(OwnerIds(org)) >= 2,
         NEW i \in ActiveIdsOf(proposals[s].about),
         Applies(s, WithoutPlaces(WithStatus(org, i, "REMOVED"), i),
                 SetMemberStatus(Begin(doc), i, "REMOVED"), Settled(s, "EXECUTED"))
  PROVE  Good(s)
<1> DEFINE m == [org.members[i] EXCEPT !.status = "REMOVED"]
           set == WithStatus(org, i, "REMOVED")
           next == WithoutPlaces(set, i)
           batch == SetMemberStatus(Begin(doc), i, "REMOVED")
<1>1. /\ i \in Id /\ org.members[i].address = proposals[s].about /\ IsOpen(org.members[i].status)
      /\ "REMOVED" \in Status
  BY DEF ActiveIdsOf, OpenIds, Status
<1>2. Whole(next, batch)
  BY <1>1, AlikeFacts, EndMirrored
<1>3. next.members = [org.members EXCEPT ![i] = m]
  <2>0. org \in OrgState
    BY AlikeFacts
  <2>1. set \in OrgState /\ set.members = [org.members EXCEPT ![i] = m]
    BY <1>1, <2>0, StatusType
  <2> HIDE DEF set
  <2> QED
    BY <1>1, <2>1, PlacesType
<1>4. m.status = "REMOVED"
  BY <1>1, AlikeFacts DEF OrgState, Member
<1>5. OwnerIds(next) = OwnerIds(org) \ {i} /\ \A j \in Id : j # i => next.members[j] = org.members[j]
  <2> HIDE DEF next, m
  <2>1. next.members[i] = m /\ \A j \in Id : j # i => next.members[j] = org.members[j]
    BY <1>1, <1>3, AlikeFacts DEF OrgState
  <2> QED
    BY <1>4, <2>1 DEF OwnerIds, IsOwner
<1> QED
  <2> HIDE DEF next, batch
  <2>1. Applies(s, next, batch, Settled(s, "EXECUTED"))
    BY DEF next, batch
  <2>2. Effective(s, next)
    BY <1>1, <1>5, AlikeFacts, NoOwnerLeft DEF Effective
  <2> QED
    BY <1>2, <2>1, <2>2, ChangeIsGood

LEMMA RemoveOwnerIsGood ==
  ASSUME NEW s, RunningAlike(s), proposals[s].kind = "REMOVE_OWNER", RemoveOwner(s)
  PROVE  Good(s)
<1>1. CASE Fails(s)
  BY <1>1, FailsIsGood
<1>2. CASE ~Fails(s)
  BY <1>2, DemoteIsGood, ExpelIsGood DEF RemoveOwner
<1> QED
  BY <1>1, <1>2

LEMMA DeleteOrgIsGood ==
  ASSUME NEW s, RunningAlike(s), proposals[s].kind = "DELETE_ORG", DeleteOrg(s)
  PROVE  Good(s)
<1>1. CASE Fails(s)
  BY <1>1, FailsIsGood
<1>2. CASE ~Fails(s)
  <2> DEFINE next == Archived(org)
             batch == ArchiveOrg(Begin(doc))
             rows(cancelled) ==
               [r \in Slot |->
                  IF r \in cancelled THEN [proposals[r] EXCEPT !.status = "CANCELLED"]
                  ELSE Settled(s, "EXECUTED")[r]]
  <2>1. PICK cancelled \in SUBSET {r \in Slot \ {s} : IsPending(r)} :
          Applies(s, next, batch, rows(cancelled))
    BY <1>2 DEF DeleteOrg
  <2>2. /\ next.archived /\ next.apps = org.apps
        /\ next.members = [i \in Id |-> Ended(org.members[i])]
        /\ Archived(doc) \in OrgState /\ Archived(doc).archived /\ Archived(doc).apps = doc.apps
        /\ Archived(doc).members = [i \in Id |-> Ended(doc.members[i])]
    BY AlikeFacts, ArchivedType
  <2>3. batch \in Batch /\ ~batch.failed /\ batch.org = Archived(doc)
    <3>1. Begin(doc) \in Batch /\ Begin(doc).org = doc /\ ~Begin(doc).failed
      BY AlikeFacts, Begun
    <3> QED
      BY <2>2, <3>1 DEF ArchiveOrg, Reduce, Batch
  <2>4. ASSUME NEW i \in Id
        PROVE  /\ Alike(next.members[i], batch.org.members[i])
               /\ Explained(next, batch.org, i)
    <3>1. \A m \in Member : LET n == Ended(m)
                            IN  /\ n.address = m.address /\ n.role = m.role
                                /\ n.status = "NONE" <=> m.status = "NONE"
                                /\ n.status \notin {"INVITED", "ACTIVE"}
      BY DEF Ended, Member
    <3>2. org.members[i] \in Member /\ doc.members[i] \in Member
      BY AlikeFacts DEF OrgState
    <3>3. /\ next.members[i] = Ended(org.members[i])
          /\ batch.org.members[i] = Ended(doc.members[i])
      BY <2>2, <2>3
    <3>4. Alike(org.members[i], doc.members[i])
      BY AlikeFacts DEF Mirrored, Mirrors
    <3> HIDE DEF next, batch
    <3> QED
      BY <3>1, <3>2, <3>3, <3>4 DEF Alike, IsActive, Explained
  <2>5. Whole(next, batch)
    <3> HIDE DEF next, batch
    <3> QED
      BY <2>2, <2>3, <2>4, AlikeFacts DEF Whole, Mirrored, Mirrors, SameFreezes
  <2>6. Effective(s, next) /\ Effective(s, batch.org)
    <3> HIDE DEF next, batch
    <3> QED
      BY <2>2, <2>3 DEF Effective
  <2>7. proposals' = rows(cancelled) => OnlyThis(s)
    <3> SUFFICES ASSUME proposals' = rows(cancelled), NEW r \in Slot \ {s}, IsPending(r)
                 PROVE  proposals'[r].status # "EXECUTED"
      BY DEF OnlyThis
    <3>1. CASE r \in cancelled
      <4>1. proposals[r] \in Proposal
        BY AlikeFacts DEF Rows
      <4>2. proposals'[r] = [proposals[r] EXCEPT !.status = "CANCELLED"]
        BY <3>1
      <4> QED
        BY <4>1, <4>2 DEF Proposal
    <3>2. CASE r \notin cancelled
      <4>1. Settled(s, "EXECUTED")
              = [proposals EXCEPT ![s] = [proposals[s] EXCEPT !.status = "EXECUTED"]]
        BY DEF Settled
      <4>2. proposals'[r] = Settled(s, "EXECUTED")[r]
        BY <3>2
      <4>3. proposals'[r] = proposals[r]
        BY <4>1, <4>2, AlikeFacts DEF Rows
      <4> QED
        BY <4>3 DEF IsPending
    <3> QED
      BY <3>1, <3>2
  <2> QED
    <3> HIDE DEF next, batch, rows
    <3> QED
      BY <2>1, <2>5, <2>6, <2>7, AppliesIsGood
<1> QED
  BY <1>1, <1>2

\* FREEZE_APP and UNFREEZE_APP: the document never refuses what adds the missing mirror first.
LEMMA FreezeReduced ==
  ASSUME NEW d \in OrgState, NEW a \in App, NEW frozen \in BOOLEAN
  PROVE  LET mirrored == IF d.apps[a] = "none" THEN AddOrgApp(Begin(d), a) ELSE Begin(d)
             batch == SetAppFrozen(mirrored, a, frozen)
         IN  /\ batch \in Batch /\ ~batch.failed
             /\ batch.org.members = d.members
             /\ batch.org.apps = [d.apps EXCEPT ![a] = IF frozen THEN "frozen" ELSE "open"]
<1> DEFINE mirrored == IF d.apps[a] = "none" THEN AddOrgApp(Begin(d), a) ELSE Begin(d)
           state == IF frozen THEN "frozen" ELSE "open"
           after == WithApp(mirrored.org, a, state)
<1>1. Begin(d) \in Batch /\ Begin(d).org = d /\ ~Begin(d).failed /\ d.apps \in [App -> {"none", "open", "frozen"}]
  BY BeginType DEF OrgState
<1>2. /\ mirrored \in Batch /\ ~mirrored.failed /\ mirrored.org \in OrgState
      /\ mirrored.org.members = d.members
      /\ mirrored.org.apps[a] # "none"
      /\ [mirrored.org.apps EXCEPT ![a] = state] = [d.apps EXCEPT ![a] = state]
  <2>1. CASE d.apps[a] = "none"
    <3>1. /\ WithApp(d, a, "open") \in OrgState /\ WithApp(d, a, "open").members = d.members
          /\ WithApp(d, a, "open").apps = [d.apps EXCEPT ![a] = "open"]
      BY AppType
    <3>2. mirrored \in Batch /\ mirrored.org = WithApp(d, a, "open") /\ ~mirrored.failed
      <4>1. Begin(d).org.apps[a] = "none"
        BY <1>1, <2>1
      <4>2. mirrored = Reduce(Begin(d), Begin(d).org.apps[a] = "none", WithApp(d, a, "open"))
        BY <1>1, <2>1 DEF AddOrgApp
      <4> HIDE DEF mirrored
      <4> QED
        BY <1>1, <3>1, <4>1, <4>2 DEF Reduce, Batch
    <3> HIDE DEF mirrored, state
    <3> QED
      BY <1>1, <3>1, <3>2
  <2>2. CASE d.apps[a] # "none"
    BY <1>1, <2>2
  <2> QED
    BY <2>1, <2>2
<1> HIDE DEF mirrored
<1>3. /\ after \in OrgState /\ after.members = d.members
      /\ after.apps = [d.apps EXCEPT ![a] = state]
  <2>1. /\ after \in OrgState /\ after.members = mirrored.org.members
        /\ after.apps = [mirrored.org.apps EXCEPT ![a] = state]
    BY <1>2, AppType
  <2> HIDE DEF after
  <2> QED
    BY <1>2, <2>1
<1>4. /\ SetAppFrozen(mirrored, a, frozen) = Reduce(mirrored, mirrored.org.apps[a] # "none", after)
      /\ mirrored.org.apps[a] # "none"
  BY <1>2 DEF SetAppFrozen
<1> HIDE DEF after
<1>5. /\ SetAppFrozen(mirrored, a, frozen) \in Batch
      /\ SetAppFrozen(mirrored, a, frozen).org = after
      /\ SetAppFrozen(mirrored, a, frozen).failed = mirrored.failed
  BY <1>2, <1>3, <1>4 DEF Reduce, Batch
<1> QED
  BY <1>2, <1>3, <1>5 DEF mirrored

LEMMA FreezeAppIsGood ==
  ASSUME NEW s, RunningAlike(s), proposals[s].kind \in {"FREEZE_APP", "UNFREEZE_APP"}, FreezeApp(s)
  PROVE  Good(s)
<1> DEFINE a == proposals[s].about
           frozen == proposals[s].kind = "FREEZE_APP"
           state == IF frozen THEN "frozen" ELSE "open"
           mirrored == IF doc.apps[a] = "none" THEN AddOrgApp(Begin(doc), a) ELSE Begin(doc)
           next == WithApp(org, a, state)
           batch == SetAppFrozen(mirrored, a, frozen)
<1>1. a \in App
  BY AlikeFacts DEF AboutItsSubject, Subjects
<1>2. \A o : o.apps[a] = state => Effective(s, o)
  BY DEF Effective
<1>3. CASE Fails(s)
  BY <1>3, FailsIsGood
<1>4. CASE org.apps[a] = state /\ NothingToDo(s)
  BY <1>2, <1>4, NothingToDoIsGood
<1>5. CASE Applies(s, next, batch, Settled(s, "EXECUTED"))
  <2>1. /\ batch \in Batch /\ ~batch.failed
        /\ batch.org.members = doc.members
        /\ batch.org.apps = [doc.apps EXCEPT ![a] = state]
    <3>1. frozen \in BOOLEAN
      OBVIOUS
    <3> HIDE DEF frozen
    <3> QED
      BY <1>1, <3>1, AlikeFacts, FreezeReduced
  <2>2. next.members = org.members /\ next.apps = [org.apps EXCEPT ![a] = state]
    <3>1. org \in OrgState
      BY AlikeFacts
    <3> QED
      BY <1>1, <3>1, AppType
  <2> HIDE DEF next, batch
  <2>3. Mirrors(next, batch.org)
    BY <2>1, <2>2, AlikeFacts DEF Mirrored, Mirrors, Explained, Stray
  <2>4. SameFreezes(next, batch.org) /\ next.apps[a] = state
    <3>1. /\ next.apps[a] = state /\ batch.org.apps[a] = state
          /\ \A c \in App : c # a => /\ next.apps[c] = org.apps[c]
                                     /\ batch.org.apps[c] = doc.apps[c]
      BY <1>1, <2>1, <2>2, AlikeFacts DEF OrgState
    <3> HIDE DEF state
    <3> QED
      BY <3>1, AlikeFacts DEF Mirrored, SameFreezes
  <2>5. Whole(next, batch)
    BY <2>1, <2>3, <2>4 DEF Whole, Mirrored
  <2> QED
    BY <1>2, <1>5, <2>4, <2>5, ChangeIsGood
<1> QED
  BY <1>3, <1>4, <1>5 DEF FreezeApp

\* Who recovers the organisation is an owner of it.
LEMMA JoinOwns ==
  ASSUME NEW left \in OrgState, NEW new \in Id, NEW p \in Person
  PROVE  p \in Owners(WithRecord(left, new, Joined(p, "OWNER")))
<1> DEFINE m == Joined(p, "OWNER")
           next == WithRecord(left, new, m)
<1>1. m \in Member /\ m.address = p /\ IsOwner(m)
  BY JoinedType DEF IsOwner, Role
<1> HIDE DEF m
<1>2. next.members[new] = m
  <2>1. left.members \in [Id -> Member]
    BY DEF OrgState
  <2>2. next.members = [left.members EXCEPT ![new] = m]
    BY <1>1, RecordType
  <2> HIDE DEF next
  <2> QED
    BY <2>1, <2>2
<1> HIDE DEF next
<1> QED
  BY <1>1, <1>2 DEF Owners, OwnerIds, next, m

LEMMA RecoverIsGood ==
  ASSUME NEW s, RunningAlike(s), proposals[s].kind = "RECOVER", Recover(s)
  PROVE  Good(s)
<1> DEFINE p == proposals[s].about
<1>1. p \in Person
  BY AlikeFacts DEF AboutItsSubject
<1>2. CASE Fails(s)
  BY <1>2, FailsIsGood
<1>3. CASE IsActiveOwner(p) /\ NothingToDo(s)
  <2>1. p \in Owners(org)
    BY <1>1, <1>3 DEF IsActiveOwner, ActiveIdsOf, OpenIds, Owners, OwnerIds
  <2>2. Effective(s, org)
    BY <2>1 DEF Effective
  <2> QED
    BY <1>3, <2>2, NothingToDoIsGood
<1>4. CASE \E i \in ActiveIdsOf(p) :
             Applies(s, WithRole(org, i, "OWNER"), SetMemberRole(Begin(doc), i, "OWNER"),
                     Settled(s, "EXECUTED"))
  BY <1>1, <1>4, PromoteIsGood
<1>5. CASE \E new \in NewIds :
             Applies(s, WithRecord(org, new, Joined(p, "OWNER")), Join(Begin(doc), new, p, "OWNER"),
                     Settled(s, "EXECUTED"))
  <2>1. PICK new \in NewIds :
             Applies(s, WithRecord(org, new, Joined(p, "OWNER")), Join(Begin(doc), new, p, "OWNER"),
                     Settled(s, "EXECUTED"))
    BY <1>5
  <2> DEFINE next == WithRecord(org, new, Joined(p, "OWNER"))
             batch == Join(Begin(doc), new, p, "OWNER")
  <2>2. Whole(next, batch) /\ p \in Owners(next)
    <3>1. "OWNER" \in Role /\ new \in Id /\ org \in OrgState
      BY AlikeFacts, Begun DEF Role, NewIds, FreshIds
    <3> QED
      BY <1>1, <3>1, AlikeFacts, JoinMirrored, JoinOwns
  <2>3. Applies(s, next, batch, Settled(s, "EXECUTED"))
    BY <2>1
  <2> HIDE DEF next, batch
  <2>4. Effective(s, next)
    BY <2>2 DEF Effective
  <2> QED
    BY <2>2, <2>3, <2>4, ChangeIsGood
<1>6. CASE \E new \in NewIds : \E old \in OpenIds(org, p) \ ActiveIdsOf(p) :
             Applies(s, WithRecord(WithStatus(org, old, "REVOKED"), new, Joined(p, "OWNER")),
                     Join(SetMemberStatus(Begin(doc), old, "REVOKED"), new, p, "OWNER"),
                     Settled(s, "EXECUTED"))
  <2>1. PICK new \in NewIds, old \in OpenIds(org, p) \ ActiveIdsOf(p) :
             Applies(s, WithRecord(WithStatus(org, old, "REVOKED"), new, Joined(p, "OWNER")),
                     Join(SetMemberStatus(Begin(doc), old, "REVOKED"), new, p, "OWNER"),
                     Settled(s, "EXECUTED"))
    BY <1>6
  <2> DEFINE next == WithRecord(WithStatus(org, old, "REVOKED"), new, Joined(p, "OWNER"))
             batch == Join(SetMemberStatus(Begin(doc), old, "REVOKED"), new, p, "OWNER")
  <2>2. old \in Id /\ org.members[old].status = "INVITED" /\ org.members[old].address = p
    BY DEF OpenIds, ActiveIdsOf, IsOpen, IsActive
  <2>3. Whole(next, batch) /\ p \in Owners(next)
    <3>1. /\ "OWNER" \in Role /\ new \in Id /\ "REVOKED" \in Status
          /\ WithStatus(org, old, "REVOKED") \in OrgState
      BY <2>2, AlikeFacts, Begun, StatusType DEF Role, Status, NewIds, FreshIds
    <3> QED
      BY <1>1, <2>2, <3>1, AlikeFacts, RejoinMirrored, JoinOwns
  <2>4. Applies(s, next, batch, Settled(s, "EXECUTED"))
    BY <2>1
  <2> HIDE DEF next, batch
  <2>5. Effective(s, next)
    BY <2>3 DEF Effective
  <2> QED
    BY <2>3, <2>4, <2>5, ChangeIsGood
<1> QED
  BY <1>2, <1>3, <1>4, <1>5, <1>6 DEF Recover

LEMMA ExecuteIsGood ==
  ASSUME NEW s, RunningAlike(s), Execute(s)
  PROVE  Good(s)
<1>1. proposals[s].kind \in ProposalKind
  BY AlikeFacts
<1>2. CASE proposals[s].kind = "ADD_OWNER"
  BY <1>2, AddOwnerIsGood DEF Execute
<1>3. CASE proposals[s].kind = "REMOVE_OWNER"
  BY <1>3, RemoveOwnerIsGood DEF Execute
<1>4. CASE proposals[s].kind = "DELETE_ORG"
  BY <1>4, DeleteOrgIsGood DEF Execute
<1>5. CASE proposals[s].kind = "RECOVER"
  BY <1>5, RecoverIsGood DEF Execute
<1>6. CASE proposals[s].kind \in {"FREEZE_APP", "UNFREEZE_APP"}
  BY <1>6, FreezeAppIsGood DEF Execute
<1> QED
  BY <1>1, <1>2, <1>3, <1>4, <1>5, <1>6 DEF ProposalKind

(***************************************************************************)
(* Every action on halves that are alike.                                  *)
(***************************************************************************)
AlikeInv == Faults \subseteq {"unwritten"} /\ GovInv /\ Mirrored(org, doc)

\* The step a proposal is marked EXECUTED in is the step that makes its change.
DoneWhenExecuted ==
  \A s \in Slot : IsPending(s) /\ proposals'[s].status = "EXECUTED" => Done(s)

Together == Mirrored(org', doc') /\ DoneWhenExecuted

LEMMA StayTogether ==
  ASSUME AlikeInv, UNCHANGED <<org, doc>>,
         \A s \in Slot : IsPending(s) => proposals'[s].status # "EXECUTED"
  PROVE  Together
BY DEF AlikeInv, Together, DoneWhenExecuted

\* One row is replaced, by a row that is not EXECUTED.
LEMMA ReplacedTogether ==
  ASSUME AlikeInv, UNCHANGED <<org, doc>>, NEW s \in Slot, NEW q, q.status # "EXECUTED",
         proposals' = [proposals EXCEPT ![s] = q]
  PROVE  Together
<1>1. proposals \in [Slot -> Proposal]
  BY DEF AlikeInv, GovInv, Rows
<1>2. ASSUME NEW r \in Slot, IsPending(r) PROVE proposals'[r].status # "EXECUTED"
  BY <1>1, <1>2 DEF IsPending
<1> QED
  BY <1>2, StayTogether

LEMMA SettledTogether ==
  ASSUME AlikeInv, UNCHANGED <<org, doc>>, NEW s \in Slot,
         NEW status, status # "EXECUTED", proposals' = Settled(s, status)
  PROVE  Together
<1>1. proposals[s] \in Proposal
  BY DEF AlikeInv, GovInv, Rows
<1>2. [proposals[s] EXCEPT !.status = status].status = status
  BY <1>1 DEF Proposal
<1>3. proposals' = [proposals EXCEPT ![s] = [proposals[s] EXCEPT !.status = status]]
  BY DEF Settled
<1> DEFINE q == [proposals[s] EXCEPT !.status = status]
<1>4. q.status # "EXECUTED" /\ proposals' = [proposals EXCEPT ![s] = q]
  BY <1>2, <1>3
<1> HIDE DEF q
<1> QED
  BY <1>4, ReplacedTogether

LEMMA CountdownTogether ==
  ASSUME AlikeInv, NEW s \in Slot, IsPending(s), NEW time, Rearm(s, time) \/ Disarm(s)
  PROVE  Together
<1>1. proposals[s] \in Proposal /\ proposals[s].status = "PENDING" /\ UNCHANGED <<org, doc>>
  BY DEF AlikeInv, GovInv, Rows, IsPending, Rearm, Disarm
<1>2. PICK at : proposals' = [proposals EXCEPT ![s].executableAt = at]
  BY DEF Rearm, Disarm
<1> DEFINE q == [proposals[s] EXCEPT !.executableAt = at]
<1>3. q.status # "EXECUTED" /\ proposals' = [proposals EXCEPT ![s] = q]
  BY <1>1, <1>2 DEF Proposal
<1> HIDE DEF q
<1> QED
  BY <1>1, <1>3, ReplacedTogether

LEMMA RunTogether ==
  ASSUME AlikeInv, NEW s \in Slot, RunProposal(s)
  PROVE  Together
<1>1. IsPending(s)
  BY DEF RunProposal
<1>2. CASE Disarm(s) \/ Rearm(s, now)
  BY <1>1, <1>2, CountdownTogether
<1>3. CASE Fails(s)
  BY <1>3, SettledTogether DEF Fails
<1>4. CASE Met(s) /\ Matured(s, now) /\ Writable /\ Execute(s)
  <2>1. Good(s)
    BY <1>1, <1>4, ExecuteIsGood DEF RunningAlike, Running, AlikeInv
  <2> QED
    BY <2>1 DEF Good, OnlyThis, Together, DoneWhenExecuted
<1> QED
  BY <1>2, <1>3, <1>4 DEF RunProposal

LEMMA CallsTogether ==
  ASSUME AlikeInv, NEW p \in Person, NEW s \in Slot,
         ApproveOrgProposal(p, s) \/ CancelOrgProposal(p, s) \/ ExecuteOrgProposal(p, s)
  PROVE  Together
<1>1. CASE ApproveOrgProposal(p, s)
  <2> DEFINE pr == proposals[s]
             approved == [pr EXCEPT !.approvals = @ \cup {p}]
             q == [approved EXCEPT !.executableAt = ExecutableAtFor(approved, Owners(org), now, Met(s))]
  <2>1. pr \in Proposal /\ pr.status = "PENDING" /\ UNCHANGED <<org, doc>>
    BY <1>1 DEF AlikeInv, GovInv, Rows, ApproveOrgProposal, IsLive, IsPending, memberVars
  <2>2. q.status = pr.status
    BY <2>1 DEF Proposal
  <2>3. proposals' = [proposals EXCEPT ![s] = q]
    BY <1>1 DEF ApproveOrgProposal
  <2> HIDE DEF q
  <2> QED
    BY <2>1, <2>2, <2>3, ReplacedTogether
<1>2. CASE CancelOrgProposal(p, s)
  <2>1. proposals' = Settled(s, "CANCELLED") /\ UNCHANGED <<org, doc>>
    BY <1>2 DEF CancelOrgProposal, Settled, memberVars
  <2> QED
    BY <2>1, SettledTogether
<1>3. CASE ExecuteOrgProposal(p, s)
  BY <1>3, RunTogether DEF ExecuteOrgProposal
<1> QED
  BY <1>1, <1>2, <1>3

LEMMA CreateTogether ==
  ASSUME AlikeInv, NEW s \in Slot, NEW kind, NEW about, NEW demote, NEW p, NEW approvals,
         CreateProposal(s, Draft(kind, about, demote, p, approvals))
  PROVE  Together
<1> DEFINE draft == Draft(kind, about, demote, p, approvals)
           q == [draft EXCEPT !.executableAt = ExecutableAtFor(draft, Owners(org), now, TRUE)]
<1>1. q.status = "PENDING"
  BY DEF Draft
<1>2. proposals' = [proposals EXCEPT ![s] = q] /\ UNCHANGED <<org, doc>>
  BY DEF CreateProposal, memberVars
<1> HIDE DEF q
<1> QED
  BY <1>1, <1>2, ReplacedTogether

LEMMA AppsTogether ==
  ASSUME AlikeInv, NEW a \in App, AttachApp(a) \/ MirrorApp(a) \/ DetachApp(a)
  PROVE  Together
<1>1. org \in OrgState /\ doc \in OrgState /\ UNCHANGED proposals
  BY DEF AlikeInv, GovInv, Halves, Sound, AttachApp, MirrorApp, DetachApp, govVars
<1>2. DoneWhenExecuted
  BY <1>1 DEF DoneWhenExecuted, IsPending
<1>3. ASSUME NEW o \in OrgState, NEW st \in {"none", "open", "frozen"}
      PROVE  /\ WithApp(o, a, st).members = o.members
             /\ WithApp(o, a, st).apps = [o.apps EXCEPT ![a] = st]
  BY DEF WithApp, OrgState
<1>4. ASSUME NEW o, NEW d, o.members = org.members, d.members = doc.members,
             o.apps = org.apps \/ \E state \in {"none", "open"} : o.apps = [org.apps EXCEPT ![a] = state],
             d.apps = doc.apps \/ \E state \in {"none", "open"} : d.apps = [doc.apps EXCEPT ![a] = state],
             org.apps[a] # "frozen", doc.apps[a] # "frozen"
      PROVE  Mirrored(o, d)
  <2>1. Mirrors(o, d)
    BY <1>4 DEF AlikeInv, Mirrored, Mirrors, Explained, Stray
  <2>2. /\ o.apps[a] # "frozen" /\ \A c \in App : c # a => o.apps[c] = org.apps[c]
        /\ d.apps[a] # "frozen" /\ \A c \in App : c # a => d.apps[c] = doc.apps[c]
    BY <1>1, <1>4 DEF OrgState
  <2>3. SameFreezes(o, d)
    BY <2>2 DEF AlikeInv, Mirrored, SameFreezes
  <2> QED
    BY <2>1, <2>3 DEF Mirrored
<1>5. org.apps[a] # "frozen" <=> doc.apps[a] # "frozen"
  BY DEF AlikeInv, Mirrored, SameFreezes
<1>6. CASE AttachApp(a)
  <2>1. org' = WithApp(org, a, "open") /\ doc' = doc /\ org.apps[a] # "frozen"
    BY <1>6 DEF AttachApp
  <2>2. org'.members = org.members /\ org'.apps = [org.apps EXCEPT ![a] = "open"]
    BY <1>1, <1>3, <2>1
  <2>3. Mirrored(org', doc')
    BY <1>4, <1>5, <2>1, <2>2
  <2> QED
    BY <1>2, <2>3 DEF Together
<1>7. CASE MirrorApp(a)
  <2>1. org' = org /\ doc' = AddOrgApp(Begin(doc), a).org /\ doc.apps[a] = "none"
    BY <1>7 DEF MirrorApp
  <2>2. AddOrgApp(Begin(doc), a).org = WithApp(doc, a, "open")
    BY <1>1, <2>1, BeginType DEF AddOrgApp, Reduce
  <2>3. doc'.members = doc.members /\ doc'.apps = [doc.apps EXCEPT ![a] = "open"]
    BY <1>1, <1>3, <2>1, <2>2
  <2>4. Mirrored(org', doc')
    BY <1>4, <1>5, <2>1, <2>3
  <2> QED
    BY <1>2, <2>4 DEF Together
<1>8. CASE DetachApp(a)
  <2>1. /\ org' = WithApp(org, a, "none") /\ org.apps[a] # "frozen"
        /\ doc' = doc \/ doc' = WithApp(doc, a, "none")
    BY <1>8 DEF DetachApp
  <2>2. org'.members = org.members /\ org'.apps = [org.apps EXCEPT ![a] = "none"]
    BY <1>1, <1>3, <2>1
  <2>3. doc'.members = doc.members /\ (doc'.apps = doc.apps \/ doc'.apps = [doc.apps EXCEPT ![a] = "none"])
    BY <1>1, <1>3, <2>1
  <2>4. Mirrored(org', doc')
    BY <1>4, <1>5, <2>1, <2>2, <2>3
  <2> QED
    BY <1>2, <2>4 DEF Together
<1> QED
  BY <1>6, <1>7, <1>8

LEMMA SweepingTogether ==
  ASSUME AlikeInv, NEW s \in Slot, SweepDue(s) \/ SweepStuck(s)
  PROVE  Together
<1>1. CASE RunProposal(s)
  BY <1>1, RunTogether
<1>2. CASE Rearm(s, sweep.at)
  BY <1>2, CountdownTogether DEF Rearm, IsLive
<1>3. CASE Unsweepable(s)
  BY <1>3, StayTogether DEF Unsweepable, IsPending
<1>4. CASE Expire(s)
  BY <1>4, SettledTogether DEF Expire
<1> QED
  BY <1>1, <1>2, <1>3, <1>4 DEF SweepDue, SweepStuck

LEMMA StepTogether == AlikeInv /\ [GovNext]_vars => Together
<1> SUFFICES ASSUME AlikeInv, [GovNext]_vars PROVE Together
  OBVIOUS
<1>1. CASE UNCHANGED <<org, doc, proposals>>
  BY <1>1, StayTogether DEF IsPending
<1>2. CASE Next /\ UNCHANGED govVars
  <2>1. Mirrored(org', doc')
    <3>1. TypeOK /\ Sound(org)
      BY DEF AlikeInv, GovInv, Halves, TypeOK, Sound
    <3> QED
      BY <1>2, <3>1, NextMirrored DEF AlikeInv
  <2> QED
    BY <1>2, <2>1 DEF Together, DoneWhenExecuted, govVars, IsPending
<1>3. CASE Propose
  BY <1>3, CreateTogether DEF Propose, ProposeOrgChange
<1>4. CASE Recovery
  <2>1. CASE \E p, q \in Person, s \in Slot : StartOrgRecovery(p, s, q)
    BY <2>1, CreateTogether DEF StartOrgRecovery
  <2>2. CASE DomainVerified \/ DomainLapses
    BY <1>1, <2>2 DEF DomainVerified, DomainLapses, memberVars
  <2> QED
    BY <1>4, <2>1, <2>2 DEF Recovery
<1>5. CASE \E p \in Person, s \in Slot :
             ApproveOrgProposal(p, s) \/ CancelOrgProposal(p, s) \/ ExecuteOrgProposal(p, s)
  BY <1>5, CallsTogether
<1>6. CASE Sweep \/ SweepStops
  <2>1. CASE SweepBegins \/ SweepTurns \/ SweepEnds \/ SweepStops
    BY <1>1, <2>1 DEF SweepBegins, SweepTurns, SweepEnds, SweepStops, memberVars
  <2> QED
    BY <1>6, <2>1, SweepingTogether DEF Sweep
<1>7. CASE \E a \in App : AttachApp(a) \/ MirrorApp(a) \/ DetachApp(a)
  BY <1>7, AppsTogether
<1>8. CASE Tick \/ UNCHANGED vars
  BY <1>1, <1>8 DEF Tick, vars, memberVars, govVars
<1> QED
  BY <1>2, <1>3, <1>4, <1>5, <1>6, <1>7, <1>8 DEF GovNext

LEMMA StartAlike == GovInit => Mirrored(org, doc)
<1> SUFFICES ASSUME GovInit PROVE Mirrored(org, doc)
  OBVIOUS
<1>1. doc = org
  BY MembersInvInit DEF GovInit
<1> QED
  BY <1>1 DEF Mirrored, Mirrors, SameFreezes, Alike, Explained

\* The halves stay alike: what differs is at most an invite.
THEOREM HalvesStayAlike ==
  ASSUME Faults \subseteq {"unwritten"}
  PROVE  GovSpec => []Mirrored(org, doc)
<1>1. GovInit => AlikeInv
  BY GovInvInit, StartAlike DEF AlikeInv
<1>2. AlikeInv /\ [GovNext]_vars => AlikeInv'
  BY StepTogether, GovInvKept DEF AlikeInv, Together
<1>3. AlikeInv => Mirrored(org, doc)
  BY DEF AlikeInv
<1> QED
  BY <1>1, <1>2, <1>3, PTL DEF GovSpec

\* A frozen app is frozen in both halves and no other is, through attaching, lost
\* mirrors, moves and proposals (proposal-kinds.ts, freezeApp; apps.ts, mirrorOrgApp).
THEOREM FreezesAreMirrored ==
  ASSUME Faults \subseteq {"unwritten"}
  PROVE  GovSpec => []FreezeMirrored
<1>1. Mirrored(org, doc) => FreezeMirrored
  BY DEF Mirrored, SameFreezes, FreezeMirrored
<1> QED
  BY <1>1, HalvesStayAlike, PTL

\* Whoever reads the document sees the owners the store goes by, although recoveries
\* may leave invites in one half only.
THEOREM SameOwnersInBoth ==
  ASSUME Faults \subseteq {"unwritten"}
  PROVE  GovSpec => [](Owners(doc) = Owners(org))
<1>1. Mirrored(org, doc) => Owners(doc) = Owners(org)
  BY OwnersAlike DEF Mirrored
<1> QED
  BY <1>1, HalvesStayAlike, PTL

\* A proposal is marked EXECUTED only in the step that makes its change in both halves:
\* runProposal's claim is taken back when the document could not be written.
THEOREM ExecutedIsDone ==
  ASSUME Faults \subseteq {"unwritten"}
  PROVE  GovSpec => ExecutedMeansDone
<1> DEFINE Step == \A s \in Slot :
                     IsPending(s) /\ proposals'[s].status = "EXECUTED"
                       => Effective(s, org') /\ Effective(s, doc')
<1>1. GovInit => AlikeInv
  BY GovInvInit, StartAlike DEF AlikeInv
<1>2. AlikeInv /\ [GovNext]_vars => AlikeInv' /\ [Step]_vars
  BY StepTogether, GovInvKept DEF AlikeInv, Together, DoneWhenExecuted, Done
<1> QED
  BY <1>1, <1>2, PTL DEF GovSpec, ExecutedMeansDone

(***************************************************************************)
(* What the document refuses.  Until it has refused something the halves   *)
(* are the same but for apps, and then every reducer asks no more than the *)
(* handler did, with one exception: a recovery does not ask whether there  *)
(* is room for another member, the document does.                          *)
(***************************************************************************)
FullRecovery ==
  \E s \in Slot : /\ IsPending(s) /\ proposals[s].kind = "RECOVER"
                  /\ Cardinality(ActiveIds(doc)) >= MaxActive

SameInv == AlikeInv /\ (~docError => Same(org, doc))

UnrefusedInv == AlikeInv /\ Same(org, doc) /\ ~docError

Agree == (docError' => FullRecovery) /\ (~docError' => Same(org', doc'))

SameRun(s) == RunningAlike(s) /\ Same(org, doc) /\ ~docError

LEMMA SameButForApps ==
  ASSUME NEW o \in OrgState, NEW d, NEW apps, d = [o EXCEPT !.apps = apps]
  PROVE  Same(o, d)
BY DEF Same, OrgState

LEMMA AppliesAgree ==
  ASSUME NEW s, SameRun(s), NEW next \in OrgState, NEW batch, NEW settled,
         \/ Follows(batch, [next EXCEPT !.apps = doc.apps])
         \/ batch.failed /\ FullRecovery,
         Applies(s, next, batch, settled)
  PROVE  Agree
<1>1. "unheard" \notin Faults /\ "lost" \notin Faults
  BY DEF SameRun, RunningAlike
<1>2. ~batch.failed => Same(next, batch.org)
  BY SameButForApps DEF Follows
<1>3. CASE Written(next, batch)
  BY <1>2, <1>3 DEF Written, Agree, SameRun
<1>4. CASE Unavailable(next, batch)
  <2>1. CASE batch.failed
    <3>1. FullRecovery /\ Same(org, doc) /\ ~docError
      BY <2>1 DEF Follows, SameRun
    <3>2. docError' \/ UNCHANGED <<org, doc, docError>>
      BY <1>1, <1>4, <2>1 DEF Unavailable
    <3> QED
      BY <3>1, <3>2 DEF Agree
  <2>2. CASE ~batch.failed
    BY <1>1, <1>4, <2>2 DEF Unavailable, Agree, SameRun
  <2> QED
    BY <2>1, <2>2
<1> QED
  BY <1>1, <1>3, <1>4 DEF Applies, Stopped

LEMMA RestAgrees ==
  ASSUME Same(org, doc), ~docError, UNCHANGED <<org, doc, docError>>
  PROVE  Agree
BY DEF Agree

LEMMA SameFacts ==
  ASSUME NEW s, SameRun(s)
  PROVE  /\ s \in Slot /\ IsPending(s) /\ proposals[s].kind \in ProposalKind
         /\ AboutItsSubject(proposals[s]) /\ proposals[s].status = "PENDING"
         /\ org \in OrgState /\ doc \in OrgState /\ Sound(org) /\ Sound(doc) /\ Same(org, doc)
         /\ doc.members = org.members /\ ActiveIds(doc) = ActiveIds(org)
         /\ OwnerIds(doc) = OwnerIds(org) /\ (\A p : OpenIds(doc, p) = OpenIds(org, p))
         /\ Begin(doc) \in Batch /\ Begin(doc).org = doc /\ ~Begin(doc).failed
<1>1. RunningAlike(s) /\ Same(org, doc)
  BY DEF SameRun
<1>2. /\ s \in Slot /\ IsPending(s) /\ proposals[s].kind \in ProposalKind
      /\ AboutItsSubject(proposals[s]) /\ proposals[s].status = "PENDING"
      /\ org \in OrgState /\ doc \in OrgState /\ Sound(org)
  BY <1>1, AlikeFacts
<1> QED
  BY <1>1, <1>2, SameShape, BeginType

LEMMA RoleAgrees ==
  ASSUME NEW s, SameRun(s), NEW i \in Id, IsOpen(org.members[i].status), NEW role \in Role,
         KeepsAnOwner(org, i, [org.members[i] EXCEPT !.role = role]), NEW settled,
         Applies(s, WithRole(org, i, role), SetMemberRole(Begin(doc), i, role), settled)
  PROVE  Agree
<1> DEFINE next == WithRole(org, i, role)
           batch == SetMemberRole(Begin(doc), i, role)
<1>1. KeepsAnOwner(doc, i, [doc.members[i] EXCEPT !.role = role])
  BY SameFacts DEF KeepsAnOwner
<1>2. Follows(batch, WithRole(doc, i, role))
  BY <1>1, SameFacts, RoleFollows
<1>3. WithRole(doc, i, role) = [next EXCEPT !.apps = doc.apps]
  BY SameFacts, RoleApart
<1>4. next \in OrgState
  <2>1. org \in OrgState
    BY SameFacts
  <2> QED
    BY <2>1, RoleType
<1>5. Applies(s, next, batch, settled)
  OBVIOUS
<1> HIDE DEF next, batch
<1> QED
  BY <1>2, <1>3, <1>4, <1>5, AppliesAgree

LEMMA PromotionAgrees ==
  ASSUME NEW s, SameRun(s), NEW p, NEW i \in ActiveIdsOf(p), NEW settled,
         Applies(s, WithRole(org, i, "OWNER"), SetMemberRole(Begin(doc), i, "OWNER"), settled)
  PROVE  Agree
<1>1. i \in Id /\ IsActive(org.members[i]) /\ IsOpen(org.members[i].status) /\ "OWNER" \in Role
  BY DEF ActiveIdsOf, OpenIds, Role
<1>2. org.members[i] \in Member
  BY <1>1, SameFacts DEF OrgState
<1>3. IsOwner([org.members[i] EXCEPT !.role = "OWNER"])
  BY <1>1, <1>2 DEF IsOwner, IsActive, Member
<1>4. KeepsAnOwner(org, i, [org.members[i] EXCEPT !.role = "OWNER"])
  BY <1>3 DEF KeepsAnOwner
<1> QED
  BY <1>1, <1>4, RoleAgrees

LEMMA RemovalAgrees ==
  ASSUME NEW s, SameRun(s), RemoveOwner(s) PROVE Agree
<1> DEFINE p == proposals[s].about
<1>1. CASE Fails(s)
  BY <1>1, RestAgrees DEF SameRun, Fails
<1>2. ASSUME NEW i \in ActiveIdsOf(p), Cardinality(OwnerIds(org)) >= 2,
             Applies(s, WithRole(org, i, "ADMIN"),
                     SetMemberRole(Begin(doc), i, "ADMIN"), Settled(s, "EXECUTED"))
      PROVE  Agree
  <2>1. i \in Id /\ IsOpen(org.members[i].status) /\ "ADMIN" \in Role
    BY DEF ActiveIdsOf, OpenIds, Role
  <2>2. KeepsAnOwner(org, i, [org.members[i] EXCEPT !.role = "ADMIN"])
    <3>1. Cardinality(OwnerIds(org)) > 1
      BY <1>2, SameFacts, OwnersFinite
    <3> QED
      BY <3>1 DEF KeepsAnOwner
  <2> QED
    BY <1>2, <2>1, <2>2, RoleAgrees
<1>3. ASSUME NEW i \in ActiveIdsOf(p), Cardinality(OwnerIds(org)) >= 2,
             Applies(s, WithoutPlaces(WithStatus(org, i, "REMOVED"), i),
                     SetMemberStatus(Begin(doc), i, "REMOVED"), Settled(s, "EXECUTED"))
      PROVE  Agree
  <2> DEFINE set == WithStatus(org, i, "REMOVED")
             next == WithoutPlaces(set, i)
             batch == SetMemberStatus(Begin(doc), i, "REMOVED")
  <2>1. i \in Id /\ org.members[i].status = "ACTIVE" /\ "REMOVED" \in Status
    BY DEF ActiveIdsOf, OpenIds, Status, IsActive
  <2>2. "REMOVED" \in NextStatus(doc.members[i].status) /\ Cardinality(OwnerIds(doc)) > 1
    BY <1>3, <2>1, SameFacts, OwnersFinite DEF NextStatus
  <2>3. Follows(batch, WithoutPlaces(WithStatus(doc, i, "REMOVED"), i))
    BY <2>1, <2>2, SameFacts, EndFollows
  <2>4. WithoutPlaces(WithStatus(doc, i, "REMOVED"), i) = [next EXCEPT !.apps = doc.apps]
    BY <2>1, SameFacts, EndApart
  <2>5. next \in OrgState
    <3>1. set \in OrgState
      BY <2>1, SameFacts, StatusType
    <3> HIDE DEF set
    <3> QED
      BY <3>1, <2>1, PlacesType
  <2>6. Applies(s, next, batch, Settled(s, "EXECUTED"))
    BY <1>3
  <2> HIDE DEF next, batch
  <2> QED
    BY <2>3, <2>4, <2>5, <2>6, AppliesAgree
<1> QED
  BY <1>1, <1>2, <1>3 DEF RemoveOwner

LEMMA DeletionAgrees ==
  ASSUME NEW s, SameRun(s), DeleteOrg(s) PROVE Agree
<1>1. CASE Fails(s)
  BY <1>1, RestAgrees DEF SameRun, Fails
<1>2. ASSUME NEW settled, Applies(s, Archived(org), ArchiveOrg(Begin(doc)), settled)
      PROVE  Agree
  <2> DEFINE next == Archived(org)
             batch == ArchiveOrg(Begin(doc))
  <2>1. next \in OrgState
    BY SameFacts, ArchivedType
  <2>2. ~batch.failed /\ batch.org = Archived(doc)
    BY SameFacts DEF ArchiveOrg, Reduce, Batch
  <2>3. Archived(doc) = [next EXCEPT !.apps = doc.apps]
    BY SameFacts, ArchivedApart
  <2> HIDE DEF next, batch
  <2> QED
    BY <1>2, <2>1, <2>2, <2>3, AppliesAgree DEF next, batch, Follows
<1> QED
  BY <1>1, <1>2 DEF DeleteOrg

LEMMA FreezeIsOfApps ==
  ASSUME NEW d \in OrgState, NEW a \in App, NEW frozen \in BOOLEAN
  PROVE  LET mirrored == IF d.apps[a] = "none" THEN AddOrgApp(Begin(d), a) ELSE Begin(d)
             batch == SetAppFrozen(mirrored, a, frozen)
         IN  ~batch.failed /\ Same(d, batch.org)
<1> DEFINE state == IF frozen THEN "frozen" ELSE "open"
           mirrored == IF d.apps[a] = "none" THEN AddOrgApp(Begin(d), a) ELSE Begin(d)
           batch == SetAppFrozen(mirrored, a, frozen)
<1>1. ~batch.failed
  BY FreezeReduced
<1>2. mirrored.org = d \/ \E st : mirrored.org = WithApp(d, a, st)
  BY DEF AddOrgApp, Begin, Reduce, Refused
<1>3. batch.org = mirrored.org \/ batch.org = WithApp(mirrored.org, a, state)
  <2> HIDE DEF mirrored, state
  <2> QED
    BY <1>1 DEF SetAppFrozen, Reduce, Refused, state
<1>4. \E apps : mirrored.org = [d EXCEPT !.apps = apps]
  <2>1. d = [d EXCEPT !.apps = d.apps]
    BY DEF OrgState
  <2> HIDE DEF mirrored
  <2> QED
    BY <1>2, <2>1 DEF WithApp
<1>5. \E apps : batch.org = [d EXCEPT !.apps = apps]
  <2>1. PICK apps : mirrored.org = [d EXCEPT !.apps = apps]
    BY <1>4
  <2>2. WithApp(mirrored.org, a, state) = [d EXCEPT !.apps = [apps EXCEPT ![a] = state]]
    <3> HIDE DEF mirrored, state
    <3> QED
      BY <2>1 DEF WithApp, OrgState
  <2> HIDE DEF mirrored, batch, state
  <2> QED
    BY <1>3, <2>1, <2>2
<1>6. Same(d, batch.org)
  <2> HIDE DEF batch
  <2> QED
    BY <1>5, SameButForApps
<1> QED
  BY <1>1, <1>6

LEMMA FreezeAgrees ==
  ASSUME NEW s, SameRun(s), proposals[s].kind \in {"FREEZE_APP", "UNFREEZE_APP"}, FreezeApp(s)
  PROVE  Agree
<1> DEFINE a == proposals[s].about
           frozen == proposals[s].kind = "FREEZE_APP"
           state == IF frozen THEN "frozen" ELSE "open"
           mirrored == IF doc.apps[a] = "none" THEN AddOrgApp(Begin(doc), a) ELSE Begin(doc)
           next == WithApp(org, a, state)
           batch == SetAppFrozen(mirrored, a, frozen)
<1>1. a \in App
  BY SameFacts DEF AboutItsSubject, Subjects
<1>2. CASE Fails(s) \/ NothingToDo(s)
  BY <1>2, RestAgrees DEF SameRun, Fails, NothingToDo
<1>3. CASE Applies(s, next, batch, Settled(s, "EXECUTED"))
  <2>1. ~batch.failed /\ Same(doc, batch.org)
    <3>1. frozen \in BOOLEAN /\ doc \in OrgState
      BY SameFacts
    <3> HIDE DEF a, frozen
    <3> QED
      BY <1>1, <3>1, FreezeIsOfApps
  <2>2. Same(next, batch.org)
    <3>1. \A apps : [doc EXCEPT !.apps = apps] = [next EXCEPT !.apps = apps]
      BY SameFacts DEF Same, OrgState, WithApp
    <3>2. next \in OrgState
      <4>1. org \in OrgState /\ state \in {"none", "open", "frozen"}
        BY SameFacts
      <4> HIDE DEF state
      <4> QED
        BY <1>1, <4>1, AppType
    <3> HIDE DEF next, batch
    <3> QED
      BY <2>1, <3>1, <3>2, SameButForApps DEF Same
  <2> HIDE DEF next, batch
  <2>3. "unheard" \notin Faults /\ "lost" \notin Faults
    BY DEF SameRun, RunningAlike
  <2> QED
    BY <1>3, <2>1, <2>2, <2>3 DEF Applies, Written, Unavailable, Stopped, Agree, SameRun
<1> QED
  BY <1>2, <1>3 DEF FreezeApp

\* A new owner is invited and accepts at once: only the room for them may be missing.
LEMMA JoinAgrees ==
  ASSUME NEW s, SameRun(s), proposals[s].kind = "RECOVER",
         NEW b \in Batch, ~b.failed, NEW left \in OrgState, b.org \in OrgState,
         b.org = [left EXCEPT !.apps = doc.apps],
         Cardinality(ActiveIds(b.org)) < MaxActive \/ Cardinality(ActiveIds(doc)) >= MaxActive,
         NEW new \in Id, NEW p \in Person, left.members[new].status = "NONE", OpenIds(left, p) = {},
         Applies(s, WithRecord(left, new, Joined(p, "OWNER")), Join(b, new, p, "OWNER"),
                 Settled(s, "EXECUTED"))
  PROVE  Agree
<1> DEFINE next == WithRecord(left, new, Joined(p, "OWNER"))
           first == InviteMember(b, new, p, "OWNER")
           batch == Join(b, new, p, "OWNER")
<1>1. Same(left, b.org) /\ "OWNER" \in Role
  BY SameButForApps DEF Role
<1>2. b.org.members = left.members /\ OpenIds(b.org, p) = {}
  BY <1>1, SameShape
<1>3. next \in OrgState
  BY <1>1, JoinedType, RecordType
<1>4. CASE Cardinality(ActiveIds(b.org)) < MaxActive
  <2>1. Follows(batch, WithRecord(b.org, new, Joined(p, "OWNER")))
    BY <1>1, <1>2, <1>4, JoinFollows
  <2>2. WithRecord(b.org, new, Joined(p, "OWNER")) = [next EXCEPT !.apps = doc.apps]
    <3>1. b.org.apps = doc.apps
      BY DEF OrgState
    <3> DEFINE m == Joined(p, "OWNER")
    <3> HIDE DEF m
    <3>2. WithRecord(b.org, new, m) = [WithRecord(left, new, m) EXCEPT !.apps = b.org.apps]
      <4>1. Same(left, b.org) /\ left \in OrgState /\ b.org \in OrgState
        BY <1>1
      <4> QED
        BY <4>1 DEF Same, WithRecord, OrgState
    <3> QED
      BY <3>1, <3>2 DEF m
  <2> HIDE DEF next, batch
  <2>3. Applies(s, next, batch, Settled(s, "EXECUTED"))
    BY DEF next, batch
  <2> QED
    BY <1>3, <2>1, <2>2, <2>3, AppliesAgree
<1>5. CASE Cardinality(ActiveIds(doc)) >= MaxActive
  <2>1. FullRecovery
    BY <1>5, SameFacts DEF FullRecovery
  <2>2. batch.failed \/ Cardinality(ActiveIds(b.org)) < MaxActive
    <3>1. ActiveIds(first.org) = ActiveIds(b.org)
      <4>1. b.org.members[new].status = "NONE" /\ OpenIds(b.org, p) = {}
        BY <1>2
      <4> QED
        BY <1>1, <4>1, JoinInvites
    <3> HIDE DEF first
    <3>2. SetMemberStatus(first, new, "ACTIVE").failed \/ Cardinality(ActiveIds(b.org)) < MaxActive
      BY <3>1 DEF SetMemberStatus, Reduce, Refused
    <3> QED
      BY <3>2 DEF Join, first
  <2> HIDE DEF next, batch
  <2>3. Applies(s, next, batch, Settled(s, "EXECUTED"))
    BY DEF next, batch
  <2> QED
    BY <1>3, <1>4, <2>1, <2>2, <2>3, AppliesAgree
<1> QED
  BY <1>4, <1>5

LEMMA ActivesFinite ==
  ASSUME NEW o PROVE Cardinality(ActiveIds(o)) \in Nat
<1>1. IsFiniteSet(Id) /\ ActiveIds(o) \subseteq Id
  BY RecordAssumption DEF ActiveIds
<1> QED
  BY <1>1, FS_Subset, FS_CardinalityType

LEMMA RecoveryAgrees ==
  ASSUME NEW s, SameRun(s), proposals[s].kind = "RECOVER", Recover(s)
  PROVE  Agree
<1> DEFINE p == proposals[s].about
<1>1. p \in Person /\ Begin(doc) \in Batch /\ Begin(doc).org = doc /\ ~Begin(doc).failed
  BY SameFacts DEF AboutItsSubject
<1>2. CASE Fails(s) \/ NothingToDo(s)
  BY <1>2, RestAgrees DEF SameRun, Fails, NothingToDo
<1>3. CASE \E i \in ActiveIdsOf(p) :
             Applies(s, WithRole(org, i, "OWNER"), SetMemberRole(Begin(doc), i, "OWNER"),
                     Settled(s, "EXECUTED"))
  BY <1>3, PromotionAgrees
<1>4. Cardinality(ActiveIds(doc)) < MaxActive \/ Cardinality(ActiveIds(doc)) >= MaxActive
  BY RecordAssumption, ActivesFinite
<1>5. ASSUME NEW new \in NewIds, OpenIds(org, p) = {},
             Applies(s, WithRecord(org, new, Joined(p, "OWNER")), Join(Begin(doc), new, p, "OWNER"),
                     Settled(s, "EXECUTED"))
      PROVE  Agree
  <2>1. new \in Id /\ org.members[new].status = "NONE"
    BY DEF NewIds, FreshIds
  <2>2. doc = [org EXCEPT !.apps = doc.apps]
    BY SameFacts DEF Same
  <2> QED
    BY <1>1, <1>4, <1>5, <2>1, <2>2, SameFacts, JoinAgrees
<1>6. ASSUME NEW new \in NewIds, NEW old \in OpenIds(org, p) \ ActiveIdsOf(p),
             Applies(s, WithRecord(WithStatus(org, old, "REVOKED"), new, Joined(p, "OWNER")),
                     Join(SetMemberStatus(Begin(doc), old, "REVOKED"), new, p, "OWNER"),
                     Settled(s, "EXECUTED"))
      PROVE  Agree
  <2> DEFINE left == WithStatus(org, old, "REVOKED")
             b == SetMemberStatus(Begin(doc), old, "REVOKED")
  <2>1. /\ new \in Id /\ org.members[new].status = "NONE"
        /\ old \in Id /\ org.members[old].status = "INVITED" /\ "REVOKED" \in Status
        /\ new # old
    BY DEF NewIds, FreshIds, OpenIds, ActiveIdsOf, IsOpen, IsActive, Status
  <2>2. left \in OrgState /\ OpenIds(left, p) = {}
    <3>1. org \in OrgState /\ Sound(org) /\ old \in OpenIds(org, p)
      BY SameFacts
    <3>2. left \in OrgState
      BY <2>1, <3>1, StatusType
    <3> HIDE DEF p
    <3>3. OpenIds(left, p) = {}
      BY <1>1, <3>1, RevokedIsClosed
    <3> QED
      BY <3>2, <3>3
  <2>3. left.members[new].status = "NONE"
    BY <2>1, SameFacts DEF WithStatus, OrgState
  <2>4. Follows(b, WithStatus(doc, old, "REVOKED")) /\ b \in Batch
    <3>1. ~IsActive(doc.members[old]) /\ "REVOKED" \in NextStatus(doc.members[old].status)
      BY <2>1, SameFacts DEF IsActive, NextStatus
    <3>2. Follows(b, WithoutPlaces(WithStatus(doc, old, "REVOKED"), old))
      BY <2>1, <3>1, SameFacts, EndFollows DEF IsOwner, IsActive
    <3>3. WithoutPlaces(WithStatus(doc, old, "REVOKED"), old) = WithStatus(doc, old, "REVOKED")
      BY <2>1, <3>1, SameFacts, NothingToUnplace
    <3>4. b \in Batch
      BY <1>1, <2>1, SetStatusKeeps DEF Keeps
    <3> QED
      BY <3>2, <3>3, <3>4
  <2>5. b.org = [left EXCEPT !.apps = doc.apps] /\ b.org \in OrgState /\ ~b.failed
    BY <2>1, <2>4, SameFacts, StatusApart DEF Follows, Batch
  <2>6. ActiveIds(b.org) = ActiveIds(doc)
    <3>1. b.org.members = [doc.members EXCEPT ![old] = [doc.members[old] EXCEPT !.status = "REVOKED"]]
      <4>1. doc \in OrgState /\ b.org = WithStatus(doc, old, "REVOKED")
        BY <2>4, SameFacts DEF Follows
      <4> HIDE DEF b
      <4> QED
        BY <2>1, <4>1 DEF WithStatus, OrgState
    <3>2. doc.members \in [Id -> Member] /\ doc.members[old].status = "INVITED"
      BY <2>1, SameFacts DEF OrgState
    <3>3. \A j \in Id : IsActive(b.org.members[j]) <=> IsActive(doc.members[j])
      BY <2>1, <3>1, <3>2 DEF IsActive, Member
    <3> QED
      BY <3>3 DEF ActiveIds
  <2>7. Applies(s, WithRecord(left, new, Joined(p, "OWNER")), Join(b, new, p, "OWNER"),
                Settled(s, "EXECUTED"))
    BY <1>6
  <2> HIDE DEF left, b
  <2> QED
    BY <1>1, <1>4, <2>1, <2>2, <2>3, <2>4, <2>5, <2>6, <2>7, JoinAgrees
<1> QED
  BY <1>2, <1>3, <1>5, <1>6 DEF Recover

LEMMA ExecuteAgrees ==
  ASSUME NEW s, SameRun(s), Execute(s) PROVE Agree
<1>1. CASE proposals[s].kind = "ADD_OWNER"
  <2>1. CASE Fails(s)
    BY <2>1, RestAgrees DEF SameRun, Fails
  <2>2. CASE ~Fails(s)
    BY <1>1, <2>2, PromotionAgrees DEF Execute, AddOwner
  <2> QED
    BY <2>1, <2>2
<1>2. CASE proposals[s].kind = "REMOVE_OWNER"
  BY <1>2, RemovalAgrees DEF Execute
<1>3. CASE proposals[s].kind = "DELETE_ORG"
  BY <1>3, DeletionAgrees DEF Execute
<1>4. CASE proposals[s].kind = "RECOVER"
  BY <1>4, RecoveryAgrees DEF Execute
<1>5. CASE proposals[s].kind \in {"FREEZE_APP", "UNFREEZE_APP"}
  BY <1>5, FreezeAgrees DEF Execute
<1> QED
  BY <1>1, <1>2, <1>3, <1>4, <1>5, SameFacts DEF ProposalKind

LEMMA RunAgrees ==
  ASSUME UnrefusedInv, NEW s \in Slot, RunProposal(s) PROVE Agree
<1>1. CASE Disarm(s) \/ Rearm(s, now) \/ Fails(s)
  BY <1>1, RestAgrees DEF UnrefusedInv, Disarm, Rearm, Fails
<1>2. CASE Met(s) /\ Matured(s, now) /\ Writable /\ Execute(s)
  <2>1. SameRun(s)
    BY <1>2 DEF SameRun, RunningAlike, Running, AlikeInv, UnrefusedInv, RunProposal
  <2> QED
    BY <1>2, <2>1, ExecuteAgrees
<1> QED
  BY <1>1, <1>2 DEF RunProposal

LEMMA AppsAgree ==
  ASSUME UnrefusedInv, NEW a \in App, AttachApp(a) \/ MirrorApp(a) \/ DetachApp(a)
  PROVE  Agree
<1>1. org \in OrgState /\ doc \in OrgState /\ Same(org, doc) /\ ~docError' 
  BY DEF UnrefusedInv, AlikeInv, GovInv, Halves, Sound, AttachApp, MirrorApp, DetachApp
<1>2. /\ org' = org \/ \E st : org' = WithApp(org, a, st)
      /\ doc' = doc \/ \E st : doc' = WithApp(doc, a, st)
  BY <1>1, BeginType DEF AttachApp, MirrorApp, DetachApp, AddOrgApp, Reduce
<1>3. Same(org', doc')
  BY <1>1, <1>2 DEF Same, OrgState, WithApp
<1> QED
  BY <1>1, <1>3 DEF Agree

LEMMA StepAgrees ==
  ASSUME UnrefusedInv, [GovNext]_vars PROVE Agree
<1>1. CASE UNCHANGED <<org, doc, docError>>
  BY <1>1, RestAgrees DEF UnrefusedInv
<1>2. CASE Next
  <2>1. TypeOK /\ Sound(org)
    BY DEF UnrefusedInv, AlikeInv, GovInv, Halves, TypeOK, Sound
  <2>2. CASE Mutates
    <3>1. PICK next, batch : Change(next, batch) /\ WriteDocument(next, batch)
      BY <2>2 DEF Mutates
    <3>2. next \in OrgState /\ Follows(batch, [next EXCEPT !.apps = doc.apps])
      BY <3>1 DEF Change, Sound, UnrefusedInv
    <3>3. Same(next, batch.org) /\ ~batch.failed
      BY <3>2, SameButForApps DEF Follows
    <3>4. "unheard" \notin Faults /\ "lost" \notin Faults
      BY DEF UnrefusedInv, AlikeInv
    <3> QED
      BY <3>1, <3>3, <3>4 DEF WriteDocument, Written, Unavailable, Stopped, Agree, UnrefusedInv
  <2> QED
    BY <1>1, <1>2, <2>1, <2>2, NextMutates
<1>3. CASE Propose \/ Recovery
  BY <1>1, <1>3 DEF Propose, Recovery, ProposeOrgChange, StartOrgRecovery, CreateProposal,
                    DomainVerified, DomainLapses, memberVars
<1>4. CASE \E p \in Person, s \in Slot :
             ApproveOrgProposal(p, s) \/ CancelOrgProposal(p, s) \/ ExecuteOrgProposal(p, s)
  BY <1>1, <1>4, RunAgrees DEF ApproveOrgProposal, CancelOrgProposal, ExecuteOrgProposal, memberVars
<1>5. CASE Sweep \/ SweepStops
  <2>1. CASE SweepBegins \/ SweepTurns \/ SweepEnds \/ SweepStops
    BY <1>1, <2>1 DEF SweepBegins, SweepTurns, SweepEnds, SweepStops, memberVars
  <2>2. CASE \E s \in Slot : SweepDue(s) \/ SweepStuck(s)
    BY <1>1, <2>2, RunAgrees DEF SweepDue, SweepStuck, Rearm, Unsweepable, Expire
  <2> QED
    BY <1>5, <2>1, <2>2 DEF Sweep
<1>6. CASE \E a \in App : AttachApp(a) \/ MirrorApp(a) \/ DetachApp(a)
  BY <1>6, AppsAgree
<1>7. CASE Tick \/ UNCHANGED vars
  BY <1>1, <1>7 DEF Tick, vars, memberVars
<1> QED
  BY <1>2, <1>3, <1>4, <1>5, <1>6, <1>7 DEF GovNext

LEMMA SameStart == ASSUME Faults \subseteq {"unwritten"} PROVE GovInit => SameInv /\ ~docError
<1> SUFFICES ASSUME GovInit PROVE SameInv /\ ~docError
  OBVIOUS
<1>1. doc = org /\ ~docError /\ org \in OrgState
  BY MembersInvInit DEF GovInit, MembersInv, TypeOK
<1>2. Same(org, doc)
  BY <1>1 DEF Same, OrgState
<1> QED
  BY <1>1, <1>2, GovInvInit, StartAlike DEF SameInv, AlikeInv

\* An operation's error stays in the document's history.
LEMMA AppliesStays ==
  ASSUME docError, NEW s, NEW next, NEW batch, NEW settled, Applies(s, next, batch, settled)
  PROVE  docError'
BY DEF Applies, Written, Unavailable, Stopped

LEMMA ErrorsStay ==
  ASSUME TypeOK, Sound(org), docError, [GovNext]_vars
  PROVE  docError'
<1>1. CASE Next
  BY <1>1, NextMutates DEF Mutates, WriteDocument, Written, Unavailable, Stopped
<1>2. CASE Propose \/ Recovery
  BY <1>2 DEF Propose, Recovery, ProposeOrgChange, StartOrgRecovery, CreateProposal,
              DomainVerified, DomainLapses, memberVars
<1>3. ASSUME NEW s, RunProposal(s)
      PROVE  docError'
  <2>1. CASE Disarm(s) \/ Rearm(s, now) \/ Fails(s) \/ NothingToDo(s)
    BY <2>1 DEF Disarm, Rearm, Fails, NothingToDo
  <2>2. ASSUME ~Fails(s), ~NothingToDo(s), Execute(s)
        PROVE  \E next, batch, settled : Applies(s, next, batch, settled)
    <3>1. AddOwner(s) \/ RemoveOwner(s) \/ DeleteOrg(s) \/ Recover(s) \/ FreezeApp(s)
      BY <2>2 DEF Execute
    <3>2. ASSUME RemoveOwner(s) PROVE \E next, batch, settled : Applies(s, next, batch, settled)
      BY <2>2, <3>2 DEF RemoveOwner
    <3> QED
      BY <2>2, <3>1, <3>2 DEF AddOwner, DeleteOrg, Recover, FreezeApp
  <2> QED
    BY <1>3, <2>1, <2>2, AppliesStays DEF RunProposal
<1>4. CASE \E p \in Person, s \in Slot :
             ApproveOrgProposal(p, s) \/ CancelOrgProposal(p, s) \/ ExecuteOrgProposal(p, s)
  BY <1>3, <1>4 DEF ApproveOrgProposal, CancelOrgProposal, ExecuteOrgProposal, memberVars
<1>5. CASE Sweep \/ SweepStops
  BY <1>3, <1>5 DEF Sweep, SweepBegins, SweepTurns, SweepEnds, SweepStops, SweepDue, SweepStuck,
                    Rearm, Unsweepable, Expire, memberVars
<1>6. CASE \E a \in App : AttachApp(a) \/ MirrorApp(a) \/ DetachApp(a)
  BY <1>6 DEF AttachApp, MirrorApp, DetachApp
<1>7. CASE Tick \/ UNCHANGED vars
  BY <1>7 DEF Tick, vars, memberVars
<1> QED
  BY <1>1, <1>2, <1>4, <1>5, <1>6, <1>7 DEF GovNext

LEMMA SameKept ==
  SameInv /\ [GovNext]_vars => SameInv' /\ (docError' => docError \/ FullRecovery)
<1> SUFFICES ASSUME SameInv, [GovNext]_vars
             PROVE  SameInv' /\ (docError' => docError \/ FullRecovery)
  OBVIOUS
<1>1. AlikeInv'
  BY StepTogether, GovInvKept DEF SameInv, AlikeInv, Together
<1>2. CASE ~docError
  BY <1>1, <1>2, StepAgrees DEF SameInv, UnrefusedInv, Agree
<1>3. CASE docError
  <2>1. docError' 
    BY <1>3, ErrorsStay DEF SameInv, AlikeInv, GovInv, Halves, TypeOK, Sound
  <2> QED
    BY <1>1, <1>3, <2>1 DEF SameInv
<1> QED
  BY <1>2, <1>3

\* Until an operation is refused the two halves differ in apps alone.
THEOREM HalvesAreTheSame ==
  ASSUME Faults \subseteq {"unwritten"}
  PROVE  GovSpec => [](~docError => Same(org, doc))
<1>1. GovInit => SameInv
  BY SameStart
<1>2. SameInv /\ [GovNext]_vars => SameInv'
  BY SameKept
<1>3. SameInv => (~docError => Same(org, doc))
  BY DEF SameInv
<1> QED
  BY <1>1, <1>2, <1>3, PTL DEF GovSpec

\* What the document refuses first is the recovery of an organisation that has no room
\* for its new owner (RECOVER in proposal-kinds.ts, setMemberStatusOperation's cap).
THEOREM OnlyRecoveriesAreRefused ==
  ASSUME Faults \subseteq {"unwritten"}
  PROVE  GovSpec => [][docError' => docError \/ FullRecovery]_vars
<1>1. GovInit => SameInv
  BY SameStart
<1>2. SameInv /\ [GovNext]_vars => SameInv' /\ [docError' => docError \/ FullRecovery]_vars
  BY SameKept
<1> QED
  BY <1>1, <1>2, PTL DEF GovSpec

\* Where nobody recovers an organisation no proposal and no mutation is refused.
THEOREM NoProposalIsRefused ==
  ASSUME Faults \subseteq {"unwritten"}, "RECOVER" \notin Kinds
  PROVE  GovSpec => []DocumentNeverRefuses
<1> DEFINE Inv == SameInv /\ ~docError
<1>1. GovInit => Inv
  BY SameStart
<1>2. Inv /\ [GovNext]_vars => Inv'
  <2> SUFFICES ASSUME SameInv, ~docError, [GovNext]_vars PROVE SameInv' /\ ~docError'
    OBVIOUS
  <2>1. ~FullRecovery
    <3> SUFFICES ASSUME NEW s \in Slot, IsPending(s), proposals[s].kind = "RECOVER" PROVE FALSE
      BY DEF FullRecovery
    <3>1. AboutItsSubject(proposals[s]) /\ proposals[s].status = "PENDING"
      BY DEF SameInv, AlikeInv, GovInv, Rows, RowOK, IsPending
    <3> QED
      BY <3>1 DEF AboutItsSubject
  <2> QED
    BY <2>1, SameKept
<1>3. Inv => DocumentNeverRefuses
  BY DEF DocumentNeverRefuses
<1> QED
  BY <1>1, <1>2, <1>3, PTL DEF GovSpec
==============================================================================
