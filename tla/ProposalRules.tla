---------------------------- MODULE ProposalRules ----------------------------
(***************************************************************************)
(* The rules of core/proposals.ts: how long a proposal waits, how many     *)
(* owners must consent to it, and whose consent counts.  Pure definitions; *)
(* time is in ticks.                                                       *)
(***************************************************************************)
EXTENDS Integers, FiniteSets

CONSTANTS TimelockDelay,  \* RENOWN_ORG_TIMELOCK_SECONDS (48 hours)
          RecoveryDelay,  \* RENOWN_ORG_RECOVERY_SECONDS (7 days)
          ProposalTTL     \* PROPOSAL_TTL_MS (14 days)

ASSUME RulesAssumption ==
  /\ TimelockDelay \in Nat \ {0}
  /\ RecoveryDelay \in Nat \ {0}
  /\ ProposalTTL \in Nat \ {0}

ProposalKind == {"ADD_OWNER", "REMOVE_OWNER", "DELETE_ORG", "RECOVER",
                 "FREEZE_APP", "UNFREEZE_APP"}

\* executableAt when it is null
Never == -1

MinOf(a, b) == IF a <= b THEN a ELSE b

MaxOf(a, b) == IF a >= b THEN a ELSE b

DelayOf(kind) ==
  CASE kind \in {"FREEZE_APP", "UNFREEZE_APP"} -> 0
    [] kind = "RECOVER" -> RecoveryDelay
    [] OTHER -> TimelockDelay

ThresholdFor(kind, owners) == IF kind = "RECOVER" THEN 0 ELSE MinOf(2, owners)

\* Mutant: the threshold stored with the proposal is the last word.
StoredThreshold(pr, owners) == IF pr.kind = "RECOVER" THEN 0 ELSE pr.threshold

EffectiveThreshold(pr, owners) ==
  IF pr.kind = "RECOVER" THEN 0
  ELSE MaxOf(pr.threshold, ThresholdFor(pr.kind, Cardinality(owners)))

\* Mutant: an approval outlives the approver's ownership.
AllApprovals(pr, owners) == pr.approvals

ValidApprovals(pr, owners) == pr.approvals \cap owners

ThresholdMet(pr, owners) ==
  Cardinality(ValidApprovals(pr, owners)) >= EffectiveThreshold(pr, owners)

ExecutableAtFor(pr, owners, time, metBefore) ==
  IF ~ThresholdMet(pr, owners) THEN Never
  ELSE IF pr.executableAt # Never /\ metBefore THEN pr.executableAt
  ELSE MaxOf(pr.createdAt + DelayOf(pr.kind), time)

ExpiresAt(pr) == pr.createdAt + ProposalTTL
==============================================================================
