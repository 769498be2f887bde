----------------------------- MODULE InviteLinks -----------------------------
(***************************************************************************)
(* One invite link of an organisation and the people who join through it.  *)
(* The link is read before the organisation's lock is taken, looked at as  *)
(* read, used up by a conditional update with the member's row, and given  *)
(* back with the row's undo when the document cannot be written.           *)
(***************************************************************************)
EXTENDS FiniteSets, Naturals

CONSTANTS Joiner,      \* wallets that hold the token
          MaxUses,     \* max_uses of the link
          RoomFor,     \* MAX_ACTIVE_MEMBERS
          MaxLinkFaults, \* bound: failing document writes, failing undos and stops
          MaxLeaves    \* bound: members who leave

ASSUME InviteLinkAssumption == MaxUses \in Nat

VARIABLES
  link,     \* the row: uses and revoked
  outdated, \* expires_at has passed
  joiner,   \* each request: idle, waiting with the link as it was read, then under the lock
  place,    \* each wallet's open membership row: "none", "invited", "lapsed" or "active"
  stood,    \* what "existing" was when the joiner's row was written, for the undo
  joined,   \* rows written through the link and not undone (history)
  linkFaults, leaves

linkUseVars == <<link, outdated, joiner, place, stood, joined, linkFaults, leaves>>

Away == [step |-> "idle"]

InviteLinkInit ==
  /\ link = [uses |-> 0, revoked |-> FALSE]
  /\ outdated = FALSE
  /\ joiner = [j \in Joiner |-> Away]
  /\ place \in [Joiner -> {"none", "invited", "lapsed"}]
  /\ stood = [j \in Joiner |-> "none"]
  /\ joined = 0
  /\ linkFaults = 0 /\ leaves = 0

LinkLocked == \E j \in Joiner : joiner[j].step \in {"document", "undo"}

GoesAway(j) == joiner' = [joiner EXCEPT ![j] = Away]

\* inviteLinkByHash, before the lock
ReadLink(j) ==
  /\ joiner[j].step = "idle"
  /\ joiner' = [joiner EXCEPT ![j] = [step |-> "waiting", revoked |-> link.revoked]]
  /\ UNCHANGED <<link, outdated, place, stood, joined, linkFaults, leaves>>

ActiveRows == {j \in Joiner : place[j] = "active"}

\* useInviteLink
Usable == ~link.revoked /\ ~outdated /\ link.uses < MaxUses

\* up to the transaction: the row replaces an invite that expired.  Nothing else that
\* holds the organisation's lock runs in between.
JoinThroughLink(j) ==
  /\ joiner[j].step = "waiting" /\ ~LinkLocked
  /\ IF /\ ~joiner[j].revoked /\ ~outdated
        /\ place[j] \in {"none", "lapsed"} /\ Cardinality(ActiveRows) < RoomFor
        /\ Usable
       THEN /\ link' = [link EXCEPT !.uses = @ + 1]
            /\ stood' = [stood EXCEPT ![j] = place[j]]
            /\ place' = [place EXCEPT ![j] = "active"]
            /\ joined' = joined + 1
            /\ joiner' = [joiner EXCEPT ![j].step = "document"]
       ELSE GoesAway(j) /\ UNCHANGED <<link, place, stood, joined>>
  /\ UNCHANGED <<outdated, linkFaults, leaves>>

JoinIsWritten(j) ==
  /\ joiner[j].step = "document"
  /\ GoesAway(j)
  /\ UNCHANGED <<link, outdated, place, stood, joined, linkFaults, leaves>>

JoinIsRefused(j) ==
  /\ joiner[j].step = "document" /\ linkFaults < MaxLinkFaults
  /\ linkFaults' = linkFaults + 1
  /\ joiner' = [joiner EXCEPT ![j].step = "undo"]
  /\ UNCHANGED <<link, outdated, place, stood, joined, leaves>>

\* Mutant: the member's row goes, the use stays.
ReleaseNoUse == UNCHANGED link

\* releaseInviteLinkUse, whatever became of the link meanwhile
ReleaseUse == link' = [link EXCEPT !.uses = IF @ > 0 THEN @ - 1 ELSE 0]

\* one transaction
UndoJoin(j) ==
  /\ joiner[j].step = "undo"
  /\ place' = [place EXCEPT ![j] = stood[j]]
  /\ ReleaseUse
  /\ joined' = joined - 1
  /\ GoesAway(j)
  /\ UNCHANGED <<outdated, stood, linkFaults, leaves>>

\* the undo fails, or the process stops: the row and the use both stay
LinkStops ==
  /\ linkFaults < MaxLinkFaults /\ \E j \in Joiner : joiner[j].step # "idle"
  /\ linkFaults' = linkFaults + 1
  /\ joiner' = [j \in Joiner |-> Away]
  /\ UNCHANGED <<link, outdated, place, stood, joined, leaves>>

\* revokeOrgInviteLink, under the lock
RevokeLink ==
  /\ ~LinkLocked /\ ~link.revoked
  /\ link' = [link EXCEPT !.revoked = TRUE]
  /\ UNCHANGED <<outdated, joiner, place, stood, joined, linkFaults, leaves>>

LinkExpires ==
  /\ ~outdated
  /\ outdated' = TRUE
  /\ UNCHANGED <<link, joiner, place, stood, joined, linkFaults, leaves>>

\* a pending invite expires
InviteLapses(j) ==
  /\ place[j] = "invited"
  /\ place' = [place EXCEPT ![j] = "lapsed"]
  /\ UNCHANGED <<link, outdated, joiner, stood, joined, linkFaults, leaves>>

\* by whatever handler, under the lock; the use is not given back
MemberLeaves(j) ==
  /\ ~LinkLocked /\ place[j] = "active" /\ leaves < MaxLeaves
  /\ leaves' = leaves + 1
  /\ place' = [place EXCEPT ![j] = "none"]
  /\ UNCHANGED <<link, outdated, joiner, stood, joined, linkFaults>>

InviteLinkNext ==
  \/ \E j \in Joiner :
       \/ ReadLink(j) \/ JoinThroughLink(j) \/ JoinIsWritten(j) \/ JoinIsRefused(j)
       \/ UndoJoin(j) \/ InviteLapses(j) \/ MemberLeaves(j)
  \/ LinkStops \/ RevokeLink \/ LinkExpires

InviteLinkSpec == InviteLinkInit /\ [][InviteLinkNext]_linkUseVars

\* A link admits as many people as it was made for, however many hold its token, race for
\* the last use, fail and give it back, or leave: its uses are the joins that stand.
UsesAreTheJoins == link.uses = joined /\ joined <= MaxUses

\* Once a link is revoked nobody joins through it, also not a caller who read it before.
RevokedLinksAdmitNobody ==
  [][\A j \in Joiner : link.revoked => ~(place[j] # "active" /\ place'[j] = "active")]_linkUseVars
==============================================================================
