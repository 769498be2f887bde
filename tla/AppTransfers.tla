---------------------------- MODULE AppTransfers ----------------------------
(***************************************************************************)
(* One app and everything that records who owns it: the renown-stats       *)
(* profile index, org_apps, the renown-workload identity, the publisherDid *)
(* of the profile document, and the documents of the organisations that    *)
(* list it.  upsertAppProfile claims it, an offer and its acceptance move  *)
(* it; the move writes the five places one after another and undoes what   *)
(* it wrote when a later write fails.                                      *)
(*                                                                         *)
(* The app's lock is held from the first write of a claim or a move to its *)
(* last: `work` is what its holder has still to do.  A move also holds the *)
(* locks of the organisations it is between.  Decided transfers are read   *)
(* by nothing and are left out; a unique index allows one PENDING row.     *)
(***************************************************************************)
EXTENDS FiniteSetsExt

CONSTANTS Publisher,  \* persons
          PubOrg,     \* organisations
          NoOwner,
          Mishaps     \* of "fail", "unheard", "stop": see Write and Crash

ASSUME AppAssumption == /\ Publisher \cap PubOrg = {}
                        /\ NoOwner \notin Publisher \cup PubOrg

Owner == Publisher \cup PubOrg

VARIABLES
  profile,   \* the publisher in the profile index, NoOwner before the claim
  orgApp,    \* the org_apps row: an organisation or NoOwner
  frozen,    \* that row's flag
  workload,  \* the owner of the workload identity, NoOwner when none is registered
  named,     \* the publisherDid of the profile document
  listed,    \* the organisations whose document lists the app
  live,      \* the organisations neither archived nor taken down
  offer,     \* the PENDING transfer
  work,      \* what the holder of the app's lock is doing
  torn       \* a stop, a failed undo or an unheard write has happened (history)

appVars == <<profile, orgApp, frozen, workload, named, listed, live, offer, work, torn>>

NoOffer == [from |-> NoOwner, to |-> NoOwner, due |-> FALSE]
Offers == [from : Owner, to : Owner, due : BOOLEAN]
Idle == [op |-> "idle", from |-> NoOwner, to |-> NoOwner, at |-> 0, done |-> {}]

\* At most one write is lost or misreported at each step; `reported` is what the caller sees.
Write(reported, landed) ==
  \/ reported /\ landed
  \/ ~reported /\ ~landed /\ "fail" \in Mishaps
  \/ ~reported /\ landed /\ "unheard" \in Mishaps

AppInit ==
  /\ profile = NoOwner /\ orgApp = NoOwner /\ frozen = FALSE
  /\ workload \in Owner \cup {NoOwner}
  /\ named = NoOwner /\ listed = {}
  /\ live = PubOrg
  /\ offer = NoOffer
  /\ work = Idle
  /\ torn = FALSE

--------------------------------------------------------------------------------
(* upsertAppProfile: only the first claim and the repair change who owns the app.   *)
(* coversApp, which needs a live organisation, is the caller's own authority.       *)

MayClaim(x) ==
  /\ profile = NoOwner /\ workload = x
  /\ orgApp \in (IF x \in PubOrg THEN {NoOwner, x} ELSE {NoOwner})
  /\ x \in PubOrg => x \in live
  /\ ~frozen

ClaimForPerson(x) ==
  /\ work = Idle /\ MayClaim(x) /\ x \in Publisher
  /\ \E reported, landed \in BOOLEAN :
       /\ Write(reported, landed)
       /\ profile' = IF landed THEN x ELSE NoOwner
       /\ named' = IF landed THEN x ELSE named
  /\ UNCHANGED <<orgApp, frozen, workload, listed, live, offer, work, torn>>

\* attachApp arbitrates between processes: the row is inserted only for a live organisation
AttachForClaim(x) ==
  /\ work = Idle /\ MayClaim(x) /\ x \in PubOrg
  /\ \E reported, landed \in BOOLEAN :
       /\ Write(reported, landed)
       /\ orgApp' = IF landed THEN x ELSE orgApp
       /\ work' = IF reported
                    THEN [Idle EXCEPT !.op = "claim", !.to = x,
                                      !.done = IF orgApp = NoOwner THEN {2} ELSE {}]
                    ELSE Idle
  /\ UNCHANGED <<profile, frozen, workload, named, listed, live, offer, torn>>

\* the claim, then the organisation document's mirror, whose failure is only logged
ClaimForOrg ==
  /\ work.op = "claim"
  /\ profile' = work.to /\ named' = work.to
  /\ listed' \in {listed, IF 2 \in work.done THEN listed \cup {work.to} ELSE listed}
  /\ work' = Idle
  /\ UNCHANGED <<orgApp, frozen, workload, live, offer, torn>>

\* the claim fails: undoAttach, which may fail too
ClaimFails ==
  /\ work.op = "claim" /\ Mishaps # {}
  /\ \E landed, undone \in BOOLEAN :
       /\ Write(FALSE, landed)
       /\ profile' = IF landed THEN work.to ELSE profile
       /\ named' = IF landed THEN work.to ELSE named
       /\ orgApp' = IF undone /\ 2 \in work.done THEN NoOwner ELSE orgApp
       /\ torn' = (torn \/ landed)
  /\ work' = Idle
  /\ UNCHANGED <<frozen, workload, listed, live, offer>>

\* a profile that names an organisation whose org_apps row is gone
Repair(x) ==
  /\ work = Idle /\ x \in PubOrg \cap live
  /\ profile = x /\ orgApp = NoOwner /\ workload = x
  /\ orgApp' = x
  /\ listed' \in {listed, listed \cup {x}}
  /\ UNCHANGED <<profile, frozen, workload, named, live, offer, work, torn>>

--------------------------------------------------------------------------------
(* Offers.                                                                          *)

\* cancelStaleTransfers: an offer of a party that no longer owns the app is cancelled
AfterCancelStale(owner) == IF offer.from = owner THEN offer ELSE NoOffer

CreateTransfer(from, to) ==
  /\ AfterCancelStale(from) = NoOffer
  /\ offer' = [from |-> from, to |-> to, due |-> FALSE]

ProposeAppTransfer(x, o) ==
  /\ work = Idle
  /\ profile = x /\ orgApp = NoOwner
  /\ o \in live
  /\ CreateTransfer(x, o)
  /\ UNCHANGED <<profile, orgApp, frozen, workload, named, listed, live, work, torn>>

\* the execution of a TRANSFER_APP_OUT proposal
TransferOut(o, to) ==
  /\ work = Idle
  /\ orgApp = o /\ ~frozen /\ profile = o
  /\ to # o /\ (to \in PubOrg => to \in live)
  /\ CreateTransfer(o, to)
  /\ UNCHANGED <<profile, orgApp, frozen, workload, named, listed, live, work, torn>>

\* declineAppTransfer by either side, or the sweeper's expiry
DropOffer ==
  /\ work = Idle /\ offer # NoOffer
  /\ offer' = NoOffer
  /\ UNCHANGED <<profile, orgApp, frozen, workload, named, listed, live, work, torn>>

FallDue ==
  /\ offer # NoOffer /\ ~offer.due
  /\ offer' = [offer EXCEPT !.due = TRUE]
  /\ UNCHANGED <<profile, orgApp, frozen, workload, named, listed, live, work, torn>>

\* requireOpen: one past its expiry is marked EXPIRED instead
AcceptExpired ==
  /\ work = Idle /\ offer # NoOffer /\ offer.due
  /\ offer' = NoOffer
  /\ UNCHANGED <<profile, orgApp, frozen, workload, named, listed, live, work, torn>>

\* Mutant: expiry is left to the sweeper.
AcceptWhatever ==
  /\ work = Idle /\ offer # NoOffer
  /\ offer.to \in PubOrg => offer.to \in live
  /\ profile = offer.from /\ ~frozen
  /\ work' = [op |-> "move", from |-> offer.from, to |-> offer.to, at |-> 0, done |-> {}]
  /\ offer' = NoOffer
  /\ UNCHANGED <<profile, orgApp, frozen, workload, named, listed, live, torn>>

\* acceptAppTransfer up to the claim of the transfer (PENDING to ACCEPTED)
AcceptAppTransfer ==
  /\ work = Idle /\ offer # NoOffer /\ ~offer.due
  /\ offer.to \in PubOrg => offer.to \in live
  /\ profile = offer.from /\ ~frozen
  /\ work' = [op |-> "move", from |-> offer.from, to |-> offer.to, at |-> 0, done |-> {}]
  /\ offer' = NoOffer
  /\ UNCHANGED <<profile, orgApp, frozen, workload, named, listed, live, torn>>

--------------------------------------------------------------------------------
(* moveApp.  Step 0 is the read-only checks; steps 1 to 6 write.  A step that has   *)
(* nothing to do counts as done but leaves nothing to undo.                         *)

Stands(step) ==
  CASE step = 0 -> profile = work.from /\ workload \in {NoOwner, work.from}
    [] step = 1 -> profile = work.from
    [] step = 2 -> /\ IF work.from \in PubOrg THEN orgApp = work.from /\ ~frozen
                                              ELSE orgApp = NoOwner
                   /\ work.to \in PubOrg => work.to \in live
    [] step = 3 -> workload \in {NoOwner, work.from}
    [] OTHER -> TRUE

Writes(step) ==
  CASE step = 0 -> FALSE
    [] step = 3 -> workload # NoOwner
    [] step = 5 -> work.from \in listed
    [] step = 6 -> work.to \in PubOrg \ listed
    [] OTHER -> TRUE

\* The five places with the app at `to` instead of `from` in the one that `step` writes.
Put(step, from, to) ==
  /\ profile' = IF step = 1 THEN to ELSE profile
  /\ orgApp' = IF step = 2 THEN (IF to \in PubOrg THEN to ELSE NoOwner) ELSE orgApp
  /\ workload' = IF step = 3 THEN to ELSE workload
  /\ named' = IF step = 4 THEN to ELSE named
  /\ UNCHANGED <<frozen, live>>

MoveStep ==
  /\ work.op = "move" /\ work.at <= 6 /\ Stands(work.at)
  /\ Put(work.at, work.from, work.to)
  /\ listed' = CASE work.at = 5 -> listed \ {work.from}
                 [] work.at = 6 -> listed \cup ({work.to} \cap PubOrg)
                 [] OTHER -> listed
  /\ work' = [work EXCEPT !.at = @ + 1,
                          !.done = IF Writes(work.at) THEN @ \cup {work.at} ELSE @]
  /\ UNCHANGED <<offer, torn>>

\* a guard that does not hold, or a write that fails; it may have landed all the same
MoveFails ==
  /\ work.op = "move" /\ work.at <= 6
  /\ work' = [work EXCEPT !.op = "undo"]
  /\ \/ /\ ~Stands(work.at) \/ "fail" \in Mishaps
        /\ UNCHANGED <<profile, orgApp, frozen, workload, named, listed, live, torn>>
     \/ /\ Stands(work.at) /\ Writes(work.at) /\ "unheard" \in Mishaps
        /\ Put(work.at, work.from, work.to)
        /\ listed' = CASE work.at = 5 -> listed \ {work.from}
                       [] work.at = 6 -> listed \cup {work.to}
                       [] OTHER -> listed
        /\ torn' = TRUE
  /\ UNCHANGED offer

\* Mutant: the workload identity is not put back.
UndoAllButTheWorkload ==
  /\ work.op = "undo" /\ work.done # {}
  /\ LET step == Max(work.done)
     IN  /\ Put(IF step = 3 THEN 0 ELSE step, work.to, work.from)
         /\ listed' = IF step = 5 THEN listed \cup {work.from} ELSE listed
         /\ work' = [work EXCEPT !.done = @ \ {step}]
  /\ UNCHANGED <<offer, torn>>

\* the undo of the latest step not undone yet
Undo ==
  /\ work.op = "undo" /\ work.done # {}
  /\ LET step == Max(work.done)
     IN  /\ Put(step, work.to, work.from)
         /\ listed' = IF step = 5 THEN listed \cup {work.from} ELSE listed
         /\ work' = [work EXCEPT !.done = @ \ {step}]
  /\ UNCHANGED <<offer, torn>>

\* logged, and the next one is tried
UndoFails ==
  /\ work.op = "undo" /\ work.done # {} /\ "fail" \in Mishaps
  /\ work' = [work EXCEPT !.done = @ \ {Max(@)}]
  /\ torn' = TRUE
  /\ UNCHANGED <<profile, orgApp, frozen, workload, named, listed, live, offer>>

\* back to PENDING for a retry; that write may fail as well
PutBack ==
  /\ work.op = "undo" /\ work.done = {}
  /\ \/ offer' = [from |-> work.from, to |-> work.to, due |-> FALSE]
     \/ "fail" \in Mishaps /\ UNCHANGED offer
  /\ work' = Idle
  /\ UNCHANGED <<profile, orgApp, frozen, workload, named, listed, live, torn>>

FinishMove ==
  /\ work.op = "move" /\ work.at = 7
  /\ offer' = AfterCancelStale(work.to)
  /\ work' = Idle
  /\ UNCHANGED <<profile, orgApp, frozen, workload, named, listed, live, torn>>

--------------------------------------------------------------------------------
(* The organisations around it, and the process.                                    *)

\* FREEZE_APP and UNFREEZE_APP, under the app's lock
SetFrozen ==
  /\ work = Idle /\ orgApp # NoOwner
  /\ frozen' = ~frozen
  /\ UNCHANGED <<profile, orgApp, workload, named, listed, live, offer, work, torn>>

\* takedown, restore and DELETE_ORG take the organisation's lock, which a move holds;
\* an organisation that still owns the app is not archived
SetLive(o) ==
  /\ work.op \in {"move", "undo"} => o \notin {work.from, work.to}
  /\ live' = IF o \in live THEN live \ {o} ELSE live \cup {o}
  /\ UNCHANGED <<profile, orgApp, frozen, workload, named, listed, offer, work, torn>>

\* the process stops with the lock held: what is written stays, the rest is forgotten
Crash ==
  /\ "stop" \in Mishaps /\ work # Idle
  /\ work' = Idle
  /\ torn' = TRUE
  /\ UNCHANGED <<profile, orgApp, frozen, workload, named, listed, live, offer>>

AppNext ==
  \/ \E x \in Owner : ClaimForPerson(x) \/ AttachForClaim(x) \/ Repair(x)
  \/ ClaimForOrg \/ ClaimFails
  \/ \E x \in Publisher, o \in PubOrg : ProposeAppTransfer(x, o)
  \/ \E o \in PubOrg, to \in Owner : TransferOut(o, to)
  \/ DropOffer \/ FallDue \/ AcceptExpired \/ AcceptAppTransfer
  \/ MoveStep \/ MoveFails \/ Undo \/ UndoFails \/ PutBack \/ FinishMove
  \/ SetFrozen \/ Crash
  \/ \E o \in PubOrg : SetLive(o)

AppSpec == AppInit /\ [][AppNext]_appVars

--------------------------------------------------------------------------------
(* Properties.                                                                      *)

\* moveApp's promise, "the app stays with its original owner" or is the new one's
\* everywhere: whenever nobody holds the app's lock and no stop, failed undo or unheard
\* write has come in between, the index, org_apps, the workload, the document and the
\* organisations' documents name the same owner, whatever failed on the way.
OneOwnerEverywhere ==
  work = Idle /\ ~torn /\ profile # NoOwner =>
    /\ named = profile
    /\ workload = profile
    /\ orgApp = IF profile \in PubOrg THEN profile ELSE NoOwner
    /\ listed \subseteq {profile}

\* While a move may still be undone the app is its source's, whatever the index says.
HolderNow == IF 1 \in work.done THEN work.from ELSE profile

AcceptedNow == work.op \in {"move", "undo"} /\ HolderNow = work.from

TakerNow ==
  CASE AcceptedNow -> work.to
    [] offer # NoOffer /\ offer.from = HolderNow /\ ~offer.due -> offer.to
    [] OTHER -> NoOwner

Ownership == INSTANCE AppOwnership
               WITH Party <- Owner, holder <- HolderNow, taker <- TakerNow, accepted <- AcceptedNow

\* Through every failure, stop and misreported write, the app passes only from its
\* holder to the party it is offered to, while the offer stands: an expired, declined or
\* stale offer never moves it, and no retry or repair hands it back.
AppOwnershipKept == Ownership!OwnershipSpec
==============================================================================
