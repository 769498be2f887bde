-------------------------- MODULE OrgServices_proofs --------------------------
(***************************************************************************)
(* The services around an organisation, each on its own: the apps that     *)
(* change hands, its domains, its invite links, its handle, the            *)
(* suspensions of its delegations, the reports about it and its webhooks.  *)
(***************************************************************************)
EXTENDS AppTransfers, DomainChecks, InviteLinks, ModerationReports, OrgHandles, Suspensions,
        WebhookDeliveries, TLAPS

--------------------------------------------------------------------------------
(* App transfers.                                                                   *)

Steps == 1..6
Works == [op : {"idle", "claim", "move", "undo"}, from : Owner \cup {NoOwner},
          to : Owner \cup {NoOwner}, at : 0..7, done : SUBSET Steps]

\* Where the profile stands while somebody works on the app: with nobody under a claim,
\* with the source until a move has written it, then with the target until that is undone.
AppInv ==
  /\ profile \in Owner \cup {NoOwner}
  /\ work \in Works
  /\ work.op = "idle" => work = Idle
  /\ offer # NoOffer => /\ offer \in Offers /\ offer.from # offer.to
                        /\ profile # NoOwner /\ work = Idle
  /\ work.op = "claim" => profile = NoOwner /\ work.to \in Owner /\ 1 \notin work.done
  /\ work.op \in {"move", "undo"} =>
       /\ work.from \in Owner /\ work.to \in Owner /\ work.from # work.to
       /\ profile \in {work.from, work.to}
       /\ 1 \in work.done => profile = work.to
  /\ work.op = "move" =>
       IF work.at <= 1 THEN profile = work.from /\ 1 \notin work.done ELSE 1 \in work.done

LEMMA LatestStep ==
  ASSUME NEW S \in SUBSET Steps, S # {}
  PROVE  Max(S) \in S
<1>1. \E m \in S : \A n \in S : m >= n
  <2>1. \A n \in S : n \in {1, 2, 3, 4, 5, 6}
    BY DEF Steps
  <2>2. CASE 6 \in S
    BY <2>1, <2>2
  <2>3. CASE 6 \notin S /\ 5 \in S
    BY <2>1, <2>3
  <2>4. CASE 6 \notin S /\ 5 \notin S /\ 4 \in S
    BY <2>1, <2>4
  <2>5. CASE 6 \notin S /\ 5 \notin S /\ 4 \notin S /\ 3 \in S
    BY <2>1, <2>5
  <2>6. CASE 6 \notin S /\ 5 \notin S /\ 4 \notin S /\ 3 \notin S
    BY <2>1, <2>6
  <2> QED
    BY <2>2, <2>3, <2>4, <2>5, <2>6
<1> QED
  BY <1>1 DEF Max

AppMoves == [Ownership!Claim \/ Ownership!Offer \/ Ownership!Accept \/ Ownership!Withdraw
               \/ Ownership!Take]_<<HolderNow, TakerNow, AcceptedNow>>

\* What an action that leaves the work and the profile alone does to the offer.
LEMMA OffersMap ==
  ASSUME AppInv,
         \/ \E x \in Publisher, o \in PubOrg : ProposeAppTransfer(x, o)
         \/ \E o \in PubOrg, to \in Owner : TransferOut(o, to)
         \/ DropOffer \/ FallDue \/ AcceptExpired \/ AcceptAppTransfer
  PROVE  AppInv' /\ AppMoves
<1> USE AppAssumption DEF Owner
<1>1. ASSUME NEW x \in Owner, NEW to \in Owner, x # to, profile = x, work = Idle,
             AfterCancelStale(x) = NoOffer, offer' = [from |-> x, to |-> to, due |-> FALSE],
             UNCHANGED <<profile, work>>
      PROVE  AppInv' /\ AppMoves
  <2>1. AppInv'
    BY <1>1 DEF AppInv, Offers, NoOffer
  <2>2. HolderNow = x /\ TakerNow = NoOwner /\ AcceptedNow = FALSE
    BY <1>1 DEF HolderNow, TakerNow, AcceptedNow, AfterCancelStale, Idle, NoOffer
  <2>3. HolderNow' = x /\ TakerNow' = to /\ AcceptedNow' = FALSE
    BY <1>1 DEF HolderNow, TakerNow, AcceptedNow, Idle, NoOffer
  <2> QED
    BY <1>1, <2>1, <2>2, <2>3 DEF AppMoves, Ownership!Offer
<1>2. CASE \E x \in Publisher, o \in PubOrg : ProposeAppTransfer(x, o)
  BY <1>1, <1>2 DEF ProposeAppTransfer, CreateTransfer
<1>3. CASE \E o \in PubOrg, to \in Owner : TransferOut(o, to)
  BY <1>1, <1>3 DEF TransferOut, CreateTransfer
<1>4. CASE DropOffer \/ FallDue \/ AcceptExpired
  <2>1. UNCHANGED <<profile, work>> /\ work = Idle
    BY <1>4 DEF DropOffer, FallDue, AcceptExpired, AppInv
  <2>2. offer' = NoOffer \/ (offer' = [offer EXCEPT !.due = TRUE] /\ offer # NoOffer)
    BY <1>4 DEF DropOffer, FallDue, AcceptExpired
  <2>3. AppInv'
    BY <2>1, <2>2 DEF AppInv, Offers
  <2>4. HolderNow' = HolderNow /\ AcceptedNow' = FALSE /\ AcceptedNow = FALSE
    BY <2>1 DEF HolderNow, AcceptedNow, Idle
  <2>5. TakerNow' = NoOwner
    BY <2>2, <2>4 DEF TakerNow, AppInv, Offers
  <2> QED
    BY <2>3, <2>4, <2>5 DEF AppMoves, Ownership!Withdraw
<1>5. CASE AcceptAppTransfer
  <2>1. /\ work = Idle /\ offer # NoOffer /\ ~offer.due /\ profile = offer.from /\ offer' = NoOffer
        /\ work' = [op |-> "move", from |-> offer.from, to |-> offer.to, at |-> 0, done |-> {}]
        /\ profile' = profile /\ offer \in Offers
    BY <1>5 DEF AcceptAppTransfer, AppInv
  <2>2. AppInv'
    BY <2>1 DEF AppInv, Offers, Works, Steps
  <2>3. HolderNow = profile /\ TakerNow = offer.to /\ AcceptedNow = FALSE
    BY <2>1 DEF HolderNow, TakerNow, AcceptedNow, Idle
  <2>4. HolderNow' = profile /\ TakerNow' = offer.to /\ AcceptedNow' = TRUE
    BY <2>1 DEF HolderNow, TakerNow, AcceptedNow
  <2> QED
    BY <2>1, <2>2, <2>3, <2>4 DEF AppMoves, Ownership!Accept, Offers
<1> QED
  BY <1>2, <1>3, <1>4, <1>5

\* Claims, repairs, and what others do around the app.
LEMMA ClaimsMap ==
  ASSUME AppInv,
         \/ \E x \in Owner : ClaimForPerson(x) \/ AttachForClaim(x) \/ Repair(x)
         \/ ClaimForOrg \/ ClaimFails \/ SetFrozen \/ \E o \in PubOrg : SetLive(o)
  PROVE  AppInv' /\ AppMoves
<1> USE AppAssumption DEF Owner
<1>1. CASE UNCHANGED <<profile, work, offer>>
  BY <1>1 DEF AppInv, AppMoves, HolderNow, TakerNow, AcceptedNow
<1>2. ASSUME NEW x \in Owner, profile = NoOwner, work.op \in {"idle", "claim"}, profile' = x,
             work' = Idle, UNCHANGED offer
      PROVE  AppInv' /\ AppMoves
  <2>1. offer = NoOffer /\ 1 \notin work.done
    BY <1>2 DEF AppInv, Idle
  <2>2. AppInv'
    BY <1>2, <2>1 DEF AppInv, Idle, Works, Steps
  <2>3. HolderNow = NoOwner /\ HolderNow' = x /\ TakerNow' = NoOwner /\ AcceptedNow' = FALSE
    BY <1>2, <2>1 DEF HolderNow, TakerNow, AcceptedNow, Idle
  <2> QED
    BY <2>2, <2>3 DEF AppMoves, Ownership!Claim
<1>3. ASSUME profile = NoOwner, UNCHANGED <<profile, offer>>, work.op \in {"idle", "claim"},
             \/ work' = Idle
             \/ work' \in Works /\ work'.op = "claim" /\ work'.to \in Owner /\ 1 \notin work'.done
      PROVE  AppInv' /\ AppMoves
  <2>1. offer = NoOffer /\ 1 \notin work.done /\ 1 \notin work'.done /\ work'.op \in {"idle", "claim"}
    BY <1>3 DEF AppInv, Idle
  <2>2. AppInv'
    BY <1>3, <2>1 DEF AppInv, Idle, Works, Steps
  <2>3. UNCHANGED <<HolderNow, TakerNow, AcceptedNow>>
    BY <1>3, <2>1 DEF HolderNow, TakerNow, AcceptedNow
  <2> QED
    BY <2>2, <2>3 DEF AppMoves
<1>4. ASSUME NEW x \in Owner, ClaimForPerson(x)
      PROVE  AppInv' /\ AppMoves
  BY <1>2, <1>3, <1>4 DEF ClaimForPerson, MayClaim, Idle
<1>5. ASSUME NEW x \in Owner, AttachForClaim(x)
      PROVE  AppInv' /\ AppMoves
  <2>1. work'.op = "claim" => work' \in Works /\ work'.to \in Owner /\ 1 \notin work'.done
    <3>1. x \in PubOrg /\ work' \in {Idle, [Idle EXCEPT !.op = "claim", !.to = x, !.done = {2}],
                                        [Idle EXCEPT !.op = "claim", !.to = x, !.done = {}]}
      BY <1>5 DEF AttachForClaim
    <3>2. Idle \in Works
      BY DEF Idle, Works, Steps
    <3>3. ASSUME NEW done \in SUBSET Steps, 1 \notin done
          PROVE  LET new == [Idle EXCEPT !.op = "claim", !.to = x, !.done = done]
                 IN  new \in Works /\ new.to = x /\ 1 \notin new.done
      <4> HIDE DEF Idle
      <4> QED
        BY <3>2, <3>3 DEF Works
    <3>4. {} \in SUBSET Steps /\ {2} \in SUBSET Steps /\ 1 \notin {2} /\ Idle.op # "claim"
      BY DEF Steps, Idle
    <3> QED
      BY <3>1, <3>3, <3>4
  <2> QED
    BY <1>3, <1>5, <2>1 DEF AttachForClaim, MayClaim, Idle
<1>6. CASE ClaimForOrg \/ ClaimFails
  <2>1. profile = NoOwner /\ work.to \in Owner /\ work' = Idle /\ work.op = "claim"
    BY <1>6 DEF ClaimForOrg, ClaimFails, AppInv
  <2> QED
    BY <1>2, <1>3, <1>6, <2>1 DEF ClaimForOrg, ClaimFails
<1> QED
  BY <1>1, <1>4, <1>5, <1>6 DEF Repair, SetFrozen, SetLive

\* A move, its undo, and a stop in the middle of either.
LEMMA MovesMap ==
  ASSUME AppInv, MoveStep \/ MoveFails \/ Undo \/ UndoFails \/ PutBack \/ FinishMove \/ Crash
  PROVE  AppInv' /\ AppMoves
<1> USE AppAssumption
<1> DEFINE from == work.from
           to == work.to
<1>1. CASE Crash
  <2>1. UNCHANGED <<profile, offer>> /\ work' = Idle /\ work # Idle /\ offer = NoOffer
    BY <1>1 DEF Crash, AppInv
  <2>2. AppInv'
    BY <2>1 DEF AppInv, Idle, Works, Steps
  <2>3. HolderNow' = profile /\ TakerNow' = NoOwner /\ AcceptedNow' = FALSE
    BY <2>1 DEF HolderNow, TakerNow, AcceptedNow, Idle
  <2>4. CASE 1 \in work.done
    <3>1. HolderNow = from /\ TakerNow = to /\ AcceptedNow /\ profile = to
      BY <2>1, <2>4 DEF HolderNow, TakerNow, AcceptedNow, AppInv, Idle, Works
    <3> QED
      BY <2>2, <2>3, <3>1 DEF AppMoves, Ownership!Take
  <2>5. CASE 1 \notin work.done
    BY <2>2, <2>3, <2>5 DEF AppMoves, Ownership!Withdraw, HolderNow
  <2> QED
    BY <2>4, <2>5
<1>2. CASE PutBack
  <2>1. /\ work.op = "undo" /\ work.done = {} /\ UNCHANGED profile /\ work' = Idle /\ offer = NoOffer
        /\ offer' \in {[from |-> from, to |-> to, due |-> FALSE], NoOffer}
        /\ from \in Owner /\ to \in Owner /\ from # to /\ profile \in {from, to}
    BY <1>2 DEF PutBack, AppInv, Idle
  <2>2. AppInv'
    <3>1. Idle \in Works /\ Idle.op = "idle"
      BY DEF Idle, Works, Steps
    <3>2. offer' # NoOffer => offer' \in Offers /\ offer'.from # offer'.to
      <4> DEFINE new == [from |-> from, to |-> to, due |-> FALSE]
      <4>1. new \in Offers /\ new.from # new.to
        BY <2>1 DEF Offers
      <4> HIDE DEF new
      <4> QED
        BY <2>1, <4>1 DEF new
    <3>3. profile \in Owner /\ profile # NoOwner
      BY <2>1 DEF Owner
    <3> QED
      BY <2>1, <3>1, <3>2, <3>3 DEF AppInv
  <2>3. HolderNow' = profile /\ HolderNow = profile /\ AcceptedNow' = FALSE
    BY <2>1 DEF HolderNow, AcceptedNow, Idle
  <2>4. TakerNow' \in {TakerNow, NoOwner}
    <3>1. CASE profile = from
      BY <2>1, <2>3, <3>1 DEF TakerNow, AcceptedNow, NoOffer
    <3>2. CASE profile = to
      BY <2>1, <2>3, <3>2 DEF TakerNow, AcceptedNow, NoOffer
    <3> QED
      BY <2>1, <3>1, <3>2
  <2> QED
    BY <2>2, <2>3, <2>4 DEF AppMoves, Ownership!Withdraw
<1>3. CASE FinishMove
  <2>1. /\ work.op = "move" /\ work.at = 7 /\ 1 \in work.done /\ profile = to /\ offer = NoOffer
        /\ UNCHANGED profile /\ work' = Idle /\ offer' = NoOffer /\ to \in Owner
    BY <1>3 DEF FinishMove, AfterCancelStale, AppInv, Idle
  <2>2. AppInv'
    BY <2>1 DEF AppInv, Idle, Works, Steps
  <2>3. HolderNow = from /\ TakerNow = to /\ AcceptedNow
    BY <2>1 DEF HolderNow, TakerNow, AcceptedNow
  <2>4. HolderNow' = to /\ TakerNow' = NoOwner /\ AcceptedNow' = FALSE
    BY <2>1 DEF HolderNow, TakerNow, AcceptedNow, Idle
  <2> QED
    BY <2>2, <2>3, <2>4 DEF AppMoves, Ownership!Take
\* A step that does not end the work: what it does to the profile and to the list of what
\* is to be undone decides.
<1>4. ASSUME work.op \in {"move", "undo"}, UNCHANGED offer, work' \in Works,
             work'.op \in {"move", "undo"}, work'.from = from, work'.to = to, AppInv',
             HolderNow = from \/ HolderNow' = HolderNow
      PROVE  AppInv' /\ AppMoves
  <2>1. offer = NoOffer /\ from # to /\ HolderNow \in {from, to} /\ HolderNow' \in {from, to}
    BY <1>4 DEF AppInv, HolderNow, Idle
  <2>2. /\ HolderNow = from => AcceptedNow /\ TakerNow = to
        /\ HolderNow = to => AcceptedNow = FALSE /\ TakerNow = NoOwner
    BY <1>4, <2>1 DEF AcceptedNow, TakerNow
  <2>3. /\ HolderNow' = from => AcceptedNow' /\ TakerNow' = to
        /\ HolderNow' = to => AcceptedNow' = FALSE /\ TakerNow' = NoOwner
    BY <1>4, <2>1 DEF AcceptedNow, TakerNow
  <2>4. AcceptedNow \in BOOLEAN /\ AcceptedNow' \in BOOLEAN
    BY DEF AcceptedNow
  <2>5. CASE HolderNow' = HolderNow
    BY <1>4, <2>1, <2>2, <2>3, <2>4, <2>5 DEF AppMoves
  <2>6. CASE HolderNow = from /\ HolderNow' = to
    BY <1>4, <2>2, <2>3, <2>6 DEF AppMoves, Ownership!Take
  <2> QED
    BY <1>4, <2>1, <2>5, <2>6
<1>5. CASE MoveStep
  <2>1. /\ work.op = "move" /\ work.at \in 0..6 /\ UNCHANGED offer
        /\ profile' = IF work.at = 1 THEN to ELSE profile
        /\ work' = [work EXCEPT !.at = work.at + 1,
                      !.done = IF Writes(work.at) THEN work.done \cup {work.at} ELSE work.done]
        /\ Writes(0) = FALSE /\ Writes(1) = TRUE
    BY <1>5 DEF MoveStep, Put, AppInv, Works, Writes
  <2>2. /\ work' \in Works /\ work'.op = "move" /\ work'.from = from /\ work'.to = to
        /\ work'.at = work.at + 1
        /\ 1 \in work'.done <=> 1 \in work.done \/ work.at = 1
    <3> DEFINE done == IF Writes(work.at) THEN work.done \cup {work.at} ELSE work.done
    <3>1. work \in Works
      BY DEF AppInv
    <3>2. done \in SUBSET Steps /\ work.at + 1 \in 0..7
      BY <2>1, <3>1 DEF Works, Steps
    <3>3. 1 \in done <=> 1 \in work.done \/ work.at = 1
      BY <2>1
    <3> HIDE DEF done
    <3>4. work' = [work EXCEPT !.at = work.at + 1, !.done = done]
      BY <2>1 DEF done
    <3> QED
      BY <2>1, <3>1, <3>2, <3>3, <3>4 DEF Works
  <2>3. AppInv'
    BY <2>1, <2>2 DEF AppInv, Works, Idle
  <2>4. HolderNow' = HolderNow
    BY <2>1, <2>2 DEF HolderNow, AppInv
  <2> QED
    BY <1>4, <2>1, <2>2, <2>3, <2>4
<1>6. CASE MoveFails
  <2>1. /\ work.op = "move" /\ work.at \in 0..6 /\ UNCHANGED offer
        /\ work' = [work EXCEPT !.op = "undo"]
        /\ profile' \in {profile, IF work.at = 1 THEN to ELSE profile}
    BY <1>6 DEF MoveFails, Put, AppInv, Works
  <2>2. /\ work' \in Works /\ work'.op = "undo" /\ work'.from = from /\ work'.to = to
        /\ work'.done = work.done
    BY <2>1 DEF AppInv, Works
  <2>3. AppInv'
    BY <2>1, <2>2 DEF AppInv, Idle
  <2>4. HolderNow = from
    BY <2>1 DEF HolderNow, AppInv, Works
  <2> QED
    BY <1>4, <2>1, <2>2, <2>3, <2>4
<1>7. ASSUME Undo \/ UndoFails
      PROVE  AppInv' /\ AppMoves
  <2> DEFINE step == Max(work.done)
  <2>1. work.op = "undo" /\ step \in work.done /\ UNCHANGED offer
    BY <1>7, LatestStep DEF Undo, UndoFails, AppInv, Works
  <2>2. work' = [work EXCEPT !.done = work.done \ {step}]
    BY <1>7 DEF Undo, UndoFails
  <2>3. /\ work' \in Works /\ work'.op = "undo" /\ work'.from = from /\ work'.to = to
        /\ work'.done = work.done \ {step}
    BY <2>1, <2>2 DEF AppInv, Works
  <2>4. profile' = IF step = 1 /\ Undo THEN from ELSE profile
    BY <1>7 DEF Undo, UndoFails, Put
  <2> HIDE DEF step
  <2>5. AppInv'
    BY <2>1, <2>3, <2>4 DEF AppInv, Idle
  <2>6. HolderNow = from \/ HolderNow' = HolderNow
    BY <2>1, <2>3, <2>4 DEF HolderNow, AppInv
  <2> QED
    BY <1>4, <2>1, <2>3, <2>5, <2>6
<1> QED
  BY <1>1, <1>2, <1>3, <1>5, <1>6, <1>7

\* AppOwnershipKept: whatever fails, is misreported or stops, the app passes only from its
\* holder to the party that has accepted it, and in one step.
THEOREM OwnershipKept == AppSpec => AppOwnershipKept
<1>1. AppInit => AppInv /\ Ownership!Unowned
  BY DEF AppInit, AppInv, Ownership!Unowned, HolderNow, TakerNow, AcceptedNow, Idle, Works, Steps
<1>2. AppInv /\ [AppNext]_appVars => AppInv' /\ AppMoves
  <2>1. AppInv /\ UNCHANGED appVars => AppInv' /\ AppMoves
    BY DEF appVars, AppInv, AppMoves, HolderNow, TakerNow, AcceptedNow
  <2> QED
    BY <2>1, OffersMap, ClaimsMap, MovesMap DEF AppNext
<1> QED
  BY <1>1, <1>2, PTL DEF AppSpec, AppOwnershipKept, Ownership!OwnershipSpec, AppMoves, Ownership!ownership

Written(step) == IF step \in work.done THEN work.to ELSE work.from
OrgOf(x) == IF x \in PubOrg THEN x ELSE NoOwner

\* As long as nothing is torn: each place is where the steps done and not undone have put it.
PlacesInv ==
  ~torn =>
    /\ profile = NoOwner => listed = {}
    /\ work = Idle /\ profile # NoOwner =>
         named = profile /\ workload = profile /\ orgApp = OrgOf(profile) /\ listed \subseteq {profile}
    /\ work.op = "claim" => work.to \in PubOrg /\ workload = work.to /\ orgApp = work.to
    /\ work.op \in {"move", "undo"} =>
         /\ profile = Written(1) /\ orgApp = OrgOf(Written(2))
         /\ workload = Written(3) /\ named = Written(4)
    /\ work.op = "move" =>
         /\ \A step \in 1..4 : step \in work.done <=> step < work.at
         /\ listed \subseteq CASE work.at <= 5 -> {work.from}
                               [] work.at = 6 -> {}
                               [] OTHER -> {work.to}
         /\ 6 \in work.done => work.at = 7
    /\ work.op = "undo" => listed \subseteq {work.from} /\ 6 \notin work.done

LEMMA PlacesOfClaims ==
  ASSUME AppInv, PlacesInv,
         \/ \E x \in Owner : ClaimForPerson(x) \/ AttachForClaim(x) \/ Repair(x)
         \/ ClaimForOrg \/ ClaimFails \/ SetFrozen \/ \E o \in PubOrg : SetLive(o)
  PROVE  PlacesInv'
<1> USE AppAssumption DEF Owner, OrgOf
<1>0. torn => torn'
  <2>1. ClaimFails => (torn => torn')
    BY DEF ClaimFails
  <2> QED
    BY <2>1 DEF ClaimForPerson, AttachForClaim, Repair, ClaimForOrg, SetFrozen, SetLive
<1> SUFFICES ASSUME ~torn, ~torn'
             PROVE  PlacesInv'
  BY <1>0 DEF PlacesInv
<1>1. ASSUME NEW x \in Owner, ClaimForPerson(x)
      PROVE  PlacesInv'
  BY <1>1 DEF ClaimForPerson, MayClaim, PlacesInv, Idle, Written
<1>2. ASSUME NEW x \in Owner, AttachForClaim(x)
      PROVE  PlacesInv'
  <2>1. x \in PubOrg /\ profile = NoOwner /\ profile' = NoOwner /\ listed' = {} /\ workload' = x
    BY <1>2 DEF AttachForClaim, MayClaim, PlacesInv
  <2>2. CASE work' = Idle
    BY <2>1, <2>2 DEF PlacesInv, Idle
  <2>3. CASE orgApp' = x /\ work'.op = "claim" /\ work'.to = x
    BY <2>1, <2>3 DEF PlacesInv, Idle
  <2>4. work' = Idle \/ (orgApp' = x /\ work'.op = "claim" /\ work'.to = x)
    <3>1. ASSUME NEW reported \in BOOLEAN, NEW landed \in BOOLEAN, Write(reported, landed), reported
          PROVE  landed
      BY <3>1 DEF Write
    <3>2. PICK reported \in BOOLEAN, landed \in BOOLEAN :
            /\ Write(reported, landed)
            /\ orgApp' = IF landed THEN x ELSE orgApp
            /\ work' = IF reported
                         THEN [Idle EXCEPT !.op = "claim", !.to = x,
                                           !.done = IF orgApp = NoOwner THEN {2} ELSE {}]
                         ELSE Idle
      BY <1>2 DEF AttachForClaim
    <3>3. CASE reported
      BY <3>1, <3>2, <3>3 DEF Idle
    <3>4. CASE ~reported
      BY <3>2, <3>4
    <3> QED
      BY <3>3, <3>4
  <2> QED
    BY <2>2, <2>3, <2>4
<1>3. ASSUME NEW x \in Owner, Repair(x)
      PROVE  FALSE
  BY <1>3 DEF Repair, PlacesInv
<1>4. CASE ClaimForOrg
  BY <1>4 DEF ClaimForOrg, PlacesInv, AppInv, Idle
<1>5. CASE ClaimFails
  <2>1. profile' = NoOwner /\ work' = Idle /\ UNCHANGED listed /\ profile = NoOwner
    BY <1>5 DEF ClaimFails, AppInv
  <2> QED
    BY <2>1 DEF PlacesInv, Idle
<1>6. CASE SetFrozen \/ \E o \in PubOrg : SetLive(o)
  BY <1>6 DEF SetFrozen, SetLive, PlacesInv, Written
<1> QED
  BY <1>1, <1>2, <1>3, <1>4, <1>5, <1>6

LEMMA PlacesOfMoves ==
  ASSUME AppInv, AppInv', PlacesInv,
         MoveStep \/ MoveFails \/ Undo \/ UndoFails \/ PutBack \/ FinishMove \/ Crash
  PROVE  PlacesInv'
<1> USE DEF OrgOf
<1> DEFINE from == work.from
           to == work.to
<1> SUFFICES ASSUME ~torn, ~torn'
             PROVE  PlacesInv'
  BY DEF PlacesInv, MoveStep, MoveFails, Undo, UndoFails, PutBack, FinishMove, Crash
<1>1. CASE PutBack \/ FinishMove
  <2>1. /\ work' = Idle /\ UNCHANGED <<profile, orgApp, workload, named, listed>>
        /\ \/ work.op = "undo" /\ work.done = {}
           \/ work.op = "move" /\ work.at = 7
    BY <1>1 DEF PutBack, FinishMove
  <2>2. profile # NoOwner /\ \A step \in 1..4 : Written(step) = profile
    BY <2>1, AppAssumption DEF PlacesInv, AppInv, Written, Owner
  <2>3. listed \subseteq {profile}
    BY <2>1, <2>2 DEF PlacesInv, Written
  <2>4. named = profile /\ workload = profile /\ orgApp = OrgOf(profile)
    BY <2>1, <2>2 DEF PlacesInv
  <2> QED
    BY <2>1, <2>2, <2>3, <2>4 DEF PlacesInv, Idle
<1>2. CASE MoveStep
  <2>1. /\ work.op = "move" /\ work.at \in 0..6 /\ UNCHANGED torn
        /\ Put(work.at, from, to)
        /\ listed' = CASE work.at = 5 -> listed \ {from}
                       [] work.at = 6 -> listed \cup ({to} \cap PubOrg)
                       [] OTHER -> listed
        /\ work' = [work EXCEPT !.at = work.at + 1,
                      !.done = IF Writes(work.at) THEN work.done \cup {work.at} ELSE work.done]
        /\ work \in Works
    BY <1>2 DEF MoveStep, AppInv, Works
  <2>2. /\ work'.op = "move" /\ work'.from = from /\ work'.to = to /\ work'.at = work.at + 1
        /\ work'.done = IF Writes(work.at) THEN work.done \cup {work.at} ELSE work.done
    BY <2>1 DEF Works
  <2>3. from \in Owner /\ to \in Owner /\ from # NoOwner /\ to # NoOwner
    BY <2>1, AppAssumption DEF AppInv, Owner
  <2>4. work.at \in 1..4 => Writes(work.at)
    <3>1. work.at = 3 => workload = from
      BY <2>1 DEF PlacesInv, Written
    <3> QED
      BY <2>3, <3>1 DEF Writes
  <2>5. ~Writes(0)
    BY DEF Writes
  <2>6. \A step \in 1..4 : /\ step \in work.done <=> step < work.at
                           /\ step \in work'.done <=> step < work'.at
    BY <2>1, <2>2, <2>4, <2>5 DEF PlacesInv
  <2>7. 6 \in work'.done => work'.at = 7
    BY <2>1, <2>2 DEF PlacesInv
  <2>8. listed' \subseteq CASE work'.at <= 5 -> {from} [] work'.at = 6 -> {} [] OTHER -> {to}
    BY <2>1, <2>2 DEF PlacesInv
  <2>9. \A step \in 1..4 : Written(step)' = IF step = work.at THEN to ELSE Written(step)
    BY <2>1, <2>2, <2>6 DEF Written
  <2>10. /\ profile' = Written(1)' /\ orgApp' = OrgOf(Written(2)')
         /\ workload' = Written(3)' /\ named' = Written(4)'
    BY <2>1, <2>9 DEF PlacesInv, Put
  <2>11. profile' # NoOwner
    BY <2>2, <2>3, <2>10 DEF Written
  <2> QED
    BY <2>2, <2>6, <2>7, <2>8, <2>10, <2>11 DEF PlacesInv, Idle
<1>3. CASE MoveFails
  <2>1. /\ UNCHANGED <<profile, orgApp, workload, named, listed>> /\ work.op = "move"
        /\ work.at \in 0..6 /\ work \in Works /\ work' = [work EXCEPT !.op = "undo"]
    BY <1>3 DEF MoveFails, AppInv, Works
  <2>2. /\ work'.op = "undo" /\ work'.from = from /\ work'.to = to /\ work'.done = work.done
    BY <2>1 DEF Works
  <2>3. listed \subseteq {from} /\ 6 \notin work.done
    BY <2>1 DEF PlacesInv
  <2>4. profile # NoOwner
    BY <2>1, AppAssumption DEF AppInv, Owner
  <2> QED
    BY <2>1, <2>2, <2>3, <2>4 DEF PlacesInv, Written, Idle
<1>4. CASE Undo
  <2> DEFINE last == Max(work.done)
  <2>1. last \in work.done /\ work.op = "undo" /\ work \in Works
    BY <1>4, LatestStep DEF Undo, AppInv, Works
  <2>2. /\ Put(last, to, from) /\ listed' = IF last = 5 THEN listed \cup {from} ELSE listed
        /\ work' = [work EXCEPT !.done = work.done \ {last}]
    BY <1>4 DEF Undo
  <2> HIDE DEF last
  <2>3. /\ work'.op = "undo" /\ work'.from = from /\ work'.to = to
        /\ work'.done = work.done \ {last}
    BY <2>1, <2>2 DEF Works
  <2>4. \A step \in 1..4 : Written(step)' = IF step = last THEN from ELSE Written(step)
    BY <2>1, <2>3 DEF Written
  <2>5. /\ profile' = Written(1)' /\ orgApp' = OrgOf(Written(2)')
        /\ workload' = Written(3)' /\ named' = Written(4)'
    BY <2>1, <2>2, <2>4 DEF PlacesInv, Put
  <2>6. listed' \subseteq {from} /\ 6 \notin work'.done
    BY <2>1, <2>2, <2>3 DEF PlacesInv
  <2>7. profile' # NoOwner
    BY <2>1, <2>3, <2>5, AppAssumption DEF Written, AppInv, Owner
  <2> QED
    BY <2>3, <2>5, <2>6, <2>7 DEF PlacesInv, Idle
<1>5. CASE UndoFails \/ Crash
  BY <1>5 DEF UndoFails, Crash
<1> QED
  BY <1>1, <1>2, <1>3, <1>4, <1>5

LEMMA PlacesOfOffers ==
  ASSUME AppInv, PlacesInv,
         \/ \E x \in Publisher, o \in PubOrg : ProposeAppTransfer(x, o)
         \/ \E o \in PubOrg, to \in Owner : TransferOut(o, to)
         \/ DropOffer \/ FallDue \/ AcceptExpired \/ AcceptAppTransfer
  PROVE  PlacesInv'
<1>1. CASE UNCHANGED <<profile, orgApp, workload, named, listed, work, torn>>
  BY <1>1 DEF PlacesInv, Written
<1>2. CASE AcceptAppTransfer
  <2>1. /\ work = Idle /\ offer # NoOffer /\ profile = offer.from
        /\ UNCHANGED <<profile, orgApp, workload, named, listed, torn>>
        /\ work' = [op |-> "move", from |-> profile, to |-> offer.to, at |-> 0, done |-> {}]
    BY <1>2 DEF AcceptAppTransfer
  <2>2. profile # NoOwner
    BY <2>1 DEF AppInv
  <2>3. \A step \in 1..4 : Written(step)' = profile
    BY <2>1 DEF Written
  <2> QED
    BY <2>1, <2>2, <2>3 DEF PlacesInv, Idle, OrgOf
<1> QED
  BY <1>1, <1>2
  DEF ProposeAppTransfer, TransferOut, CreateTransfer, DropOffer, FallDue, AcceptExpired

\* OneOwnerEverywhere: whatever step of a claim or a move fails, the five places name one
\* owner as soon as nobody works on the app, unless a stop, a failed undo or an unheard write.
THEOREM OneOwner == AppSpec => []OneOwnerEverywhere
<1>1. AppInit => AppInv /\ PlacesInv
  BY DEF AppInit, AppInv, PlacesInv, Idle, Works, Steps
<1>2. AppInv /\ PlacesInv /\ [AppNext]_appVars => AppInv' /\ PlacesInv'
  <2>1. AppInv /\ PlacesInv /\ UNCHANGED appVars => AppInv' /\ PlacesInv'
    BY DEF appVars, AppInv, PlacesInv, Written
  <2> QED
    BY <2>1, OffersMap, ClaimsMap, MovesMap, PlacesOfOffers, PlacesOfClaims, PlacesOfMoves DEF AppNext
<1>3. PlacesInv => OneOwnerEverywhere
  BY DEF PlacesInv, OneOwnerEverywhere, OrgOf
<1> QED
  BY <1>1, <1>2, <1>3, PTL DEF AppSpec

--------------------------------------------------------------------------------
(* Invite links.                                                                    *)

InOrgLock(j) == joiner[j].step \in {"document", "undo"}

\* The uses are the joins, and while one of them may still be undone nobody else joins.
InviteLinkInv ==
  /\ link \in [uses : Nat, revoked : BOOLEAN] /\ joined \in Nat
  /\ joiner \in [Joiner -> {Away} \cup [step : {"waiting", "document", "undo"}, revoked : BOOLEAN]]
  /\ place \in [Joiner -> {"none", "invited", "lapsed", "active"}]
  /\ stood \in [Joiner -> {"none", "invited", "lapsed"}]
  /\ UsesAreTheJoins
  /\ \A j, k \in Joiner : InOrgLock(j) /\ InOrgLock(k) => j = k
  /\ \A j \in Joiner : InOrgLock(j) => link.uses > 0

LEMMA InviteLinkInvHolds == InviteLinkSpec => []InviteLinkInv
<1>1. InviteLinkInit => InviteLinkInv
  BY InviteLinkAssumption DEF InviteLinkInit, InviteLinkInv, UsesAreTheJoins, InOrgLock, Away
<1>2. ASSUME InviteLinkInv, [InviteLinkNext]_linkUseVars
      PROVE  InviteLinkInv'
  <2> USE DEF InviteLinkInv, UsesAreTheJoins, InOrgLock, Away, GoesAway
  <2>1. ASSUME NEW j \in Joiner, ReadLink(j)
        PROVE  InviteLinkInv'
    BY <1>2, <2>1 DEF ReadLink
  <2>2. ASSUME NEW j \in Joiner, JoinThroughLink(j)
        PROVE  InviteLinkInv'
    <3>1. CASE joiner' = [joiner EXCEPT ![j] = Away] /\ UNCHANGED <<link, place, stood, joined>>
      BY <1>2, <3>1
    <3>2. CASE /\ Usable /\ link' = [link EXCEPT !.uses = @ + 1] /\ joined' = joined + 1
               /\ place[j] \in {"none", "lapsed"} /\ stood' = [stood EXCEPT ![j] = place[j]]
               /\ place' = [place EXCEPT ![j] = "active"]
               /\ joiner' = [joiner EXCEPT ![j].step = "document"]
      BY <1>2, <2>2, <3>2, InviteLinkAssumption DEF JoinThroughLink, LinkLocked, Usable
    <3> QED
      BY <2>2, <3>1, <3>2 DEF JoinThroughLink
  <2>3. ASSUME NEW j \in Joiner, JoinIsWritten(j) \/ JoinIsRefused(j)
        PROVE  InviteLinkInv'
    BY <1>2, <2>3 DEF JoinIsWritten, JoinIsRefused
  <2>4. ASSUME NEW j \in Joiner, UndoJoin(j)
        PROVE  InviteLinkInv'
    <3>1. link.uses > 0 /\ \A k \in Joiner : InOrgLock(k) => k = j
      BY <1>2, <2>4 DEF UndoJoin
    <3>2. link' \in [uses : Nat, revoked : BOOLEAN] /\ link'.uses = link.uses - 1 /\ joined' = joined - 1
      BY <1>2, <2>4, <3>1 DEF UndoJoin, ReleaseUse
    <3>3. /\ joiner' \in [Joiner -> {Away} \cup [step : {"waiting", "document", "undo"}, revoked : BOOLEAN]]
          /\ \A k \in Joiner : ~InOrgLock(k)'
      BY <1>2, <2>4, <3>1 DEF UndoJoin
    <3>4. place' \in [Joiner -> {"none", "invited", "lapsed", "active"}]
      BY <1>2, <2>4 DEF UndoJoin
    <3> QED
      BY <1>2, <2>4, <3>2, <3>3, <3>4, InviteLinkAssumption DEF UndoJoin
  <2>5. ASSUME NEW j \in Joiner, InviteLapses(j) \/ MemberLeaves(j)
        PROVE  InviteLinkInv'
    BY <1>2, <2>5 DEF InviteLapses, MemberLeaves
  <2>6. CASE LinkStops \/ RevokeLink \/ LinkExpires
    <3>1. CASE LinkStops
      BY <1>2, <3>1 DEF LinkStops
    <3>2. CASE RevokeLink
      BY <1>2, <3>2 DEF RevokeLink, LinkLocked
    <3>3. CASE LinkExpires
      BY <1>2, <3>3 DEF LinkExpires
    <3> QED
      BY <2>6, <3>1, <3>2, <3>3
  <2>7. CASE UNCHANGED linkUseVars
    BY <1>2, <2>7 DEF linkUseVars
  <2> QED
    BY <1>2, <2>1, <2>2, <2>3, <2>4, <2>5, <2>6, <2>7 DEF InviteLinkNext
<1> QED
  BY <1>1, <1>2, PTL DEF InviteLinkSpec

\* UsesAreTheJoins: the link's uses are the joins that stand, never more than it was made for.
THEOREM JoinsCounted == InviteLinkSpec => []UsesAreTheJoins
<1>1. InviteLinkInv => UsesAreTheJoins
  BY DEF InviteLinkInv
<1> QED
  BY <1>1, InviteLinkInvHolds, PTL

\* RevokedLinksAdmitNobody: also a caller who read the link before it was revoked.
THEOREM RevokedAdmitNobody == InviteLinkSpec => RevokedLinksAdmitNobody
<1>1. InviteLinkInv /\ [InviteLinkNext]_linkUseVars =>
        [\A j \in Joiner : link.revoked => ~(place[j] # "active" /\ place'[j] = "active")]_linkUseVars
  <2> SUFFICES ASSUME InviteLinkInv, InviteLinkNext, link.revoked, NEW j \in Joiner,
                      place[j] # "active", place'[j] = "active"
               PROVE  FALSE
    OBVIOUS
  <2>1. \A k \in Joiner : ~JoinThroughLink(k) \/ UNCHANGED place
    BY DEF JoinThroughLink, Usable
  <2>2. \A k \in Joiner : ~UndoJoin(k)
    BY DEF UndoJoin, InviteLinkInv
  <2>3. \A k \in Joiner : ~InviteLapses(k) /\ ~MemberLeaves(k)
    BY DEF InviteLapses, MemberLeaves, InviteLinkInv
  <2> QED
    BY <2>1, <2>2, <2>3
    DEF InviteLinkNext, ReadLink, JoinIsWritten, JoinIsRefused, LinkStops, RevokeLink, LinkExpires
<1> QED
  BY <1>1, InviteLinkInvHolds, PTL DEF InviteLinkSpec, RevokedLinksAdmitNobody

--------------------------------------------------------------------------------
(* Domains.                                                                         *)

Statuses == {"none", "PENDING", "VERIFIED", "LAPSED"}
Ages == 0..AgeCap
Rows == [status : Statuses, failures : Nat, checked : Ages, verified : -1..MinVerified]
Sweeps == [age : Ages, answer : Answers, current : BOOLEAN]
Changes == {"nothing", "add", "check", "remove", "lapse", "gone"}
RowWrites == [of : Changes, row : Rows, alone : BOOLEAN]

\* Each failure counted adds a whole re-check period to the time since the last proof: the
\* sweep that counts it had listed a domain that long unchecked, and nobody has checked it since.
Counted(row) == proofAge = AgeCap \/ proofAge >= row.failures * RecheckAfter + row.checked
Due(row, run) == row.checked = AgeCap \/ row.checked >= RecheckAfter + run.age

DomTypes ==
  /\ domain \in Rows /\ proofAge \in Ages /\ overwritten \in BOOLEAN /\ docFails \in Nat
  /\ sweep \in [Sweeper -> Sweeps]
  /\ held \in [Sweeper -> RowWrites]

RowSound ==
  domain.status = "VERIFIED" =>
    /\ domain.verified # -1
    /\ ~overwritten => Counted(domain) /\ \A s \in Sweeper : sweep[s].current => Due(domain, sweep[s])

\* What the undo of a lapse or a removal would put back is as sound as the row it was, and by
\* a lapse that nobody has written over the domain is out of proof.
Restorable(w) ==
  /\ w.of = "lapse" => w.row.status = "VERIFIED"
  /\ w.row.status = "VERIFIED" => w.of \notin {"add", "check"} /\ w.row.verified # -1

UndoSound(s) ==
  /\ Restorable(held[s])
  /\ Withdraws(s) =>
       /\ domain.status = (IF held[s].of = "lapse" THEN "LAPSED" ELSE "none")
       /\ ~overwritten =>
            /\ Counted(held[s].row)
            /\ held[s].of = "lapse" => proofAge = AgeCap
            /\ held[s].of = "remove" =>
                 \A t \in Sweeper : sweep[t].current => Due(held[s].row, sweep[t])

OneAlone == \A s, t \in Sweeper : held[s].alone /\ held[t].alone => s = t

DomInv == DomTypes /\ RowSound /\ (\A s \in Sweeper : UndoSound(s)) /\ OneAlone

LEMMA Periods ==
  /\ AgeCap \in Nat /\ RecheckAfter \in Nat \ {0} /\ LapseAfter \in Nat \ {0} /\ MinVerified \in Nat
  /\ 0 * RecheckAfter = 0
  /\ \A n \in Nat : n * RecheckAfter \in Nat /\ (n + 1) * RecheckAfter = n * RecheckAfter + RecheckAfter
  /\ \A n \in Nat : n >= LapseAfter => n * RecheckAfter >= AgeCap
<1>1. LapseAfter \in Nat /\ RecheckAfter \in Nat
  BY DomainAssumption
<1>2. ASSUME NEW n \in Nat, n >= LapseAfter
      PROVE  n * RecheckAfter >= AgeCap
  <2> DEFINE k == n - LapseAfter
  <2>1. k \in Nat /\ n = LapseAfter + k
    BY <1>1, <1>2
  <2>2. n * RecheckAfter = LapseAfter * RecheckAfter + k * RecheckAfter
    BY <1>1, <2>1
  <2>3. k * RecheckAfter \in Nat /\ LapseAfter * RecheckAfter \in Nat
    BY <1>1, <2>1
  <2> QED
    BY <2>2, <2>3 DEF AgeCap
<1> QED
  BY <1>1, <1>2, DomainAssumption DEF AgeCap

LEMMA Nothings ==
  /\ NoDomain \in Rows /\ NoDomain.status = "none"
  /\ NoSweep \in Sweeps /\ ~NoSweep.current /\ NoSweep.age = 0
  /\ NoWrite \in RowWrites /\ ~NoWrite.alone /\ NoWrite.of = "nothing"
BY Periods DEF NoDomain, NoSweep, NoWrite, Rows, Sweeps, RowWrites, Statuses, Changes, Answers, Ages

\* Whoever writes the row leaves no sweep that may apply what it has found, and no undo that
\* nobody has written over.
LEMMA AllOutdated ==
  ASSUME DomTypes
  PROVE  /\ Outdated \in [Sweeper -> Sweeps] /\ \A s \in Sweeper : ~Outdated[s].current
         /\ Disturbed \in [Sweeper -> RowWrites]
         /\ \A s \in Sweeper : /\ ~Disturbed[s].alone /\ Disturbed[s].of = held[s].of
                               /\ Disturbed[s].row = held[s].row
<1>1. \A s \in Sweeper : LET w == [sweep[s] EXCEPT !.current = FALSE] IN w \in Sweeps /\ ~w.current
  BY DEF DomTypes, Sweeps
<1>2. \A s \in Sweeper : LET w == [held[s] EXCEPT !.alone = FALSE]
                         IN  w \in RowWrites /\ ~w.alone /\ w.of = held[s].of /\ w.row = held[s].row
  BY DEF DomTypes, RowWrites
<1> QED
  BY <1>1, <1>2 DEF Outdated, Disturbed

\* The steps after which no sweep may apply anything and no undo is undisturbed: what is left
\* to show is the row.
LEMMA RowIsLeft ==
  ASSUME DomTypes', \A s \in Sweeper : ~sweep'[s].current, \A s \in Sweeper : ~held'[s].alone,
         \A s \in Sweeper : Restorable(held'[s]),
         domain'.status = "VERIFIED" => domain'.verified # -1 /\ (~overwritten' => Counted(domain)')
  PROVE  DomInv'
BY DEF DomInv, RowSound, UndoSound, OneAlone, Withdraws

\* The steps that leave the row alone.
RowAlone == UNCHANGED <<domain, proofAge, overwritten>>

LEMMA RowAloneKeeps ==
  ASSUME DomInv, RowAlone, docFails' \in Nat,
         sweep' \in [Sweeper -> Sweeps],
         \A s \in Sweeper : sweep'[s].current => sweep[s].current /\ sweep'[s].age = sweep[s].age,
         held' \in [Sweeper -> RowWrites], \A s \in Sweeper : held'[s] = held[s] \/ held'[s] = NoWrite
  PROVE  DomInv'
<1>1. DomTypes' /\ OneAlone'
  BY Nothings DEF DomInv, DomTypes, RowAlone, OneAlone
<1>2. \A row : Counted(row)' = Counted(row)
  BY DEF RowAlone, Counted
<1>3. \A row, s \in Sweeper : sweep'[s].current /\ Due(row, sweep[s]) => Due(row, sweep'[s])
  BY DEF Due
<1>4. RowSound'
  BY <1>2, <1>3 DEF DomInv, RowSound, RowAlone, Due, Counted
<1>5. ASSUME NEW s \in Sweeper
      PROVE  UndoSound(s)'
  <2>1. CASE held'[s] = NoWrite
    BY <2>1, Nothings DEF UndoSound, Withdraws, Restorable, NoWrite
  <2>2. CASE held'[s] = held[s]
    BY <2>2 DEF DomInv, UndoSound, Restorable, Withdraws, RowAlone, Due, Counted
  <2> QED
    BY <2>1, <2>2
<1> QED
  BY <1>1, <1>4, <1>5 DEF DomInv

LEMMA CommandsKeepDomInv ==
  ASSUME DomInv, NEW s \in Sweeper, AddOrgDomain(s) \/ RemoveOrgDomain(s) \/ ProvedByHand(s)
  PROVE  DomInv'
<1>1. DomTypes /\ held[s] \in RowWrites /\ 0 \in Ages /\ AgeCap \in Ages
  BY Periods DEF DomInv, DomTypes, Ages
<1> DEFINE Writing(change) == [of |-> change, row |-> domain, alone |-> TRUE]
<1>2. ASSUME NEW change \in Changes, WritesDocument(s, change)
      PROVE  /\ held' \in [Sweeper -> RowWrites] /\ held'[s] = Writing(change)
             /\ \A t \in Sweeper : t # s => held'[t] = Disturbed[t]
  <2>1. Writing(change) \in RowWrites
    BY <1>1 DEF DomTypes, RowWrites
  <2>2. held' = [Disturbed EXCEPT ![s] = Writing(change)]
    BY <1>2 DEF WritesDocument
  <2> HIDE DEF Writing
  <2> QED
    BY <1>1, <2>1, <2>2, AllOutdated
<1>3. ASSUME NEW t \in Sweeper
      PROVE  /\ ~Disturbed[t].alone
             /\ Restorable(Disturbed[t])
  BY <1>1, <1>3, AllOutdated DEF DomInv, UndoSound, Restorable
<1>4. CASE AddOrgDomain(s)
  <2> DEFINE new == [NoWrite EXCEPT !.of = "add", !.alone = TRUE]
             gone == [NoWrite EXCEPT !.of = "gone"]
  <2>1. /\ new \in RowWrites /\ new.of = "add" /\ new.row.status = "none"
        /\ gone \in RowWrites /\ ~gone.alone /\ gone.of = "gone"
    BY Nothings DEF RowWrites, Changes, NoWrite, NoDomain
  <2>2. /\ domain'.status = "PENDING" /\ domain' \in Rows
        /\ sweep' = [t \in Sweeper |-> NoSweep]
        /\ held' = [t \in Sweeper |-> IF t = s THEN new
                                      ELSE IF held[t].of \in {"nothing", "remove"} THEN Disturbed[t]
                                      ELSE gone]
        /\ proofAge' = AgeCap /\ ~overwritten' /\ overwritten' \in BOOLEAN /\ docFails' = docFails
    BY <1>4, Nothings DEF AddOrgDomain, Rows, Statuses
  <2> HIDE DEF new, gone
  <2>3. held'[s] = new /\ held' \in [Sweeper -> RowWrites] /\ sweep' \in [Sweeper -> Sweeps]
    BY <1>1, <2>1, <2>2, AllOutdated, Nothings
  <2>4. \A t \in Sweeper : t # s => held'[t] = Disturbed[t] \/ held'[t] = gone
    BY <2>2
  <2>5. DomTypes' /\ RowSound' /\ OneAlone'
    BY <1>1, <1>3, <2>1, <2>2, <2>3, <2>4 DEF DomTypes, RowSound, OneAlone
  <2>6. Restorable(new) /\ Restorable(gone)
    BY <2>1, Nothings DEF new, gone, Restorable, NoWrite
  <2>7. ASSUME NEW t \in Sweeper PROVE UndoSound(t)'
    <3>1. held'[t].of \notin {"lapse", "remove"} \/ ~held'[t].alone
      BY <1>3, <2>1, <2>3, <2>4
    <3>2. Restorable(held'[t])
      BY <1>3, <2>3, <2>4, <2>6
    <3> QED
      BY <3>1, <3>2 DEF UndoSound, Withdraws
  <2> QED
    BY <2>5, <2>7 DEF DomInv
<1>5. CASE RemoveOrgDomain(s)
  <2>1. /\ domain' \in Rows /\ domain'.status = "none" /\ WritesDocument(s, "remove")
        /\ UNCHANGED <<proofAge, sweep, overwritten, docFails>>
    BY <1>5, Nothings DEF RemoveOrgDomain
  <2>2. /\ held' \in [Sweeper -> RowWrites] /\ held'[s] = Writing("remove")
        /\ \A t \in Sweeper : t # s => held'[t] = Disturbed[t]
    BY <1>2, <2>1 DEF Changes
  <2>3. DomTypes' /\ RowSound' /\ OneAlone'
    BY <1>1, <1>3, <2>1, <2>2 DEF DomTypes, RowSound, OneAlone
  <2>4. ASSUME NEW t \in Sweeper, t # s PROVE UndoSound(t)'
    BY <1>3, <2>2, <2>4 DEF UndoSound, Restorable, Withdraws
  <2>5. UndoSound(s)'
    BY <2>1, <2>2 DEF DomInv, RowSound, UndoSound, Restorable, Withdraws, Counted, Due
  <2> QED
    BY <2>3, <2>4, <2>5 DEF DomInv
<1>6. CASE ProvedByHand(s)
  <2>1. CASE elsewhere
    <3>1. RowAlone /\ UNCHANGED <<sweep, held, docFails>>
      BY <1>6, <2>1 DEF ProvedByHand, RowAlone
    <3> QED
      BY <1>1, <3>1, RowAloneKeeps DEF DomTypes
  <2>2. CASE ~elsewhere
    <3>1. VerifiedAgain \in 0..MinVerified
      BY <1>1, Periods DEF VerifiedAgain, DomInv, RowSound, DomTypes, Rows
    <3>2. /\ domain' = [status |-> "VERIFIED", failures |-> 0, checked |-> 0, verified |-> VerifiedAgain]
          /\ proofAge' = 0 /\ sweep' = Outdated /\ docFails' = docFails
          /\ IF domain.status = "VERIFIED" THEN held' = Disturbed ELSE WritesDocument(s, "check")
          /\ overwritten' = (overwritten /\ domain.status = "VERIFIED")
      BY <1>6, <2>2 DEF ProvedByHand
    <3>3. /\ domain' \in Rows /\ domain'.verified # -1 /\ Counted(domain)'
          /\ overwritten' \in BOOLEAN
      <4>1. domain' \in Rows
        BY <1>1, <3>1, <3>2, Periods DEF Rows, Statuses, Ages
      <4>2. domain'.failures * RecheckAfter + domain'.checked = 0
        BY <3>2, Periods
      <4> QED
        BY <3>1, <3>2, <4>1, <4>2 DEF Counted
    <3>4. /\ held' \in [Sweeper -> RowWrites]
          /\ \A t \in Sweeper : \/ held'[t] = Disturbed[t]
                                \/ t = s /\ held'[t] = Writing("check") /\ domain.status # "VERIFIED"
      <4> HIDE DEF Writing
      <4>1. CASE domain.status = "VERIFIED"
        <5>1. held' = Disturbed
          BY <3>2, <4>1
        <5> QED
          BY <1>1, <5>1, AllOutdated
      <4>2. CASE domain.status # "VERIFIED"
        <5>1. WritesDocument(s, "check") /\ "check" \in Changes
          BY <3>2, <4>2 DEF Changes
        <5>2. /\ held' \in [Sweeper -> RowWrites] /\ held'[s] = Writing("check")
              /\ \A t \in Sweeper : t # s => held'[t] = Disturbed[t]
          BY <1>2, <5>1
        <5> QED
          BY <4>2, <5>2
      <4> QED
        BY <4>1, <4>2
    <3>5. DomTypes' /\ RowSound' /\ OneAlone'
      BY <1>1, <1>3, <3>2, <3>3, <3>4, AllOutdated DEF DomTypes, RowSound, OneAlone
    <3>6. ASSUME NEW t \in Sweeper PROVE UndoSound(t)'
      BY <1>3, <3>4 DEF UndoSound, Restorable, Withdraws
    <3> QED
      BY <3>5, <3>6 DEF DomInv
  <2> QED
    BY <2>1, <2>2
<1> QED
  BY <1>4, <1>5, <1>6

LEMMA ChecksKeepDomInv ==
  ASSUME DomInv, \/ CheckByHand \/ AnswerByHand \/ NotFoundByHand \/ MissedByHand
                 \/ PublishProof \/ VerifiedElsewhere
  PROVE  DomInv'
<1>1. DomTypes
  BY DEF DomInv
<1>2. CASE CheckByHand \/ AnswerByHand \/ NotFoundByHand \/ PublishProof \/ VerifiedElsewhere
           \/ (MissedByHand /\ domain.status = "VERIFIED")
  <2>1. RowAlone /\ UNCHANGED <<sweep, held, docFails>>
    BY <1>2 DEF CheckByHand, AnswerByHand, NotFoundByHand, MissedByHand, PublishProof,
                VerifiedElsewhere, RowAlone
  <2> QED
    BY <1>1, <2>1, RowAloneKeeps DEF DomTypes
<1>3. CASE MissedByHand /\ domain.status # "VERIFIED"
  <2>1. /\ domain' = [domain EXCEPT !.checked = 0] /\ sweep' = Outdated /\ held' = Disturbed
        /\ UNCHANGED <<proofAge, overwritten, docFails>>
    BY <1>3 DEF MissedByHand
  <2>2. domain' \in Rows /\ domain'.status # "VERIFIED"
    <3>1. domain \in Rows /\ 0 \in Ages
      BY <1>1, Periods DEF DomTypes, Ages
    <3> QED
      BY <1>3, <2>1, <3>1 DEF Rows
  <2>3. DomTypes'
    BY <1>1, <2>1, <2>2, AllOutdated DEF DomTypes
  <2>4. \A s \in Sweeper : Restorable(held'[s])
    BY <1>1, <2>1, AllOutdated DEF DomInv, UndoSound, Restorable
  <2> QED
    BY <1>1, <2>1, <2>2, <2>3, <2>4, AllOutdated, RowIsLeft
<1> QED
  BY <1>2, <1>3

LEMMA SweepsKeepDomInv ==
  ASSUME DomInv, NEW s \in Sweeper, SweepDomain(s)
  PROVE  DomInv'
<1>1. /\ DomTypes /\ sweep[s] \in Sweeps /\ sweep[s].age \in Ages /\ held[s] \in RowWrites
      /\ domain \in Rows /\ domain.failures \in Nat /\ domain.checked \in Ages /\ proofAge \in Ages
      /\ sweep \in [Sweeper -> Sweeps]
  BY DEF DomInv, DomTypes, Sweeps, Rows
<1>2. CASE ListDomain(s)
  <2> DEFINE new == [age |-> 0, answer |-> "asking", current |-> TRUE]
  <2>1. new \in Sweeps /\ new.age = 0
    BY Periods DEF Sweeps, Answers, Ages
  <2>2. domain.status = "VERIFIED" /\ Due(domain, new)
    BY <1>1, <1>2, Periods DEF ListDomain, Due, Ages
  <2>3. /\ sweep' = [sweep EXCEPT ![s] = new]
        /\ UNCHANGED <<domain, proofAge, held, overwritten, docFails>>
    BY <1>2 DEF ListDomain
  <2> HIDE DEF new
  <2>4. sweep' \in [Sweeper -> Sweeps] /\ sweep'[s] = new
        /\ \A t \in Sweeper : t # s => sweep'[t] = sweep[t]
    BY <1>1, <2>1, <2>3
  <2>5. DomTypes' /\ OneAlone'
    BY <1>1, <2>3, <2>4 DEF DomInv, DomTypes, OneAlone
  <2>6. RowSound'
    BY <2>2, <2>3, <2>4 DEF DomInv, RowSound, Due, Counted
  <2>7. ASSUME NEW t \in Sweeper PROVE UndoSound(t)'
    <3>1. ~Withdraws(t)'
      BY <2>2, <2>3 DEF DomInv, UndoSound, Restorable, Withdraws
    <3> QED
      BY <2>3, <3>1 DEF DomInv, UndoSound, Restorable
  <2> QED
    BY <2>5, <2>6, <2>7 DEF DomInv
<1>3. CASE AskDomain(s) \/ DropAnswer(s)
  <2>1. RowAlone /\ UNCHANGED <<held, docFails>>
        /\ \/ \E answer \in {"proved", "missing"} : sweep' = [sweep EXCEPT ![s].answer = answer]
           \/ sweep' = [sweep EXCEPT ![s] = NoSweep]
    BY <1>3 DEF AskDomain, DropAnswer, RowAlone
  <2>2. sweep' \in [Sweeper -> Sweeps] /\ \A t \in Sweeper :
          sweep'[t].current => sweep[t].current /\ sweep'[t].age = sweep[t].age
    <3>1. CASE sweep' = [sweep EXCEPT ![s] = NoSweep]
      <4> HIDE DEF NoSweep
      <4> QED
        BY <1>1, <3>1, Nothings
    <3>2. CASE \E answer \in {"proved", "missing"} : sweep' = [sweep EXCEPT ![s].answer = answer]
      BY <1>1, <3>2 DEF Sweeps, Answers
    <3> QED
      BY <2>1, <3>1, <3>2
  <2> QED
    BY <1>1, <2>1, <2>2, RowAloneKeeps DEF DomTypes
<1>4. /\ \A t \in Sweeper : ~[Outdated EXCEPT ![s] = NoSweep][t].current
      /\ [Outdated EXCEPT ![s] = NoSweep] \in [Sweeper -> Sweeps]
  BY <1>1, AllOutdated, Nothings
<1>5. \A t \in Sweeper : Restorable(Disturbed[t])
  BY <1>1, AllOutdated DEF DomInv, UndoSound, Restorable
<1>6. CASE ApplyProof(s)
  <2>1. /\ domain' = [domain EXCEPT !.failures = 0, !.checked = sweep[s].age]
        /\ proofAge' = sweep[s].age /\ sweep' = [Outdated EXCEPT ![s] = NoSweep] /\ held' = Disturbed
        /\ UNCHANGED <<overwritten, docFails>> /\ domain.status = "VERIFIED"
    BY <1>6 DEF ApplyProof, Applies
  <2>2. domain' \in Rows /\ domain'.verified = domain.verified /\ Counted(domain)'
    <3>1. domain' \in Rows /\ domain'.verified = domain.verified /\ domain'.failures = 0
          /\ domain'.checked = sweep[s].age
      BY <1>1, <2>1 DEF Rows
    <3>2. domain'.failures * RecheckAfter + domain'.checked = proofAge'
      BY <1>1, <2>1, <3>1, Periods DEF Ages
    <3> QED
      BY <1>1, <2>1, <3>1, <3>2, Periods DEF Counted, Ages
  <2>3. DomTypes'
    BY <1>1, <1>4, <2>1, <2>2, AllOutdated DEF DomTypes
  <2> QED
    BY <1>1, <1>4, <1>5, <2>1, <2>2, <2>3, AllOutdated, RowIsLeft DEF DomInv, RowSound
<1> DEFINE debt == domain.failures * RecheckAfter
<1>7. /\ debt \in Nat /\ debt + RecheckAfter = (domain.failures + 1) * RecheckAfter
      /\ domain.failures + 1 \in Nat
  <2>1. domain.failures \in Nat /\ RecheckAfter \in Nat
    BY <1>1, Periods
  <2> QED
    BY <2>1, Periods
<1>8. ASSUME Applies(s), ~overwritten
      PROVE  proofAge = AgeCap \/ proofAge >= debt + RecheckAfter + sweep[s].age
  <2>1. /\ proofAge = AgeCap \/ proofAge >= debt + domain.checked
        /\ domain.checked = AgeCap \/ domain.checked >= RecheckAfter + sweep[s].age
    BY <1>8 DEF Applies, DomInv, RowSound, Counted, Due
  <2>2. /\ {AgeCap, RecheckAfter, domain.checked, proofAge, sweep[s].age} \subseteq Nat
        /\ proofAge <= AgeCap
    BY <1>1, Periods DEF Ages
  <2> HIDE DEF debt
  <2> QED
    BY <1>7, <2>1, <2>2
<1>9. CASE ApplyFailure(s)
  <2>1. /\ domain' = [domain EXCEPT !.failures = @ + 1, !.checked = sweep[s].age]
        /\ sweep' = [Outdated EXCEPT ![s] = NoSweep] /\ held' = Disturbed
        /\ UNCHANGED <<proofAge, overwritten, docFails>> /\ Applies(s)
    BY <1>9 DEF ApplyFailure
  <2>2. /\ domain' \in Rows /\ domain'.verified = domain.verified
        /\ domain'.failures = domain.failures + 1 /\ domain'.checked = sweep[s].age
    BY <1>1, <1>7, <2>1 DEF Rows
  <2>3. ~overwritten => Counted(domain)'
    BY <1>1, <1>7, <1>8, <2>1, <2>2 DEF Counted
  <2>4. DomTypes'
    BY <1>1, <1>4, <2>1, <2>2, AllOutdated DEF DomTypes
  <2> QED
    BY <1>1, <1>4, <1>5, <2>1, <2>2, <2>3, <2>4, AllOutdated, RowIsLeft DEF DomInv, RowSound, Applies
<1>10. CASE Lapse(s)
  <2> DEFINE new == [of |-> "lapse", row |-> domain, alone |-> TRUE]
  <2>1. /\ domain' = [domain EXCEPT !.status = "LAPSED", !.failures = @ + 1, !.checked = sweep[s].age]
        /\ sweep' = Outdated /\ held' = [Disturbed EXCEPT ![s] = new]
        /\ UNCHANGED <<proofAge, overwritten, docFails>> /\ Applies(s)
        /\ domain.failures + 1 >= LapseAfter
    BY <1>10 DEF Lapse, WritesDocument
  <2>2. new \in RowWrites /\ new.of = "lapse" /\ new.row = domain
    BY <1>1 DEF RowWrites, Changes
  <2>3. domain' \in Rows /\ domain'.status = "LAPSED"
    BY <1>1, <1>7, <2>1 DEF Rows, Statuses
  <2> HIDE DEF new
  <2>4. held' \in [Sweeper -> RowWrites] /\ held'[s] = new
        /\ \A t \in Sweeper : t # s => held'[t] = Disturbed[t]
    BY <1>1, <2>1, <2>2, AllOutdated
  <2>5. DomTypes' /\ RowSound' /\ OneAlone'
    BY <1>1, <2>1, <2>3, <2>4, AllOutdated DEF DomTypes, RowSound, OneAlone
  <2>6. ~overwritten => proofAge = AgeCap
    <3> HIDE DEF debt
    <3>1. debt + RecheckAfter >= AgeCap
      BY <1>7, <2>1, Periods
    <3>2. proofAge <= AgeCap /\ {proofAge, AgeCap, debt, RecheckAfter, sweep[s].age} \subseteq Nat
      BY <1>1, <1>7, Periods DEF Ages
    <3> QED
      BY <1>8, <2>1, <3>1, <3>2
  <2>7. UndoSound(s)'
    <3>1. domain.status = "VERIFIED" /\ domain.verified # -1
      BY <2>1 DEF Applies, DomInv, RowSound
    <3> QED
      BY <2>1, <2>2, <2>3, <2>4, <2>6, <3>1 DEF UndoSound, Restorable, Withdraws, Counted
  <2>8. ASSUME NEW t \in Sweeper, t # s PROVE UndoSound(t)'
    BY <1>1, <1>5, <2>4, <2>8, AllOutdated DEF UndoSound, Restorable, Withdraws
  <2> QED
    BY <2>5, <2>7, <2>8 DEF DomInv
<1> QED
  BY <1>2, <1>3, <1>6, <1>9, <1>10 DEF SweepDomain

LEMMA AnswersKeepDomInv ==
  ASSUME DomInv, NEW s \in Sweeper, DocumentAnswers(s)
  PROVE  DomInv'
<1>1. /\ DomTypes /\ sweep[s].age \in Ages /\ held[s] \in RowWrites /\ held[s].row \in Rows
      /\ sweep \in [Sweeper -> Sweeps] /\ held \in [Sweeper -> RowWrites] /\ docFails \in Nat
  BY DEF DomInv, DomTypes, Sweeps, RowWrites
<1>2. ASSUME held' = [held EXCEPT ![s] = NoWrite]
      PROVE  held' \in [Sweeper -> RowWrites] /\ \A t \in Sweeper : held'[t] = held[t] \/ held'[t] = NoWrite
  <2> HIDE DEF NoWrite
  <2> QED
    BY <1>1, <1>2, Nothings
<1>3. ASSUME sweep' = SweepEnds(s) \/ sweep' = sweep
      PROVE  /\ sweep' \in [Sweeper -> Sweeps]
             /\ \A t \in Sweeper : sweep'[t].current => sweep[t].current /\ sweep'[t].age = sweep[t].age
  <2>1. sweep' = sweep \/ sweep' = [sweep EXCEPT ![s] = NoSweep]
    BY <1>3 DEF SweepEnds
  <2> HIDE DEF NoSweep
  <2> QED
    BY <1>1, <2>1, Nothings
\* nothing has reached the row
<1>4. ASSUME UNCHANGED <<domain, proofAge, overwritten>>, docFails' \in Nat,
             held' = [held EXCEPT ![s] = NoWrite], sweep' = SweepEnds(s) \/ sweep' = sweep
      PROVE  DomInv'
  BY <1>2, <1>3, <1>4, RowAloneKeeps DEF RowAlone
<1>5. /\ [Disturbed EXCEPT ![s] = NoWrite] \in [Sweeper -> RowWrites]
      /\ \A t \in Sweeper : LET w == [Disturbed EXCEPT ![s] = NoWrite][t]
                            IN  ~w.alone /\ Restorable(w)
      /\ [Outdated EXCEPT ![s] = NoSweep] \in [Sweeper -> Sweeps]
      /\ \A t \in Sweeper : ~[Outdated EXCEPT ![s] = NoSweep][t].current
  <2>1. \A t \in Sweeper : ~Disturbed[t].alone /\ Restorable(Disturbed[t])
    BY <1>1, AllOutdated DEF DomInv, UndoSound, Restorable
  <2>2. ~NoWrite.alone /\ Restorable(NoWrite)
    BY Nothings DEF Restorable, NoWrite
  <2> HIDE DEF NoWrite, NoSweep
  <2> QED
    BY <1>1, <2>1, <2>2, AllOutdated, Nothings
<1>6. CASE DocumentWritten(s)
  BY <1>1, <1>4, <1>6 DEF DocumentWritten
\* an undo that has nothing to do with a lapse
<1>7. ASSUME UndoTakes(s), held[s].of # "lapse", domain' = held[s].row, proofAge' = proofAge,
             overwritten' = (overwritten \/ ~held[s].alone), docFails' \in Nat,
             held' = [Disturbed EXCEPT ![s] = NoWrite],
             sweep' = IF held[s].of = "remove" THEN sweep ELSE Outdated
      PROVE  DomInv'
  <2>1. DomTypes'
    BY <1>1, <1>5, <1>7, AllOutdated DEF DomTypes
  <2>2. ~overwritten' => held[s].alone /\ ~overwritten
    BY <1>1, <1>7 DEF DomTypes
  <2>3. CASE held[s].of # "remove"
    <3>1. domain'.status # "VERIFIED"
      BY <1>7, <2>3 DEF UndoTakes, DomInv, UndoSound, Restorable
    <3> QED
      BY <1>1, <1>5, <1>7, <2>1, <2>3, <3>1, AllOutdated, RowIsLeft
  <2>4. CASE held[s].of = "remove"
    <3>1. ASSUME domain'.status = "VERIFIED", ~overwritten'
          PROVE  /\ domain'.verified # -1 /\ Counted(domain)'
                 /\ \A t \in Sweeper : sweep'[t].current => Due(domain, sweep[t])'
      <4>1. Withdraws(s)
        BY <1>7, <2>2, <2>4, <3>1 DEF Withdraws
      <4> QED
        BY <1>7, <2>2, <2>4, <3>1, <4>1 DEF DomInv, UndoSound, Restorable, Counted, Due
    <3>2. domain'.status = "VERIFIED" => domain'.verified # -1
      BY <1>7 DEF DomInv, UndoSound, Restorable
    <3> QED
      BY <1>5, <1>7, <2>1, <3>1, <3>2 DEF DomInv, RowSound, UndoSound, Restorable, OneAlone, Withdraws
  <2> QED
    BY <2>3, <2>4
<1>8. CASE CommandFails(s)
  <2>1. docFails' \in Nat /\ proofAge' = proofAge /\ held[s].of # "lapse"
    BY <1>1, <1>8 DEF CommandFails
  <2> QED
    BY <1>4, <1>7, <1>8, <2>1 DEF CommandFails
<1>9. CASE LapseFails(s)
  <2>1. docFails' \in Nat /\ proofAge' = proofAge /\ held[s].of = "lapse"
    BY <1>1, <1>9 DEF LapseFails
  <2> DEFINE Marked(row) == [row EXCEPT !.checked = sweep[s].age]
  <2>2. CASE /\ domain' \in {Marked(domain), held[s].row, Marked(held[s].row)}
             /\ overwritten' = (overwritten \/ ~held[s].alone)
             /\ domain' = Marked(domain) \/ UndoTakes(s)
             /\ held' = [Disturbed EXCEPT ![s] = NoWrite]
             /\ sweep' = [Outdated EXCEPT ![s] = NoSweep]
    <3>1. /\ domain' \in Rows
          /\ \/ domain'.verified = domain.verified /\ domain'.status = domain.status
             \/ domain'.verified = held[s].row.verified /\ domain'.status = held[s].row.status
      BY <1>1, <2>2 DEF DomTypes, Rows
    <3>2. DomTypes'
      BY <1>1, <1>5, <2>1, <2>2, <3>1 DEF DomTypes
    <3>3. ASSUME domain'.status = "VERIFIED"
          PROVE  domain'.verified # -1 /\ (~overwritten' => Counted(domain)')
      <4>1. domain'.verified # -1
        <5>1. CASE domain'.verified = domain.verified /\ domain'.status = domain.status
          BY <3>3, <5>1 DEF DomInv, RowSound
        <5>2. CASE domain'.verified = held[s].row.verified /\ domain'.status = held[s].row.status
          BY <3>3, <5>2 DEF DomInv, UndoSound, Restorable
        <5> QED
          BY <3>1, <5>1, <5>2
      <4>2. ASSUME ~overwritten' PROVE proofAge' = AgeCap
        <5>1. ~overwritten /\ held[s].alone
          BY <1>1, <2>2, <4>2 DEF DomTypes
        <5>2. held[s].row.status = "VERIFIED"
          BY <2>1 DEF DomInv, UndoSound, Restorable
        <5> QED
          BY <2>1, <5>1, <5>2 DEF DomInv, UndoSound, Withdraws
      <4> QED
        BY <4>1, <4>2 DEF Counted
    <3> QED
      BY <1>5, <2>2, <3>2, <3>3, RowIsLeft
  <2> QED
    BY <1>4, <1>9, <2>1, <2>2 DEF LapseFails
<1> QED
  BY <1>6, <1>8, <1>9 DEF DocumentAnswers

LEMMA OlderAges ==
  ASSUME NEW age \in Ages
  PROVE  /\ Older(age) \in Ages /\ Older(age) <= age + 1
         /\ Older(age) = AgeCap \/ Older(age) = age + 1
         /\ age = AgeCap => Older(age) = AgeCap
BY Periods DEF Older, Ages

LEMMA AgedRows ==
  ASSUME NEW row \in Rows
  PROVE  /\ Aged(row) \in Rows
         /\ Aged(row).status = row.status /\ Aged(row).failures = row.failures
         /\ Aged(row).checked = Older(row.checked)
         /\ Aged(row).verified = LongerVerified(row.verified)
         /\ Aged(row).verified = -1 <=> row.verified = -1
<1>1. row.checked \in Ages /\ row.verified \in -1..MinVerified
  BY DEF Rows
<1>2. LongerVerified(row.verified) \in -1..MinVerified
      /\ (LongerVerified(row.verified) = -1 <=> row.verified = -1)
  BY <1>1, Periods DEF LongerVerified
<1>3. Older(row.checked) \in Ages
  BY <1>1, OlderAges
<1> QED
  BY <1>2, <1>3 DEF Aged, Rows

LEMMA TickKeepsDomInv ==
  ASSUME DomInv, DomTick
  PROVE  DomInv'
<1>1. /\ DomTypes /\ domain \in Rows /\ proofAge \in Ages
      /\ sweep \in [Sweeper -> Sweeps] /\ held \in [Sweeper -> RowWrites]
  BY DEF DomInv, DomTypes
<1>2. /\ domain' = Aged(domain) /\ proofAge' = Older(proofAge)
      /\ UNCHANGED <<overwritten, docFails>>
  BY DEF DomTick
<1>3. /\ sweep' \in [Sweeper -> Sweeps]
      /\ \A s \in Sweeper : sweep'[s].current =>
           sweep[s].current /\ sweep'[s].age = Older(sweep[s].age)
  <2>1. ASSUME NEW s \in Sweeper
        PROVE  LET run == [sweep[s] EXCEPT !.age = Older(@)]
               IN  run \in Sweeps /\ run.current = sweep[s].current /\ run.age = Older(sweep[s].age)
    <3>1. sweep[s] \in Sweeps /\ Older(sweep[s].age) \in Ages
      BY <1>1, OlderAges DEF Sweeps
    <3> QED
      BY <3>1 DEF Sweeps
  <2>2. sweep' = [s \in Sweeper |-> IF sweep[s] = NoSweep THEN NoSweep
                                    ELSE [sweep[s] EXCEPT !.age = Older(@)]]
    BY DEF DomTick
  <2>3. \A s \in Sweeper : IF sweep[s] = NoSweep THEN sweep'[s] = NoSweep
                           ELSE sweep'[s] = [sweep[s] EXCEPT !.age = Older(@)]
    BY <2>2
  <2>4. \A s \in Sweeper : sweep'[s] \in Sweeps
    BY <2>1, <2>3, Nothings
  <2>5. sweep' \in [Sweeper -> Sweeps]
    BY <2>2, <2>4
  <2> QED
    BY <2>1, <2>3, <2>5, Nothings
<1>4. /\ held' \in [Sweeper -> RowWrites]
      /\ \A s \in Sweeper : /\ held'[s].of = held[s].of /\ held'[s].alone = held[s].alone
                            /\ held'[s].row = Aged(held[s].row) /\ held[s].row \in Rows
  <2>1. ASSUME NEW s \in Sweeper
        PROVE  LET w == [held[s] EXCEPT !.row = Aged(@)]
               IN  /\ w \in RowWrites /\ w.of = held[s].of /\ w.alone = held[s].alone
                   /\ w.row = Aged(held[s].row) /\ held[s].row \in Rows
    <3>1. held[s] \in RowWrites /\ held[s].row \in Rows /\ Aged(held[s].row) \in Rows
      BY <1>1, AgedRows DEF RowWrites
    <3> QED
      BY <3>1 DEF RowWrites
  <2>2. held' = [s \in Sweeper |-> [held[s] EXCEPT !.row = Aged(@)]]
    BY DEF DomTick
  <2> QED
    BY <2>1, <2>2
<1>5. DomTypes' /\ OneAlone'
  BY <1>1, <1>2, <1>3, <1>4, AgedRows, OlderAges DEF DomInv, DomTypes, OneAlone
<1>6. ASSUME NEW row \in Rows, Counted(row)
      PROVE  \/ proofAge' = AgeCap
             \/ proofAge' >= Aged(row).failures * RecheckAfter + Aged(row).checked
  <2>1. row.failures * RecheckAfter \in Nat /\ row.checked \in Ages
    BY Periods DEF Rows
  <2> DEFINE debt == row.failures * RecheckAfter
  <2>2. proofAge = AgeCap \/ proofAge >= debt + row.checked
    BY <1>6 DEF Counted
  <2>3. proofAge' = AgeCap \/ proofAge' >= debt + Aged(row).checked
    <3> HIDE DEF debt
    <3>1. debt \in Nat
      BY <2>1 DEF debt
    <3>2. Aged(row).checked = Older(row.checked) /\ Older(row.checked) <= row.checked + 1
      BY <2>1, AgedRows, OlderAges
    <3>3. proofAge' \in Ages /\ Older(row.checked) \in Ages
      BY <1>1, <1>2, <2>1, OlderAges
    <3>4. proofAge' = AgeCap \/ (proofAge # AgeCap /\ proofAge' = proofAge + 1)
      BY <1>1, <1>2, OlderAges
    <3> QED
      BY <1>1, <2>1, <2>2, <3>1, <3>2, <3>3, <3>4 DEF Ages
  <2>4. Aged(row).failures = row.failures
    BY AgedRows
  <2> QED
    BY <2>3, <2>4
<1>7. ASSUME NEW row \in Rows, NEW s \in Sweeper, sweep[s].current => Due(row, sweep[s]),
             sweep'[s].current
      PROVE  Due(Aged(row), sweep'[s])
  <2>1. row.checked \in Ages /\ sweep[s].age \in Ages
    BY <1>1 DEF Rows, Sweeps
  <2>2. row.checked = AgeCap \/ row.checked >= RecheckAfter + sweep[s].age
    BY <1>3, <1>7 DEF Due
  <2>3. Aged(row).checked = Older(row.checked) /\ sweep'[s].age = Older(sweep[s].age)
    BY <1>3, <1>7, AgedRows
  <2>4. /\ Older(row.checked) = AgeCap \/ (row.checked # AgeCap /\ Older(row.checked) = row.checked + 1)
        /\ Older(sweep[s].age) <= sweep[s].age + 1 /\ Older(sweep[s].age) \in Ages
    BY <2>1, OlderAges
  <2> QED
    BY <2>1, <2>2, <2>3, <2>4, Periods DEF Due, Ages
<1>8. RowSound'
  BY <1>1, <1>2, <1>3, <1>6, <1>7, AgedRows DEF DomInv, RowSound, Counted
<1>9. ASSUME NEW s \in Sweeper PROVE UndoSound(s)'
  <2>1. Restorable(held[s]) /\ held[s].row \in Rows /\ UndoSound(s)
    BY <1>4 DEF DomInv, UndoSound
  <2>2. Restorable(held'[s])
    BY <1>4, <2>1, AgedRows DEF Restorable
  <2>3. Withdraws(s)' => Withdraws(s)
    BY <1>4, <2>1, AgedRows DEF Withdraws
  <2>4. proofAge = AgeCap => proofAge' = AgeCap
    BY <1>1, <1>2, OlderAges
  <2>5. ASSUME Withdraws(s)', ~overwritten', held'[s].of = "remove", NEW t \in Sweeper, sweep'[t].current
        PROVE  Due(held'[s].row, sweep'[t])
    BY <1>2, <1>4, <1>7, <2>1, <2>3, <2>5 DEF UndoSound
  <2>6. ASSUME Withdraws(s)', ~overwritten' PROVE Counted(held[s].row)
    BY <1>2, <2>1, <2>3, <2>6 DEF UndoSound
  <2>7. ASSUME Withdraws(s)', ~overwritten' PROVE Counted(held[s].row)'
    BY <1>4, <1>6, <2>1, <2>6, <2>7 DEF Counted
  <2>8. domain'.status = domain.status
    BY <1>1, <1>2, AgedRows
  <2> QED
    BY <1>2, <1>4, <2>1, <2>2, <2>3, <2>4, <2>5, <2>7, <2>8 DEF UndoSound, Due, Counted
<1> QED
  BY <1>5, <1>8, <1>9 DEF DomInv

LEMMA DomInvInit == DomInit => DomInv
<1> SUFFICES ASSUME DomInit PROVE DomInv
  OBVIOUS
<1>1. DomTypes
  <2>1. /\ domain = NoDomain /\ proofAge = AgeCap /\ overwritten = FALSE /\ docFails = 0
        /\ sweep = [s \in Sweeper |-> NoSweep] /\ held = [s \in Sweeper |-> NoWrite]
    BY DEF DomInit
  <2>2. AgeCap \in Ages
    BY Periods DEF Ages
  <2> HIDE DEF NoDomain, NoSweep, NoWrite
  <2>3. sweep \in [Sweeper -> Sweeps] /\ held \in [Sweeper -> RowWrites]
    BY <2>1, Nothings
  <2> QED
    BY <2>1, <2>2, <2>3, Nothings DEF DomTypes
<1>2. \A s \in Sweeper : held[s] = NoWrite
  BY DEF DomInit
<1> QED
  BY <1>1, <1>2, Nothings DEF DomInit, DomInv, RowSound, UndoSound, Restorable, Withdraws, OneAlone,
     NoWrite

LEMMA DomInvNext == DomInv /\ [DomNext]_domVars => DomInv'
<1> SUFFICES ASSUME DomInv, [DomNext]_domVars PROVE DomInv'
  OBVIOUS
<1>1. CASE UNCHANGED domVars
  <2>1. RowAlone /\ UNCHANGED <<sweep, held, docFails>>
    BY <1>1 DEF domVars, RowAlone
  <2> QED
    BY <2>1, RowAloneKeeps DEF DomInv, DomTypes
<1>2. CASE \/ CheckByHand \/ AnswerByHand \/ NotFoundByHand \/ MissedByHand
           \/ PublishProof \/ VerifiedElsewhere
  BY <1>2, ChecksKeepDomInv
<1>3. CASE \E s \in Sweeper : AddOrgDomain(s) \/ RemoveOrgDomain(s) \/ ProvedByHand(s)
  BY <1>3, CommandsKeepDomInv
<1>4. CASE \E s \in Sweeper : SweepDomain(s)
  BY <1>4, SweepsKeepDomInv
<1>5. CASE \E s \in Sweeper : DocumentAnswers(s)
  BY <1>5, AnswersKeepDomInv
<1>6. CASE DomTick
  BY <1>6, TickKeepsDomInv
<1> QED
  BY <1>1, <1>2, <1>3, <1>4, <1>5, <1>6 DEF DomNext

\* Each row, what a sweep may apply to it and what an undo puts back are as the counting of
\* failures needs them, in every reachable state.
THEOREM DomInvHolds == DomSpec => []DomInv
BY DomInvInit, DomInvNext, PTL DEF DomSpec

LEMMA OnlyTheSweepLapses ==
  ASSUME DomInv, [DomNext]_domVars, Lapses
  PROVE  \E s \in Sweeper : Lapse(s)
<1>1. domain \in Rows /\ docFails \in Nat /\ domain.status = "VERIFIED" /\ domain'.status = "LAPSED"
      /\ docFails' = docFails
  BY DEF DomInv, DomTypes, Lapses
<1>2. ~UNCHANGED domVars /\ ~UNCHANGED domain
  BY <1>1 DEF domVars
<1>3. ~(\/ CheckByHand \/ AnswerByHand \/ NotFoundByHand \/ MissedByHand
        \/ PublishProof \/ VerifiedElsewhere)
  BY <1>1, <1>2 DEF CheckByHand, AnswerByHand, NotFoundByHand, MissedByHand, PublishProof,
                    VerifiedElsewhere
<1>4. ~DomTick
  BY <1>1, AgedRows DEF DomTick
<1>5. ASSUME NEW s \in Sweeper
      PROVE  ~(AddOrgDomain(s) \/ RemoveOrgDomain(s) \/ ProvedByHand(s) \/ DocumentAnswers(s))
  <2>1. ~AddOrgDomain(s) /\ ~RemoveOrgDomain(s) /\ ~ProvedByHand(s)
    BY <1>1, <1>2, Nothings DEF AddOrgDomain, RemoveOrgDomain, ProvedByHand
  <2>2. ~DocumentWritten(s) /\ ~CommandFails(s) /\ ~LapseFails(s)
    BY <1>1, <1>2 DEF DocumentWritten, CommandFails, LapseFails
  <2> QED
    BY <2>1, <2>2 DEF DocumentAnswers
<1>6. ASSUME NEW s \in Sweeper, SweepDomain(s) PROVE Lapse(s)
  <2>1. ~ListDomain(s) /\ ~AskDomain(s) /\ ~DropAnswer(s)
    BY <1>2 DEF ListDomain, AskDomain, DropAnswer
  <2>2. ~ApplyProof(s) /\ ~ApplyFailure(s)
    BY <1>1 DEF ApplyProof, ApplyFailure, Rows
  <2> QED
    BY <1>6, <2>1, <2>2 DEF SweepDomain
<1> QED
  BY <1>2, <1>3, <1>4, <1>5, <1>6 DEF DomNext

\* A domain that lapses has not been found proved for LapseAfter re-check periods, or an undo
\* had written over another replica.
THEOREM LapseIsLate == DomSpec => LapsesAfterThreeDays
<1>1. ASSUME DomInv, DomInv', [DomNext]_domVars, Lapses
      PROVE  overwritten \/ proofAge >= LapseAfter * RecheckAfter
  <2>1. PICK s \in Sweeper : Lapse(s)
    BY <1>1, OnlyTheSweepLapses
  <2>2. /\ held'[s] = [of |-> "lapse", row |-> domain, alone |-> TRUE]
        /\ domain.status = "VERIFIED" /\ UNCHANGED <<proofAge, overwritten>>
    <3>1. Disturbed \in [Sweeper -> RowWrites]
      BY <1>1, AllOutdated DEF DomInv
    <3> QED
      BY <2>1, <3>1 DEF Lapse, Applies, WritesDocument
  <2>3. Withdraws(s)'
    BY <2>2 DEF Withdraws
  <2>4. overwritten \/ proofAge = AgeCap
    BY <1>1, <2>2, <2>3 DEF DomInv, UndoSound
  <2> QED
    BY <2>4, Periods DEF AgeCap
<1>2. DomInv /\ DomInv' /\ [DomNext]_domVars
      => [Lapses => overwritten \/ proofAge >= LapseAfter * RecheckAfter]_domVars
  BY <1>1
<1> QED
  BY <1>2, DomInvHolds, PTL DEF DomSpec, LapsesAfterThreeDays

\* With a single replica nobody writes the row between a write and its undo: the lock of the
\* process is held all that time.
Undisturbed ==
  ~overwritten /\ \A s \in Sweeper : held[s].of = "nothing" \/ held[s].alone

LEMMA OneReplicaUndisturbed ==
  ASSUME NEW r, Sweeper = {r}
  PROVE  DomSpec => []Undisturbed
<1>1. DomInit => Undisturbed
  BY Nothings DEF DomInit, Undisturbed
<1>2. ASSUME DomInv, Undisturbed, [DomNext]_domVars PROVE Undisturbed'
  <2>1. /\ held \in [Sweeper -> RowWrites] /\ r \in Sweeper /\ overwritten = FALSE
        /\ held[r].of = "nothing" \/ held[r].alone
        /\ Disturbed \in [Sweeper -> RowWrites] /\ Disturbed[r].of = held[r].of
    BY <1>2, AllOutdated DEF DomInv, DomTypes, Undisturbed
  <2>2. LockFree(r) => Disturbed[r].of = "nothing"
    BY <2>1, Nothings DEF LockFree
  <2>3. CASE UNCHANGED <<held, overwritten>>
    BY <1>2, <2>3 DEF Undisturbed
  <2>4. CASE LockFree(r) /\ held' = Disturbed /\ UNCHANGED overwritten
    BY <2>1, <2>2, <2>4 DEF Undisturbed
  <2>5. CASE ~overwritten' /\ \E change : WritesDocument(r, change)
    BY <2>1, <2>5 DEF Undisturbed, WritesDocument
  <2>6. CASE AddOrgDomain(r)
    <3>1. held'[r] = [NoWrite EXCEPT !.of = "add", !.alone = TRUE] /\ ~overwritten'
      BY <2>6 DEF AddOrgDomain
    <3>2. held'[r].alone
      BY <3>1 DEF NoWrite
    <3> QED
      BY <3>1, <3>2 DEF Undisturbed
  <2>7. CASE RemoveOrgDomain(r) \/ Lapse(r)
    BY <2>1, <2>5, <2>7 DEF RemoveOrgDomain, Lapse
  <2>8. CASE ProvedByHand(r)
    BY <2>1, <2>3, <2>4, <2>5, <2>8 DEF ProvedByHand
  <2>9. CASE \/ CheckByHand \/ AnswerByHand \/ NotFoundByHand \/ MissedByHand
             \/ PublishProof \/ VerifiedElsewhere
    BY <2>3, <2>4, <2>9 DEF CheckByHand, AnswerByHand, NotFoundByHand, MissedByHand, PublishProof,
                            VerifiedElsewhere
  <2>10. CASE SweepDomain(r) /\ ~Lapse(r)
    BY <2>3, <2>4, <2>10 DEF SweepDomain, ListDomain, AskDomain, DropAnswer, ApplyProof, ApplyFailure,
                             Applies
  <2>11. CASE DocumentAnswers(r)
    <3>1. ~overwritten'
      BY <2>1, <2>11 DEF DocumentAnswers, DocumentWritten, CommandFails, LapseFails
    <3>2. held'[r] = NoWrite
      <4>1. held' = [held EXCEPT ![r] = NoWrite] \/ held' = [Disturbed EXCEPT ![r] = NoWrite]
        BY <2>11 DEF DocumentAnswers, DocumentWritten, CommandFails, LapseFails
      <4> QED
        BY <2>1, <4>1
    <3> QED
      BY <3>1, <3>2, Nothings DEF Undisturbed
  <2>12. CASE DomTick
    <3>1. held'[r] = [held[r] EXCEPT !.row = Aged(@)] /\ overwritten' = overwritten
      BY <2>1, <2>12 DEF DomTick
    <3>2. held'[r].of = held[r].of /\ held'[r].alone = held[r].alone
      BY <2>1, <3>1 DEF RowWrites
    <3> QED
      BY <2>1, <3>1, <3>2 DEF Undisturbed
  <2>13. CASE UNCHANGED domVars
    BY <2>3, <2>13 DEF domVars
  <2> QED
    BY <1>2, <2>6, <2>7, <2>8, <2>9, <2>10, <2>11, <2>12, <2>13 DEF DomNext
<1>3. DomInv /\ Undisturbed /\ [DomNext]_domVars => Undisturbed'
  BY <1>2
<1> QED
  BY <1>1, <1>3, DomInvHolds, PTL DEF DomSpec

\* A tenant that runs one replica has the three days the policy promises.
THEOREM OneReplicaLapsesLate ==
  ASSUME NEW r, Sweeper = {r}
  PROVE  DomSpec => ThreeDaysWithoutProof
<1>1. DomSpec => []Undisturbed
  BY OneReplicaUndisturbed
<1>2. Undisturbed /\ [Lapses => overwritten \/ proofAge >= LapseAfter * RecheckAfter]_domVars
      => [Lapses => proofAge >= LapseAfter * RecheckAfter]_domVars
  BY DEF Undisturbed
<1> QED
  BY <1>1, <1>2, LapseIsLate, PTL DEF LapsesAfterThreeDays, ThreeDaysWithoutProof

\* What the row and the undos say of the domain's standing.
Evaluated ==
  /\ overwritten \/ (domain.status # "VERIFIED" /\ \A s \in Sweeper : ~Withdraws(s))
       => Standing = "no" /\ VerifiedFor = -1
  /\ ~overwritten /\ domain.status = "VERIFIED" => Standing = "yes" /\ VerifiedFor = domain.verified
  /\ \A s \in Sweeper : ~overwritten /\ Withdraws(s)
       => Standing = "withdrawn" /\ VerifiedFor = held[s].row.verified

LEMMA Evaluations == DomInv => Evaluated
<1> SUFFICES ASSUME DomInv PROVE Evaluated
  OBVIOUS
<1>1. ASSUME NEW s \in Sweeper, ~overwritten, Withdraws(s)
      PROVE  Standing = "withdrawn" /\ VerifiedFor = held[s].row.verified
  <2>1. domain.status # "VERIFIED"
    BY <1>1 DEF DomInv, UndoSound
  <2>2. Standing = "withdrawn"
    BY <1>1, <2>1 DEF Standing
  <2>3. \A t \in Sweeper : Withdraws(t) => t = s
    BY <1>1 DEF DomInv, OneAlone, Withdraws
  <2>4. (CHOOSE t \in Sweeper : Withdraws(t)) = s
    BY <1>1, <2>3
  <2> QED
    BY <2>2, <2>4 DEF VerifiedFor
<1>2. ASSUME overwritten \/ (domain.status # "VERIFIED" /\ \A s \in Sweeper : ~Withdraws(s))
      PROVE  Standing = "no" /\ VerifiedFor = -1
  BY <1>2 DEF Standing, VerifiedFor
<1>3. ASSUME ~overwritten, domain.status = "VERIFIED"
      PROVE  Standing = "yes" /\ VerifiedFor = domain.verified
  BY <1>3 DEF Standing, VerifiedFor
<1> QED
  BY <1>1, <1>2, <1>3 DEF Evaluated

Verifies == [Verified!VerifiedDomainNext]_<<Standing, VerifiedFor>>

Sound == DomInv /\ Evaluated

\* After the step the domain stands as it did, or it does not and nobody puts it back.
LEMMA NothingLeft ==
  ASSUME Sound, Evaluated',
         overwritten' \/ (domain'.status # "VERIFIED" /\ \A s \in Sweeper : ~Withdraws(s)')
  PROVE  Verifies
<1>1. Standing' = "no" /\ VerifiedFor' = -1
  BY DEF Evaluated
<1>2. Standing = "no" => VerifiedFor = -1
  BY DEF Standing, VerifiedFor
<1> QED
  BY <1>1, <1>2 DEF Verifies, Verified!VerifiedDomainNext, Verified!Lapse

LEMMA StillVerified ==
  ASSUME Sound, Evaluated', UNCHANGED overwritten,
         domain.status = "VERIFIED", domain'.status = "VERIFIED", domain'.verified = domain.verified
  PROVE  Verifies
BY DEF Sound, Evaluated, Verifies

LEMMA RowAloneVerifies ==
  ASSUME Sound, Evaluated', RowAlone, \A s \in Sweeper : held'[s] = held[s] \/ held'[s] = NoWrite
  PROVE  Verifies
<1>1. CASE domain.status = "VERIFIED" \/ overwritten \/ \A s \in Sweeper : ~Withdraws(s)'
  BY <1>1, NothingLeft, StillVerified DEF RowAlone
<1>2. CASE ~overwritten /\ \E s \in Sweeper : Withdraws(s)'
  <2>1. PICK s \in Sweeper : Withdraws(s)'
    BY <1>2
  <2>2. held'[s] = held[s]
    BY <2>1, Nothings DEF Withdraws
  <2>3. Withdraws(s)
    BY <2>1, <2>2 DEF Withdraws
  <2> QED
    BY <1>2, <2>1, <2>2, <2>3 DEF Sound, Evaluated, Verifies, RowAlone
<1> QED
  BY <1>1, <1>2

LEMMA CommandsVerify ==
  ASSUME Sound, Evaluated', NEW s \in Sweeper,
         AddOrgDomain(s) \/ RemoveOrgDomain(s) \/ ProvedByHand(s) \/ Lapse(s)
  PROVE  Verifies
<1>1. /\ overwritten \in BOOLEAN /\ Disturbed \in [Sweeper -> RowWrites]
      /\ \A t \in Sweeper : ~Disturbed[t].alone
  BY AllOutdated DEF Sound, DomInv, DomTypes
<1>2. ASSUME NEW change, WritesDocument(s, change)
      PROVE  /\ held'[s].of = change /\ held'[s].row = domain /\ held'[s].alone
             /\ \A t \in Sweeper : t # s => ~Withdraws(t)'
  <2>1. held'[s] = [of |-> change, row |-> domain, alone |-> TRUE]
    BY <1>1, <1>2 DEF WritesDocument
  <2>2. \A t \in Sweeper : t # s => held'[t] = Disturbed[t]
    BY <1>1, <1>2 DEF WritesDocument
  <2> QED
    BY <1>1, <2>1, <2>2 DEF Withdraws
<1>3. ASSUME NEW change \in {"remove", "lapse"}, WritesDocument(s, change),
             domain'.status # "VERIFIED", UNCHANGED overwritten
      PROVE  Verifies
  <2>1. CASE overwritten \/ domain.status # "VERIFIED"
    <3>1. held'[s].row = domain /\ \A t \in Sweeper : t # s => ~Withdraws(t)'
      BY <1>2, <1>3
    <3>2. domain.status # "VERIFIED" => \A t \in Sweeper : ~Withdraws(t)'
      BY <3>1 DEF Withdraws
    <3> QED
      BY <1>3, <2>1, <3>2, NothingLeft
  <2>2. CASE ~overwritten /\ domain.status = "VERIFIED"
    <3>1. Standing = "yes" /\ VerifiedFor = domain.verified
      BY <2>2 DEF Sound, Evaluated
    <3>2. Withdraws(s)' /\ held'[s].row = domain
      BY <1>2, <1>3, <2>2 DEF Withdraws
    <3>3. Standing' = "withdrawn" /\ VerifiedFor' = domain.verified
      BY <1>3, <2>2, <3>2 DEF Evaluated
    <3> QED
      BY <3>1, <3>3 DEF Verifies, Verified!VerifiedDomainNext, Verified!Withdraw
  <2> QED
    BY <2>1, <2>2
<1>4. CASE AddOrgDomain(s)
  <2>1. domain'.status = "PENDING"
    BY <1>4, Nothings DEF AddOrgDomain, NoDomain
  <2>2. ASSUME NEW t \in Sweeper PROVE ~Withdraws(t)'
    <3>1. held'[t] = IF t = s THEN [NoWrite EXCEPT !.of = "add", !.alone = TRUE]
                     ELSE IF held[t].of \in {"nothing", "remove"} THEN Disturbed[t]
                     ELSE [NoWrite EXCEPT !.of = "gone"]
      BY <1>4 DEF AddOrgDomain
    <3> QED
      BY <1>1, <3>1 DEF Withdraws, NoWrite
  <2> QED
    BY <2>1, <2>2, NothingLeft
<1>5. CASE RemoveOrgDomain(s)
  BY <1>3, <1>5, Nothings DEF RemoveOrgDomain
<1>6. CASE Lapse(s)
  <2>1. domain'.status = "LAPSED" /\ WritesDocument(s, "lapse") /\ UNCHANGED overwritten
    BY <1>6 DEF Lapse, Sound, DomInv, DomTypes, Rows
  <2> QED
    BY <1>3, <2>1
<1>7. CASE ProvedByHand(s)
  <2>1. CASE elsewhere
    BY <1>7, <2>1, RowAloneVerifies DEF ProvedByHand, RowAlone
  <2>2. CASE ~elsewhere /\ domain.status = "VERIFIED"
    <3>1. /\ domain'.status = "VERIFIED" /\ domain'.verified = domain.verified
          /\ UNCHANGED overwritten
      BY <1>1, <1>7, <2>2 DEF ProvedByHand, VerifiedAgain
    <3> QED
      BY <2>2, <3>1, StillVerified
  <2>3. CASE ~elsewhere /\ domain.status # "VERIFIED"
    <3>1. domain'.status = "VERIFIED" /\ domain'.verified = 0 /\ ~overwritten'
      <4>1. domain' = [status |-> "VERIFIED", failures |-> 0, checked |-> 0, verified |-> VerifiedAgain]
            /\ overwritten' = (overwritten /\ domain.status = "VERIFIED")
        BY <1>7, <2>3 DEF ProvedByHand
      <4>2. VerifiedAgain = 0
        BY <2>3 DEF VerifiedAgain
      <4> QED
        BY <2>3, <4>1, <4>2
    <3>2. Standing # "yes"
      BY <2>3 DEF Standing
    <3>3. Standing' = "yes" /\ VerifiedFor' = 0
      BY <3>1 DEF Evaluated
    <3> QED
      BY <3>2, <3>3 DEF Verifies, Verified!VerifiedDomainNext, Verified!Verify
  <2> QED
    BY <2>1, <2>2, <2>3
<1> QED
  BY <1>4, <1>5, <1>6, <1>7

\* An undo gives back the very row that was withdrawn, or what it puts back has no standing.
LEMMA UndoVerifies ==
  ASSUME Sound, Evaluated', NEW s \in Sweeper, held[s].of \in {"add", "check", "remove", "lapse"},
         overwritten' = (overwritten \/ ~held[s].alone),
         \/ domain'.status = held[s].row.status /\ domain'.verified = held[s].row.verified
         \/ domain'.status = domain.status /\ held[s].of = "lapse",
         held' = [Disturbed EXCEPT ![s] = NoWrite]
  PROVE  Verifies
<1>1. /\ overwritten \in BOOLEAN /\ held[s].alone \in BOOLEAN /\ Disturbed \in [Sweeper -> RowWrites]
      /\ \A t \in Sweeper : ~Disturbed[t].alone
  BY AllOutdated DEF Sound, DomInv, DomTypes, RowWrites
<1>2. \A t \in Sweeper : ~Withdraws(t)'
  BY <1>1, Nothings DEF Withdraws
<1>3. CASE overwritten' \/ domain'.status # "VERIFIED"
  BY <1>2, <1>3, NothingLeft
<1>4. CASE ~overwritten' /\ domain'.status = "VERIFIED"
  <2>1. ~overwritten /\ held[s].alone
    BY <1>1, <1>4
  <2>2. held[s].of = "lapse" => held[s].row.status = "VERIFIED"
    BY DEF Sound, DomInv, UndoSound, Restorable
  <2>3. held[s].row.status = "VERIFIED" => Withdraws(s) /\ domain.status # "VERIFIED"
    BY <2>1 DEF Sound, DomInv, UndoSound, Restorable, Withdraws
  <2>4. domain'.verified = held[s].row.verified /\ Withdraws(s)
    BY <1>4, <2>2, <2>3
  <2>5. Standing = "withdrawn" /\ VerifiedFor = held[s].row.verified
    BY <2>1, <2>4 DEF Sound, Evaluated
  <2>6. Standing' = "yes" /\ VerifiedFor' = domain'.verified
    BY <1>4 DEF Evaluated
  <2> QED
    BY <2>4, <2>5, <2>6 DEF Verifies, Verified!VerifiedDomainNext, Verified!Restore
<1> QED
  BY <1>3, <1>4

LEMMA AnswersVerify ==
  ASSUME Sound, Evaluated', NEW s \in Sweeper, DocumentAnswers(s)
  PROVE  Verifies
<1>1. held \in [Sweeper -> RowWrites] /\ domain \in Rows /\ held[s].row \in Rows
  BY DEF Sound, DomInv, DomTypes, RowWrites
<1>2. ASSUME held' = [held EXCEPT ![s] = NoWrite], RowAlone PROVE Verifies
  BY <1>1, <1>2, RowAloneVerifies
<1>3. CASE DocumentWritten(s)
  BY <1>2, <1>3 DEF DocumentWritten, RowAlone
<1>4. CASE CommandFails(s)
  BY <1>2, <1>4, UndoVerifies DEF CommandFails, RowAlone, UndoTakes
<1>5. CASE LapseFails(s)
  <2> DEFINE Marked(row) == [row EXCEPT !.checked = sweep[s].age]
  <2>1. CASE held' = [held EXCEPT ![s] = NoWrite] /\ RowAlone
    BY <1>2, <2>1
  <2>2. CASE /\ domain' \in {Marked(domain), held[s].row, Marked(held[s].row)}
             /\ overwritten' = (overwritten \/ ~held[s].alone)
             /\ held' = [Disturbed EXCEPT ![s] = NoWrite]
    <3>1. held[s].of = "lapse"
      BY <1>5 DEF LapseFails
    <3>2. \/ domain'.status = held[s].row.status /\ domain'.verified = held[s].row.verified
          \/ domain'.status = domain.status
      BY <1>1, <2>2 DEF Rows
    <3> QED
      BY <2>2, <3>1, <3>2, UndoVerifies
  <2> QED
    BY <1>5, <2>1, <2>2 DEF LapseFails, RowAlone
<1> QED
  BY <1>3, <1>4, <1>5 DEF DocumentAnswers

LEMMA ChecksVerify ==
  ASSUME Sound, Evaluated',
         \/ CheckByHand \/ AnswerByHand \/ NotFoundByHand \/ MissedByHand
         \/ PublishProof \/ VerifiedElsewhere
         \/ \E s \in Sweeper : SweepDomain(s) /\ ~Lapse(s)
         \/ UNCHANGED domVars
  PROVE  Verifies
<1>1. domain \in Rows /\ \A s \in Sweeper : ~Disturbed[s].alone
  BY AllOutdated DEF Sound, DomInv, DomTypes
<1>2. CASE UNCHANGED <<domain, proofAge, overwritten, held>>
  BY <1>2, RowAloneVerifies DEF RowAlone
<1>3. CASE MissedByHand /\ domain.status # "VERIFIED"
  <2>1. domain'.status # "VERIFIED" /\ held' = Disturbed
    BY <1>1, <1>3 DEF MissedByHand, Rows
  <2> QED
    BY <1>1, <2>1, NothingLeft DEF Withdraws
<1>4. CASE \E s \in Sweeper : ApplyProof(s) \/ ApplyFailure(s)
  <2>1. /\ domain.status = "VERIFIED" /\ domain'.status = "VERIFIED"
        /\ domain'.verified = domain.verified /\ UNCHANGED overwritten
    BY <1>1, <1>4 DEF ApplyProof, ApplyFailure, Applies, Rows
  <2> QED
    BY <2>1, StillVerified
<1>5. CASE CheckByHand \/ AnswerByHand \/ NotFoundByHand \/ PublishProof \/ VerifiedElsewhere
           \/ (MissedByHand /\ domain.status = "VERIFIED") \/ UNCHANGED domVars
  BY <1>2, <1>5 DEF CheckByHand, AnswerByHand, NotFoundByHand, MissedByHand, PublishProof,
                    VerifiedElsewhere, domVars
<1>6. CASE \E s \in Sweeper : ListDomain(s) \/ AskDomain(s) \/ DropAnswer(s)
  BY <1>2, <1>6 DEF ListDomain, AskDomain, DropAnswer
<1> QED
  BY <1>3, <1>4, <1>5, <1>6 DEF SweepDomain

LEMMA TickVerifies ==
  ASSUME Sound, Evaluated', DomTick
  PROVE  Verifies
<1>1. /\ domain \in Rows /\ held \in [Sweeper -> RowWrites]
      /\ domain' = Aged(domain) /\ UNCHANGED overwritten
      /\ domain'.status = domain.status /\ domain'.verified = LongerVerified(domain.verified)
  BY AgedRows DEF Sound, DomInv, DomTypes, DomTick
<1>2. ASSUME NEW s \in Sweeper
      PROVE  /\ held'[s].row.verified = LongerVerified(held[s].row.verified)
             /\ Withdraws(s)' <=> Withdraws(s)
             /\ held[s].row \in Rows
  <2>1. held[s] \in RowWrites /\ held[s].row \in Rows /\ held'[s] = [held[s] EXCEPT !.row = Aged(@)]
    BY <1>1 DEF DomTick, RowWrites
  <2>2. held'[s].of = held[s].of /\ held'[s].alone = held[s].alone /\ held'[s].row = Aged(held[s].row)
    BY <2>1 DEF RowWrites
  <2> QED
    BY <2>1, <2>2, AgedRows DEF Withdraws
<1>3. ASSUME Standing' = Standing, Standing # "no", VerifiedFor \in -1..MinVerified, VerifiedFor # -1,
             VerifiedFor' = LongerVerified(VerifiedFor)
      PROVE  Verifies
  <2>1. VerifiedFor' = IF VerifiedFor < MinVerified THEN VerifiedFor + 1 ELSE VerifiedFor
    BY <1>3, Periods DEF LongerVerified
  <2> QED
    BY <1>3, <2>1 DEF Verifies, Verified!VerifiedDomainNext, Verified!GrowOlder
<1>4. CASE overwritten \/ (domain.status # "VERIFIED" /\ \A s \in Sweeper : ~Withdraws(s))
  BY <1>1, <1>2, <1>4, NothingLeft
<1>5. CASE ~overwritten /\ domain.status = "VERIFIED"
  <2>1. Standing = "yes" /\ Standing' = "yes" /\ VerifiedFor = domain.verified
        /\ VerifiedFor' = domain'.verified
    BY <1>1, <1>5 DEF Sound, Evaluated
  <2>2. domain.verified # -1 /\ domain.verified \in -1..MinVerified
    BY <1>1, <1>5 DEF Sound, DomInv, RowSound, Rows
  <2> QED
    BY <1>1, <1>3, <2>1, <2>2
<1>6. ASSUME NEW s \in Sweeper, ~overwritten, Withdraws(s) PROVE Verifies
  <2>1. Standing = "withdrawn" /\ Standing' = "withdrawn" /\ VerifiedFor = held[s].row.verified
        /\ VerifiedFor' = held'[s].row.verified
    BY <1>1, <1>2, <1>6 DEF Sound, Evaluated
  <2>2. held[s].row.verified # -1 /\ held[s].row.verified \in -1..MinVerified
    BY <1>2, <1>6 DEF Sound, DomInv, UndoSound, Restorable, Withdraws, Rows
  <2> QED
    BY <1>2, <1>3, <2>1, <2>2
<1> QED
  BY <1>4, <1>5, <1>6

\* The age a verification has comes from time alone: no check renews it, an undo gives back
\* what a lapse or a removal took, and a lapse that stands ends it.
THEOREM VerifiedStays == DomSpec => VerifiedAllThatTime
<1>1. ASSUME DomInit, Evaluated PROVE Verified!VerifiedDomainInit
  <2>1. ~overwritten /\ domain.status # "VERIFIED" /\ \A s \in Sweeper : ~Withdraws(s)
    BY <1>1, Nothings DEF DomInit, Withdraws
  <2> QED
    BY <1>1, <2>1 DEF Evaluated, Verified!VerifiedDomainInit
<1>2. ASSUME Sound, Evaluated', [DomNext]_domVars PROVE Verifies
  <2>1. CASE \E s \in Sweeper : AddOrgDomain(s) \/ RemoveOrgDomain(s) \/ ProvedByHand(s) \/ Lapse(s)
    BY <1>2, <2>1, CommandsVerify
  <2>2. CASE \E s \in Sweeper : DocumentAnswers(s)
    BY <1>2, <2>2, AnswersVerify
  <2>3. CASE DomTick
    BY <1>2, <2>3, TickVerifies
  <2>4. CASE \/ CheckByHand \/ AnswerByHand \/ NotFoundByHand \/ MissedByHand
             \/ PublishProof \/ VerifiedElsewhere
             \/ \E s \in Sweeper : SweepDomain(s) /\ ~Lapse(s)
             \/ UNCHANGED domVars
    BY <1>2, <2>4, ChecksVerify
  <2> QED
    BY <1>2, <2>1, <2>2, <2>3, <2>4 DEF DomNext
<1>3. DomInit /\ Evaluated => Verified!VerifiedDomainInit
  BY <1>1
<1>4. Sound /\ Evaluated' /\ [DomNext]_domVars => Verifies
  BY <1>2
<1> QED
  BY <1>3, <1>4, Evaluations, DomInvHolds, PTL
  DEF DomSpec, Sound, Verifies, VerifiedAllThatTime, Verified!VerifiedDomainSpec

--------------------------------------------------------------------------------
(* Webhooks.                                                                        *)

HookRows == [status : {"none", "PENDING", "PAUSED", "DELIVERED", "FAILED"}, attempts : Nat]

\* A takedown pauses what is queued, so no vetted delivery can be claimed: its row is not
\* PENDING, or is not the row that the worker listed.  Nobody else lifts or sets the flag while
\* a resolution waits for its document.
HookInv ==
  /\ delivery \in [Delivery -> HookRows]
  /\ hand \in [Delivery -> {"idle", "listed", "enabled", "pausing", "failing", "vetted", "sending"}]
  /\ queueing \in [Delivery -> {"ahead", "reading", "over"}]
  /\ asListed \in [Delivery -> BOOLEAN]
  /\ takenDown \in BOOLEAN
  /\ moderation \in [as : Resolutions \cup {"none"}, was : BOOLEAN]
  /\ \A d \in Delivery : queueing[d] # "over" => delivery[d].status = "none" /\ hand[d] = "idle"
  /\ takenDown => \A d \in Delivery : hand[d] = "vetted" => ~Claimable(d)
  /\ moderation.as = "TAKE_DOWN" => takenDown
  /\ moderation.as = "RESTORE" => ~takenDown
  /\ OnlyStraysWait

\* of a delivery's worker, of the event that queues it, and of its clock
LEMMA HookWorkKeeps ==
  ASSUME HookInv, NEW d \in Delivery,
         QueueEvent(d) \/ InsertDelivery(d) \/ WorkOn(d) \/ ComeDue(d)
  PROVE  HookInv'
<1> USE DEF HookInv, HookRows, Claimable, Mark, OnlyStraysWait
<1>1. CASE QueueEvent(d)
  BY <1>1 DEF QueueEvent, senderVars
<1>2. CASE InsertDelivery(d)
  BY <1>2 DEF InsertDelivery, senderVars
<1>3. CASE ListDelivery(d)
  BY <1>3 DEF ListDelivery, senderVars
<1>4. CASE LookAtEndpoint(d)
  BY <1>4 DEF LookAtEndpoint, senderVars
<1>5. CASE LookAtSender(d)
  BY <1>5 DEF LookAtSender, senderVars
<1>6. CASE PauseDelivery(d)
  BY <1>6 DEF PauseDelivery
<1>7. CASE GiveUp(d)
  BY <1>7 DEF GiveUp, senderVars
<1>8. CASE ClaimDelivery(d)
  <2>1. /\ delivery' \in [Delivery -> HookRows]
        /\ \A e \in Delivery : delivery'[e].status = delivery[e].status
    BY <1>8 DEF ClaimDelivery
  <2>2. /\ hand' \in [Delivery -> {"idle", "listed", "enabled", "pausing", "failing", "vetted", "sending"}]
        /\ \A e \in Delivery : /\ hand'[e] = "vetted" => hand[e] = "vetted"
                               /\ hand[e] = "idle" => hand'[e] = "idle"
    BY <1>8 DEF ClaimDelivery
  <2> QED
    BY <1>8, <2>1, <2>2 DEF ClaimDelivery, senderVars
<1>9. CASE SendSucceeds(d)
  BY <1>9 DEF SendSucceeds, senderVars
<1>10. CASE SendFails(d)
  BY <1>10 DEF SendFails, senderVars
<1>11. CASE ComeDue(d)
  BY <1>11 DEF ComeDue, senderVars
<1> QED
  BY <1>1, <1>2, <1>3, <1>4, <1>5, <1>6, <1>7, <1>8, <1>9, <1>10, <1>11 DEF WorkOn

\* of the moderators, of the organisation's admins, and of a stop
LEMMA HookOthersKeep ==
  ASSUME HookInv,
         \/ \E as \in Resolutions : Resolve(as)
         \/ ModerationEnds \/ UndoModeration \/ SetHook \/ DeleteOrgWebhook \/ WorkersStop
         \/ UNCHANGED hookVars
  PROVE  HookInv'
<1> USE DEF HookInv, Claimable, OnlyStraysWait, NoModeration, Resolutions, senderVars
<1>1. ASSUME PauseDeliveries
      PROVE  /\ delivery' \in [Delivery -> HookRows] /\ asListed' = asListed
             /\ \A d \in Delivery : delivery'[d].status = IF delivery[d].status = "PENDING" THEN "PAUSED"
                                                         ELSE delivery[d].status
  BY <1>1 DEF PauseDeliveries, HookRows
<1>2. ASSUME ResumeDeliveries
      PROVE  /\ delivery' \in [Delivery -> HookRows] /\ asListed' \in [Delivery -> BOOLEAN]
             /\ \A d \in Delivery :
                  /\ delivery'[d].status = IF delivery[d].status = "PAUSED" THEN "PENDING"
                                           ELSE delivery[d].status
                  /\ asListed'[d] => asListed[d] /\ delivery[d].status # "PAUSED"
  <2>1. delivery' \in [Delivery -> HookRows] /\ asListed' \in [Delivery -> BOOLEAN]
    BY <1>2 DEF ResumeDeliveries, HookRows
  <2>2. ASSUME NEW d \in Delivery
        PROVE  /\ delivery'[d].status = IF delivery[d].status = "PAUSED" THEN "PENDING"
                                        ELSE delivery[d].status
               /\ asListed'[d] => asListed[d] /\ delivery[d].status # "PAUSED"
    BY <1>2 DEF ResumeDeliveries, HookRows
  <2> QED
    BY <2>1, <2>2
<1>3. CASE Resolve("TAKE_DOWN")
  <2>1. PauseDeliveries /\ takenDown' = TRUE /\ moderation' = [as |-> "TAKE_DOWN", was |-> takenDown]
        /\ UNCHANGED <<hand, queueing, strayed>>
    BY <1>3 DEF Resolve
  <2> QED
    BY <1>1, <2>1
<1>4. CASE Resolve("RESTORE")
  <2>1. ResumeDeliveries /\ takenDown' = FALSE /\ moderation' = [as |-> "RESTORE", was |-> takenDown]
        /\ UNCHANGED <<hand, queueing>>
    BY <1>4 DEF Resolve
  <2> QED
    BY <1>2, <2>1
<1>5. CASE ModerationEnds
  BY <1>5 DEF ModerationEnds
<1>6. CASE UndoModeration
  <2>1. moderation' = NoModeration /\ takenDown' = moderation.was /\ UNCHANGED <<hand, queueing>>
    BY <1>6 DEF UndoModeration
  <2>2. CASE moderation.as = "TAKE_DOWN" /\ ResumeDeliveries
    BY <1>2, <2>1, <2>2
  <2>3. CASE /\ moderation.as = "RESTORE" /\ PauseDeliveries
             /\ strayed' = IF moderation.was THEN strayed
                           ELSE strayed \cup {d \in Delivery : delivery[d].status = "PENDING"}
    BY <1>1, <2>1, <2>3
  <2> QED
    BY <1>6, <2>2, <2>3 DEF UndoModeration
<1>7. CASE SetHook
  BY <1>7 DEF SetHook
<1>8. CASE WorkersStop
  BY <1>8 DEF WorkersStop
<1>9. CASE DeleteOrgWebhook
  <2>1. delivery' \in [Delivery -> HookRows] /\ \A d \in Delivery : delivery'[d].status = "none"
    BY <1>9 DEF DeleteOrgWebhook, HookRows
  <2> QED
    BY <1>9, <2>1 DEF DeleteOrgWebhook
<1>10. CASE UNCHANGED hookVars
  BY <1>10 DEF hookVars
<1> QED
  BY <1>3, <1>4, <1>5, <1>6, <1>7, <1>8, <1>9, <1>10

LEMMA HookInvHolds == HookSpec => []HookInv
<1>1. HookInit => HookInv
  <2> SUFFICES ASSUME HookInit
               PROVE  HookInv
    OBVIOUS
  <2>1. delivery \in [Delivery -> HookRows] /\ \A d \in Delivery : delivery[d].status = "none"
    BY DEF HookInit, HookRows
  <2>2. moderation \in [as : Resolutions \cup {"none"}, was : BOOLEAN] /\ moderation.as = "none"
    BY DEF HookInit, NoModeration
  <2> QED
    BY <2>1, <2>2 DEF HookInit, HookInv, OnlyStraysWait, Claimable
<1>2. HookInv /\ [HookNext]_hookVars => HookInv'
  BY HookWorkKeeps, HookOthersKeep DEF HookNext
<1> QED
  BY <1>1, <1>2, PTL DEF HookSpec

\* NothingSentWhileTakenDown: the pause of the takedown and the condition of the claim make
\* up for the lock that the webhooks job does not take, also when takedowns repeat and are undone.
THEOREM TakenDownSendsNothing == HookSpec => NothingSentWhileTakenDown
<1>1. HookInv /\ [HookNext]_hookVars =>
        [\A d \in Delivery : hand[d] = "vetted" /\ hand'[d] = "sending" => ~takenDown]_hookVars
  <2> SUFFICES ASSUME HookInv, HookNext, NEW d \in Delivery, hand[d] = "vetted", hand'[d] = "sending"
               PROVE  ~takenDown
    OBVIOUS
  <2>1. ClaimDelivery(d)
    BY DEF HookNext, WorkOn, HookInv, QueueEvent, InsertDelivery, ListDelivery, LookAtEndpoint,
           LookAtSender, PauseDelivery, GiveUp, ClaimDelivery, SendSucceeds, SendFails, ComeDue,
           Resolve, ModerationEnds, UndoModeration, SetHook, DeleteOrgWebhook, WorkersStop
  <2> QED
    BY <2>1 DEF ClaimDelivery, HookInv
<1> QED
  BY <1>1, HookInvHolds, PTL DEF HookSpec, NothingSentWhileTakenDown

\* OnlyStraysWait: apart from a worker's old look and the undo of a needless RESTORE, nothing
\* leaves a delivery waiting on a live organisation.
THEOREM StraysAlone == HookSpec => []OnlyStraysWait
<1>1. HookInv => OnlyStraysWait
  BY DEF HookInv
<1> QED
  BY <1>1, HookInvHolds, PTL

--------------------------------------------------------------------------------
(* Suspensions.                                                                     *)

\* What an exit condemned is suspended on its own or by its issuer's suspension; a
\* delegation the read model has was issued, and not later than now.
SuspensionInv ==
  /\ hour \in Nat \ {0}
  /\ credential \in [Credential -> [at : Nat, indexed : BOOLEAN]]
  /\ suspended \subseteq Credential /\ left \subseteq Credential
  /\ suspendedAt \in [Issuer -> Nat]
  /\ standing \in [Issuer -> Standings]
  /\ \A c \in Credential : /\ credential[c].at <= hour
                           /\ credential[c].indexed => credential[c].at > 0
  /\ \A c \in left : /\ credential[c].indexed
                     /\ c \in suspended \/ suspendedAt[IssuerOf[c]] >= credential[c].at

LEMMA SuspensionInvHolds == SuspensionSpec => []SuspensionInv
<1> USE SuspensionAssumption
<1>1. SuspensionInit => SuspensionInv
  BY DEF SuspensionInit, SuspensionInv, Standings
<1>2. ASSUME SuspensionInv, [SuspensionNext]_suspensionVars
      PROVE  SuspensionInv'
  <2> USE DEF SuspensionInv
  <2>1. CASE HourPasses
    BY <1>2, <2>1 DEF HourPasses
  <2>2. ASSUME NEW c \in Credential, Delegate(c)
        PROVE  SuspensionInv'
    BY <1>2, <2>2 DEF Delegate
  <2>3. ASSUME NEW c \in Credential, IndexCredential(c)
        PROVE  SuspensionInv'
    BY <1>2, <2>3 DEF IndexCredential
  <2>4. ASSUME NEW c \in Credential, UnsuspendOrgCredential(c)
        PROVE  SuspensionInv'
    <3> DEFINE who == IssuerOf[c]
               lifts == credential[c].indexed /\ suspendedAt[who] > 0 /\ suspendedAt[who] >= credential[c].at
               others == IF lifts THEN OthersCovered(c) ELSE {}
    <3>1. others \subseteq Credential /\ c \notin others
      BY DEF OthersCovered, LiveCredentialsOf
    <3>2. ASSUME NEW x \in left, x # c, lifts, IssuerOf[x] = who, x \notin suspended
          PROVE  x \in others
      BY <1>2, <3>2 DEF OthersCovered, LiveCredentialsOf
    <3>3. UNCHANGED <<hour, credential, standing>>
      BY <2>4 DEF UnsuspendOrgCredential
    <3>4. CASE UNCHANGED <<suspended, suspendedAt, left>>
      BY <1>2, <3>3, <3>4
    <3>5. CASE /\ suspendedAt' = IF lifts THEN [suspendedAt EXCEPT ![who] = 0] ELSE suspendedAt
               /\ suspended' = (suspended \cup others) \ {c} /\ left' = left \ {c}
      BY <1>2, <3>1, <3>2, <3>3, <3>5
    <3>6. CASE /\ suspendedAt' = IF lifts THEN [suspendedAt EXCEPT ![who] = 0] ELSE suspendedAt
               /\ c \in suspended \cup others /\ suspended' = suspended \cup others /\ left' = left
      BY <1>2, <3>1, <3>2, <3>3, <3>6
    <3> QED
      BY <2>4, <3>4, <3>5, <3>6 DEF UnsuspendOrgCredential, UnsuspendRow
  <2>5. ASSUME NEW ids \in SUBSET Credential, SuspendOrgCredentials(ids)
        PROVE  SuspensionInv'
    BY <1>2, <2>5 DEF SuspendOrgCredentials, Suspend
  <2>6. ASSUME NEW i \in Issuer, EndsMembership(i)
        PROVE  SuspensionInv'
    <3> DEFINE ids == LiveCredentialsOf(i, hour)
    <3>1. ids \subseteq Credential /\ \A c \in ids : credential[c].indexed /\ IssuerOf[c] = i
      BY DEF LiveCredentialsOf
    <3>2. /\ left' = left \cup ids /\ standing' = [standing EXCEPT ![i] = "out"]
          /\ UNCHANGED <<hour, credential>>
      BY <2>6 DEF EndsMembership, SuspendOnExit
    <3>3. standing' \in [Issuer -> Standings]
      BY <1>2, <3>2 DEF Standings
    <3>4. CASE suspended' = suspended \cup ids /\ UNCHANGED suspendedAt
      BY <1>2, <3>1, <3>2, <3>3, <3>4
    <3>5. CASE suspendedAt' = [suspendedAt EXCEPT ![i] = hour] /\ UNCHANGED suspended
      BY <1>2, <3>1, <3>2, <3>3, <3>5
    <3> QED
      BY <2>6, <3>4, <3>5 DEF EndsMembership, SuspendOnExit
  <2>7. ASSUME NEW i \in Issuer, NEW s \in Standings, ChangeStanding(i, s)
        PROVE  SuspensionInv'
    BY <1>2, <2>7 DEF ChangeStanding
  <2>8. ASSUME NEW state, ChangeApp(state)
        PROVE  SuspensionInv'
    BY <1>2, <2>8 DEF ChangeApp
  <2>9. CASE UNCHANGED suspensionVars
    BY <1>2, <2>9 DEF suspensionVars
  <2>10. \A i \in Issuer : LiveCredentialsOf(i, hour) \in SUBSET Credential
    BY DEF LiveCredentialsOf
  <2> QED
    BY <1>2, <2>1, <2>2, <2>3, <2>4, <2>5, <2>6, <2>7, <2>8, <2>9, <2>10 DEF SuspensionNext
<1> QED
  BY <1>1, <1>2, PTL DEF SuspensionSpec

\* LeaversStaySuspended: re-joining, a new role and lifting another delegation's suspension
\* bring no delegation back that an exit condemned.
THEOREM LeaversSuspended == SuspensionSpec => []LeaversStaySuspended
<1>1. SuspensionInv => LeaversStaySuspended
  BY SuspensionAssumption DEF SuspensionInv, LeaversStaySuspended, VerdictOnOne
<1> QED
  BY <1>1, SuspensionInvHolds, PTL

\* VerdictsAgree: the verdict on many delegations and the verdict on one are the same.
THEOREM OneVerdict == SuspensionSpec => []VerdictsAgree
<1>1. ASSUME SuspensionInv
      PROVE  VerdictsAgree
  <2> DEFINE issued == {c \in Credential : credential[c].indexed}
             open == IF appState.frozen THEN {} ELSE issued
             issuers == {IssuerOf[c] : c \in open}
             rows == suspended \cap open
             memberRows == {<<i, suspendedAt[i]>> : i \in {j \in issuers : suspendedAt[j] > 0}}
             members == {i \in issuers : appState.live /\ standing[i] # "out"}
             needTeams == {i \in members : standing[i] \in {"publisher", "team"}}
             covered == {i \in members \ needTeams : standing[i] # "member"}
                          \cup {i \in needTeams : standing[i] = "team"}
             many(c) == IF appState.frozen THEN "APP_FROZEN"
                        ELSE IF c \in rows \/ CoveredBy(c, memberRows) THEN "SUSPENDED"
                        ELSE IF IssuerOf[c] \notin members THEN "ISSUER_NOT_MEMBER"
                        ELSE IF IssuerOf[c] \in covered THEN "COUNTS" ELSE "ISSUER_NOT_PUBLISHER"
  <2>1. ASSUME NEW c \in issued, ~appState.frozen
        PROVE  CoveredBy(c, memberRows) <=> suspendedAt[IssuerOf[c]] >= credential[c].at
    <3>1. /\ IssuerOf[c] \in issuers /\ IssuerOf[c] \in Issuer
          /\ credential[c].at \in Nat \ {0} /\ suspendedAt[IssuerOf[c]] \in Nat
      BY <1>1, <2>1, SuspensionAssumption DEF SuspensionInv
    <3>2. CoveredBy(c, memberRows) <=>
            \E i \in issuers : suspendedAt[i] > 0 /\ i = IssuerOf[c] /\ suspendedAt[i] >= credential[c].at
      <4>1. \A sus : sus \in memberRows <=>
              \E i \in issuers : suspendedAt[i] > 0 /\ sus = <<i, suspendedAt[i]>>
        OBVIOUS
      <4> HIDE DEF memberRows, issuers
      <4>2. ASSUME NEW i \in issuers, suspendedAt[i] > 0, i = IssuerOf[c], suspendedAt[i] >= credential[c].at
            PROVE  CoveredBy(c, memberRows)
        <5> DEFINE row == <<i, suspendedAt[i]>>
        <5>1. row \in memberRows
          BY <4>1, <4>2
        <5>2. row[1] = IssuerOf[c] /\ row[2] >= credential[c].at
          BY <4>2
        <5> QED
          BY <5>1, <5>2 DEF CoveredBy
      <4>3. ASSUME NEW sus \in memberRows, sus[1] = IssuerOf[c], sus[2] >= credential[c].at
            PROVE  \E i \in issuers : /\ suspendedAt[i] > 0 /\ i = IssuerOf[c]
                                     /\ suspendedAt[i] >= credential[c].at
        <5>1. PICK i \in issuers : suspendedAt[i] > 0 /\ sus = <<i, suspendedAt[i]>>
          BY <4>1, <4>3
        <5> QED
          BY <4>3, <5>1
      <4> QED
        BY <4>2, <4>3 DEF CoveredBy
    <3> QED
      BY <3>1, <3>2
  <2>2. ASSUME NEW c \in issued, ~appState.frozen
        PROVE  /\ IssuerOf[c] \in members <=> appState.live /\ standing[IssuerOf[c]] # "out"
               /\ IssuerOf[c] \in covered <=> /\ appState.live
                                              /\ standing[IssuerOf[c]] \in {"own", "team", "all"}
    BY <1>1, <2>2, SuspensionAssumption DEF SuspensionInv, Standings
  <2>3. ASSUME NEW c \in issued
        PROVE  many(c) = VerdictOnOne(c)
    <3>1. CASE appState.frozen
      BY <3>1 DEF VerdictOnOne
    <3>2. CASE ~appState.frozen
      <4>1. c \in rows <=> c \in suspended
        BY <3>2
      <4>2. IssuerOf[c] \in Issuer
        BY SuspensionAssumption
      <4> HIDE DEF rows, memberRows, members, covered
      <4> QED
        BY <2>1, <2>2, <2>3, <3>2, <4>1, <4>2 DEF VerdictOnOne
    <3> QED
      BY <3>1, <3>2
  <2>4. VerdictsOnMany(issued) = [c \in issued |-> many(c)]
    BY DEF VerdictsOnMany
  <2> QED
    BY <2>3, <2>4 DEF VerdictsAgree
<1> QED
  BY <1>1, SuspensionInvHolds, PTL

--------------------------------------------------------------------------------
(* Handles.  While a handle is changed, its row is the new one, its document the    *)
(* old one, and the old one is reserved for the organisation, out of everybody's    *)
(* reach.                                                                           *)

Reservation == [reason : {"none", "CHANGED", "RELEASED"}, company : Company \cup {NoName}]

Rename == [step : {"unheld", "free", "document", "undo"}, to : Name, from : Name \cup {NoName},
           how : {"CREATED", "CHANGED", "RELEASED"}, previous : Reservation]

Asks(c) == rename[c].step \in {"unheld", "free"}

Renamed(c) == rename[c].step \in {"document", "undo"}

NameTyped ==
  /\ rowName \in [Company -> Name \cup {NoName}]
  /\ docName \in [Company -> Name \cup {NoName}]
  /\ kept \in [Name -> Reservation]
  /\ rename \in [Company -> {NoRename} \cup Rename]
  /\ \A c \in Company : Asks(c) \/ Renamed(c) =>
       (rename[c].how = "CREATED" <=> rename[c].from = NoName)

\* A handle is one company's, and goes to one at a time.
OneHolder ==
  \A c, d \in Company : c # d =>
    /\ rowName[c] = rowName[d] => rowName[c] = NoName
    /\ (Asks(c) \/ Renamed(c)) /\ (Asks(d) \/ Renamed(d)) => rename[c].to # rename[d].to

\* What the row and the document say while the company's request is under way.
RowsInStep ==
  \A c \in Company :
    /\ Asks(c) => rename[c].from = rowName[c]
    /\ Renamed(c) => rename[c].to = rowName[c]
    /\ Asks(c) \/ Renamed(c) => rename[c].to # rename[c].from
    /\ c \notin apart => docName[c] = IF Renamed(c) THEN rename[c].from ELSE rowName[c]

\* Nobody goes for a handle that a company has, unless an undo put it there.
HeldIsNotSought ==
  \A c, d \in Company :
    c # d /\ rowName[c] \in Name \ contested /\ Asks(d) => rename[d].to # rowName[c]

\* A handle that is changed from stays where an undo finds it.
ChangedIsKept ==
  \A c \in Company : Renamed(c) /\ rename[c].how = "CHANGED" /\ rename[c].from \notin contested =>
    LET n == rename[c].from
    IN  /\ kept[n] = [reason |-> "CHANGED", company |-> c]
        /\ \A d \in Company : rowName[d] # n
        /\ \A d \in Company \ {c} : rename[d].step = "free" => rename[d].to # n

NameInv == NameTyped /\ OneHolder /\ RowsInStep /\ HeldIsNotSought /\ ChangedIsKept

\* A request is under way or not.
LEMMA RenameSteps ==
  ASSUME NameTyped, NEW c \in Company
  PROVE  /\ rename[c].step \in {"idle", "unheld", "free", "document", "undo"}
         /\ rename[c].step = "idle" => rename[c] = NoRename
         /\ rename[c].step # "idle" => rename[c] \in Rename
         /\ rename[c].step # "idle" <=> Asks(c) \/ Renamed(c)
BY DEF NameTyped, Rename, NoRename, Asks, Renamed


\* An action that neither moves rows nor touches reservations, of one request.
LEMMA LookUpHolderKept ==
  ASSUME NameInv, NEW c \in Company, NEW n \in Name, NEW how \in {"CREATED", "CHANGED", "RELEASED"},
         LookUpHolder(c, n, how)
  PROVE  NameInv'
<1> DEFINE r == [step |-> "unheld", to |-> n, from |-> rowName[c], how |-> how, previous |-> NotKept]
<1>1. /\ rename[c].step = "idle" /\ ~HandleLocked(n) /\ \A d \in Company : rowName[d] # n
      /\ how = "CREATED" <=> rowName[c] = NoName
      /\ rename' = [rename EXCEPT ![c] = r]
      /\ UNCHANGED <<rowName, docName, kept, apart, contested>>
  BY DEF LookUpHolder
<1>2. r \in Rename
  BY DEF NameInv, NameTyped, Rename, Reservation, NotKept
<1>3. rename'[c] = r /\ \A d \in Company \ {c} : rename'[d] = rename[d]
  BY <1>1 DEF NameInv, NameTyped
<1>4. /\ r.step = "unheld" /\ r.to = n /\ r.from = rowName[c] /\ r.how = how
  OBVIOUS
<1> HIDE DEF r
<1>5. NameTyped'
  BY <1>1, <1>2, <1>3, <1>4 DEF NameInv, NameTyped, Asks, Renamed
<1>6. OneHolder'
  BY <1>1, <1>3, <1>4 DEF NameInv, OneHolder, HandleLocked, Asks, Renamed
<1>7. RowsInStep'
  BY <1>1, <1>3, <1>4 DEF NameInv, RowsInStep, Asks, Renamed
<1>8. HeldIsNotSought'
  BY <1>1, <1>3, <1>4 DEF NameInv, HeldIsNotSought, Asks
<1>9. ChangedIsKept'
  BY <1>1, <1>3, <1>4 DEF NameInv, ChangedIsKept, Renamed
<1> QED
  BY <1>5, <1>6, <1>7, <1>8, <1>9 DEF NameInv

\* Requests that end before they wrote anything, or after both halves are written or undone.
LEMMA HeardKept ==
  ASSUME NameInv, NEW c \in Company, Heard(c),
         UNCHANGED <<rowName, docName, kept, contested>>,
         apart \subseteq apart', Renamed(c) => c \in apart'
  PROVE  NameInv'
<1>1. rename' = [rename EXCEPT ![c] = NoRename] /\ NoRename.step = "idle"
  BY DEF Heard, NoRename
<1>2. rename'[c].step = "idle" /\ \A d \in Company \ {c} : rename'[d] = rename[d]
  BY <1>1 DEF NameInv, NameTyped
<1>3. NameTyped'
  BY <1>1, <1>2 DEF NameInv, NameTyped, Asks, Renamed
<1>4. OneHolder'
  BY <1>2 DEF NameInv, OneHolder, Asks, Renamed
<1>5. RowsInStep'
  BY <1>2 DEF NameInv, RowsInStep, Asks, Renamed
<1>6. HeldIsNotSought'
  BY <1>2 DEF NameInv, HeldIsNotSought, Asks
<1>7. ChangedIsKept'
  BY <1>2 DEF NameInv, ChangedIsKept, Renamed
<1> QED
  BY <1>3, <1>4, <1>5, <1>6, <1>7 DEF NameInv

LEMMA LookUpReservationKept ==
  ASSUME NameInv, NEW c \in Company, LookUpReservation(c)
  PROVE  NameInv'
<1>1. rename[c].step = "unheld" /\ Asks(c) /\ ~Renamed(c)
  BY DEF LookUpReservation, Asks, Renamed
<1>2. CASE ~MayHave(c)
  BY <1>1, <1>2, HeardKept DEF LookUpReservation
<1>3. CASE MayHave(c)
  <2> DEFINE previous == IF rename[c].from = NoName THEN NotKept ELSE kept[rename[c].from]
             r == [rename[c] EXCEPT !.step = "free", !.previous = previous]
  <2>1. /\ rename' = [rename EXCEPT ![c].step = "free", ![c].previous = previous]
        /\ UNCHANGED <<rowName, docName, kept, apart, contested>>
    BY <1>3 DEF LookUpReservation
  <2>2. rename[c] \in Rename
    BY <1>1, RenameSteps DEF NameInv
  <2>3. previous \in Reservation
    BY <2>2 DEF NameInv, NameTyped, Rename, Reservation, NotKept
  <2>4. /\ r \in Rename /\ r.step = "free" /\ r.to = rename[c].to /\ r.from = rename[c].from
        /\ r.how = rename[c].how
    <3> HIDE DEF previous
    <3> QED
      BY <2>2, <2>3 DEF Rename
  <2>5. rename'[c] = r /\ (\A d \in Company \ {c} : rename'[d] = rename[d])
           /\ rename' \in [Company -> {NoRename} \cup Rename]
    <3> HIDE DEF previous
    <3>1. rename' = [rename EXCEPT ![c] = r]
      BY <2>1 DEF NameInv, NameTyped
    <3> HIDE DEF r
    <3> QED
      BY <2>4, <3>1 DEF NameInv, NameTyped
  <2> HIDE DEF r, previous
  <2>6. NameTyped'
    BY <1>1, <2>1, <2>4, <2>5 DEF NameInv, NameTyped, Asks, Renamed
  <2>7. OneHolder'
    BY <1>1, <2>1, <2>4, <2>5 DEF NameInv, OneHolder, Asks, Renamed
  <2>8. RowsInStep'
    BY <1>1, <2>1, <2>4, <2>5 DEF NameInv, RowsInStep, Asks, Renamed
  <2>9. HeldIsNotSought'
    BY <1>1, <2>1, <2>4, <2>5 DEF NameInv, HeldIsNotSought, Asks
  <2>10. ChangedIsKept'
    <3> SUFFICES ASSUME NEW d \in Company, Renamed(d)', rename'[d].how = "CHANGED",
                        rename'[d].from \notin contested
                 PROVE  LET n == rename'[d].from
                        IN  /\ kept[n] = [reason |-> "CHANGED", company |-> d]
                            /\ \A e \in Company : rowName[e] # n
                            /\ \A e \in Company \ {d} : rename'[e].step = "free" => rename'[e].to # n
      BY <2>1 DEF ChangedIsKept
    <3>1. d # c /\ rename'[d] = rename[d] /\ Renamed(d)
      BY <2>4, <2>5 DEF Renamed
    <3>2. /\ kept[rename[d].from] = [reason |-> "CHANGED", company |-> d]
          /\ \A e \in Company : rowName[e] # rename[d].from
          /\ \A e \in Company \ {d} : rename[e].step = "free" => rename[e].to # rename[d].from
      BY <3>1 DEF NameInv, ChangedIsKept
    <3>3. rename[c].to # rename[d].from
      BY <1>3, <3>1, <3>2 DEF MayHave, ClaimsReleased, NotKept
    <3> QED
      BY <2>4, <2>5, <3>1, <3>2, <3>3
  <2> QED
    BY <2>6, <2>7, <2>8, <2>9, <2>10 DEF NameInv
<1> QED
  BY <1>2, <1>3

\* The step of a request changes, and nothing else of it.
LEMMA StepsOn ==
  ASSUME NameTyped, NEW c \in Company, rename[c].step # "idle",
         NEW step \in {"document", "undo"},
         rename' = [rename EXCEPT ![c].step = step]
  PROVE  /\ rename' \in [Company -> {NoRename} \cup Rename]
         /\ \A d \in Company \ {c} : rename'[d] = rename[d]
         /\ rename'[c].step = step /\ rename'[c].to = rename[c].to
         /\ rename'[c].from = rename[c].from /\ rename'[c].how = rename[c].how
<1> DEFINE r == [rename[c] EXCEPT !.step = step]
<1>1. rename[c] \in Rename
  BY RenameSteps
<1>2. r \in Rename /\ r.step = step /\ r.to = rename[c].to /\ r.from = rename[c].from /\ r.how = rename[c].how
  BY <1>1 DEF Rename
<1>3. rename' = [rename EXCEPT ![c] = r]
  BY DEF NameTyped
<1> HIDE DEF r
<1> QED
  BY <1>2, <1>3 DEF NameTyped

LEMMA WriteRowsKept ==
  ASSUME NameInv, NEW c \in Company, WriteRows(c)
  PROVE  NameInv'
<1>1. rename[c].step = "free" /\ Asks(c) /\ ~Renamed(c) /\ rename[c] \in Rename
  BY RenameSteps DEF WriteRows, Asks, Renamed, NameInv
<1>2. CASE \E d \in Company : rowName[d] = rename[c].to
  BY <1>1, <1>2, HeardKept DEF WriteRows
<1>3. CASE \A d \in Company : rowName[d] # rename[c].to
  <2> DEFINE to == rename[c].to
             from == rename[c].from
             how == rename[c].how
  <2>1. /\ rowName' = [rowName EXCEPT ![c] = to] /\ kept' = Keeps(c)
        /\ rename' = [rename EXCEPT ![c].step = "document"]
        /\ UNCHANGED <<docName, apart, contested>>
    BY <1>3 DEF WriteRows
  <2>2. /\ rename' \in [Company -> {NoRename} \cup Rename]
        /\ \A d \in Company \ {c} : rename'[d] = rename[d]
        /\ rename'[c].step = "document" /\ rename'[c].to = to
        /\ rename'[c].from = from /\ rename'[c].how = how
    BY <1>1, <2>1, StepsOn DEF NameInv
  <2>3. /\ to \in Name /\ from \in Name \cup {NoName} /\ from = rowName[c] /\ to # from
        /\ how \in {"CREATED", "CHANGED", "RELEASED"}
        /\ how = "CREATED" <=> from = NoName
    BY <1>1 DEF Rename, NameInv, NameTyped, RowsInStep
  <2> HIDE DEF to, from, how
  <2>4. rowName'[c] = to /\ \A d \in Company \ {c} : rowName'[d] = rowName[d]
    BY <2>1 DEF NameInv, NameTyped
  <2>5. /\ kept' \in [Name -> Reservation]
        /\ how = "CHANGED" => kept'[from] = [reason |-> "CHANGED", company |-> c]
        /\ \A n \in Name : n # from => kept'[n] = kept[n]
    <3>1. CASE how = "CREATED"
      BY <2>1, <2>3, <3>1 DEF Keeps, NameInv, NameTyped, how
    <3>2. CASE how # "CREATED"
      <4> DEFINE r == [reason |-> how, company |-> IF how = "CHANGED" THEN c ELSE NoName]
      <4>1. kept' = [kept EXCEPT ![from] = r]
        BY <2>1, <3>2 DEF Keeps, how, from
      <4>2. r \in Reservation
        <5>1. how \in {"CHANGED", "RELEASED"}
          BY <2>3, <3>2
        <5>2. (IF how = "CHANGED" THEN c ELSE NoName) \in Company \cup {NoName}
          OBVIOUS
        <5> QED
          BY <5>1, <5>2 DEF Reservation
      <4>3. from \in Name
        BY <2>3, <3>2
      <4> QED
        BY <4>1, <4>2, <4>3 DEF NameInv, NameTyped
    <3> QED
      BY <3>1, <3>2
  <2>6. NameTyped'
    <3>1. rowName' \in [Company -> Name \cup {NoName}]
      BY <2>1, <2>3 DEF NameInv, NameTyped
    <3> QED
      BY <1>1, <2>1, <2>2, <2>3, <2>5, <3>1 DEF NameInv, NameTyped, Asks, Renamed
  <2>7. OneHolder'
    <3>1. \A d \in Company : rowName[d] # to
      BY <1>3 DEF to
    <3> QED
      BY <1>1, <2>2, <2>4, <3>1 DEF NameInv, OneHolder, Asks, Renamed, to
  <2>8. RowsInStep'
    BY <1>1, <2>1, <2>2, <2>3, <2>4 DEF NameInv, RowsInStep, Asks, Renamed
  <2>9. HeldIsNotSought'
    BY <1>1, <2>1, <2>2, <2>4 DEF NameInv, HeldIsNotSought, OneHolder, Asks, to
  <2>10. ChangedIsKept'
    <3> SUFFICES ASSUME NEW d \in Company, Renamed(d)', rename'[d].how = "CHANGED",
                        rename'[d].from \notin contested
                 PROVE  LET n == rename'[d].from
                        IN  /\ kept'[n] = [reason |-> "CHANGED", company |-> d]
                            /\ \A e \in Company : rowName'[e] # n
                            /\ \A e \in Company \ {d} : rename'[e].step = "free" => rename'[e].to # n
      BY <2>1 DEF ChangedIsKept
    <3>1. CASE d = c
      <4>1. how = "CHANGED" /\ from \in Name \ contested
        BY <2>2, <2>3, <3>1
      <4>2. \A e \in Company \ {c} : rowName[e] # from
        BY <2>3, <4>1, NameAssumption DEF NameInv, OneHolder
      <4>3. \A e \in Company \ {c} : rename[e].step = "free" => rename[e].to # from
        BY <2>3, <4>1 DEF NameInv, HeldIsNotSought, Asks
      <4> QED
        BY <2>2, <2>3, <2>4, <2>5, <3>1, <4>1, <4>2, <4>3
    <3>2. CASE d # c
      <4>1. rename'[d] = rename[d] /\ Renamed(d)
        BY <2>2, <3>2 DEF Renamed
      <4>2. /\ kept[rename[d].from] = [reason |-> "CHANGED", company |-> d]
            /\ \A e \in Company : rowName[e] # rename[d].from
            /\ \A e \in Company \ {d} : rename[e].step = "free" => rename[e].to # rename[d].from
        BY <3>2, <4>1 DEF NameInv, ChangedIsKept
      <4>3. rename[d].from \in Name
        BY <4>1, RenameSteps, <3>2 DEF NameInv, NameTyped, Renamed, Rename
      <4>4. rename[d].from # from /\ rename[d].from # to
        BY <1>1, <2>3, <3>2, <4>2 DEF to
      <4> QED
        BY <2>2, <2>4, <2>5, <3>2, <4>1, <4>2, <4>3, <4>4
    <3> QED
      BY <3>1, <3>2
  <2> QED
    BY <2>6, <2>7, <2>8, <2>9, <2>10 DEF NameInv
<1> QED
  BY <1>2, <1>3

LEMMA WriteNameKept ==
  ASSUME NameInv, NEW c \in Company, WriteName(c)
  PROVE  NameInv'
<1>1. /\ rename[c].step = "document" /\ Renamed(c) /\ rename[c] \in Rename
      /\ docName' = [docName EXCEPT ![c] = rename[c].to] /\ apart' = apart \ {c}
      /\ UNCHANGED <<rowName, kept, contested>>
      /\ rename' = [rename EXCEPT ![c] = NoRename] /\ NoRename.step = "idle"
  BY RenameSteps DEF WriteName, Renamed, NameInv, Heard, NoRename
<1>2. rename'[c].step = "idle" /\ \A d \in Company \ {c} : rename'[d] = rename[d]
  BY <1>1 DEF NameInv, NameTyped
<1>3. docName'[c] = rowName[c] /\ \A d \in Company \ {c} : docName'[d] = docName[d]
  BY <1>1 DEF NameInv, NameTyped, RowsInStep
<1>4. docName' \in [Company -> Name \cup {NoName}]
  BY <1>1 DEF NameInv, NameTyped, Rename
<1>5. NameTyped'
  BY <1>1, <1>2, <1>4 DEF NameInv, NameTyped, Asks, Renamed
<1>6. OneHolder'
  BY <1>1, <1>2 DEF NameInv, OneHolder, Asks, Renamed
<1>7. RowsInStep'
  BY <1>1, <1>2, <1>3 DEF NameInv, RowsInStep, Asks, Renamed
<1>8. HeldIsNotSought'
  BY <1>1, <1>2 DEF NameInv, HeldIsNotSought, Asks
<1>9. ChangedIsKept'
  BY <1>1, <1>2 DEF NameInv, ChangedIsKept, Renamed
<1> QED
  BY <1>5, <1>6, <1>7, <1>8, <1>9 DEF NameInv

LEMMA WriteNameFailsKept ==
  ASSUME NameInv, NEW c \in Company, WriteNameFails(c)
  PROVE  NameInv'
<1>1. /\ rename[c].step = "document" /\ Renamed(c) /\ rename[c] \in Rename
      /\ rename' = [rename EXCEPT ![c].step = "undo"]
      /\ UNCHANGED <<rowName, kept, contested>>
  BY RenameSteps DEF WriteNameFails, Renamed, NameInv
<1>2. /\ rename' \in [Company -> {NoRename} \cup Rename]
      /\ \A d \in Company \ {c} : rename'[d] = rename[d]
      /\ rename'[c].step = "undo" /\ rename'[c].to = rename[c].to
      /\ rename'[c].from = rename[c].from /\ rename'[c].how = rename[c].how
  BY <1>1, StepsOn DEF NameInv
<1>3. /\ docName' \in [Company -> Name \cup {NoName}]
      /\ apart \subseteq apart'
      /\ \A d \in Company : d \notin apart' => docName'[d] = docName[d]
  BY <1>1 DEF WriteNameFails, NameInv, NameTyped, Rename
<1>4. NameTyped'
  BY <1>1, <1>2, <1>3 DEF NameInv, NameTyped, Asks, Renamed
<1>5. OneHolder'
  BY <1>1, <1>2 DEF NameInv, OneHolder, Asks, Renamed
<1>6. RowsInStep'
  BY <1>1, <1>2, <1>3 DEF NameInv, RowsInStep, Asks, Renamed
<1>7. HeldIsNotSought'
  BY <1>1, <1>2 DEF NameInv, HeldIsNotSought, Asks
<1>8. ChangedIsKept'
  BY <1>1, <1>2 DEF NameInv, ChangedIsKept, Renamed
<1> QED
  BY <1>4, <1>5, <1>6, <1>7, <1>8 DEF NameInv

LEMMA UndoRowsKept ==
  ASSUME NameInv, NEW c \in Company, UndoRows(c)
  PROVE  NameInv'
<1> DEFINE from == rename[c].from
<1>1. /\ rename[c].step = "undo" /\ Renamed(c) /\ rename[c] \in Rename /\ Heard(c)
      /\ UNCHANGED docName
  BY RenameSteps DEF UndoRows, Renamed, NameInv
<1>2. CASE from # NoName /\ \E d \in Company : rowName[d] = from
  <2>1. /\ apart' = IF rename[c].how = "RELEASED" \/ from \in contested THEN apart \cup {c} ELSE apart
        /\ UNCHANGED <<rowName, kept, contested>>
    BY <1>2 DEF UndoRows
  <2>2. rename[c].how = "RELEASED" \/ from \in contested
    <3>1. rename[c].how \in {"CREATED", "CHANGED", "RELEASED"} /\ rename[c].how # "CREATED"
      BY <1>1, <1>2 DEF Rename, NameInv, NameTyped
    <3> QED
      BY <1>1, <1>2, <3>1 DEF NameInv, ChangedIsKept
  <2> QED
    BY <1>1, <2>1, <2>2, HeardKept
<1>3. CASE ~(from # NoName /\ \E d \in Company : rowName[d] = from)
  <2> DEFINE disputed == {n \in {from} : \E d \in Company \ {c} :
                        rename[d].step # "idle" /\ n \in {rename[d].from, rename[d].to}}
  <2>1. /\ rowName' = [rowName EXCEPT ![c] = from]
        /\ kept' = [n \in Name |-> IF n = from THEN rename[c].previous ELSE kept[n]]
        /\ contested' = contested \cup disputed
        /\ UNCHANGED apart
    BY <1>3 DEF UndoRows
  <2>2. from \in Name \cup {NoName} /\ rename[c].previous \in Reservation
    BY <1>1 DEF Rename
  <2>3. rename'[c].step = "idle" /\ (\A d \in Company \ {c} : rename'[d] = rename[d])
          /\ rename' \in [Company -> {NoRename} \cup Rename]
    BY <1>1 DEF NameInv, NameTyped, Heard, NoRename
  <2>4. contested \subseteq contested'
          /\ \A d \in Company \ {c} : rename[d].step # "idle" /\ from \notin contested' =>
               rename[d].from # from /\ rename[d].to # from
    BY <2>1
  <2>5. /\ rowName' \in [Company -> Name \cup {NoName}] /\ rowName'[c] = from
        /\ \A d \in Company \ {c} : rowName'[d] = rowName[d]
    BY <2>1, <2>2 DEF NameInv, NameTyped
  <2>6. kept' \in [Name -> Reservation] /\ \A n \in Name : n # from => kept'[n] = kept[n]
    BY <2>1, <2>2 DEF NameInv, NameTyped
  <2>7. c \notin apart => docName[c] = from
    BY <1>1 DEF NameInv, RowsInStep
  <2>8. from = NoName \/ \A d \in Company : rowName[d] # from
    BY <1>3
  <2> HIDE DEF from, disputed
  <2>9. NameTyped'
    BY <1>1, <2>3, <2>5, <2>6 DEF NameInv, NameTyped, Asks, Renamed
  <2>10. OneHolder'
    BY <2>3, <2>5, <2>8 DEF NameInv, OneHolder, Asks, Renamed
  <2>11. RowsInStep'
    BY <1>1, <2>1, <2>3, <2>5, <2>7 DEF NameInv, RowsInStep, Asks, Renamed
  <2>12. HeldIsNotSought'
    BY <2>3, <2>4, <2>5 DEF NameInv, HeldIsNotSought, Asks
  <2>13. ChangedIsKept'
    <3> SUFFICES ASSUME NEW d \in Company, Renamed(d)', rename'[d].how = "CHANGED",
                        rename'[d].from \notin contested'
                 PROVE  LET n == rename'[d].from
                        IN  /\ kept'[n] = [reason |-> "CHANGED", company |-> d]
                            /\ \A e \in Company : rowName'[e] # n
                            /\ \A e \in Company \ {d} : rename'[e].step = "free" => rename'[e].to # n
      BY DEF ChangedIsKept
    <3>1. d # c /\ rename'[d] = rename[d] /\ Renamed(d) /\ rename[d].from \notin contested
      BY <2>3, <2>4 DEF Renamed
    <3>2. /\ kept[rename[d].from] = [reason |-> "CHANGED", company |-> d]
          /\ \A e \in Company : rowName[e] # rename[d].from
          /\ \A e \in Company \ {d} : rename[e].step = "free" => rename[e].to # rename[d].from
      BY <3>1 DEF NameInv, ChangedIsKept
    <3>3. rename[d].from \in Name
      BY <3>1, RenameSteps DEF NameInv, NameTyped, Renamed, Rename
    <3>4. rename[d].from # from
      BY <2>3, <2>4, <3>1 DEF Renamed
    <3> QED
      BY <2>3, <2>5, <2>6, <3>1, <3>2, <3>3, <3>4
  <2> QED
    BY <2>9, <2>10, <2>11, <2>12, <2>13 DEF NameInv
<1> QED
  BY <1>2, <1>3

LEMMA ReleaseOwnHandleKept ==
  ASSUME NameInv, NEW c \in Company, ReleaseOwnHandle(c)
  PROVE  NameInv'
<1> DEFINE n == rowName[c]
           r == [reason |-> "RELEASED", company |-> NoName]
<1>1. /\ rename[c].step = "idle" /\ n # NoName /\ ~Asks(c) /\ ~Renamed(c)
      /\ UNCHANGED <<rowName, rename, contested>>
  BY DEF ReleaseOwnHandle, Asks, Renamed
<1>2. n \in Name /\ r \in Reservation
  BY <1>1 DEF NameInv, NameTyped, Reservation
<1>3. /\ kept' \in {kept, [kept EXCEPT ![n] = r]}
      /\ docName' \in {docName, [docName EXCEPT ![c] = n]}
      /\ apart' = apart \/ (apart' = apart \ {c} /\ docName' = [docName EXCEPT ![c] = n])
  BY DEF ReleaseOwnHandle
<1> HIDE DEF r
<1>4. /\ docName' \in [Company -> Name \cup {NoName}] /\ kept' \in [Name -> Reservation]
      /\ \A d \in Company \ {c} : docName'[d] = docName[d]
      /\ docName'[c] \in {docName[c], n}
      /\ c \in apart /\ c \notin apart' => docName'[c] = n
      /\ \A k \in Name \ {n} : kept'[k] = kept[k]
  BY <1>2, <1>3 DEF NameInv, NameTyped
<1>5. NameTyped'
  BY <1>1, <1>4 DEF NameInv, NameTyped, Asks, Renamed
<1>6. RowsInStep'
  BY <1>1, <1>3, <1>4 DEF NameInv, RowsInStep, Asks, Renamed
<1>7. ChangedIsKept'
  <2> SUFFICES ASSUME NEW d \in Company, Renamed(d), rename[d].how = "CHANGED",
                      rename[d].from \notin contested
               PROVE  /\ kept'[rename[d].from] = [reason |-> "CHANGED", company |-> d]
                      /\ \A e \in Company : rowName[e] # rename[d].from
                      /\ \A e \in Company \ {d} : rename[e].step = "free" => rename[e].to # rename[d].from
    BY <1>1 DEF ChangedIsKept, Renamed
  <2>1. /\ kept[rename[d].from] = [reason |-> "CHANGED", company |-> d]
        /\ \A e \in Company : rowName[e] # rename[d].from
        /\ \A e \in Company \ {d} : rename[e].step = "free" => rename[e].to # rename[d].from
    BY DEF NameInv, ChangedIsKept
  <2>2. rename[d].from \in Name
    BY RenameSteps DEF NameInv, NameTyped, Rename, Renamed
  <2> QED
    BY <1>4, <2>1, <2>2
<1> QED
  BY <1>1, <1>5, <1>6, <1>7 DEF NameInv, OneHolder, HeldIsNotSought, Asks, Renamed

\* FailedChangesAreUndone for any organisations, names and verified domains, and any number
\* of requests, failing writes and stops: a change of handle that cannot be written to the
\* document gets the old handle back.
THEOREM ChangesAreUndone == NameSpec => []FailedChangesAreUndone
<1>1. NameInit => NameInv
  BY NameAssumption DEF NameInit, NameInv, NameTyped, OneHolder, RowsInStep, HeldIsNotSought, ChangedIsKept,
         Asks, Renamed, NoRename, NotKept, Reservation
<1>2. NameInv /\ [NameNext]_nameVars => NameInv'
  <2> SUFFICES ASSUME NameInv, [NameNext]_nameVars
               PROVE  NameInv'
    OBVIOUS
  <2>1. ASSUME NEW c \in Company, NEW n \in Name, NEW how \in {"CREATED", "CHANGED", "RELEASED"},
               LookUpHolder(c, n, how)
        PROVE  NameInv'
    BY <2>1, LookUpHolderKept
  <2>2. ASSUME NEW c \in Company, LookUpReservation(c)
        PROVE  NameInv'
    BY <2>2, LookUpReservationKept
  <2>3. ASSUME NEW c \in Company, WriteRows(c)
        PROVE  NameInv'
    BY <2>3, WriteRowsKept
  <2>4. ASSUME NEW c \in Company, WriteName(c)
        PROVE  NameInv'
    BY <2>4, WriteNameKept
  <2>5. ASSUME NEW c \in Company, WriteNameFails(c)
        PROVE  NameInv'
    BY <2>5, WriteNameFailsKept
  <2>6. ASSUME NEW c \in Company, UndoRows(c)
        PROVE  NameInv'
    BY <2>6, UndoRowsKept
  <2>7. ASSUME NEW c \in Company, UndoRowsFails(c)
        PROVE  NameInv'
    BY <2>7, HeardKept DEF UndoRowsFails
  <2>8. CASE NamesStop
    <3>1. /\ rename' = [c \in Company |-> NoRename] /\ NoRename.step = "idle"
          /\ apart' = apart \cup {c \in Company : Renamed(c)}
          /\ UNCHANGED <<rowName, docName, kept, contested>>
      BY <2>8 DEF NamesStop, NoRename, Renamed
    <3>2. \A c \in Company : rename'[c] = NoRename /\ ~Asks(c)' /\ ~Renamed(c)'
      BY <3>1 DEF Asks, Renamed
    <3>3. NameTyped'
      BY <3>1, <3>2 DEF NameInv, NameTyped
    <3> QED
      BY <3>1, <3>2, <3>3 DEF NameInv, OneHolder, RowsInStep, HeldIsNotSought, ChangedIsKept
  <2>9. ASSUME NEW n \in Name, ReservationLapses(n)
        PROVE  NameInv'
    <3>1. /\ kept' = [kept EXCEPT ![n] = NotKept]
          /\ \A c \in Company : rename[c].step # "idle" => rename[c].from # n
          /\ UNCHANGED <<rowName, docName, rename, apart, contested>>
      BY <2>9 DEF ReservationLapses
    <3>2. NameTyped'
      BY <3>1 DEF NameInv, NameTyped, Reservation, NotKept, Asks, Renamed
    <3>3. \A c \in Company : Renamed(c) => kept'[rename[c].from] = kept[rename[c].from]
      BY <3>1 DEF Renamed, NameInv, NameTyped
    <3>4. ChangedIsKept'
      BY <3>1, <3>3 DEF NameInv, ChangedIsKept, Renamed
    <3> QED
      BY <3>1, <3>2, <3>4 DEF NameInv, OneHolder, RowsInStep, HeldIsNotSought, Asks, Renamed
  <2>10. CASE UNCHANGED nameVars
    BY <2>10 DEF nameVars, NameInv, NameTyped, OneHolder, RowsInStep, HeldIsNotSought, ChangedIsKept,
                 Asks, Renamed
  <2>11. ASSUME NEW c \in Company, ReleaseOwnHandle(c)
         PROVE  NameInv'
    BY <2>11, ReleaseOwnHandleKept
  <2> QED
    BY <2>1, <2>2, <2>3, <2>4, <2>5, <2>6, <2>7, <2>8, <2>9, <2>10, <2>11 DEF NameNext
<1>3. NameInv => FailedChangesAreUndone
  BY DEF NameInv, RowsInStep, Renamed, FailedChangesAreUndone
<1> QED
  BY <1>1, <1>2, <1>3, PTL DEF NameSpec
--------------------------------------------------------------------------------
(* Moderation.                                                                      *)

Held == {"none", "OPEN"} \cup Outcomes

\* While a resolution waits for its document, the store has it and what was read under the lock
\* is what the undo needs: a report that can be restored on for an organisation that was down, and
\* the flag as the document still has it.
Underway ==
  /\ resolving \in [step : {"document", "undo"}, report : Report,
                    as : Outcomes \ {"DISMISS"}, before : Held, wasDown : BOOLEAN]
  /\ resolution[resolving.report] = resolving.as
  /\ \/ resolving.before = "OPEN"
     \/ resolving.as = "RESTORE" /\ resolving.before = "TAKE_DOWN"
  /\ resolving.wasDown => \E r \in Report :
       \/ r # resolving.report /\ resolution[r] = "TAKE_DOWN"
       \/ r = resolving.report /\ resolving.before = "TAKE_DOWN"
  /\ resolving.as = "TAKE_DOWN" => orgDown
  /\ resolving.as = "RESTORE" => ~orgDown
  /\ resolving.as = "RELEASE_HANDLE" => orgDown = resolving.wasDown
  /\ ~astray => docDown = resolving.wasDown

ReportInv ==
  /\ resolution \in [Report -> Held]
  /\ orgDown \in BOOLEAN /\ docDown \in BOOLEAN /\ astray \in BOOLEAN
  /\ Underway \/ (resolving = NotResolving /\ (~astray => docDown = orgDown))
  /\ RestorableWhileDown

LEMMA ReportInvHolds == ReportSpec => []ReportInv
<1> USE DEF Held, Outcomes, RestorableWhileDown
<1>1. ReportInit => ReportInv
  BY DEF ReportInit, ReportInv
<1>2. ASSUME ReportInv, [ReportNext]_reportVars
      PROVE  ReportInv'
  <2>1. NotResolving.step = "idle"
    BY DEF NotResolving
  <2> USE DEF ReportInv, Underway
  <2>2. ASSUME NEW r \in Report, FileReport(r)
        PROVE  ReportInv'
    BY <1>2, <2>2 DEF FileReport
  <2>3. ASSUME NEW r \in Report, NEW as \in Outcomes, StoreResolution(r, as)
        PROVE  ReportInv'
    <3>1. /\ resolving = NotResolving /\ (~astray => docDown = orgDown)
          /\ resolution' = [resolution EXCEPT ![r] = as] /\ resolution' \in [Report -> Held]
          /\ resolution[r] = "OPEN" \/ (as = "RESTORE" /\ resolution[r] = "TAKE_DOWN")
          /\ orgDown' = IF as = "TAKE_DOWN" THEN TRUE ELSE IF as = "RESTORE" THEN FALSE ELSE orgDown
          /\ UNCHANGED <<docDown, astray>>
      BY <1>2, <2>1, <2>3 DEF StoreResolution, Resolvable
    <3>2. RestorableWhileDown'
      BY <1>2, <3>1
    <3>3. CASE as = "DISMISS"
      BY <1>2, <2>3, <3>1, <3>2, <3>3 DEF StoreResolution
    <3>4. CASE as # "DISMISS"
      <4>1. resolving' = [step |-> "document", report |-> r, as |-> as,
                          before |-> resolution[r], wasDown |-> orgDown]
        BY <2>3, <3>4 DEF StoreResolution
      <4>2. orgDown => \E q \in Report : \/ q # r /\ resolution'[q] = "TAKE_DOWN"
                                         \/ q = r /\ resolution[r] = "TAKE_DOWN"
        BY <1>2, <3>1
      <4> QED
        BY <1>2, <3>1, <3>2, <3>4, <4>1, <4>2
    <3> QED
      BY <3>3, <3>4
  <2>4. CASE WriteResolution
    <3>1. Underway
      BY <1>2, <2>1, <2>4 DEF WriteResolution
    <3>2. docDown' \in BOOLEAN /\ astray' \in BOOLEAN /\ (~astray' => docDown' = orgDown)
      BY <1>2, <2>4, <3>1 DEF WriteResolution, FlagWritten
    <3> QED
      BY <1>2, <2>4, <3>2 DEF WriteResolution
  <2>5. CASE WriteResolutionFails
    <3>1. Underway
      BY <1>2, <2>1, <2>5 DEF WriteResolutionFails
    <3>2. docDown' \in BOOLEAN /\ astray' \in BOOLEAN /\ (~astray' => ~astray /\ docDown' = docDown)
      BY <1>2, <2>5, <3>1 DEF WriteResolutionFails, FlagWritten
    <3>3. resolving' = [resolving EXCEPT !.step = "undo"] /\ UNCHANGED <<resolution, orgDown>>
      BY <2>5 DEF WriteResolutionFails
    <3>4. /\ resolving' \in [step : {"document", "undo"}, report : Report,
                             as : Outcomes \ {"DISMISS"}, before : Held, wasDown : BOOLEAN]
          /\ resolving'.report = resolving.report /\ resolving'.as = resolving.as
          /\ resolving'.before = resolving.before /\ resolving'.wasDown = resolving.wasDown
      BY <3>1, <3>3
    <3> QED
      BY <1>2, <3>1, <3>2, <3>3, <3>4
  <2>6. CASE UndoResolution
    <3>1. Underway
      BY <1>2, <2>1, <2>6 DEF UndoResolution
    <3>2. /\ resolution' = [resolution EXCEPT ![resolving.report] = resolving.before]
          /\ orgDown' = resolving.wasDown /\ resolving' = NotResolving
          /\ UNCHANGED <<docDown, astray>>
      BY <2>6, <3>1 DEF UndoResolution, ReportAndFlag
    <3>3. resolution' \in [Report -> Held]
      BY <1>2, <3>1, <3>2
    <3>4. RestorableWhileDown'
      BY <1>2, <3>1, <3>2
    <3> QED
      BY <1>2, <3>1, <3>2, <3>3, <3>4
  <2>7. CASE ResolutionLost
    BY <1>2, <2>7 DEF ResolutionLost
  <2>8. CASE UNCHANGED reportVars
    BY <1>2, <2>8 DEF reportVars
  <2> QED
    BY <1>2, <2>2, <2>3, <2>4, <2>5, <2>6, <2>7, <2>8 DEF ReportNext
<1> QED
  BY <1>1, <1>2, PTL DEF ReportSpec

\* RestorableWhileDown: an organisation that is down is down by a report, also after a resolution
\* whose document could not be written and one that was lost on the way.
THEOREM DownByAReport == ReportSpec => []RestorableWhileDown
<1>1. ReportInv => RestorableWhileDown
  BY DEF ReportInv
<1> QED
  BY <1>1, ReportInvHolds, PTL

\* DocumentKnowsOfTakedown: the undo puts the store back to what the document still says.
THEOREM TakedownIsMirrored == ReportSpec => []DocumentKnowsOfTakedown
<1>1. ReportInv => DocumentKnowsOfTakedown
  BY DEF ReportInv, Underway, DocumentKnowsOfTakedown, NotResolving
<1> QED
  BY <1>1, ReportInvHolds, PTL
==============================================================================
