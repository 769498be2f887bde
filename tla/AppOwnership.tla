---------------------------- MODULE AppOwnership ----------------------------
(***************************************************************************)
(* What the transfer of apps promises: an app is claimed once, and after   *)
(* that it changes hands in one step, from the party that holds it to the  *)
(* one party it is offered to, which has accepted while the offer stood.   *)
(***************************************************************************)
CONSTANTS Party, NoOwner

VARIABLES holder,   \* who holds the app, or NoOwner
          taker,    \* whom the holder offers it to, or NoOwner
          accepted  \* the taker has accepted

ownership == <<holder, taker, accepted>>

Unowned == holder = NoOwner /\ taker = NoOwner /\ accepted = FALSE

Claim == /\ holder = NoOwner
         /\ holder' \in Party
         /\ taker' = NoOwner /\ accepted' = FALSE

Offer == /\ holder # NoOwner /\ taker = NoOwner
         /\ taker' \in Party \ {holder}
         /\ UNCHANGED <<holder, accepted>>

Accept == /\ taker # NoOwner
          /\ accepted' = TRUE
          /\ UNCHANGED <<holder, taker>>

\* declined, expired, or accepted in vain: the offer may stand again
Withdraw == /\ taker' \in {taker, NoOwner} /\ accepted' = FALSE
            /\ UNCHANGED holder

Take == /\ accepted
        /\ holder' = taker
        /\ taker' = NoOwner /\ accepted' = FALSE

OwnershipSpec == Unowned /\ [][Claim \/ Offer \/ Accept \/ Withdraw \/ Take]_ownership
==============================================================================
