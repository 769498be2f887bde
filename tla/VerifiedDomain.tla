--------------------------- MODULE VerifiedDomain ---------------------------
(***************************************************************************)
(* What the recovery of an organisation relies on: a domain is verified,   *)
(* gets older with time alone and counts from nothing when it is verified  *)
(* anew.  While it is verified nothing verifies it again, so nothing       *)
(* renews its age; a lapse or a removal that does not stand gives back the *)
(* age it took.                                                            *)
(***************************************************************************)
EXTENDS Integers

CONSTANT MaxAge   \* the age from which it no longer matters

VARIABLES
  standing,  \* "no", "yes", or "withdrawn": a lapse or a removal that may still be undone
  age        \* how long the domain has been verified, -1 when it is not

Verify == standing # "yes" /\ standing' = "yes" /\ age' = 0

Withdraw == standing = "yes" /\ standing' = "withdrawn" /\ UNCHANGED age

Restore == standing = "withdrawn" /\ standing' = "yes" /\ UNCHANGED age

Lapse == standing # "no" /\ standing' = "no" /\ age' = -1

GrowOlder ==
  /\ standing # "no"
  /\ age' = (IF age < MaxAge THEN age + 1 ELSE age)
  /\ UNCHANGED standing

VerifiedDomainInit ==
  \/ standing = "no" /\ age = -1
  \/ standing = "yes" /\ age \in 0..MaxAge

VerifiedDomainNext == Verify \/ Withdraw \/ Restore \/ Lapse \/ GrowOlder

VerifiedDomainSpec == VerifiedDomainInit /\ [][VerifiedDomainNext]_<<standing, age>>
=============================================================================
