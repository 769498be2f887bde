---------------------------- MODULE DomainChecks ----------------------------
(***************************************************************************)
(* One organisation's domain: added, checked by hand, re-checked by the    *)
(* sweepers of several replicas, lapsed, removed.  A check asks the        *)
(* network outside the organisation's lock and applies the answer under    *)
(* it, so answers arrive in any order.  Whatever changes the document      *)
(* writes the row first, then the document, under the lock, and puts the   *)
(* row back when the document cannot be written.  The lock is of one       *)
(* process; what the sweepers of two replicas do is ordered by the         *)
(* compare-and-set on last_checked_at, which commands and undos do without. *)
(*                                                                         *)
(* Times are ages, in ticks and up to a cap; an age is of the clock        *)
(* reading the write recorded, which is that of the start of a sweep.      *)
(***************************************************************************)
EXTENDS Integers

CONSTANTS Sweeper,       \* replicas
          RecheckAfter,  \* RECHECK_AFTER_MS, in ticks
          LapseAfter,    \* LAPSE_AFTER_FAILURES
          MinVerified,   \* RECOVERY_MIN_VERIFIED_DAYS, in ticks
          MaxRun,        \* bound: ticks that a run of the sweeper lasts
          SlowWrites,    \* bound: whether a document write may outlast a tick
          MaxDocFails    \* bound: document writes that fail

ASSUME DomainAssumption ==
  RecheckAfter \in Nat \ {0} /\ LapseAfter \in Nat \ {0} /\ MinVerified \in Nat

VARIABLES
  domain,     \* the row: status ("none" without one), failures in a row, and the ages of
              \* last_checked_at and verified_at (-1 without a time)
  proofAge,   \* since the last check that found the proof (history)
  elsewhere,  \* another organisation has verified the domain
  published,  \* the domain publishes the token of the row
  byHand,     \* checkOrgDomain between its reading and its lock: the answer
  sweep,      \* of each replica: the run's age, the answer, and whether last_checked_at is
              \* still as it was listed
  held,       \* what the holder of each replica's lock is writing to the document, the row its
              \* undo puts back, and whether nobody else has written the row since (history)
  overwritten,\* an undo has undone what another replica wrote (history)
  docFails

domVars == <<domain, proofAge, elsewhere, published, byHand, sweep, held, overwritten, docFails>>

AgeCap == LapseAfter * RecheckAfter
Older(age) == IF age < AgeCap THEN age + 1 ELSE age
LongerVerified(age) == IF 0 <= age /\ age < MinVerified THEN age + 1 ELSE age

NoDomain == [status |-> "none", failures |-> 0, checked |-> AgeCap, verified |-> -1]
NoSweep == [age |-> 0, answer |-> "none", current |-> FALSE]
NoWrite == [of |-> "nothing", row |-> NoDomain, alone |-> FALSE]
Answers == {"none", "asking", "proved", "missing"}

DomInit ==
  /\ domain = NoDomain /\ proofAge = AgeCap
  /\ elsewhere = FALSE /\ published = FALSE
  /\ byHand = "none"
  /\ sweep = [s \in Sweeper |-> NoSweep]
  /\ held = [s \in Sweeper |-> NoWrite]
  /\ overwritten = FALSE
  /\ docFails = 0

LockFree(s) == held[s] = NoWrite

\* The row is written: what the sweeps have listed and what the undos put back is outdated.
Outdated == [s \in Sweeper |-> [sweep[s] EXCEPT !.current = FALSE]]
Disturbed == [s \in Sweeper |-> [held[s] EXCEPT !.alone = FALSE]]

\* ... and s, which has written it, goes on to the document
WritesDocument(s, change) ==
  held' = [Disturbed EXCEPT ![s] = [of |-> change, row |-> domain, alone |-> TRUE]]

\* The row has a new id and token: what is in flight for an older one finds nothing, and a
\* removal of it that is undone meets the index org_domains_org_domain.
AddOrgDomain(s) ==
  /\ LockFree(s) /\ domain.status = "none" /\ ~elsewhere
  /\ domain' = [NoDomain EXCEPT !.status = "PENDING"]
  /\ held' = [t \in Sweeper |->
                IF t = s THEN [NoWrite EXCEPT !.of = "add", !.alone = TRUE]
                ELSE IF held[t].of \in {"nothing", "remove"} THEN Disturbed[t]
                ELSE [NoWrite EXCEPT !.of = "gone"]]
  /\ sweep' = [t \in Sweeper |-> NoSweep]
  /\ byHand' = "none" /\ published' = FALSE
  /\ proofAge' = AgeCap /\ overwritten' = FALSE
  /\ UNCHANGED <<elsewhere, docFails>>

RemoveOrgDomain(s) ==
  /\ LockFree(s) /\ domain.status # "none"
  /\ domain' = NoDomain
  /\ WritesDocument(s, "remove")
  /\ UNCHANGED <<proofAge, elsewhere, published, byHand, sweep, overwritten, docFails>>

CheckByHand ==
  /\ byHand = "none" /\ domain.status # "none" /\ ~elsewhere
  /\ byHand' = "asking"
  /\ UNCHANGED <<domain, proofAge, elsewhere, published, sweep, held, overwritten, docFails>>

AnswerByHand ==
  /\ byHand = "asking"
  /\ byHand' = IF published THEN "proved" ELSE "missing"
  /\ UNCHANGED <<domain, proofAge, elsewhere, published, sweep, held, overwritten, docFails>>

\* removed meanwhile
NotFoundByHand ==
  /\ byHand \in {"proved", "missing"} /\ domain.status = "none"
  /\ \E s \in Sweeper : LockFree(s)
  /\ byHand' = "none"
  /\ UNCHANGED <<domain, proofAge, elsewhere, published, sweep, held, overwritten, docFails>>

\* Mutant: a failed manual check counts as the day's check.
MissedByHandPostpones ==
  /\ byHand = "missing" /\ domain.status # "none" /\ \E s \in Sweeper : LockFree(s)
  /\ byHand' = "none"
  /\ domain' = [domain EXCEPT !.checked = 0]
  /\ sweep' = Outdated /\ held' = Disturbed
  /\ UNCHANGED <<proofAge, elsewhere, published, overwritten, docFails>>

\* DOMAIN_PROOF_MISSING; a verified domain keeps its schedule
MissedByHand ==
  /\ byHand = "missing" /\ domain.status # "none" /\ \E s \in Sweeper : LockFree(s)
  /\ byHand' = "none"
  /\ \/ domain.status = "VERIFIED" /\ UNCHANGED <<domain, sweep, held>>
     \/ /\ domain.status # "VERIFIED"
        /\ domain' = [domain EXCEPT !.checked = 0]
        /\ sweep' = Outdated /\ held' = Disturbed
  /\ UNCHANGED <<proofAge, elsewhere, published, overwritten, docFails>>

\* Mutant: a check of a verified domain renews it.
RenewedByAnyCheck == 0

\* verified_at changes only when the status does
VerifiedAgain == IF domain.status = "VERIFIED" THEN domain.verified ELSE 0

\* VERIFIED, unless the index org_domains_verified_once refuses; the document is written
\* when the status changes
ProvedByHand(s) ==
  /\ byHand = "proved" /\ domain.status # "none" /\ LockFree(s)
  /\ byHand' = "none"
  /\ \/ elsewhere /\ UNCHANGED <<domain, proofAge, sweep, held, overwritten>>
     \/ /\ ~elsewhere
        /\ domain' = [status |-> "VERIFIED", failures |-> 0, checked |-> 0, verified |-> VerifiedAgain]
        /\ proofAge' = 0
        /\ sweep' = Outdated
        /\ IF domain.status = "VERIFIED" THEN held' = Disturbed ELSE WritesDocument(s, "check")
        /\ overwritten' = (overwritten /\ domain.status = "VERIFIED")
  /\ UNCHANGED <<elsewhere, published, docFails>>

\* domainsToRecheck
ListDomain(s) ==
  /\ sweep[s] = NoSweep
  /\ domain.status = "VERIFIED" /\ domain.checked >= RecheckAfter
  /\ sweep' = [sweep EXCEPT ![s] = [age |-> 0, answer |-> "asking", current |-> TRUE]]
  /\ UNCHANGED <<domain, proofAge, elsewhere, published, byHand, held, overwritten, docFails>>

AskDomain(s) ==
  /\ sweep[s].answer = "asking"
  /\ sweep' = [sweep EXCEPT ![s].answer = IF published THEN "proved" ELSE "missing"]
  /\ UNCHANGED <<domain, proofAge, elsewhere, published, byHand, held, overwritten, docFails>>

\* removed, lapsed, or checked since it was listed: nothing to apply
DropAnswer(s) ==
  /\ sweep[s].answer \in {"proved", "missing"} /\ LockFree(s)
  /\ domain.status # "VERIFIED" \/ ~sweep[s].current
  /\ sweep' = [sweep EXCEPT ![s] = NoSweep]
  /\ UNCHANGED <<domain, proofAge, elsewhere, published, byHand, held, overwritten, docFails>>

\* Mutant: the failure is counted whoever has checked the domain meanwhile.
CountsTwice(s) == LockFree(s) /\ domain.status = "VERIFIED"

Applies(s) == LockFree(s) /\ domain.status = "VERIFIED" /\ sweep[s].current

ApplyProof(s) ==
  /\ sweep[s].answer = "proved" /\ Applies(s)
  /\ domain' = [domain EXCEPT !.failures = 0, !.checked = sweep[s].age]
  /\ proofAge' = sweep[s].age
  /\ sweep' = [Outdated EXCEPT ![s] = NoSweep] /\ held' = Disturbed
  /\ UNCHANGED <<elsewhere, published, byHand, overwritten, docFails>>

ApplyFailure(s) ==
  /\ sweep[s].answer = "missing" /\ Applies(s)
  /\ domain.failures + 1 < LapseAfter
  /\ domain' = [domain EXCEPT !.failures = @ + 1, !.checked = sweep[s].age]
  /\ sweep' = [Outdated EXCEPT ![s] = NoSweep] /\ held' = Disturbed
  /\ UNCHANGED <<proofAge, elsewhere, published, byHand, overwritten, docFails>>

Lapse(s) ==
  /\ sweep[s].answer = "missing" /\ Applies(s)
  /\ domain.failures + 1 >= LapseAfter
  /\ domain' = [domain EXCEPT !.status = "LAPSED", !.failures = @ + 1, !.checked = sweep[s].age]
  /\ sweep' = Outdated
  /\ WritesDocument(s, "lapse")
  /\ UNCHANGED <<proofAge, elsewhere, published, byHand, overwritten, docFails>>

SweepEnds(s) == IF held[s].of = "lapse" THEN [sweep EXCEPT ![s] = NoSweep] ELSE sweep

\* the document has it, or the process is gone
DocumentWritten(s) ==
  /\ ~LockFree(s)
  /\ held' = [held EXCEPT ![s] = NoWrite]
  /\ sweep' = SweepEnds(s)
  /\ UNCHANGED <<domain, proofAge, elsewhere, published, byHand, overwritten, docFails>>

\* An undo asks for nothing but the row's id: an addition is deleted, a removal inserted
\* again, the others put back, unless one of the unique indexes refuses.
UndoTakes(s) ==
  /\ \/ held[s].of \in {"add", "check", "lapse"} /\ domain.status # "none"
     \/ held[s].of = "remove" /\ domain.status = "none"
  /\ held[s].row.status = "VERIFIED" => ~elsewhere

\* the document cannot be written, and the undo is lost as well or puts the row back
CommandFails(s) ==
  /\ held[s].of \in {"add", "check", "remove", "gone"} /\ docFails < MaxDocFails
  /\ docFails' = docFails + 1
  /\ \/ held' = [held EXCEPT ![s] = NoWrite] /\ UNCHANGED <<domain, sweep, overwritten>>
     \/ /\ UndoTakes(s)
        /\ domain' = held[s].row
        /\ overwritten' = (overwritten \/ ~held[s].alone)
        /\ held' = [Disturbed EXCEPT ![s] = NoWrite]
        /\ sweep' = IF held[s].of = "remove" THEN sweep ELSE Outdated
  /\ UNCHANGED <<proofAge, elsewhere, published, byHand>>

\* likewise, and the sweeper marks whatever row there is as checked by its run, unless that is
\* lost too
LapseFails(s) ==
  LET Marked(row) == [row EXCEPT !.checked = sweep[s].age]
  IN  /\ held[s].of = "lapse" /\ docFails < MaxDocFails
      /\ docFails' = docFails + 1
      /\ \/ /\ held' = [held EXCEPT ![s] = NoWrite] /\ sweep' = SweepEnds(s)
            /\ UNCHANGED <<domain, overwritten>>
         \/ /\ domain.status # "none"
            /\ \/ domain' = Marked(domain)
               \/ UndoTakes(s) /\ domain' \in {held[s].row, Marked(held[s].row)}
            /\ overwritten' = (overwritten \/ ~held[s].alone)
            /\ held' = [Disturbed EXCEPT ![s] = NoWrite]
            /\ sweep' = [Outdated EXCEPT ![s] = NoSweep]
      /\ UNCHANGED <<proofAge, elsewhere, published, byHand>>

\* the domain's zone and the other organisations
PublishProof ==
  /\ published' = ~published
  /\ UNCHANGED <<domain, proofAge, elsewhere, byHand, sweep, held, overwritten, docFails>>

VerifiedElsewhere ==
  /\ domain.status # "VERIFIED"
  /\ elsewhere' = ~elsewhere
  /\ UNCHANGED <<domain, proofAge, published, byHand, sweep, held, overwritten, docFails>>

Aged(row) == [row EXCEPT !.checked = Older(@), !.verified = LongerVerified(@)]

DomTick ==
  /\ \A s \in Sweeper : sweep[s].age < MaxRun
  /\ SlowWrites \/ \A s \in Sweeper : LockFree(s)
  /\ domain' = Aged(domain) /\ proofAge' = Older(proofAge)
  /\ sweep' = [s \in Sweeper |-> IF sweep[s] = NoSweep THEN NoSweep
                                 ELSE [sweep[s] EXCEPT !.age = Older(@)]]
  /\ held' = [s \in Sweeper |-> [held[s] EXCEPT !.row = Aged(@)]]
  /\ UNCHANGED <<elsewhere, published, byHand, overwritten, docFails>>

SweepDomain(s) ==
  \/ ListDomain(s) \/ AskDomain(s) \/ DropAnswer(s) \/ ApplyProof(s) \/ ApplyFailure(s) \/ Lapse(s)

DocumentAnswers(s) == DocumentWritten(s) \/ CommandFails(s) \/ LapseFails(s)

DomNext ==
  \/ CheckByHand \/ AnswerByHand \/ NotFoundByHand \/ MissedByHand
  \/ \E s \in Sweeper : \/ AddOrgDomain(s) \/ RemoveOrgDomain(s) \/ ProvedByHand(s)
                        \/ SweepDomain(s) \/ DocumentAnswers(s)
  \/ PublishProof \/ VerifiedElsewhere \/ DomTick

\* Time passes, the sweepers tick every minute and end their runs, and a document write is
\* answered one way or the other.
DomFairness ==
  /\ WF_domVars(DomTick)
  /\ \A s \in Sweeper : WF_domVars(SweepDomain(s)) /\ WF_domVars(DocumentAnswers(s))

DomSpec == DomInit /\ [][DomNext]_domVars /\ DomFairness

\* the row lapses, other than by the undo of a verification
Lapses == domain.status = "VERIFIED" /\ domain'.status = "LAPSED" /\ UNCHANGED docFails

\* LAPSE_AFTER_FAILURES: "at least 3 days without a proof".
ThreeDaysWithoutProof == [][Lapses => proofAge >= LapseAfter * RecheckAfter]_domVars
\* That holds whatever manual checks and sweeps of other replicas come in between, as long
\* as the undo of a lapse has not put a row back over what another replica wrote: a domain
\* lapses only that many whole re-check periods after it was last found proved.
LapsesAfterThreeDays ==
  [][Lapses => overwritten \/ proofAge >= LapseAfter * RecheckAfter]_domVars

\* A domain that has stopped publishing its proof lapses, however often somebody checks
\* it by hand: a failed manual check must not postpone the daily re-check.
UnprovedDomainsLapse ==
  <>[]~published => <>[](domain.status # "VERIFIED")

\* A verified domain that is being lapsed or removed, and that the undo would put back.
Withdraws(s) == held[s].of \in {"lapse", "remove"} /\ held[s].alone /\ held[s].row.status = "VERIFIED"

\* What an undo has written over another replica counts for nothing until the domain is
\* verified anew.
Standing ==
  IF overwritten THEN "no"
  ELSE IF domain.status = "VERIFIED" THEN "yes"
  ELSE IF \E s \in Sweeper : Withdraws(s) THEN "withdrawn" ELSE "no"

VerifiedFor ==
  CASE Standing = "no" -> -1
    [] Standing = "yes" -> domain.verified
    [] Standing = "withdrawn" -> held[CHOOSE s \in Sweeper : Withdraws(s)].row.verified

Verified == INSTANCE VerifiedDomain WITH
  standing <- Standing, age <- VerifiedFor, MaxAge <- MinVerified

\* RECOVERY_MIN_VERIFIED_DAYS: a domain that can recover the organisation has been verified
\* all that time.  No check of a verified domain renews its time, a lapse or a removal that is
\* undone gives back exactly the time it took, and after one that stands the domain counts
\* from its next proof.
VerifiedAllThatTime == Verified!VerifiedDomainSpec
=============================================================================
