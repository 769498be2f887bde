---------------------------- MODULE SweepBatches ----------------------------
(***************************************************************************)
(* The order in which the proposals job works: each run takes the first    *)
(* few due proposals, the never checked ones by age and then the others by *)
(* when they were last checked, and marks those that cannot progress with  *)
(* the time of the run, which puts them at the back.                       *)
(*                                                                         *)
(* What running a proposal does to its organisation is in OrgGovernance.   *)
(***************************************************************************)
EXTENDS Naturals, SequencesExt

CONSTANTS Proposal,     \* numbers: in the order they were created
          Batch,        \* BATCH
          MaxSlips      \* bound: failures that pass, failing marks and stops

VARIABLES
  stuck,     \* proposals whose document write fails whenever they are run
  ahead,     \* proposals that are not due yet
  unchecked, \* due, checked_at is null
  checked,   \* due, by checked_at
  taken,     \* what the run under way has read and not dealt with
  marked,    \* what it has marked: all with the time of the run
  slips

sweepVars == <<stuck, ahead, unchecked, checked, taken, marked, slips>>

ByAge(S) == SetToSortSeq(S, <)

SweepInit ==
  /\ stuck \in SUBSET Proposal
  /\ ahead = Proposal
  /\ unchecked = {} /\ checked = <<>>
  /\ taken = <<>> /\ marked = {}
  /\ slips = 0

\* one that an earlier run could not re-arm was checked already
ComesDue(p) ==
  /\ p \in ahead
  /\ ahead' = ahead \ {p}
  /\ \/ unchecked' = unchecked \cup {p} /\ UNCHANGED checked
     \/ checked' = <<p>> \o checked /\ UNCHANGED unchecked
  /\ UNCHANGED <<stuck, taken, marked, slips>>

\* dueProposals(now, BATCH)
DueProposals ==
  LET due == ByAge(unchecked) \o checked
  IN  SubSeq(due, 1, IF Len(due) < Batch THEN Len(due) ELSE Batch)

StartRun ==
  /\ taken = <<>> /\ DueProposals # <<>>
  /\ taken' = DueProposals
  /\ marked' = {}
  /\ UNCHANGED <<stuck, ahead, unchecked, checked, slips>>

\* run or expired
Decide ==
  /\ taken # <<>> /\ Head(taken) \notin stuck
  /\ taken' = Tail(taken)
  /\ unchecked' = unchecked \ {Head(taken)}
  /\ checked' = SelectSeq(checked, LAMBDA q : q # Head(taken))
  /\ UNCHANGED <<stuck, ahead, marked, slips>>

\* Mutant: what could not be run keeps its place.
KeepPlace(p) == UNCHANGED <<unchecked, checked, marked>>

\* markProposalChecked
MarkChecked(p) ==
  LET back == marked \cup {p}
  IN  /\ marked' = back
      /\ unchecked' = unchecked \ {p}
      /\ checked' = SelectSeq(checked, LAMBDA q : q \notin back) \o ByAge(back)

SkipStuck ==
  /\ taken # <<>> /\ Head(taken) \in stuck
  /\ taken' = Tail(taken)
  /\ MarkChecked(Head(taken))
  /\ UNCHANGED <<stuck, ahead, slips>>

\* it could not run this time; the mark may fail as well, which is logged
Slip ==
  /\ taken # <<>> /\ slips < MaxSlips
  /\ slips' = slips + 1
  /\ taken' = Tail(taken)
  /\ MarkChecked(Head(taken)) \/ UNCHANGED <<unchecked, checked, marked>>
  /\ UNCHANGED <<stuck, ahead>>

SweepStops ==
  /\ taken # <<>> /\ slips < MaxSlips
  /\ slips' = slips + 1
  /\ taken' = <<>>
  /\ UNCHANGED <<stuck, ahead, unchecked, checked, marked>>

SweepStep == StartRun \/ Decide \/ SkipStuck

SweepNext == SweepStep \/ Slip \/ SweepStops \/ \E p \in Proposal : ComesDue(p)

\* the sweeper ticks every minute
SweepFairness == WF_sweepVars(SweepStep)

SweepSpec == SweepInit /\ [][SweepNext]_sweepVars /\ SweepFairness

\* "A proposal that cannot progress goes to the back of the batch order": however many
\* proposals fail every time they are run, a due one that can be run is run, also when the
\* failing ones alone would fill every batch.
StuckProposalsStarveNobody ==
  \A p \in Proposal : []((p \in unchecked \cup ToSet(checked) /\ p \notin stuck)
                           => <>(p \notin unchecked \cup ToSet(checked)))
==============================================================================
