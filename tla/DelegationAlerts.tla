--------------------------- MODULE DelegationAlerts ---------------------------
(***************************************************************************)
(* The sweeper's claims on one of its jobs, the delegations job: replicas  *)
(* claim a run by a compare-and-set on when the job last started, read the *)
(* delegations of a window that ends a lag behind the clock, claim an      *)
(* alert for each, announce it, and move the watermark on.  A failed run   *)
(* gives its claim back; a replica that stops does not.                    *)
(*                                                                         *)
(* Two things outside the code are assumed: a delegation is in the read    *)
(* model within DelegationLag of the time it carries (commit latency and  *)
(* clock skew, in the words of the source), and the apps and members the   *)
(* job looks up do not change.                                             *)
(***************************************************************************)
EXTENDS Integers

CONSTANTS Replica,
          Delegation,
          DelegationLag,    \* DELEGATION_LAG_MS
          EveryRun,         \* everyMs of the job
          LastTick,         \* bound: the clock
          MaxRunFailures    \* bound: failing runs and stops

ASSUME AlertAssumption == {DelegationLag, EveryRun} \subseteq Nat \ {0}

VARIABLES
  clock,
  lastRun,     \* org_jobs.last_run_at, or Never without a row
  watermark,   \* org_jobs.watermark, or Never
  firstMark,   \* the latest watermark set by a run that met none (history)
  delegation,  \* its created_at, or Never, and whether a query finds it
  claimedAlerts,  \* org_delegation_alerts
  announced,   \* announcements of each
  replica,     \* what each does with the job
  failedRuns,
  started         \* the starts of runs that were not given back (history)

alertVars == <<clock, lastRun, watermark, firstMark, delegation, claimedAlerts, announced,
               replica, failedRuns, started>>

Never == 0
Asleep == [step |-> "idle"]

AlertInit ==
  /\ clock = DelegationLag + 1
  /\ lastRun = Never /\ watermark = Never /\ firstMark = Never
  /\ delegation = [d \in Delegation |-> [at |-> Never, found |-> FALSE]]
  /\ claimedAlerts = {}
  /\ announced = [d \in Delegation |-> 0]
  /\ replica = [r \in Replica |-> Asleep]
  /\ failedRuns = 0
  /\ started = {}

ClockTicks ==
  /\ clock < LastTick
  /\ \A d \in Delegation : ~delegation[d].found /\ delegation[d].at # Never
                             => clock + 1 < delegation[d].at + DelegationLag
  /\ clock' = clock + 1
  /\ UNCHANGED <<lastRun, watermark, firstMark, delegation, claimedAlerts, announced, replica,
                 failedRuns, started>>

CreateDelegation(d) ==
  /\ delegation[d].at = Never
  /\ delegation' = [delegation EXCEPT ![d].at = clock]
  /\ UNCHANGED <<clock, lastRun, watermark, firstMark, claimedAlerts, announced, replica,
                 failedRuns, started>>

IndexDelegation(d) ==
  /\ delegation[d].at # Never /\ ~delegation[d].found
  /\ delegation' = [delegation EXCEPT ![d].found = TRUE]
  /\ UNCHANGED <<clock, lastRun, watermark, firstMark, claimedAlerts, announced, replica,
                 failedRuns, started>>

\* claimJob, its select
ReadLastRun(r) ==
  /\ replica[r].step = "idle"
  /\ lastRun = Never \/ clock - lastRun >= EveryRun
  /\ replica' = [replica EXCEPT ![r] = [step |-> "claim", now |-> clock, previous |-> lastRun]]
  /\ UNCHANGED <<clock, lastRun, watermark, firstMark, delegation, claimedAlerts, announced,
                 failedRuns, started>>

Unclaimed(r) == lastRun = replica[r].previous

\* claimJob, its insert or compare-and-set
ClaimRun(r) ==
  /\ replica[r].step = "claim"
  /\ IF Unclaimed(r)
       THEN /\ lastRun' = replica[r].now
            /\ started' = started \cup {[by |-> r, at |-> replica[r].now]}
            /\ replica' = [replica EXCEPT ![r].step = "window"]
       ELSE /\ replica' = [replica EXCEPT ![r] = Asleep]
            /\ UNCHANGED <<lastRun, started>>
  /\ UNCHANGED <<clock, watermark, firstMark, delegation, claimedAlerts, announced, failedRuns>>

\* Mutant: the window ends at the time of the run.
UpToNow(r) == replica[r].now

WindowEnd(r) == replica[r].now - DelegationLag

\* the watermark, and the delegations of the window that a query finds by now
ReadWindow(r) ==
  /\ replica[r].step = "window"
  /\ IF watermark # Never /\ WindowEnd(r) <= watermark
       THEN replica' = [replica EXCEPT ![r] = Asleep]
       ELSE replica' = [replica EXCEPT ![r] =
              [step |-> "alert", now |-> replica[r].now, previous |-> replica[r].previous,
               first |-> watermark = Never, announce |-> {},
               alerts |-> IF watermark = Never THEN {}
                          ELSE {d \in Delegation : /\ delegation[d].found
                                                   /\ delegation[d].at \in watermark + 1..WindowEnd(r)}]]
  /\ UNCHANGED <<clock, lastRun, watermark, firstMark, delegation, claimedAlerts, announced,
                 failedRuns, started>>

\* claimDelegationAlert: the insert that meets no row; the announcement follows it
ClaimAlert(r, d) ==
  /\ replica[r].step = "alert" /\ d \in replica[r].alerts
  /\ claimedAlerts' = claimedAlerts \cup {d}
  /\ replica' = [replica EXCEPT ![r].alerts = @ \ {d},
                                ![r].announce = IF d \in claimedAlerts THEN {} ELSE {d}]
  /\ replica[r].announce = {}
  /\ UNCHANGED <<clock, lastRun, watermark, firstMark, delegation, announced, failedRuns, started>>

Announce(r) ==
  /\ replica[r].step = "alert" /\ replica[r].announce # {}
  /\ announced' = [d \in Delegation |-> announced[d] + IF d \in replica[r].announce THEN 1 ELSE 0]
  /\ replica' = [replica EXCEPT ![r].announce = {}]
  /\ UNCHANGED <<clock, lastRun, watermark, firstMark, delegation, claimedAlerts, failedRuns, started>>

\* setJobWatermark, also by a run that another one has overtaken
MoveWatermark(r) ==
  /\ replica[r].step = "alert"
  /\ replica[r].alerts = {} /\ replica[r].announce = {}
  /\ watermark' = WindowEnd(r)
  /\ firstMark' = IF replica[r].first /\ WindowEnd(r) > firstMark THEN WindowEnd(r) ELSE firstMark
  /\ replica' = [replica EXCEPT ![r] = Asleep]
  /\ UNCHANGED <<clock, lastRun, delegation, claimedAlerts, announced, failedRuns, started>>

\* Mutant: a failed run gives back whatever claim there is.
GiveBackAnyClaim(r) == lastRun' = replica[r].previous

\* releaseJob: only the claim that is still its own
GiveBackClaim(r) == lastRun' = IF lastRun = replica[r].now THEN replica[r].previous ELSE lastRun

\* anything of the run throws; record never does
RunFails(r) ==
  /\ replica[r].step \in {"window", "alert"} /\ failedRuns < MaxRunFailures
  /\ replica[r].step = "alert" => replica[r].announce = {}
  /\ failedRuns' = failedRuns + 1
  /\ GiveBackClaim(r)
  /\ started' = started \ {[by |-> r, at |-> replica[r].now]}
  /\ replica' = [replica EXCEPT ![r] = Asleep]
  /\ UNCHANGED <<clock, watermark, firstMark, delegation, claimedAlerts, announced>>

ReplicaStops(r) ==
  /\ replica[r].step # "idle" /\ failedRuns < MaxRunFailures
  /\ failedRuns' = failedRuns + 1
  /\ replica' = [replica EXCEPT ![r] = Asleep]
  /\ UNCHANGED <<clock, lastRun, watermark, firstMark, delegation, claimedAlerts, announced, started>>

AlertNext ==
  \/ ClockTicks
  \/ \E d \in Delegation : CreateDelegation(d) \/ IndexDelegation(d)
  \/ \E r \in Replica :
       \/ ReadLastRun(r) \/ ClaimRun(r) \/ ReadWindow(r)
       \/ \E d \in Delegation : ClaimAlert(r, d)
       \/ Announce(r) \/ MoveWatermark(r) \/ RunFails(r) \/ ReplicaStops(r)

AlertSpec == AlertInit /\ [][AlertNext]_alertVars

\* "A failed or crashed run is repeated without duplicates": no delegation the watermark
\* has passed is left unclaimed, whichever replica stopped, failed or was overtaken on the
\* way, and none is announced twice.
NoDelegationIsSkipped ==
  \A d \in Delegation :
    /\ firstMark # Never /\ delegation[d].at \in firstMark + 1..watermark
         => d \in claimedAlerts
    /\ announced[d] <= 1

\* "Exactly one replica runs it": two runs that were not given back started at least the
\* interval of the job apart, although a slow run may give its claim back after another
\* one has started.
RunsAreSpaced ==
  \A a, b \in started : a # b => a.at - b.at >= EveryRun \/ b.at - a.at >= EveryRun
==============================================================================
