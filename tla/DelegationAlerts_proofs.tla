----------------------- MODULE DelegationAlerts_proofs -----------------------
(***************************************************************************)
(* No delegation is skipped or announced twice, and runs are spaced, for   *)
(* any number of replicas and delegations, any lag and any interval.       *)
(***************************************************************************)
EXTENDS DelegationAlerts, TLAPS

AlertTyped ==
  /\ clock \in Nat /\ lastRun \in Nat /\ watermark \in Nat /\ firstMark \in Nat
  /\ delegation \in [Delegation -> [at : Nat, found : BOOLEAN]]
  /\ claimedAlerts \subseteq Delegation
  /\ announced \in [Delegation -> Nat]
  /\ replica \in [Replica -> {Asleep}
       \cup [step : {"claim", "window"}, now : Nat, previous : Nat]
       \cup [step : {"alert"}, now : Nat, previous : Nat, first : BOOLEAN,
             announce : SUBSET Delegation, alerts : SUBSET Delegation]]
  /\ started \subseteq [by : Replica, at : Nat]

Alerting(r) == replica[r].step = "alert"
Running(r) == replica[r].step \in {"window", "alert"}

\* What a window that has ended a lag ago contains is in the read model, and what is made
\* from now on comes after it.
Settled ==
  /\ clock > DelegationLag
  /\ watermark + DelegationLag <= clock
  /\ \A r \in Replica : replica[r].step # "idle" =>
       replica[r].now > DelegationLag /\ replica[r].now <= clock
  /\ \A d \in Delegation :
       /\ delegation[d].at <= clock
       /\ delegation[d].at # Never /\ ~delegation[d].found => clock < delegation[d].at + DelegationLag

\* The watermark, and where each run is about to move it: nothing before it is left that is
\* not claimed or still on the run's own list.
Covered ==
  /\ watermark # Never => firstMark # Never
  /\ firstMark # Never => \A d \in Delegation :
       delegation[d].at \in firstMark + 1..watermark => d \in claimedAlerts
  /\ \A r \in Replica : Alerting(r) /\ ~replica[r].first =>
       /\ firstMark # Never
       /\ \A d \in Delegation : delegation[d].at \in firstMark + 1..WindowEnd(r)
                                  => d \in claimedAlerts \/ d \in replica[r].alerts

\* Whoever claims an alert is the only one to announce it.
Announcing ==
  /\ \A d \in Delegation : announced[d] <= 1 /\ (d \notin claimedAlerts => announced[d] = 0)
  /\ \A r \in Replica : Alerting(r) =>
       \A d \in replica[r].announce : d \in claimedAlerts /\ announced[d] = 0
  /\ \A r, s \in Replica : Alerting(r) /\ Alerting(s) =>
       \A d \in replica[r].announce : d \in replica[s].announce => r = s

\* A claim that could be given back is the latest, and gives way to the one before it.
Claims ==
  /\ \A a \in started : a.at # Never /\ a.at <= lastRun
  /\ \A r \in Replica : replica[r].step # "idle" => replica[r].previous < replica[r].now
  /\ \A r \in Replica : replica[r].step = "claim" =>
       replica[r].previous = Never \/ replica[r].now - replica[r].previous >= EveryRun
  /\ \A r \in Replica : Running(r) =>
       /\ [by |-> r, at |-> replica[r].now] \in started
       /\ \A a \in started : /\ a.at < replica[r].now => a.at <= replica[r].previous
                             /\ a.at = replica[r].now => a.by = r
  /\ RunsAreSpaced

AlertInv == AlertTyped /\ Settled /\ Covered /\ Announcing /\ Claims

LEMMA RunFields ==
  ASSUME AlertTyped, NEW r \in Replica
  PROVE  /\ replica[r].step \in {"idle", "claim", "window", "alert"}
         /\ replica[r].step # "idle" => replica[r].now \in Nat /\ replica[r].previous \in Nat
         /\ Alerting(r) => /\ replica[r].first \in BOOLEAN
                           /\ replica[r].alerts \subseteq Delegation
                           /\ replica[r].announce \subseteq Delegation
BY DEF AlertTyped, Alerting, Asleep

LEMMA InvHoldsAtFirst == AlertInit => AlertInv
BY AlertAssumption
DEF AlertInit, AlertInv, AlertTyped, Settled, Covered, Announcing, Claims, Alerting, Running,
    RunsAreSpaced, Never, Asleep

\* Time and delegations.
LEMMA WorldKeeps ==
  ASSUME AlertInv, ClockTicks \/ \E d \in Delegation : CreateDelegation(d) \/ IndexDelegation(d)
  PROVE  AlertInv'
<1> USE AlertAssumption DEF AlertInv, AlertTyped, Alerting, Running, WindowEnd, Never, Asleep
<1>1. CASE ClockTicks
  <2>1. AlertTyped' /\ Settled'
    BY <1>1 DEF ClockTicks, Settled
  <2>2. Covered' /\ Announcing'
    BY <1>1 DEF ClockTicks, Covered, Announcing
  <2>3. Claims'
    BY <1>1 DEF ClockTicks, Claims, RunsAreSpaced
  <2> QED
    BY <2>1, <2>2, <2>3
<1>2. ASSUME NEW d \in Delegation, CreateDelegation(d)
      PROVE  AlertInv'
  <2>1. AlertTyped' /\ Settled'
    BY <1>2 DEF CreateDelegation, Settled
  <2>2. clock > watermark /\ \A r \in Replica : Alerting(r) => clock > WindowEnd(r)
    <3> HIDE DEF AlertTyped
    <3>1. AlertTyped /\ Settled
      OBVIOUS
    <3>2. clock > watermark /\ clock \in Nat
      <4>1. {clock, watermark} \subseteq Nat /\ DelegationLag \in Nat \ {0}
        BY <3>1 DEF AlertTyped
      <4>2. watermark + DelegationLag <= clock
        BY <3>1 DEF Settled
      <4> QED
        BY <4>1, <4>2
    <3>3. \A r \in Replica : Alerting(r) => replica[r].now \in Nat /\ replica[r].now <= clock
      BY <3>1, RunFields DEF Settled
    <3> QED
      BY <3>2, <3>3
  <2>3. Covered'
    BY <1>2, <2>2 DEF CreateDelegation, Covered
  <2>4. Announcing'
    BY <1>2 DEF CreateDelegation, Announcing
  <2>5. Claims'
    BY <1>2 DEF CreateDelegation, Claims, RunsAreSpaced
  <2> QED
    BY <2>1, <2>3, <2>4, <2>5
<1>3. ASSUME NEW d \in Delegation, IndexDelegation(d)
      PROVE  AlertInv'
  <2>1. AlertTyped'
    <3>1. delegation' \in [Delegation -> [at : Nat, found : BOOLEAN]]
      <4> HIDE DEF AlertTyped, AlertInv
      <4>1. delegation \in [Delegation -> [at : Nat, found : BOOLEAN]]
        BY DEF AlertTyped, AlertInv
      <4> QED
        BY <1>3, <4>1 DEF IndexDelegation
    <3> QED
      BY <1>3, <3>1 DEF IndexDelegation
  <2>2. Settled'
    BY <1>3 DEF IndexDelegation, Settled
  <2>3. Covered' /\ Announcing'
    BY <1>3 DEF IndexDelegation, Covered, Announcing
  <2>4. Claims'
    BY <1>3 DEF IndexDelegation, Claims, RunsAreSpaced
  <2> QED
    BY <2>1, <2>2, <2>3, <2>4
<1> QED
  BY <1>1, <1>2, <1>3

\* Claiming a run, and giving it back.
LEMMA ClaimKeeps ==
  ASSUME AlertInv, NEW r \in Replica, ReadLastRun(r) \/ ClaimRun(r) \/ RunFails(r) \/ ReplicaStops(r)
  PROVE  AlertInv'
<1> USE AlertAssumption DEF AlertInv, AlertTyped, Alerting, Running, WindowEnd, Never, Asleep
<1>1. CASE ReadLastRun(r)
  <2>1. AlertTyped' /\ Settled'
    BY <1>1 DEF ReadLastRun, Settled
  <2>2. Covered' /\ Announcing'
    BY <1>1 DEF ReadLastRun, Covered, Announcing
  <2>3. Claims'
    BY <1>1 DEF ReadLastRun, Claims, RunsAreSpaced, Settled
  <2> QED
    BY <2>1, <2>2, <2>3
<1>2. CASE ClaimRun(r)
  <2>1. AlertTyped' /\ Settled'
    BY <1>2 DEF ClaimRun, Settled
  <2>2. Covered' /\ Announcing'
    BY <1>2 DEF ClaimRun, Covered, Announcing
  <2>3. Claims'
    <3>1. CASE ~Unclaimed(r)
      BY <1>2, <3>1 DEF ClaimRun, Claims, RunsAreSpaced
    <3>2. CASE Unclaimed(r)
      <4> DEFINE own == [by |-> r, at |-> replica[r].now]
      <4>1. lastRun' = own.at /\ started' = started \cup {own} /\ lastRun = replica[r].previous
        BY <1>2, <3>2 DEF ClaimRun, Unclaimed
      <4>2. \A a \in started : a.at < own.at /\ own.at - a.at >= EveryRun
        BY <1>2, <4>1 DEF ClaimRun, Claims
      <4>3. replica' = [replica EXCEPT ![r].step = "window"]
        BY <1>2, <3>2 DEF ClaimRun
      <4>4. RunsAreSpaced'
        BY <4>1, <4>2 DEF RunsAreSpaced, Claims
      <4>5. own.at # Never /\ lastRun < own.at
        BY <1>2, <4>1 DEF ClaimRun, Settled, Claims
      <4>6. \A s \in Replica : Running(s) => replica[s].now < own.at
        BY <4>1, <4>2 DEF Claims
      <4>7. \A s \in Replica : /\ s # r => replica'[s] = replica[s]
                              /\ replica'[r].step = "window" /\ replica'[r].now = own.at
                              /\ replica'[r].previous = lastRun
        BY <1>2, <4>1, <4>3 DEF ClaimRun
      <4>8. own.at \in Nat /\ own.by = r /\ own.at = replica[r].now
        BY <1>2 DEF ClaimRun
      <4> HIDE DEF AlertTyped, own
      <4>9. ASSUME NEW s \in Replica, Running(s)'
            PROVE  /\ [by |-> s, at |-> replica'[s].now] \in started'
                   /\ \A a \in started' : /\ a.at < replica'[s].now => a.at <= replica'[s].previous
                                          /\ a.at = replica'[s].now => a.by = s
        <5>1. CASE s = r
          <6>1. \A a \in started : a.at \in Nat /\ a.at < own.at /\ a.at <= lastRun
            BY <4>1, <4>2 DEF AlertTyped, Claims
          <6> QED
            BY <4>1, <4>7, <4>8, <5>1, <6>1 DEF own
        <5>2. CASE s # r
          <6>1. Running(s) /\ replica'[s] = replica[s]
            BY <4>7, <4>9, <5>2
          <6>2. replica[s].now < own.at /\ replica[s].now \in Nat /\ own.at \in Nat
            BY <4>6, <4>8, <6>1, RunFields
          <6> QED
            BY <4>1, <6>1, <6>2 DEF Claims, own
        <5> QED
          BY <5>1, <5>2
      <4>10. \A s \in Replica : replica'[s].step # "idle" =>
              /\ replica'[s].previous < replica'[s].now
              /\ replica'[s].step = "claim" => \/ replica'[s].previous = Never
                                               \/ replica'[s].now - replica'[s].previous >= EveryRun
        BY <1>2, <4>1, <4>5, <4>7 DEF Claims, ClaimRun
      <4>11. \A a \in started' : a.at # Never /\ a.at <= lastRun'
        BY <4>1, <4>2, <4>5, <4>8 DEF Claims, AlertTyped
      <4> QED
        BY <4>4, <4>9, <4>10, <4>11 DEF Claims
    <3> QED
      BY <3>1, <3>2
  <2> QED
    BY <2>1, <2>2, <2>3
<1>3. CASE RunFails(r)
  <2>1. AlertTyped' /\ Settled'
    BY <1>3 DEF RunFails, GiveBackClaim, Settled
  <2>2. Covered' /\ Announcing'
    BY <1>3 DEF RunFails, Covered, Announcing
  <2>3. Claims'
    <3> DEFINE own == [by |-> r, at |-> replica[r].now]
    <3>1. Running(r) /\ started' = started \ {own} /\ replica' = [replica EXCEPT ![r] = Asleep]
      BY <1>3 DEF RunFails
    <3>2. \A a \in started : a.at = replica[r].now /\ a.by = r => a = own
      OBVIOUS
    <3>3. \A a \in started' : a.at # Never /\ a.at <= lastRun'
      <4>1. ASSUME NEW a \in started, a # own
            PROVE  /\ a.at \in Nat /\ a.at # Never /\ a.at <= lastRun
                   /\ a.at < replica[r].now => a.at <= replica[r].previous
                   /\ a.at # replica[r].now
        BY <3>1, <3>2, <4>1 DEF Claims
      <4>2. replica[r].now \in Nat /\ replica[r].previous \in Nat /\ lastRun \in Nat
        BY <3>1
      <4>3. lastRun' = IF lastRun = replica[r].now THEN replica[r].previous ELSE lastRun
        BY <1>3 DEF RunFails, GiveBackClaim
      <4> HIDE DEF AlertTyped
      <4> QED
        BY <3>1, <4>1, <4>2, <4>3
    <3>4. RunsAreSpaced'
      BY <3>1 DEF RunsAreSpaced, Claims
    <3>5. \A s \in Replica : Running(s)' => [by |-> s, at |-> replica[s].now] # own
      BY <3>1
    <3> QED
      BY <3>1, <3>3, <3>4, <3>5 DEF Claims
  <2> QED
    BY <2>1, <2>2, <2>3
<1>4. CASE ReplicaStops(r)
  <2>1. AlertTyped' /\ Settled'
    BY <1>4 DEF ReplicaStops, Settled
  <2>2. Covered' /\ Announcing'
    BY <1>4 DEF ReplicaStops, Covered, Announcing
  <2>3. Claims'
    BY <1>4 DEF ReplicaStops, Claims, RunsAreSpaced
  <2> QED
    BY <2>1, <2>2, <2>3
<1> QED
  BY <1>1, <1>2, <1>3, <1>4

\* The run itself.
LEMMA WindowKeeps ==
  ASSUME AlertInv, NEW r \in Replica, ReadWindow(r)
  PROVE  AlertInv'
<1>1. /\ AlertTyped /\ Settled /\ Covered /\ Announcing /\ Claims
      /\ r \in DOMAIN replica /\ replica[r].step = "window"
  BY DEF AlertInv, AlertTyped, ReadWindow
<1>2. \A s \in Replica : /\ replica[s].step # "idle" => replica[s].now \in Nat /\ replica[s].previous \in Nat
                         /\ Alerting(s) => replica[s].announce \subseteq Delegation
  BY <1>1, RunFields
<1> DEFINE due == IF watermark = Never THEN {}
                  ELSE {d \in Delegation : /\ delegation[d].found
                                           /\ delegation[d].at \in watermark + 1..WindowEnd(r)}
           run == [step |-> "alert", now |-> replica[r].now, previous |-> replica[r].previous,
                   first |-> watermark = Never, announce |-> {}, alerts |-> due]
<1>3. UNCHANGED <<clock, lastRun, watermark, firstMark, delegation, claimedAlerts, announced, started>>
  BY DEF ReadWindow
<1>4. CASE replica' = [replica EXCEPT ![r] = Asleep]
  <2>1. AlertTyped'
    BY <1>1, <1>3, <1>4 DEF AlertTyped
  <2>2. \A s \in Replica : replica'[s] = IF s = r THEN Asleep ELSE replica[s]
    BY <1>1, <1>4 DEF AlertTyped
  <2> QED
    BY <1>1, <1>3, <2>1, <2>2
    DEF AlertInv, Settled, Covered, Announcing, Claims, RunsAreSpaced, Alerting, Running, WindowEnd,
        Asleep
<1>5. CASE replica' = [replica EXCEPT ![r] = run]
  <2>1. due \subseteq Delegation /\ run \in [step : {"alert"}, now : Nat, previous : Nat,
          first : BOOLEAN, announce : SUBSET Delegation, alerts : SUBSET Delegation]
    BY <1>1, <1>2
  <2>2. AlertTyped'
    BY <1>1, <1>3, <1>5, <2>1 DEF AlertTyped
  <2>3. \A s \in Replica : replica'[s] = IF s = r THEN run ELSE replica[s]
    BY <1>1, <1>5 DEF AlertTyped
  <2>4. /\ run.step = "alert" /\ run.now = replica[r].now /\ run.previous = replica[r].previous
        /\ run.first <=> watermark = Never
        /\ run.announce = {} /\ run.alerts = due
    OBVIOUS
  <2> HIDE DEF run
  <2>5. Settled'
    BY <1>1, <1>3, <2>3, <2>4 DEF Settled
  <2>6. \A d \in Delegation : delegation[d].at # Never /\ delegation[d].at <= WindowEnd(r)
                                => delegation[d].found
    BY <1>1, <1>2, AlertAssumption DEF Settled, AlertTyped, WindowEnd
  <2>7. WindowEnd(r)' = WindowEnd(r) /\ \A s \in Replica : s # r => WindowEnd(s)' = WindowEnd(s)
    BY <2>3, <2>4 DEF WindowEnd
  <2>8. Covered'
    <3>1. ASSUME watermark # Never, NEW d \in Delegation,
                 delegation[d].at \in firstMark + 1..WindowEnd(r)
          PROVE  firstMark # Never /\ (d \in claimedAlerts \/ d \in due)
      BY <1>1, <1>2, <2>6, <3>1, AlertAssumption DEF Covered, AlertTyped, Never, WindowEnd
    <3>2. ASSUME NEW s \in Replica, Alerting(s)', ~replica'[s].first
          PROVE  /\ firstMark # Never
                 /\ \A d \in Delegation : delegation[d].at \in firstMark + 1..WindowEnd(s)'
                                            => d \in claimedAlerts \/ d \in replica'[s].alerts
      <4> HIDE DEF due
      <4>1. CASE s = r
        BY <1>1, <2>3, <2>4, <2>7, <3>1, <3>2, <4>1 DEF Covered
      <4>2. CASE s # r
        BY <1>1, <2>3, <2>7, <3>2, <4>2 DEF Covered, Alerting
      <4> QED
        BY <4>1, <4>2
    <3> QED
      BY <1>1, <1>3, <3>2 DEF Covered
  <2>9. Announcing'
    BY <1>1, <1>3, <2>3, <2>4 DEF Announcing, Alerting
  <2>10. Claims'
    BY <1>1, <1>3, <2>3, <2>4 DEF Claims, Running, RunsAreSpaced
  <2> QED
    BY <2>2, <2>5, <2>8, <2>9, <2>10 DEF AlertInv
<1> QED
  BY <1>4, <1>5 DEF ReadWindow

LEMMA AlertKeeps ==
  ASSUME AlertInv, NEW r \in Replica, NEW d \in Delegation, ClaimAlert(r, d)
  PROVE  AlertInv'
<1> DEFINE new == IF d \in claimedAlerts THEN {} ELSE {d}
           run == [replica[r] EXCEPT !.alerts = @ \ {d}, !.announce = new]
<1>1. /\ AlertTyped /\ Settled /\ Covered /\ Announcing /\ Claims
      /\ Alerting(r) /\ d \in replica[r].alerts /\ claimedAlerts' = claimedAlerts \cup {d}
      /\ UNCHANGED <<clock, lastRun, watermark, firstMark, delegation, announced, started>>
  BY DEF AlertInv, ClaimAlert, Alerting
<1>2. replica[r] \in [step : {"alert"}, now : Nat, previous : Nat, first : BOOLEAN,
                      announce : SUBSET Delegation, alerts : SUBSET Delegation]
  BY <1>1 DEF AlertTyped, Alerting, Asleep
<1>3. /\ run \in [step : {"alert"}, now : Nat, previous : Nat, first : BOOLEAN,
                  announce : SUBSET Delegation, alerts : SUBSET Delegation]
      /\ run.step = "alert" /\ run.now = replica[r].now /\ run.previous = replica[r].previous
      /\ run.first = replica[r].first /\ run.announce = new
      /\ run.alerts = replica[r].alerts \ {d}
  BY <1>2
<1>4. replica' = [replica EXCEPT ![r] = run]
  BY <1>2 DEF ClaimAlert, AlertInv, AlertTyped
<1>5. AlertTyped'
  BY <1>1, <1>3, <1>4 DEF AlertTyped
<1>6. \A s \in Replica : replica'[s] = IF s = r THEN run ELSE replica[s]
  BY <1>1, <1>4 DEF AlertTyped
<1> HIDE DEF run
<1>7. Settled'
  BY <1>1, <1>3, <1>6 DEF Settled, Alerting
<1>8. \A s \in Replica : /\ Alerting(s)' <=> Alerting(s)
                         /\ Running(s)' <=> Running(s)
                         /\ Alerting(s) => WindowEnd(s)' = WindowEnd(s)
  BY <1>1, <1>3, <1>6 DEF WindowEnd, Alerting, Running
<1>9. Covered'
  BY <1>1, <1>3, <1>6, <1>8 DEF Covered
<1>10. Announcing'
  BY <1>1, <1>3, <1>6, <1>8 DEF Announcing
<1>11. Claims'
  BY <1>1, <1>3, <1>6, <1>8 DEF Claims, RunsAreSpaced, Alerting
<1> QED
  BY <1>5, <1>7, <1>9, <1>10, <1>11 DEF AlertInv

LEMMA AnnounceKeeps ==
  ASSUME AlertInv, NEW r \in Replica, Announce(r)
  PROVE  AlertInv'
<1> DEFINE run == [replica[r] EXCEPT !.announce = {}]
<1>1. /\ AlertTyped /\ Settled /\ Covered /\ Announcing /\ Claims
      /\ Alerting(r)
      /\ announced' = [d \in Delegation |-> announced[d] + IF d \in replica[r].announce THEN 1 ELSE 0]
      /\ UNCHANGED <<clock, lastRun, watermark, firstMark, delegation, claimedAlerts, started>>
  BY DEF AlertInv, Announce, Alerting
<1>2. replica[r] \in [step : {"alert"}, now : Nat, previous : Nat, first : BOOLEAN,
                      announce : SUBSET Delegation, alerts : SUBSET Delegation]
  BY <1>1 DEF AlertTyped, Alerting, Asleep
<1>3. /\ run \in [step : {"alert"}, now : Nat, previous : Nat, first : BOOLEAN,
                  announce : SUBSET Delegation, alerts : SUBSET Delegation]
      /\ run.step = "alert" /\ run.now = replica[r].now /\ run.previous = replica[r].previous
      /\ run.first = replica[r].first /\ run.announce = {} /\ run.alerts = replica[r].alerts
  BY <1>2
<1>4. replica' = [replica EXCEPT ![r] = run]
  BY <1>2 DEF Announce, AlertInv, AlertTyped
<1>5. AlertTyped'
  <2>1. announced' \in [Delegation -> Nat]
    BY <1>1 DEF AlertTyped
  <2> QED
    BY <1>1, <1>3, <1>4, <2>1 DEF AlertTyped
<1>6. \A s \in Replica : replica'[s] = IF s = r THEN run ELSE replica[s]
  BY <1>1, <1>4 DEF AlertTyped
<1> HIDE DEF run
<1>7. Settled'
  BY <1>1, <1>3, <1>6 DEF Settled, Alerting
<1>8. \A s \in Replica : /\ Alerting(s)' <=> Alerting(s)
                         /\ Running(s)' <=> Running(s)
                         /\ Alerting(s) => WindowEnd(s)' = WindowEnd(s)
  BY <1>1, <1>3, <1>6 DEF WindowEnd, Alerting, Running
<1>9. Covered'
  BY <1>1, <1>3, <1>6, <1>8 DEF Covered
<1>10. Announcing'
  <2>1. \A d \in Delegation : announced'[d] = IF d \in replica[r].announce THEN 1 ELSE announced[d]
    BY <1>1 DEF Announcing, AlertTyped
  <2>2. \A d \in Delegation : /\ d \in replica[r].announce => d \in claimedAlerts
                             /\ \A s \in Replica : s # r /\ Alerting(s) /\ d \in replica[s].announce
                                                   => d \notin replica[r].announce
    BY <1>1 DEF Announcing
  <2>3. \A d \in Delegation : announced'[d] <= 1 /\ (d \notin claimedAlerts => announced'[d] = 0)
    BY <1>1, <2>1, <2>2 DEF Announcing
  <2>4. \A s \in Replica : Alerting(s)' =>
          \A d \in replica'[s].announce : d \in claimedAlerts /\ announced'[d] = 0
    BY <1>1, <1>3, <1>6, <1>8, <2>1, <2>2, RunFields DEF Announcing
  <2> QED
    BY <1>1, <1>3, <1>6, <1>8, <2>3, <2>4 DEF Announcing
<1>11. Claims'
  BY <1>1, <1>3, <1>6, <1>8 DEF Claims, RunsAreSpaced, Alerting
<1> QED
  BY <1>5, <1>7, <1>9, <1>10, <1>11 DEF AlertInv

LEMMA MarkKeeps ==
  ASSUME AlertInv, NEW r \in Replica, MoveWatermark(r)
  PROVE  AlertInv'
<1>1. /\ AlertTyped /\ Settled /\ Covered /\ Announcing /\ Claims
      /\ Alerting(r) /\ replica[r].alerts = {} /\ watermark' = WindowEnd(r)
      /\ firstMark' = IF replica[r].first /\ WindowEnd(r) > firstMark THEN WindowEnd(r) ELSE firstMark
      /\ replica' = [replica EXCEPT ![r] = Asleep]
      /\ UNCHANGED <<clock, lastRun, delegation, claimedAlerts, announced, started>>
  BY DEF AlertInv, MoveWatermark, Alerting
<1>2. /\ replica[r].now \in Nat /\ WindowEnd(r) \in Nat \ {Never} /\ WindowEnd(r) + DelegationLag <= clock
      /\ firstMark' \in Nat \ {Never} /\ firstMark <= firstMark'
      /\ watermark' \in Nat
  <2>1. replica[r].now \in Nat /\ replica[r].now > DelegationLag /\ replica[r].now <= clock
    BY <1>1, RunFields DEF Settled, Alerting
  <2>2. firstMark \in Nat /\ clock \in Nat
    BY <1>1 DEF AlertTyped
  <2>3. ~replica[r].first => firstMark # Never
    BY <1>1 DEF Covered
  <2> QED
    BY <1>1, <2>1, <2>2, <2>3, AlertAssumption DEF WindowEnd, Never
<1>3. AlertTyped'
  BY <1>1, <1>2 DEF AlertTyped
<1>4. \A s \in Replica : replica'[s] = IF s = r THEN Asleep ELSE replica[s]
  BY <1>1 DEF AlertTyped
<1>5. Settled'
  BY <1>1, <1>2, <1>4 DEF Settled, Asleep
<1>6. \A s \in Replica : /\ Alerting(s)' => Alerting(s) /\ s # r /\ WindowEnd(s)' = WindowEnd(s)
                         /\ Running(s)' => Running(s) /\ s # r
                         /\ replica'[s].step # "idle" => s # r
  BY <1>4 DEF WindowEnd, Alerting, Running, Asleep
<1>7. Covered'
  <2>1. ASSUME NEW d \in Delegation, delegation[d].at \in firstMark' + 1..WindowEnd(r)
        PROVE  d \in claimedAlerts
    <3>1. CASE replica[r].first
      BY <1>1, <1>2, <2>1, <3>1 DEF AlertTyped
    <3>2. CASE ~replica[r].first
      BY <1>1, <1>2, <2>1, <3>2 DEF Covered
    <3> QED
      BY <3>1, <3>2
  <2>2. ASSUME NEW s \in Replica, Alerting(s)', ~replica'[s].first, NEW d \in Delegation,
               delegation[d].at \in firstMark' + 1..WindowEnd(s)'
        PROVE  d \in claimedAlerts \/ d \in replica'[s].alerts
    <3>1. delegation[d].at \in firstMark + 1..WindowEnd(s)
      BY <1>1, <1>2, <1>6, <2>2, RunFields DEF AlertTyped, WindowEnd, Alerting
    <3> QED
      BY <1>1, <1>4, <1>6, <2>2, <3>1 DEF Covered
  <2> QED
    BY <1>1, <1>2, <2>1, <2>2 DEF Covered
<1>8. Announcing'
  BY <1>1, <1>4, <1>6 DEF Announcing
<1>9. Claims'
  BY <1>1, <1>4, <1>6 DEF Claims, RunsAreSpaced
<1> QED
  BY <1>3, <1>5, <1>7, <1>8, <1>9 DEF AlertInv

\* The invariant of the job and its claims.
THEOREM AlertInvariant == AlertSpec => []AlertInv
<1>1. AlertInv /\ UNCHANGED alertVars => AlertInv'
  BY DEF alertVars, AlertInv, AlertTyped, Settled, Covered, Announcing, Claims, Alerting, Running,
         WindowEnd, RunsAreSpaced
<1>2. AlertInv /\ [AlertNext]_alertVars => AlertInv'
  BY <1>1, WorldKeeps, ClaimKeeps, WindowKeeps, AlertKeeps, AnnounceKeeps, MarkKeeps DEF AlertNext
<1> QED
  BY InvHoldsAtFirst, <1>2, PTL DEF AlertSpec

\* NoDelegationIsSkipped: every delegation the watermark has passed is claimed, and none is
\* announced twice, for any replicas that stop, fail and overtake each other.
THEOREM NoneSkipped == AlertSpec => []NoDelegationIsSkipped
<1>1. AlertInv => NoDelegationIsSkipped
  BY DEF AlertInv, Covered, Announcing, NoDelegationIsSkipped
<1> QED
  BY <1>1, AlertInvariant, PTL

\* RunsAreSpaced: the compare-and-set spaces runs, and a claim given back late harms nobody's.
THEOREM RunsSpaced == AlertSpec => []RunsAreSpaced
<1>1. AlertInv => RunsAreSpaced
  BY DEF AlertInv, Claims
<1> QED
  BY <1>1, AlertInvariant, PTL
==============================================================================
