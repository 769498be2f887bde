-------------------------- MODULE WebhookDeliveries --------------------------
(***************************************************************************)
(* The deliveries of one endpoint.  An event queues one; a run of the      *)
(* webhooks job lists the due ones, and its workers vet, claim, send and   *)
(* settle each.  A takedown pauses what is queued and a restore resumes it *)
(* in the transaction of the resolution; when the organisation's document  *)
(* cannot be written, the resolution is undone and so are they.  Only      *)
(* moderation takes the organisation's lock.                               *)
(*                                                                         *)
(* A run ends within its budget and the sweeper starts one a minute, so a  *)
(* delivery is in the hands of one run at a time; the lease of a claim     *)
(* outlasts the deadline of its attempt.                                   *)
(***************************************************************************)
EXTENDS Naturals

CONSTANTS Delivery,
          MaxAttempts,   \* MAX_ATTEMPTS
          DisableAfter,  \* AUTO_DISABLE_AFTER
          MaxCrashes,    \* bound: stops of the process
          MaxUndos       \* bound: document writes of a moderation that fail

VARIABLES
  delivery,   \* rows: status ("none" before the insert and after a delete), attempts
  isDue,      \* next_attempt_at has come
  hand,       \* what a worker is doing with it
  asListed,   \* its next_attempt_at is still what the worker's listing says
  queueing,   \* the sink has read the organisation and not inserted the row yet
  hook,       \* the endpoint: on, off or gone
  failures,   \* consecutive_failures
  takenDown,
  moderation, \* of a resolution whose document is not written yet: it, and takenDown before it
  undos,
  strayed,    \* paused while the organisation is live (history)
  crashes

senderVars == <<takenDown, moderation, undos, strayed>>
hookVars == <<delivery, isDue, hand, asListed, queueing, hook, failures, senderVars, crashes>>

Resolutions == {"TAKE_DOWN", "RESTORE"}
NoModeration == [as |-> "none", was |-> FALSE]

Settled == {"DELIVERED", "FAILED"}

HookInit ==
  /\ delivery = [d \in Delivery |-> [status |-> "none", attempts |-> 0]]
  /\ isDue = [d \in Delivery |-> FALSE]
  /\ hand = [d \in Delivery |-> "idle"]
  /\ asListed = [d \in Delivery |-> FALSE]
  /\ queueing = [d \in Delivery |-> "ahead"]
  /\ hook = "on" /\ failures = 0
  /\ takenDown = FALSE /\ moderation = NoModeration /\ undos = 0
  /\ strayed = {}
  /\ crashes = 0

\* webhookSink reads the organisation and the endpoint, and inserts the row later
QueueEvent(d) ==
  /\ queueing[d] = "ahead" /\ ~takenDown /\ hook = "on"
  /\ queueing' = [queueing EXCEPT ![d] = "reading"]
  /\ UNCHANGED <<delivery, isDue, hand, asListed, hook, failures, senderVars, crashes>>

InsertDelivery(d) ==
  /\ queueing[d] = "reading"
  /\ queueing' = [queueing EXCEPT ![d] = "over"]
  /\ delivery' = [delivery EXCEPT ![d].status = IF hook = "gone" THEN "none" ELSE "PENDING"]
  /\ isDue' = [isDue EXCEPT ![d] = TRUE]
  /\ UNCHANGED <<hand, asListed, hook, failures, senderVars, crashes>>

\* dueDeliveries
ListDelivery(d) ==
  /\ hand[d] = "idle"
  /\ delivery[d].status = "PENDING" /\ isDue[d]
  /\ hand' = [hand EXCEPT ![d] = "listed"]
  /\ asListed' = [asListed EXCEPT ![d] = TRUE]
  /\ UNCHANGED <<delivery, isDue, queueing, hook, failures, senderVars, crashes>>

\* updateDelivery is unconditional; it finds nothing once the row is deleted
Mark(d, status) ==
  delivery' = [delivery EXCEPT ![d].status = IF @ = "none" THEN @ ELSE status]

\* attemptDelivery up to the claim: it reads the endpoint, then the organisation, and
\* writes later what these say
LookAtEndpoint(d) ==
  /\ hand[d] = "listed"
  /\ hand' = [hand EXCEPT ![d] = IF hook = "on" THEN "enabled" ELSE "failing"]
  /\ UNCHANGED <<delivery, isDue, asListed, queueing, hook, failures, senderVars, crashes>>

LookAtSender(d) ==
  /\ hand[d] = "enabled"
  /\ hand' = [hand EXCEPT ![d] = IF takenDown THEN "pausing"
                                 ELSE IF delivery[d].attempts >= MaxAttempts THEN "failing"
                                 ELSE "vetted"]
  /\ UNCHANGED <<delivery, isDue, asListed, queueing, hook, failures, senderVars, crashes>>

PauseDelivery(d) ==
  /\ hand[d] = "pausing"
  /\ Mark(d, "PAUSED")
  /\ hand' = [hand EXCEPT ![d] = "idle"]
  /\ strayed' = IF takenDown THEN strayed ELSE strayed \cup {d}
  /\ UNCHANGED <<isDue, asListed, queueing, hook, failures, takenDown, moderation, undos, crashes>>

GiveUp(d) ==
  /\ hand[d] = "failing"
  /\ Mark(d, "FAILED")
  /\ hand' = [hand EXCEPT ![d] = "idle"]
  /\ UNCHANGED <<isDue, asListed, queueing, hook, failures, senderVars, crashes>>

\* Mutant: the claim asks for the listed time only.
ClaimableByTime(d) == asListed[d] /\ delivery[d].status # "none"

Claimable(d) == asListed[d] /\ delivery[d].status = "PENDING"

\* claimDelivery counts the attempt and leases the row
ClaimDelivery(d) ==
  /\ hand[d] = "vetted"
  /\ IF Claimable(d)
       THEN /\ delivery' = [delivery EXCEPT ![d].attempts = @ + 1]
            /\ isDue' = [isDue EXCEPT ![d] = FALSE]
            /\ hand' = [hand EXCEPT ![d] = "sending"]
       ELSE /\ hand' = [hand EXCEPT ![d] = "idle"]
            /\ UNCHANGED <<delivery, isDue>>
  /\ UNCHANGED <<asListed, queueing, hook, failures, senderVars, crashes>>

SendSucceeds(d) ==
  /\ hand[d] = "sending"
  /\ hand' = [hand EXCEPT ![d] = "idle"]
  /\ Mark(d, "DELIVERED")
  /\ failures' = 0
  /\ UNCHANGED <<isDue, asListed, queueing, hook, senderVars, crashes>>

AttemptsLeft(attempts) == attempts < MaxAttempts

\* counted, and the endpoint disabled at the limit
SendFails(d) ==
  /\ hand[d] = "sending"
  /\ hand' = [hand EXCEPT ![d] = "idle"]
  /\ Mark(d, IF AttemptsLeft(delivery[d].attempts) THEN "PENDING" ELSE "FAILED")
  /\ failures' = IF failures < DisableAfter THEN failures + 1 ELSE failures
  /\ hook' = IF failures + 1 >= DisableAfter /\ hook = "on" THEN "off" ELSE hook
  /\ UNCHANGED <<isDue, asListed, queueing, senderVars, crashes>>

\* the backoff or the lease passes
ComeDue(d) ==
  /\ hand[d] = "idle" /\ delivery[d].status = "PENDING" /\ ~isDue[d]
  /\ isDue' = [isDue EXCEPT ![d] = TRUE]
  /\ UNCHANGED <<delivery, hand, asListed, queueing, hook, failures, senderVars, crashes>>

\* Mutant: a restore leaves the paused deliveries.
ResumeNothing == UNCHANGED <<delivery, isDue, asListed>>

\* resumeDeliveries: due at once, whatever a worker has listed
ResumeDeliveries ==
  LET paused == {d \in Delivery : delivery[d].status = "PAUSED"}
  IN  /\ delivery' = [d \in Delivery |-> IF d \in paused THEN [delivery[d] EXCEPT !.status = "PENDING"]
                                                         ELSE delivery[d]]
      /\ isDue' = [d \in Delivery |-> isDue[d] \/ d \in paused]
      /\ asListed' = [d \in Delivery |-> asListed[d] /\ d \notin paused]

PauseDeliveries ==
  /\ delivery' = [d \in Delivery |-> IF delivery[d].status = "PENDING"
                                       THEN [delivery[d] EXCEPT !.status = "PAUSED"] ELSE delivery[d]]
  /\ UNCHANGED <<isDue, asListed>>

\* applyResolution: the organisation and its deliveries in one transaction.  Any open report
\* may be resolved either way, whatever the organisation is.
Resolve(as) ==
  /\ moderation = NoModeration
  /\ moderation' = [as |-> as, was |-> takenDown]
  /\ takenDown' = (as = "TAKE_DOWN")
  /\ \/ as = "TAKE_DOWN" /\ PauseDeliveries /\ UNCHANGED strayed
     \/ as = "RESTORE" /\ ResumeDeliveries /\ strayed' = {}
  /\ UNCHANGED <<hand, queueing, hook, failures, undos, crashes>>

\* the document has it, or nobody is left to undo it
ModerationEnds ==
  /\ moderation # NoModeration
  /\ moderation' = NoModeration
  /\ UNCHANGED <<delivery, isDue, hand, asListed, queueing, hook, failures, takenDown, undos,
                 strayed, crashes>>

\* the document cannot be written: the flag is put back as it was read, the deliveries are
\* turned round whatever they were
UndoModeration ==
  /\ moderation # NoModeration /\ undos < MaxUndos
  /\ undos' = undos + 1
  /\ moderation' = NoModeration
  /\ takenDown' = moderation.was
  /\ \/ moderation.as = "TAKE_DOWN" /\ ResumeDeliveries /\ strayed' = {}
     \/ /\ moderation.as = "RESTORE" /\ PauseDeliveries
        /\ strayed' = IF moderation.was THEN strayed
                      ELSE strayed \cup {d \in Delivery : delivery[d].status = "PENDING"}
  /\ UNCHANGED <<hand, queueing, hook, failures, crashes>>

\* updateOrgWebhook: enabling forgives the failures
SetHook ==
  /\ ~takenDown /\ hook # "gone"
  /\ \/ hook' = "off" /\ UNCHANGED failures
     \/ hook' = "on" /\ failures' = 0
  /\ UNCHANGED <<delivery, isDue, hand, asListed, queueing, senderVars, crashes>>

\* the deliveries go with it
DeleteOrgWebhook ==
  /\ ~takenDown /\ hook # "gone"
  /\ hook' = "gone"
  /\ delivery' = [d \in Delivery |-> [delivery[d] EXCEPT !.status = "none"]]
  /\ UNCHANGED <<isDue, hand, asListed, queueing, failures, senderVars, crashes>>

WorkersStop ==
  /\ crashes < MaxCrashes
  /\ crashes' = crashes + 1
  /\ hand' = [d \in Delivery |-> "idle"]
  /\ moderation' = NoModeration
  /\ UNCHANGED <<delivery, isDue, asListed, queueing, hook, failures, takenDown, undos,
                 strayed>>

WorkOn(d) ==
  \/ ListDelivery(d) \/ LookAtEndpoint(d) \/ LookAtSender(d) \/ PauseDelivery(d) \/ GiveUp(d)
  \/ ClaimDelivery(d) \/ SendSucceeds(d) \/ SendFails(d)

HookNext ==
  \/ \E d \in Delivery : QueueEvent(d) \/ InsertDelivery(d) \/ WorkOn(d) \/ ComeDue(d)
  \/ \E as \in Resolutions : Resolve(as)
  \/ ModerationEnds \/ UndoModeration \/ SetHook \/ DeleteOrgWebhook \/ WorkersStop

\* The sweeper ticks every minute, its runs end within their budget, and time passes.
HookFairness == \A d \in Delivery : WF_hookVars(WorkOn(d)) /\ WF_hookVars(ComeDue(d))

HookSpec == HookInit /\ [][HookNext]_hookVars /\ HookFairness

\* "A taken-down organisation sends nothing": although the organisation is read before the
\* claim and no lock is held, no attempt starts while it is taken down, because the
\* takedown pauses the row and the claim asks for a PENDING one.
NothingSentWhileTakenDown ==
  [][\A d \in Delivery : hand[d] = "vetted" /\ hand'[d] = "sending" => ~takenDown]_hookVars

\* "Held until the organisation is restored", and "paused webhook deliveries resume": what
\* waits, waits for an organisation that is taken down.
HeldUntilRestored == \A d \in Delivery : delivery[d].status = "PAUSED" => takenDown

\* What is left of that: a restore leaves nothing waiting, and neither does a takedown that is
\* undone.  A delivery of a live organisation waits only if a worker that had looked
\* before the restore paused it after, or the undo of a needless RESTORE did.
OnlyStraysWait ==
  \A d \in Delivery : delivery[d].status = "PAUSED" => takenDown \/ d \in strayed

\* Unless the organisation stays taken down, every delivery but those strays comes to an end,
\* delivered or failed after at most MaxAttempts attempts, whatever is paused, resumed,
\* disabled, undone or interrupted on the way.
EveryDeliverySettles ==
  <>[]~takenDown =>
    \A d \in Delivery : [](delivery[d].status = "PENDING" =>
                             <>(delivery[d].status \in Settled \cup {"none"} \/ d \in strayed))
==============================================================================
