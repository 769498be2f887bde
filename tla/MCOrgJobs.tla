------------------------------- MODULE MCOrgJobs -------------------------------
(* The checks of domains and the delivery of webhooks for TLC, side by side in one run.    *)
(* They share no state, so a behaviour follows one of them while the other rests.          *)
EXTENDS DomainChecks, WebhookDeliveries

VARIABLE part  \* the job that moves

JobsInit == part \in {"domains", "webhooks"} /\ DomInit /\ HookInit

JobsNext ==
  \/ part = "domains" /\ DomNext /\ UNCHANGED <<part, hookVars>>
  \/ part = "webhooks" /\ HookNext /\ UNCHANGED <<part, domVars>>

\* a job at rest keeps its fairness: none of the steps that is about can be taken there
JobsSpec == JobsInit /\ [][JobsNext]_<<part, domVars, hookVars>> /\ DomFairness /\ HookFairness
================================================================================
