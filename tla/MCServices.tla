------------------------------ MODULE MCServices ------------------------------
(* The services around organisations and profiles for TLC, side by side in one run.  They  *)
(* share no state, so a behaviour follows one of them while the others rest.               *)
EXTENDS AppTransfers, CategoryIndex, CredentialLedger, DelegationAlerts, InviteLinks,
        ModerationReports, OidcLogin, OrgHandles, ProfileHandles, ProfileLinks, StatReports,
        Suspensions, SweepBatches, WorkloadIdentities

VARIABLE part  \* the component that moves

ServiceParts == {"alerts", "apps", "batches", "category", "credentials", "invites", "links", "names",
                 "oidc", "profiles", "reports", "stats", "suspensions", "workloads"}

\* of the components at rest one initial state is enough
ServicesInit ==
  /\ part \in ServiceParts
  /\ AlertInit /\ AppInit /\ CatInit /\ HandleInit /\ InviteLinkInit /\ LedgerInit /\ LinkInit
  /\ NameInit /\ OidcInit /\ ReportInit /\ StatInit /\ SuspensionInit /\ SweepInit
  /\ WorkloadInit
  /\ part # "apps" => workload = NoOwner
  /\ part # "batches" => stuck = {}
  /\ part # "category" => category = NoCategory
  /\ part # "invites" => place = [j \in Joiner |-> "none"]
  /\ part # "stats" => statDoc = NoStat

\* only p moves
Only(p) ==
  /\ part = p /\ UNCHANGED part
  /\ p # "alerts" => UNCHANGED alertVars
  /\ p # "apps" => UNCHANGED appVars
  /\ p # "batches" => UNCHANGED sweepVars
  /\ p # "category" => UNCHANGED catVars
  /\ p # "credentials" => UNCHANGED ledgerVars
  /\ p # "invites" => UNCHANGED linkUseVars
  /\ p # "links" => UNCHANGED linkVars
  /\ p # "names" => UNCHANGED nameVars
  /\ p # "oidc" => UNCHANGED oidcVars
  /\ p # "profiles" => UNCHANGED handleVars
  /\ p # "reports" => UNCHANGED reportVars
  /\ p # "stats" => UNCHANGED statVars
  /\ p # "suspensions" => UNCHANGED suspensionVars
  /\ p # "workloads" => UNCHANGED workloadVars

ServicesNext ==
  \/ Only("alerts") /\ AlertNext
  \/ Only("apps") /\ AppNext
  \/ Only("batches") /\ SweepNext
  \/ Only("category") /\ CatNext
  \/ Only("credentials") /\ LedgerNext
  \/ Only("invites") /\ InviteLinkNext
  \/ Only("links") /\ LinkNext
  \/ Only("names") /\ NameNext
  \/ Only("oidc") /\ OidcNext
  \/ Only("profiles") /\ HandleNext
  \/ Only("reports") /\ ReportNext
  \/ Only("stats") /\ StatNext
  \/ Only("suspensions") /\ SuspensionNext
  \/ Only("workloads") /\ WorkloadNext

\* a component at rest keeps its fairness: none of the steps that is about can be taken there
ServicesSpec ==
  /\ ServicesInit
  /\ [][ServicesNext]_<<part, alertVars, appVars, catVars, handleVars, ledgerVars, linkUseVars,
                        linkVars, nameVars, oidcVars, reportVars, statVars, suspensionVars,
                        sweepVars, workloadVars>>
  /\ SweepFairness

\* one organisation has two names it can prove, the other none
OneProves == [c \in Company |-> IF c = CHOOSE d \in Company : TRUE THEN Name ELSE {}]

\* every delegation is issued by the same member
OneIssuer == [c \in Credential |-> CHOOSE i \in Issuer : TRUE]
==============================================================================
