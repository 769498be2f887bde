------------------------- MODULE WorkloadIdentities -------------------------
(***************************************************************************)
(* The workload identity of one repository: replicas register it side by   *)
(* side, look for its row first, generate a key, insert the row unless one *)
(* is there by then, and read the winner's when it is.  A registration may *)
(* fail after its row was written, and is then asked for again.            *)
(***************************************************************************)
EXTENDS Naturals

CONSTANTS RepoOwner,    \* owner addresses, each with its chain
          Registrar,    \* registerWorkloadIdentity requests under way at a time
          MaxKeys,      \* bound: keys generated
          MaxDeletions  \* bound

VARIABLES
  identity,   \* the row of workload_identities, or NoIdentity
  registrar,  \* where each request is, for whom, and what it has read
  keys,       \* the keys generated so far
  deletions,
  credited    \* what requests that read the row after its last deletion were answered (history)

workloadVars == <<identity, registrar, keys, deletions, credited>>

NoIdentity == [did |-> 0]
AtRest == [step |-> "idle"]

WorkloadInit ==
  /\ identity = NoIdentity
  /\ registrar = [r \in Registrar |-> AtRest]
  /\ keys = 0 /\ deletions = 0
  /\ credited = {}

Goes(r, step, row) ==
  registrar' = [registrar EXCEPT ![r].step = step, ![r].row = row, ![r].since = deletions]

\* the input is valid, and an owner of an organisation's repository publishes for it
LookUpIdentity(r, owner) ==
  /\ registrar[r].step = "idle"
  /\ registrar' = [registrar EXCEPT ![r] =
       [step |-> IF identity = NoIdentity THEN "generate" ELSE "resolve",
        owner |-> owner, row |-> identity, since |-> deletions]]
  /\ UNCHANGED <<identity, keys, deletions, credited>>

GenerateKey(r) ==
  /\ registrar[r].step = "generate" /\ keys < MaxKeys
  /\ keys' = keys + 1
  /\ Goes(r, "insert", [did |-> keys + 1, owner |-> registrar[r].owner])
  /\ UNCHANGED <<identity, deletions, credited>>

\* Mutant: the loser of the race answers with the identity it has generated.
InsertIdentityAnyway(r) ==
  /\ registrar[r].step = "insert"
  /\ identity' = IF identity = NoIdentity THEN registrar[r].row ELSE identity
  /\ Goes(r, "resolve", registrar[r].row)
  /\ UNCHANGED <<keys, deletions, credited>>

\* insert ... on conflict do nothing; the answer of the database may be lost
InsertIdentity(r) ==
  /\ registrar[r].step = "insert"
  /\ IF identity = NoIdentity
       THEN /\ identity' = registrar[r].row
            /\ Goes(r, "resolve", registrar[r].row) \/ registrar' = [registrar EXCEPT ![r] = AtRest]
       ELSE /\ Goes(r, "conflict", NoIdentity)
            /\ UNCHANGED identity
  /\ UNCHANGED <<keys, deletions, credited>>

\* the winner's row; "conflicted but no row found" when it was deleted meanwhile
ReadWinner(r) ==
  /\ registrar[r].step = "conflict"
  /\ IF identity = NoIdentity THEN registrar' = [registrar EXCEPT ![r] = AtRest]
                              ELSE Goes(r, "resolve", identity)
  /\ UNCHANGED <<identity, keys, deletions, credited>>

\* resolveExisting: another owner gets CONFLICT
AnswerRegistration(r) ==
  /\ registrar[r].step = "resolve"
  /\ credited' = IF registrar[r].row.owner = registrar[r].owner /\ registrar[r].since = deletions
                   THEN credited \cup {registrar[r].row.did}
                   ELSE credited
  /\ registrar' = [registrar EXCEPT ![r] = AtRest]
  /\ UNCHANGED <<identity, keys, deletions>>

RegistrationFails(r) ==
  /\ registrar[r].step # "idle"
  /\ registrar' = [registrar EXCEPT ![r] = AtRest]
  /\ UNCHANGED <<identity, keys, deletions, credited>>

DeleteIdentity ==
  /\ identity # NoIdentity /\ deletions < MaxDeletions
  /\ identity' = NoIdentity
  /\ deletions' = deletions + 1
  /\ credited' = {}
  /\ UNCHANGED <<registrar, keys>>

WorkloadNext ==
  \/ \E r \in Registrar :
       \/ \E owner \in RepoOwner : LookUpIdentity(r, owner)
       \/ GenerateKey(r) \/ InsertIdentity(r) \/ ReadWinner(r)
       \/ AnswerRegistration(r) \/ RegistrationFails(r)
  \/ DeleteIdentity

WorkloadSpec == WorkloadInit /\ [][WorkloadNext]_workloadVars

\* "Idempotent per repository id": whoever raced, retried or lost an answer, all
\* registrations answered since the row was last deleted were given one identity, and it
\* is the one whose key is stored.
OneIdentityPerRepository ==
  credited # {} => identity # NoIdentity /\ credited = {identity.did}
==============================================================================
