# Renown, specified

TLA+ specifications of the Renown package: what its organisations, proposals, locks, apps,
profiles and logins promise, checked on small instances with TLC and proved for all instances
with TLAPS. Paths below are relative to `src/`; `O` stands for `subgraphs/renown-orgs`.

1. [The system](#1-the-system)
2. [Modules](#2-modules)
3. [How the model reads the code](#3-how-the-model-reads-the-code)
4. [Runs](#4-runs)
5. [Fairness](#5-fairness)
6. [Proofs](#6-proofs)
7. [Findings](#7-findings)
8. [Not modelled, and the plan](#8-not-modelled-and-the-plan)

## 1. The system

Renown is a package of a document server ("switchboard"): document models, processors that
project documents into tables, and GraphQL subgraphs with their own tables. Its core logic is in
the subgraphs, above all in `renown-orgs` (about half of the implementation).

| Component | State it keeps | Operations | Properties that make it correct |
| --- | --- | --- | --- |
| Keyed lock (`subgraphs/renown-stats/core/keyed-lock.ts`) | a map from key to the last call's promise | `lock(key, fn)`, nested by handlers | one function per key at a time, in order of arrival; idle keys leave the map; no circular waiting |
| Memberships and teams (`O/areas/members.ts`, `teams.ts`) | rows `org_members`, `org_teams`, `org_team_members`, `org_invite_links`; the organisation document | invite, accept, decline, revoke, leave, remove, set role, team changes, join through a link | an owner remains; one open record per person; teams hold active members; store and document agree; a link admits as many as it says |
| Organisation document (`document-models/renown-organization`) | members, teams, apps, flags in one document | reducers that may refuse an action | never refuses what the store accepted; keeps an owner by itself |
| Proposals (`O/areas/proposals.ts`, `core/proposals.ts`, `proposal-kinds.ts`) | rows `org_proposals` | propose, approve, cancel, execute; run, expire, re-arm by the sweeper | changes of owners, freezes and deletion only with today's consent and after the delay; decisions final and true; each proposal decided |
| Sweeper (`O/core/sweeper.ts`, `O/jobs.ts`) | `org_jobs` claims and watermarks, a running flag | one tick a minute runs every job that is due | one replica runs a job; failed runs are repeated without duplicates; nothing starves; stale lists undo nothing |
| Domains and recovery (`O/areas/domains.ts`, `domainsJob`) | `org_domains` | add, check, remove, re-check, start recovery | a recovery needs a domain verified for 14 days without interruption; a domain lapses after three days without its proof, and does lapse; a check, lapse or removal whose document fails is undone |
| App transfers (`O/areas/transfers.ts`, `core/app-ownership.ts`) | `org_apps`, `org_app_transfers`, rows and documents of renown-stats and renown-workload | claim, repair, propose, accept, decline, expire; the `moveApp` saga | every app has one owner everywhere; it passes only to the party that accepted it |
| Webhooks (`O/areas/webhooks.ts`, `core/webhook-delivery.ts`) | endpoints, deliveries with leases | queue, attempt, retry, pause, resume, disable | nothing sent for a taken-down organisation; what waits is resumed with it; every delivery comes to an end |
| Credential policy (`O/core/org-policy.ts`, `areas/credentials.ts`) | suspensions of credentials and of members | suspend, lift, status of one credential or of many | the two ways agree; nobody who left speaks for the organisation |
| Moderation (`O/areas/moderation.ts`) | `org_reports` | report, dismiss, take down, restore, release a handle | a resolution is undone whole if its document fails; what is down can be restored |
| Organisations and handles (`O/areas/organizations.ts`) | `organizations`, `reserved_handles` | create, update, change and release handles | a handle has one holder; a change that fails is undone |
| Request authentication (`O/core/auth.ts`) | hashes of used signatures | check, remember, prune | a signature is used once |
| renown-stats (`subgraphs/renown-stats`) | stats documents, aggregate rows, categories and their cached counts | report, backfill, save a profile, list categories | rows follow documents; cached counts include every answered save |
| renown-oidc (`subgraphs/renown-oidc`) | login requests, codes, tokens | sign in, exchange, userinfo, sweep | a code is worth one token, and a code presented twice is worth none |
| renown-workload (`subgraphs/renown-workload`) | `workload_identities` | register, look up, delete | one identity per repository |
| renown-auth (`subgraphs/renown-auth`) with the documents and processors of renown-user and renown-credential | handle claims in memory; documents; `renown_user`, `renown_credential` | upsert a profile, issue and revoke credentials; index batches, again after an error | rows follow documents; links become the wanted ones; a revocation lasts; a handle has one profile |
| Media, read model, editors, SDK | files, projections | I/O and queries | - |

How they meet. A GraphQL mutation takes `org:<id>` (and sometimes `app:<did>`, `handle:<name>`)
from the keyed lock, reads its guards from the store, commits the store, writes the document and
undoes the store when that fails (`writeDocument`). Everything under one lock is sequential
between its awaits; what is not under it is what makes the system hard:

- the store and the document are two systems: a write may fail, be applied unheard, or be cut off
  by a restart between the two;
- the sweeper reads its lists, and the time, once per run, and takes the lock per item;
- apps are attached under `app:<did>`, not under the organisation's lock, and their mirror in the
  document is written on a best-effort basis;
- proofs of domains are fetched for seconds outside the lock;
- a resolution turns the webhook deliveries round in its transaction, while workers that take no lock
  act on what they read before;
- owners come and go while their proposals wait for days;
- invite links and app transfers are read before the lock is taken, and used or claimed by
  conditional updates inside it;
- several replicas may share the tables and no lock: runs of a job, rows of a repository, codes and
  re-checks are settled by inserts and updates that have a condition;
- read models lag behind their documents, and a batch that failed is delivered again from its
  start.

On replicas the repository says two things. The lock is "In-process only, so a tenant runs a single
switchboard replica" (`subgraphs/renown-stats/core/keyed-lock.ts:28-29`). Yet the code
provides for others: `O/core/sweeper.ts:18-19` claims a job "so exactly one replica runs" it,
`O/areas/transfers.ts:83` and
`subgraphs/renown-auth/core/handle-claims.ts:10` speak of another one, and `O/jobs.ts:117` of
"another replica that checked it meanwhile". The modules follow the code: one process where a
handler rests on the lock alone (`OrgMembers`, `OrgGovernance`, `AppTransfers`, `OrgHandles`),
several where it rests on a conditional statement (`DomainChecks`, `DelegationAlerts`,
`WorkloadIdentities`). Of the findings only `undone` needs a second replica.

`PROJECT.json` lists every hazard with the line where it bites and the properties about it.

## 2. Modules

The organisation and its lock, one over the other:

| Module | What it is |
| --- | --- |
| `FairMutex` | the contract of `lock(key, fn)`: per key, one at a time and first come first served |
| `KeyedLock` | `createKeyedLock`, a step per stretch between two awaits; implements `FairMutex` |
| `LockOrder` | the handlers' nestings of that lock (all of `lock(` in renown-orgs and renown-stats) |
| `OrgRecord` | the shape of an organisation, the questions asked of it, the document's reducers |
| `OrgMembers` | members and teams in store and document, with the ways a document write ends |
| `ProposalRules` | delays, thresholds, valid approvals of `core/proposals.ts` |
| `OrgGovernance` | proposals and the proposals job, over `OrgMembers` |

`OrgGovernance` reads one thing of a domain, how long it has been verified; `VerifiedDomain` (below)
is what both it and `DomainChecks` make of that.

`OrgGovernance` extends `OrgMembers`: every membership mutation is a step of it, so that owners
leave and members join between the making and the running of a proposal. `LockOrder` extends
`KeyedLock`; that one handler under `org:<id>` is one action of `OrgMembers` and `OrgGovernance`
is what `MutualExclusion` justifies.

The services around an organisation, finer grained: here a handler is a step per await, because
what comes between two of them is the question.

| Module | What it is |
| --- | --- |
| `AppOwnership` | the promise: an app is claimed once and then passes, in one step, to the party that accepted it |
| `AppTransfers` | claims, offers and the `moveApp` saga with its undo over five places; implements `AppOwnership` |
| `InviteLinks` | one link, read outside the lock, used up inside, given back by an undo; what the join does to store and document is `AcceptOrgInviteLink` of `OrgMembers` |
| `OrgHandles` | creation, change and release of handles, with reservations and undo |
| `VerifiedDomain` | the promise: verified from a proof on, older by time alone, never verified again meanwhile, as old as before after an undo, from nothing after a lapse that stands |
| `DomainChecks` | one domain between commands and the re-checks of several replicas, each change a row, a document and perhaps an undo; implements `VerifiedDomain` |
| `Suspensions` | which delegations count, by both verdicts, while members leave, return and are suspended |
| `ModerationReports` | the reports about an organisation, their resolutions and the undo of each |
| `WebhookDeliveries` | deliveries of an endpoint between workers, takedowns and their undos, endpoint changes and stops |
| `SweepBatches` | the order in which the proposals job takes its work |
| `DelegationAlerts` | claims of a job's runs by replicas, and the watermark of the delegations job |

People and their apps, in the other subgraphs and the processors:

| Module | What it is |
| --- | --- |
| `ProfileHandles` | handles of profiles: claims in memory, documents, and the index that follows in batches |
| `ProfileLinks` | the actions `linkActions` works out, the reducer's and the processor's effect of each |
| `CredentialLedger` | issuing and revoking in documents and read model, with copies and redelivery |
| `OidcLogin` | login request, codes, tokens, their exchange and the sweep |
| `WorkloadIdentities` | racing registrations of one repository |
| `StatReports` | a user's statistic in document and aggregate row, with the backfill |
| `CategoryIndex` | an app's category in document, column and cached counts |

`MC...` modules hold what TLC needs: symmetry, constants that are sets of pairs, and in
`MCOrgOwners` the two instances of a run. `MCOrgJobs` puts `DomainChecks` and `WebhookDeliveries`
side by side, `MCServices` the other modules of the second and third table, see section 4. The remaining
configurations instantiate a module as it is. `..._proofs` are the theorems, section 6.

Operators marked `Mutant` are the same definitions with a plausible mistake in them. No
specification uses them; each property of each run is violated when one replaces the definition
after it (`PROJECT.json`, "mutants"), which is how we know that the property can fail.

## 3. How the model reads the code

**Records.** `org` is the store's rows, `doc` the document, both of shape `OrgState`. Membership
records are numbered: `Id` bounds how many a behaviour makes, and a record keeps its number for
ever (closed ones are history, as in the table). A caller may reuse a number only when both
halves are free of it, as the code draws fresh ids.

**A document write** (`WriteDocument`) ends in one of these ways, the constant `Faults` says which
are possible beside success and refusal by a reducer:

| | store | document | the caller sees |
| --- | --- | --- | --- |
| written | next | next | success |
| refused by a reducer | undone | the actions that were not refused | SERVICE_UNAVAILABLE |
| `"unwritten"`: not reached | undone | as before | SERVICE_UNAVAILABLE |
| `"unheard"`: applied, no answer | undone | next | SERVICE_UNAVAILABLE |
| `"lost"`: the undo failed, or the process stopped | next | as before | an error, or nothing |

A batch is reduced action by action and a refused action does not stop the ones after it
(`Reduce`), which is how the finding of section 7 comes about.

**Proposals.** `proposals` are the rows; `executableAt` null is `Never`. `RunProposal` follows
`runProposal` line by line: the threshold of today's owners first, then the countdown, then the
claim and the kind's handler, which re-validates. A handler's reason is `Fails`,
SERVICE_UNAVAILABLE returns the row to PENDING (`Applies`), and a stop after the claim leaves it
EXECUTED. `now` is the clock in ticks, bounded by `MaxNow`; new proposals are made only while
the clock can still reach their expiry, so that the bound does not strand one (`NextSlot`).

**The sweeper.** `sweep` holds the phase, the time of the run's start and the rest of its list.
Each item is one step under the lock, reading the row again. A sweep between two items lets any
caller in. `SweepStops` is a restart.

**Beside the lock.** `AttachApp`, `MirrorApp` and `DetachApp` are what the app handlers do to an
organisation, each at any time; `DomainVerified` and `DomainLapses` what the domain checks do to
the recovery domain. They are freer than the code (which takes `app:<did>`), so what holds here
holds there. The ages the two modules see are tied by `VerifiedDomain`: `DomainChecks` implements it
step by step (`VerifiedAllThatTime`), and so does `domainAge` (`RecoveryDomainAges`).

**A saga and its lock.** In `AppTransfers` `work` is what the holder of the app's lock has still
to do; each of `moveApp`'s six writes is a step, `done` the undo list of the code. A write may
fail, or land and be reported as failed (`Mishaps`), an undo may fail, and the process may stop
between any two. `OrgHandles` keeps the same in `rename` (per company, with the handle's lock
implied by `to`; only the release of a handle that already is the replacement is one step,
under both locks), `InviteLinks` in `joiner`, `ModerationReports` in `resolving` and
`WebhookDeliveries` in `moderation`: the transaction is one step, the document another, the undo
a third, and between them come the reports, the events and the workers that take no lock.

**A look and a write.** `attemptDelivery` reads the endpoint, then the organisation, and writes PAUSED
or FAILED without a condition; only its claim has one. `hand` keeps what a worker has decided
(`"pausing"`, `"failing"`, `"vetted"`) until it does it. In `DomainChecks` every change that
reaches the document is the row, then the document, then perhaps the undo: adding, verifying, removing
and lapsing alike. `held` says of each replica what the holder of its lock is writing and the row
it replaced; the undo puts that back whatever the row is by then, unless the row is gone or a
unique index refuses (`UndoTakes`). The lock is of one process, so callers reach the domain
through another replica meanwhile. The undo of a lapse and the sweeper's mark after it
(`O/jobs.ts:146`) are one step, with the mark made or lost.

**Conditional updates.** Where the code inserts "on conflict do nothing", or updates with a
condition and looks at the count, the model has one atomic step with both outcomes:
`ClaimRun`, `ClaimAlert`, `ClaimDelivery`, `JoinThroughLink`, `ConsumeCode`, `InsertIdentity`,
`ApplyProof` and `ApplyFailure`. What was read before it is kept in the reader's own record, so it
can be stale.

**Time.** `DomainChecks` keeps ages instead of instants (`checked` and `verified` of the row, `proofAge`,
capped where they stop mattering), `OidcLogin` and `DelegationAlerts` a clock, the others a flag
that says a term has passed. In `OidcLogin` a request is answered within a tick.

**Indexing.** `ProfileHandles`, `ProfileLinks` and `CredentialLedger` have the processor's
delivery as actions of its own: a batch is applied operation by operation and begins again after
an error or a stop. The unique index of `renown_user.handle` clears the handle it refuses.

**History variables** (marked so: `torn`, `apart`, `contested`, `joined`, `left`, `started`,
`firstMark`, `proofAge`, `overwritten`, `alone` of `held`, `strayed`, `astray`, `rowBehind`, `confirmed`, `promised`, `answered`,
`presented`, `credited`, `wanted`) are read by properties and by no guard.

**Left out**, because no property here tells it apart: names, texts, notifications and the
audit log (`record` never throws), app scopes, the limits per wallet, the daily limit of a reporter and the rate limits (they
only refuse more), and the identities behind addresses. The unique index
`org_members_one_open` is not relied on: `OneOpenRecord` holds by the handlers alone.

## 4. Runs

| Run | Instance | What it shows |
| --- | --- | --- |
| `mirror` | 3 persons, 4 records, cap of 2 members, 1 team | no reducer refuses what the store accepted, the halves stay equal, only proposals make or unmake owners |
| `faults` | 3 persons, 3 records, all faults, MEMBER by invite or link | with halves that differ: an owner remains, one open record each, places of active members only |
| `owners` | 2 persons, 2 proposals of ADD_OWNER, REMOVE_OWNER, DELETE_ORG; and 3 owners, 1 proposal of REMOVE_OWNER or RECOVER, stops and lost undos | consent at the moment of the change, also across restarts of process and sweep; decisions final; what matured in time never expires |
| `decided` | 2 persons, 1 app, 1 proposal of any of six kinds, fair sweeper | every proposal is decided, what is executed has been done, a deleted organisation is empty, a freeze reads the same in both halves |
| `locks` | 3 handlers, 2 organisations, an app, a handle, a creator | refinement of `FairMutex`, no leak, no circular wait, no deadlock |
| `returns` | 2 handlers, the same keys | every handler returns |
| `services` | `MCServices`: what the second and third table of section 2 have beside the next two | below |
| `jobs` | `MCOrgJobs`: a domain with 2 replicas and 1 failing document write, 2 deliveries with 1 undo and 1 stop | below |
| `cap` | 2 persons, cap of 1 member | violated: section 7 |
| `handles` | `ProfileHandles` alone, 2 persons, 2 handles, 2 requests | violated: section 7 |
| `undone` | `DomainChecks` alone, lapse after 3 failures | violated: section 7 |
| `held` | `WebhookDeliveries` alone, 1 delivery, 1 undo | violated: section 7 |

`services` and `jobs` each check several modules in one run. Their modules share no variable;
`part` chooses one of them in the initial state, that one moves and the others stay in a state of
their own `Init`. The states are therefore the sum of the modules' states, not their product
(1,425,113 and 830,344 distinct states), every behaviour of each module is there, and a property of
one module is not weakened by the others, which stand still. `owners` (667,221 states) has
two instances of `OrgGovernance`, which the constraint `OneInstance` keeps apart. Persons are numbers
there: they are interchangeable at the start, so one of them is taken to be the first to propose,
which stands for the others.

| Property | What it shows |
| --- | --- |
| `AppOwnershipKept` | `AppTransfers` implements `AppOwnership` through failures, unheard writes and stops |
| `OneOwnerEverywhere` | unless a write or an undo was lost, the five places name one owner when nobody works on the app |
| `UsesAreTheJoins` | three callers race for two uses, fail, give back, leave, and meet a revocation |
| `FailedChangesAreUndone` | a handle somebody changes from is free for nobody until the document is written |
| `LapsesAfterThreeDays`, `UnprovedDomainsLapse` | a domain lapses neither too early, with two replicas and manual checks, nor never; an undo that overwrites another replica is the exception it names |
| `VerifiedAllThatTime` | `DomainChecks` implements `VerifiedDomain`: a check of a verified domain leaves its age, an undone lapse or removal gives back exactly the age it took, and after one that stands the age starts at the next proof |
| `LeaversStaySuspended`, `VerdictsAgree` | suspensions outlive a return and the lifting of another one; both verdicts agree in every state |
| `NothingSentWhileTakenDown` | a takedown between the look at the organisation and the claim |
| `OnlyStraysWait`, `EveryDeliverySettles` | nothing waits on a live organisation but the strays of section 7, and everything else comes to an end |
| `RestorableWhileDown` | three reports resolved in any order, with failed, unheard and lost writes: what is down can be restored on a report |
| `StuckProposalsStarveNobody` | three proposals and batches of one, with any of them failing always |
| `NoDelegationIsSkipped`, `RunsAreSpaced` | two replicas that fail, stop and overtake each other |
| `RowFollowsProfile` | whatever is delivered again, a row never keeps a handle its profile gave up |
| `UpsertReachesTheLinks` | for every pair of lists up to three links the worked-out actions reach the wanted list and none is refused |
| `RevokedForGood` | a revocation that was answered lasts, and no redelivery revives a row |
| `CodesAreUsedOnce` | two exchanges, two codes, and a sweep that forgets |
| `OneIdentityPerRepository` | two replicas, two owners, lost answers and a deletion |
| `RowFollowsDocument`, `CachedCountsAreCurrent` | reports and saves against a backfill without a lock |

**Bounds.** Two owners are enough for thresholds to rise and fall (1 and 2 are the only ones the
rules know); three are needed for "two of three" and for an approver who leaves. Two proposals are
needed for one to change the owners the other rests on; a third adds no new pair. The caps are set
to what the persons can reach, or the limits would never be met. Three ticks are
creation, maturity (delay 1) and expiry (life 2); nothing else depends on the distance.
Records: as many as the persons need, or one more, so that somebody can come back. Three handlers
are enough for a waiting line behind a running and an ending call, and for circles through both
organisations and a third key.

In `services`: two persons and two organisations give every kind of transfer and a party that
is none of the two sides; failures of the app's writes are not bounded. Two replicas, a lag and an
interval of 2 and a clock to 7 let a run end after the next one has started; two failures
let both replicas stop. Three joiners for two uses leave one over. Two organisations and
three names: one to leave, one to take and one that the other takes. One issuer with two
delegations is what the lifting of one of them needs. Three reports: one that takes down, one that
restores, and one that is resolved while either is being undone.
Failing document writes, undos and stops are bounded to one or two, which bounds how often, not where.
Two persons for two handles, one upsert at a time with an action refused beside
the handle's (`handles` has two at a time), three actions unacknowledged; three saves against one
scan and the backfill; one app key with two logins, two copies and one revoker with any redelivery; ticks
to 5, so that codes (1), tokens (3) and retention (3) all run out.

In `jobs`: a re-check period of 2 and a lapse after 2 failures (1 and the code's 3 in `undone`) tell "whole
periods" from "failures"; the second replica is what overtakes the first. A run lasts a tick at most
(`MaxRun`); a document write ends within its tick in `jobs` and may outlast it in `undone`
(`SlowWrites`). A domain counts for a recovery from age 1 (`MinVerified`), so that "verified just now" and
"verified long enough" differ. Two deliveries, two attempts
and an endpoint disabled after two failures meet each limit.
Where TLC cannot go further the proofs do: section 6 needs none of these bounds.

`CHECK_DEADLOCK` is off in `services`, `jobs`, `handles`, `undone` and `held`, where a module stops
when its bounded requests are used up. It is on elsewhere: in `LockOrder` a state without
successors is a deadlock of handlers (`AllDone` is the only way to rest), in the organisation's
modules something can always happen.

A by-product of the three owners in `owners`: REMOVE_OWNER counts the owners again when it runs; without that
count an owner still remains. The proposal was made with two owners or more, so its stored threshold is
two, and two current owners must still consent when it runs. The last owner is really kept by
`endMembership`.

## 5. Fairness

`GovFairness`: the clock ticks; a sweep begins, goes through its lists and ends (weak fairness:
an interval timer in a process that runs, `createSweeper` never overlaps and catches what a job
throws); and the step that settles a due proposal is strongly fair: the sweep meets the proposal
again and again, and the document service is not down each time. Nothing is assumed of owners:
nobody has to propose, approve, execute or cancel.

`OrderFairness`: promise reactions run and the functions called under a lock settle (queries,
document writes and domain checks have timeouts). Symmetry is used for safety only.

`DomFairness`, `SweepFairness` and `HookFairness` are the same timer seen by other jobs: time
passes, each sweeper lists, asks and applies, a document write is answered or fails (`DocumentAnswers`), a run goes on with its next proposal, a worker goes
on with its delivery, and a backoff or lease ends. All are weak. Nobody has to publish a proof,
check by hand, restore an organisation or enable an endpoint, and no attempt has to succeed.
In `services` and `jobs` a module at rest has none of the steps its fairness speaks of. `EveryDeliverySettles`
assumes by its own words that the organisation does not stay down.

## 6. Proofs

`tlapm` checks eight modules, for every value of the constants that satisfies the named
assumptions (`RecordAssumption`, `MembersAssumption`, `RulesAssumption`, `GovernanceAssumption`,
`LockAssumption`, `AppAssumption`, `DomainAssumption`, `InviteLinkAssumption`,
`SuspensionAssumption`, `AlertAssumption`, `OidcAssumption`, `OrderAssumption`, `NameAssumption`,
`HandleAssumption`): any number of persons, records, teams, apps, proposals, calls, keys,
handlers, replicas, deliveries and credentials, any caps and delays, and, unless said otherwise,
all faults. `OrderAssumption` says that keys of different kinds differ, which their prefixes
(`org:`, `app:`, `handle:`, `creator:`) see to, that ids are ordered, and that no handler
nests more than three locks, as none in the code does.

Some theorems assume `Faults \subseteq {"unwritten"}`, the faults of the runs that check the same
properties: a document write is made, is refused by a reducer, or is visibly not made. Under
`"unheard"` and `"lost"` the halves really differ until somebody repairs them, and a proposal that
a stop cut off after its claim really is EXECUTED and not done (section 3), so nothing of the
kind holds there.

**`KeyedLock_proofs`.** The invariant says: a call's predecessor has the same key and arrived
before it; two calls of one key with no call between them are linked; the tail of a key is the
last call of that key that has not returned (or has returned with the tail already dropped);
whoever runs has every earlier call of its key settled. `LockExcludes` (`MutualExclusion`) follows
from the last part and the order of arrival, and `LockImplementsMutex` (`ImplementsMutex`) by
mapping each step to a step of `FairMutex`, `Return` to stuttering. Deleting the tail only when it
is one's own is exactly what keeps the third part inductive. `IdleKeysGo` (`IdleKeysAreDropped`)
adds that a tail belongs to a call that has not returned: a key without such a call has no entry.

The handlers above it: `HandlersImplementTheLock` maps each step of `LockOrder` to a step of
`KeyedLock`, so that all of this holds under them. `HandlersNest` is the invariant (`Nested`): a
handler's calls are for the keys of its plan in order, and all but the innermost are running.
Every plan ascends in one strict order of the keys (`Before`: a creator's, organisations by id, an
app's or a handle's). `NobodyWaitsInACircle` (`NoCircularWait`) follows: only a new call can close a
circle, and whoever stands in its way waits, at its key or at a later one, for somebody of whom
the same is true. The caller is not among them, since all it holds is before that key: without
it they would have been a circle already.

**`OrgRecord_proofs`.** Lemmas about the reducers and the changes both halves share: types,
counting of owners when one record changes, what happens to places.

**`OrgMembers_proofs`.** `LiveOrgHasOwner` alone is not inductive: the last-owner check counts
records, the role check looks up an address. The invariant has for the store: an owner, one open
record per address, places of active members, and no invited owner (an accepted invite must not
make one: what `Grantable` and `assertManages` ensure); for the document only that it keeps
an owner, since it may have missed anything. Results: `OwnerRemainsInStore`,
`OwnerRemainsInDocument`, `OneRecordEach`, `PlacesAreActive`, `OwnersOnlyLeave` under all faults,
and `DocumentFollows` (`MirrorAgrees` and `DocumentNeverRefuses`) under
`Faults \subseteq {"unwritten"}`, where the halves being equal is itself the invariant and each
guard of a handler is shown to imply the reducer's. The lemmas are about halves that differ in
apps only (`Same`), because that is how `OrgGovernance` meets them; `NothingIsRefused` states
`DocumentNeverRefuses` by itself. For a join through a link that is a batch of up to three actions:
the revocation of an expired invite frees the address, the invite finds it free, and the acceptance
finds the room the store has found.

**`OrgGovernance_proofs`.** The membership invariant, with "archived organisations are empty", and
one about the rows (what expired had not matured). The action theorems rest on it: a step that
makes or unmakes an owner comes from `RunProposal` with `Met` and `Matured` true, whose numbers
are those of `Consented` because the effective threshold is at least `min(2, owners)`.
Results: `OwnerRemainsUnderGovernance` and `DocumentOwnerUnderGovernance` (the second for a document
that may have missed anything), `ArchivedStaysEmpty`, `OnlyUnmaturedExpire`,
`ChangesAreConsented` (`OwnersConsent`), `DecisionsAreFinal` (`DecidedStaysDecided`).
`RecoveryDomainAges` shows that `domainAge`, which the guard of a recovery reads, behaves as
`VerifiedDomain` says: with `VerifiedStays` that is the whole interface of the two modules.

The second half of the module is about store and document together, under
`Faults \subseteq {"unwritten"}`. Equality is not an invariant here. An app is attached before it is
mirrored, if it ever is; and a recovery that the document refuses leaves the actions before the
refused one applied, with the store undone (section 7). `Mirrored` is what survives both: the
same records are active, with the same address and role; an invite that only the document has is a
stray; an invite that the store has open and the document has revoked is accounted for by a
stray of the same person (the reason the new invite was refused); and an app is frozen in
both halves or in none. That is enough for the reducers of the other kinds to take the change, or for the
undo to leave the halves alike again, whatever part of a batch was refused.

- `HalvesStayAlike`: `Mirrored` always holds. Hence `FreezesAreMirrored` (`FreezeMirrored`) and
  `SameOwnersInBoth`: the document names the owners the store goes by.
- `ExecutedIsDone` (`ExecutedMeansDone`): what is marked EXECUTED is done in both halves in that same
  step. (UNFREEZE_APP is done when the app is not frozen: the document may have no mirror of it.)
- `HalvesAreTheSame`: until an operation is refused, the halves differ in apps alone.
- `OnlyRecoveriesAreRefused`: what is refused first is a RECOVER while the document has as many
  active members as the cap. Without recoveries nothing is refused (`NoProposalIsRefused`,
  `DocumentNeverRefuses`).

**`OrgServices_proofs`**, a part for each of seven modules.

- *Apps.* `AppInv` says where the profile index stands while somebody works on the app: with
  nobody under a claim, with the source until the move has written it, then with the target until
  that is undone. `OwnershipKept` (`AppOwnershipKept`) maps each step to a step of
  `AppOwnership` or a stutter: the owner the abstract module sees changes when the move finishes or
  stops, not when its first write lands, which is why `HolderNow` looks at `done`.
  `PlacesInv` adds, as long as nothing is torn, that each place is where the steps done and
  not undone have put it; at the ends of a move it is `OneOwner` (`OneOwnerEverywhere`).
- *Invite links.* The uses are the joins, one caller at most is inside the lock, and while one may
  be undone there is a use to give back. Hence `JoinsCounted` and `RevokedAdmitNobody`.
- *Domains.* `DomInv`: each failure counted adds a whole re-check period to the time since the last
  proof, because the sweep that counts it had listed a domain that long unchecked and the
  compare-and-set says that nobody has checked it since. `LapseIsLate` (`LapsesAfterThreeDays`)
  follows at the lapse. The row that a lapsing sweep would put back has the same property as long
  as nobody has written since; where somebody has, `overwritten` is the excuse. That the excuse
  takes another replica is `OneReplicaLapsesLate`: for a single `Sweeper`, whose lock keeps every
  caller out while it lapses, the time is kept without exception (`ThreeDaysWithoutProof`).
  `VerifiedStays` (`VerifiedAllThatTime`) maps each step to a step of `VerifiedDomain` or a stutter.
  There a verified domain is not verified again, so a check that renewed `verified_at` would be no step
  of it, nor would an undo that puts back any other time. A lapse or a removal is `Withdraw`
  while its undo may come, `Restore` when it does, `Lapse` when it no longer can.
  It needs that one replica at most is withdrawing a verified domain whose row nobody has written
  since, and that the row it would put back has aged like the domain. A row that an undo
  wrote over another replica's counts as not verified until the next proof.
- *Webhooks.* `HookInv`: while the organisation is taken down no vetted delivery can be claimed; its
  row is not PENDING or not as listed. The row inserted late by `InsertDelivery` is harmless
  because no worker has it in hand. Hence `TakenDownSendsNothing`. And what is PAUSED waits for an
  organisation that is down, or strayed; a takedown being undone finds it down. Hence
  `StraysAlone` (`OnlyStraysWait`): the two ways of section 7 are the only ones.
- *Reports.* While a resolution is being written, the report it will go back to restores the
  organisation if it was down: that part makes `DownByAReport` (`RestorableWhileDown`) inductive
  through undos. `TakedownIsMirrored` (`DocumentKnowsOfTakedown`) needs that the document has what the
  organisation was before the resolution, until a fault sets them apart.
- *Suspensions.* What an exit condemned is suspended itself or through its issuer. Hence
  `LeaversSuspended`; `OneVerdict` is a case analysis over a state that is well-typed.
- *Handles.* `NameInv`: a handle is one company's and one company's at a time to go for (the lock
  of the handle); a row says where its request stands (changed or not yet), the document lags
  by exactly that; nobody goes for a handle that is held; and a handle that is being changed from
  is reserved for its company, held by no row and found free by nobody. The last part needs the
  ones before it, and they need it where an undo puts a handle back. `ChangesAreUndone` is
  `FailedChangesAreUndone`.

**`DelegationAlerts_proofs`.** Four conjuncts: `Settled` (a window that ended a lag ago is all in
the read model), `Covered` (below the watermark, and below where each run is about to move it,
every delegation is claimed or still on the run's own list: the second half is what keeps
a run that was overtaken from harming), `Announcing` (who claims an alert is the only one to
announce it), `Claims` (a claim that could be given back is the latest and gives way to the one before
it). Results: `NoneSkipped`, `RunsSpaced`.

**`OidcLogin_proofs`.** The invariant follows a code: consumed by one exchange, outliving its
token (`CodeRetention >= TokenTtl`, the assumption the source's constants satisfy), and ended when
presented again. Result: `OneTokenPerCode` (`CodesAreUsedOnce`).

**`Identity_proofs`.** `StatInv`: row, backfill and report are echoes of the document, no
newer than the clock and equal to it when as new (`RowsFollow`). `CatInv`: a scan of the current
generation has missed no confirmed write (`CountsAreCurrent`). `WorkloadInv`: whoever is about to
answer has the stored row, unless a deletion came in between (`OneIdentity`). `LedgerInv`: what
a request set out to revoke is revoked or still on its list (`RevocationsLast`). `IndexInv`: while
something of a person is not acknowledged, its last action says what the document says, and the
row shows the last action that was applied or, if the unique index refused that, nothing.
`RowsFollowProfiles` (`RowFollowsProfile`) is what this comes to when a batch is acknowledged. A
batch that begins again begins with nothing applied, so what it applied before is not counted on.

Type invariants (`TypeOK`, `GovTypeOK`, `LockTypeOK`), `DocumentHasOwner`, `MutualExclusion`,
`RevokedLinksAdmitNobody` and `DocumentKnowsOfTakedown` are proved and in no run; `mirror`
checks `DocumentNeverRefuses` for memberships, `NoProposalIsRefused` proves it for proposals too.

**Only model-checked.** Liveness, which this prover does not reach: `EveryProposalIsDecided`,
`EveryHandlerReturns`, `UnprovedDomainsLapse`, `StuckProposalsStarveNobody`,
`EveryDeliverySettles`. And `UpsertReachesTheLinks`: it is a claim about lists of any length, and
would need induction over data.

## 7. Findings

**A full organisation cannot be recovered.** `O/areas/proposal-kinds.ts:246` says of RECOVER:
"Member caps do not apply: recovery must not be
blockable." The handler keeps to it, the document's reducer does not
(`document-models/renown-organization/v1/src/reducers/members.ts:102-104`): with
`MAX_ACTIVE_MEMBERS` active members, recovering somebody who is not one of them is refused in the
document, undone in the store and put back to PENDING, each time, and after the first attempt
also because the document kept the invite. Run `cap` violates `RecoveryIsNotBlockable` that way.
`OnlyRecoveriesAreRefused` proves that it takes a full organisation: while a write fails only by
not being reached, there is no other way for the document to come to refuse something first.

**A handle can be given to two profiles.** `subgraphs/renown-auth/core/handle-claims.ts:4-8` says
that a handle is held "while the request is in flight and until the read model (which indexes
asynchronously) catches up". `claim` first drops every other claim of its owner
(`handle-claims.ts:28`), indexed or not: who takes a handle and changes it again before the first
change is indexed leaves the first one free for somebody else. Run `handles` violates
`OneProfilePerHandle` that way. What still holds is in `services` (`RowFollowsProfile`): the
unique index keeps the table right, at the price of a profile whose row has no handle although its upsert succeeded.

**The undo of a lapse overwrites another replica.** `LAPSE_AFTER_FAILURES` is "Consecutive failed daily
re-checks (so at least 3 days without a proof) that lapse a domain" (`O/jobs.ts:90`), and of the
answers the job says "another replica that checked it meanwhile wins, nothing is counted twice"
(`O/jobs.ts:117`). That is the compare-and-set; the undo of a lapse whose document cannot be written
has none (`O/jobs.ts:129-131`). If the domain was proved by hand through another replica meanwhile,
the undo replaces VERIFIED without failures by VERIFIED with two, and one failed re-check a
day later lapses it. Run `undone` violates `ThreeDaysWithoutProof` that way; with one replica it holds
(`OneReplicaLapsesLate`). A tenant that runs the single replica of `keyed-lock.ts:28-29` does not
meet it; the comment on the job promises it to those that do not (section 1).

**Deliveries wait on an organisation that is not down.** "Webhook deliveries wait while the organisation is
down and resume when it is restored." (`O/areas/moderation.ts:112`; "held until the organisation is
restored", `O/core/webhook-delivery.ts:59`). `HeldUntilRestored` is violated in two ways, and
`StraysAlone` proves that there is no third:

- Run `held`: an open report may be resolved with RESTORE while the organisation is not down. If its
  document cannot be written, the undo puts back `takenDown` as it was and pauses the deliveries
  whatever it was (`O/areas/moderation.ts:121-126`).
- Without any failure: a worker has seen the organisation taken down; the restore resumes what is
  PAUSED; the worker then pauses its delivery (`O/core/webhook-delivery.ts:58-61`). `held` violates the
  property that way, too, with `MaxUndos = 0`.

Either way the delivery waits until some later RESTORE, if there is one.

Decisions of the code that nothing in the repository contradicts, kept in the model as they
are:

- a proposal that matures during a takedown is FAILED for good (`O/areas/proposals.ts:167`), and a
  RECOVER past its expiry refuses new recoveries until it is swept (`O/areas/domains.ts:84`);
- a batch of link actions that is delivered again is applied again to the read model's copy, which may
  end with a link twice or in an older order (`UpsertReachesTheLinks` is about the document);
- the answer to a delivery is written without a condition (`O/core/webhook-delivery.ts:99`) and may
  overwrite the PAUSED of a takedown; the next look pauses it again (`NothingSentWhileTakenDown` is about
  sending, not about this);
- a stop between the claim of a proposal and its change loses the change for good; nothing detects
  that, and `OwnersConsent` and `LiveOrgHasOwner` only say that nothing unfounded is left behind;
- the delays are configured and may exceed the 14 days a proposal lives; such proposals expire.
  `EveryProposalIsDecided` is checked with shorter ones;
- the category backfill takes no lock and may write a category that a save has replaced meanwhile;
  the document and the next save are right (`CachedCountsAreCurrent` is about the cache);
- the undo of RELEASE_HANDLE is refused when the released handle was claimed in between
  (`O/areas/moderation.ts:85-90`), which `FailedChangesAreUndone` excepts by `apart`.

## 8. Not modelled, and the plan

Left out, and why:

- *Cryptography, DNS, HTTP, images, uploads.* Their outcomes are choices of the model. Request
  signatures (`O/core/auth.ts`) are not modelled at all: they are judged fresh before a verification that may
  wait for a chain, remembered by one conditional insert after it, and forgotten at the expiry given
  then; every property here takes an authenticated caller for granted.
- *Attestations, notifications, the audit log, insights.* Append-only or derived from what is
  modelled; `record` never fails its caller.
- *OIDC clients and workloads of an organisation* (`O/areas`): thin layers over renown-oidc and
  renown-workload that check the caller's role and pass the call on.
- *Votes and connections* of renown-stats: only read by its resolvers, whose mutations are the two that
  `StatReports` and `CategoryIndex` model (`reportUserStat`, `upsertAppProfile`).
- *Search, listings, the read model, schemas, GraphQL plumbing, generated document-model code,
  editors, SDK, scripts, smoke tests.* These are most of the lines of the repository. They
  read, render or describe data rather than decide about it, so the share of lines the modules translate stays well below a third.
- *The reactor that stores documents.* Its order of operations is taken as given: a batch is applied
  in one piece or not at all, except for refused actions.

Left for later, in the order of importance:

1. `DetachApp` and `AttachApp` of `OrgGovernance` as the abstract steps of `AppTransfers`.
2. Listing and profile fields of organisations, whose document writes are undone like those of
   handles.
