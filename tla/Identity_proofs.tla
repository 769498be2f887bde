--------------------------- MODULE Identity_proofs ---------------------------
(***************************************************************************)
(* What the reports of statistics, the category counts, the registrations  *)
(* of workloads, the revocations of credentials and the index of profiles  *)
(* promise, for any number of values, saves, replicas, copies and requests.*)
(***************************************************************************)
EXTENDS CategoryIndex, CredentialLedger, ProfileHandles, StatReports, WorkloadIdentities, TLAPS

--------------------------------------------------------------------------------
(* Statistics.  The row may be newer than the document (a report of an unchanged    *)
(* value), or older (a lost write).  What holds all the time is that nothing as new *)
(* as the document says anything else.                                              *)

AnyStat == [value : StatValue \cup {0}, at : Nat]

StatTyped ==
  /\ statDoc \in AnyStat /\ statRow \in AnyStat /\ report \in AnyStat /\ backfill \in AnyStat
  /\ reports \in Nat

Echoes(stat) == stat.at <= reports /\ (stat.at >= statDoc.at => stat.value = statDoc.value)

StatInv ==
  /\ StatTyped
  /\ statDoc.at <= reports
  /\ statDoc.at = 0 => statDoc.value = 0
  /\ Echoes(statRow) /\ Echoes(backfill)
  /\ report # NoReport => report.at >= statDoc.at /\ report.at = reports /\ report.value = statDoc.value
  /\ report = NoReport /\ ~rowBehind => statRow.at >= statDoc.at

\* A write of the row leaves it an echo of the document, and as new as what was written.
LEMMA RecordedEchoes ==
  ASSUME StatInv, NEW stat \in AnyStat, Echoes(stat), RecordMetricValue(stat), UNCHANGED <<statDoc, reports>>
  PROVE  /\ statRow' \in AnyStat
         /\ Echoes(statRow)'
         /\ statRow'.at >= stat.at /\ statRow'.at >= statRow.at
BY DEF StatInv, StatTyped, AnyStat, Echoes, RecordMetricValue

\* RowFollowsDocument for any values and any number of reports: once a report is answered,
\* the public row has the value of the user's document.
THEOREM RowsFollow == StatSpec => []RowFollowsDocument
<1>1. StatInit => StatInv
  <2> SUFFICES ASSUME StatInit
               PROVE  StatInv
    OBVIOUS
  <2>1. statDoc \in AnyStat /\ statDoc.at <= 1 /\ (statDoc.at = 0 <=> statDoc = NoStat)
    BY DEF StatInit, NoStat, AnyStat
  <2>2. rowBehind <=> statDoc # NoStat
    BY Zenon DEF StatInit
  <2> QED
    BY <2>1, <2>2 DEF StatInit, StatInv, StatTyped, AnyStat, Echoes, NoStat, NoReport
<1>2. StatInv /\ [StatNext]_statVars => StatInv'
  <2> SUFFICES ASSUME StatInv, [StatNext]_statVars
               PROVE  StatInv'
    OBVIOUS
  <2>1. ASSUME NEW v \in StatValue, ReportUserStat(v)
        PROVE  StatInv'
    <3>1. reports' = reports + 1 /\ report' = [value |-> v, at |-> reports + 1]
      BY <2>1 DEF ReportUserStat
    <3>2. statDoc' = statDoc \/ statDoc' = report'
      BY <2>1, <3>1 DEF ReportUserStat, SetStat
    <3>3. statDoc'.value = v
      BY <2>1, <3>1 DEF ReportUserStat, SetStat, StatInv, StatTyped, AnyStat
    <3> QED
      BY <2>1, <3>1, <3>2, <3>3
      DEF ReportUserStat, StatInv, StatTyped, AnyStat, Echoes, NoStat, NoReport
  <2>2. CASE ReportRow
    <3>1. Echoes(report) /\ report \in AnyStat /\ RecordMetricValue(report) /\ UNCHANGED <<statDoc, reports>>
      BY <2>2 DEF ReportRow, StatInv, StatTyped, Echoes, AnyStat
    <3>2. /\ statRow' \in AnyStat
          /\ Echoes(statRow)'
          /\ statRow'.at >= report.at /\ statRow'.at >= statRow.at
      BY <3>1, RecordedEchoes
    <3>3. report # NoReport /\ report' = NoReport /\ UNCHANGED backfill
      BY <2>2 DEF ReportRow
    <3> QED
      BY <3>1, <3>2, <3>3 DEF StatInv, StatTyped, Echoes, AnyStat, NoReport, NoStat
  <2>3. CASE ReportLost
    BY <2>3 DEF ReportLost, StatInv, StatTyped, Echoes, AnyStat, NoReport, NoStat
  <2>4. CASE BackfillRead
    BY <2>4 DEF BackfillRead, StatInv, StatTyped, Echoes, AnyStat, NoReport, NoStat
  <2>5. CASE BackfillWrite
    <3>1. Echoes(backfill) /\ backfill \in AnyStat /\ RecordMetricValue(backfill) /\ UNCHANGED <<statDoc, reports>>
      BY <2>5 DEF BackfillWrite, StatInv, StatTyped
    <3>2. /\ statRow' \in AnyStat
          /\ Echoes(statRow)'
          /\ statRow'.at >= backfill.at /\ statRow'.at >= statRow.at
      BY <3>1, RecordedEchoes
    <3>3. UNCHANGED report /\ backfill' = NoStat
      BY <2>5 DEF BackfillWrite
    <3>4. ~rowBehind' => ~rowBehind \/ backfill = statDoc
      BY <2>5 DEF BackfillWrite
    <3> QED
      BY <3>1, <3>2, <3>3, <3>4 DEF StatInv, StatTyped, Echoes, AnyStat, NoReport, NoStat
  <2>6. CASE BackfillFails
    BY <2>6 DEF BackfillFails, StatInv, StatTyped, Echoes, AnyStat, NoReport, NoStat
  <2>7. CASE UNCHANGED statVars
    BY <2>7 DEF statVars, StatInv, StatTyped, Echoes, AnyStat, NoReport, NoStat
  <2> QED
    BY <2>1, <2>2, <2>3, <2>4, <2>5, <2>6, <2>7 DEF StatNext
<1>3. StatInv => RowFollowsDocument
  BY DEF StatInv, Echoes, RowFollowsDocument
<1> QED
  BY <1>1, <1>2, <1>3, PTL DEF StatSpec

--------------------------------------------------------------------------------
(* Categories.  Reads of the column are compared by the number of the write they    *)
(* include; a scan of the current generation has missed no announced one.           *)

CatInv ==
  /\ column.writes \in Nat \ {0} /\ generation \in Nat /\ confirmed \in Nat /\ cached \in Nat
  /\ scan.generation \in Nat /\ scan.read \in Nat
  /\ scan \in [generation : Nat, read : Nat]
  /\ confirmed <= column.writes
  /\ scan.generation <= generation
  /\ scan.read # 0 /\ scan.generation = generation => scan.read >= confirmed
  /\ CachedCountsAreCurrent

\* CachedCountsAreCurrent for any categories and any number of saves and scans: cached
\* counts include every save that was answered.
THEOREM CountsAreCurrent == CatSpec => []CachedCountsAreCurrent
<1> USE DEF CatInv, CachedCountsAreCurrent
<1>1. CatInit => CatInv
  BY DEF CatInit, NoScan
<1>2. CatInv /\ [CatNext]_catVars => CatInv'
  <2> SUFFICES ASSUME CatInv, [CatNext]_catVars
               PROVE  CatInv'
    OBVIOUS
  <2>1. ASSUME NEW c \in Category \cup {NoCategory}, SaveDocument(c)
        PROVE  CatInv'
    BY <2>1 DEF SaveDocument
  <2>2. CASE SaveColumn
    BY <2>2 DEF SaveColumn, WriteColumn
  <2>3. CASE SaveLost
    BY <2>3 DEF SaveLost
  <2>4. CASE SaveReturns
    BY <2>4 DEF SaveReturns
  <2>5. CASE AskCategories
    BY <2>5 DEF AskCategories
  <2>6. CASE ScanReads
    BY <2>6 DEF ScanReads
  <2>7. CASE ScanReturns
    BY <2>7 DEF ScanReturns, NoScan
  <2>8. CASE ScanFails
    BY <2>8 DEF ScanFails, NoScan
  <2>9. CASE CacheExpires
    BY <2>9 DEF CacheExpires
  <2>10. CASE CopyRead
    BY <2>10 DEF CopyRead
  <2>11. CASE CopyWrite
    BY <2>11 DEF CopyWrite, WriteColumn
  <2>12. CASE UNCHANGED catVars
    BY <2>12 DEF catVars
  <2> QED
    BY <2>1, <2>2, <2>3, <2>4, <2>5, <2>6, <2>7, <2>8, <2>9, <2>10, <2>11, <2>12 DEF CatNext
<1> QED
  BY <1>1, <1>2, PTL DEF CatSpec

--------------------------------------------------------------------------------
(* Registrations.  A request that is about to answer, and has read the row since it *)
(* was last deleted, holds the row there is.                                        *)

Row == [did : Nat \ {0}, owner : RepoOwner]

Registration == [step : {"generate", "insert", "conflict", "resolve"}, owner : RepoOwner,
                 row : {NoIdentity} \cup Row, since : Nat]

WorkloadInv ==
  /\ identity \in {NoIdentity} \cup Row
  /\ registrar \in [Registrar -> {AtRest} \cup Registration]
  /\ keys \in Nat /\ deletions \in Nat
  /\ \A r \in Registrar : registrar[r].step # "idle" => registrar[r].since <= deletions
  /\ \A r \in Registrar : registrar[r].step \in {"insert", "resolve"} => registrar[r].row \in Row
  /\ \A r \in Registrar : registrar[r].step = "resolve" /\ registrar[r].since = deletions
       => registrar[r].row = identity
  /\ OneIdentityPerRepository

\* OneIdentityPerRepository for any owners and any number of replicas, keys and deletions.
THEOREM OneIdentity == WorkloadSpec => []OneIdentityPerRepository
<1>1. WorkloadInit => WorkloadInv
  BY DEF WorkloadInit, WorkloadInv, AtRest, NoIdentity, OneIdentityPerRepository
<1>2. WorkloadInv /\ [WorkloadNext]_workloadVars => WorkloadInv'
  <2> SUFFICES ASSUME WorkloadInv, [WorkloadNext]_workloadVars
               PROVE  WorkloadInv'
    OBVIOUS
  <2> USE DEF WorkloadInv, Registration, AtRest, NoIdentity, Row
  <2>1. ASSUME NEW r \in Registrar, NEW owner \in RepoOwner, LookUpIdentity(r, owner)
        PROVE  WorkloadInv'
    BY <2>1 DEF LookUpIdentity, OneIdentityPerRepository
  <2>2. ASSUME NEW r \in Registrar, GenerateKey(r)
        PROVE  WorkloadInv'
    <3> DEFINE new == [did |-> keys + 1, owner |-> registrar[r].owner]
    <3>1. registrar[r] \in Registration
      BY <2>2 DEF GenerateKey
    <3>2. new \in Row
      BY <3>1
    <3>3. registrar'[r] \in Registration /\ registrar'[r].row = new /\ registrar'[r].step = "insert"
            /\ registrar'[r].since = deletions
      BY <2>2, <3>1, <3>2 DEF GenerateKey, Goes
    <3>4. registrar' = [registrar EXCEPT ![r] = registrar'[r]]
      BY <2>2 DEF GenerateKey, Goes
    <3>5. keys' = keys + 1 /\ UNCHANGED <<identity, deletions, credited>>
      BY <2>2 DEF GenerateKey
    <3> HIDE DEF new
    <3> QED
      BY <3>2, <3>3, <3>4, <3>5 DEF OneIdentityPerRepository
  <2>3. ASSUME NEW r \in Registrar, InsertIdentity(r)
        PROVE  WorkloadInv'
    <3>1. CASE identity = NoIdentity
      BY <2>3, <3>1 DEF InsertIdentity, Goes, OneIdentityPerRepository
    <3>2. CASE identity # NoIdentity
      BY <2>3, <3>2 DEF InsertIdentity, Goes, OneIdentityPerRepository
    <3> QED
      BY <3>1, <3>2
  <2>4. ASSUME NEW r \in Registrar, ReadWinner(r)
        PROVE  WorkloadInv'
    BY <2>4 DEF ReadWinner, Goes, OneIdentityPerRepository
  <2>5. ASSUME NEW r \in Registrar, AnswerRegistration(r)
        PROVE  WorkloadInv'
    <3>1. OneIdentityPerRepository'
      BY <2>5 DEF AnswerRegistration, OneIdentityPerRepository
    <3> QED
      BY <2>5, <3>1 DEF AnswerRegistration
  <2>6. ASSUME NEW r \in Registrar, RegistrationFails(r)
        PROVE  WorkloadInv'
    BY <2>6 DEF RegistrationFails, OneIdentityPerRepository
  <2>7. CASE DeleteIdentity
    BY <2>7 DEF DeleteIdentity, OneIdentityPerRepository
  <2>8. CASE UNCHANGED workloadVars
    BY <2>8 DEF workloadVars, OneIdentityPerRepository
  <2> QED
    BY <2>1, <2>2, <2>3, <2>4, <2>5, <2>6, <2>7, <2>8 DEF WorkloadNext
<1> QED
  BY <1>1, <1>2, PTL DEF WorkloadSpec, WorkloadInv

--------------------------------------------------------------------------------
(* Revocations.  What a request set out to revoke is revoked or still to be done.   *)

LedgerInv ==
  /\ row \in [Copy -> {"none", "live", "revoked"}]
  /\ revoking \in [Revoker -> [active : BOOLEAN, left : SUBSET Copy, all : SUBSET Copy]]
  /\ \A r \in Revoker : revoking[r].active => revoking[r].all \subseteq revoking[r].left \cup revoked
  /\ promised \subseteq revoked

\* No step takes a revoked row back.
LEMMA RowsStayRevoked ==
  ASSUME LedgerInv, [LedgerNext]_ledgerVars, NEW c \in Copy, row[c] = "revoked"
  PROVE  row'[c] = "revoked"
BY DEF LedgerInv, LedgerNext, ledgerVars, IssueCredential, RevokeCredential, RevokeNext,
       RevokeFails, RevokeAnswers, IndexInit, RowAfterInit, IndexRevoke, RedeliverCredential

\* RevokedForGood for any keys, logins, copies and requests.
THEOREM RevocationsLast == LedgerSpec => RevokedForGood
<1>1. LedgerInit => LedgerInv
  BY DEF LedgerInit, LedgerInv, NoRequest
<1>2. LedgerInv /\ [LedgerNext]_ledgerVars => LedgerInv'
  <2> SUFFICES ASSUME LedgerInv, [LedgerNext]_ledgerVars
               PROVE  LedgerInv'
    OBVIOUS
  <2> USE DEF LedgerInv
  <2>1. ASSUME NEW credential \in LedgerEntry, NEW c \in Copy, IssueCredential(credential, c)
        PROVE  LedgerInv'
    BY <2>1 DEF IssueCredential
  <2>2. ASSUME NEW credential \in LedgerEntry, NEW r \in Revoker, RevokeCredential(r, credential)
        PROVE  LedgerInv'
    <3>1. RevocationTargets(credential) \subseteq Copy
      BY DEF RevocationTargets, Indexed
    <3>2. revoking' = [revoking EXCEPT ![r] = [active |-> TRUE, left |-> RevocationTargets(credential),
                                               all |-> RevocationTargets(credential)]]
      BY <2>2 DEF RevokeCredential, RevocationTargets
    <3> QED
      BY <2>2, <3>1, <3>2 DEF RevokeCredential
  <2>3. ASSUME NEW r \in Revoker, NEW c \in Copy, RevokeNext(r, c)
        PROVE  LedgerInv'
    BY <2>3 DEF RevokeNext
  <2>4. ASSUME NEW r \in Revoker, RevokeFails(r)
        PROVE  LedgerInv'
    BY <2>4 DEF RevokeFails, NoRequest
  <2>5. ASSUME NEW r \in Revoker, RevokeAnswers(r)
        PROVE  LedgerInv'
    BY <2>5 DEF RevokeAnswers, NoRequest
  <2>6. ASSUME NEW c \in Copy, IndexInit(c)
        PROVE  LedgerInv'
    BY <2>6 DEF IndexInit, RowAfterInit
  <2>7. ASSUME NEW c \in Copy, IndexRevoke(c)
        PROVE  LedgerInv'
    BY <2>7 DEF IndexRevoke
  <2>8. ASSUME NEW c \in Copy, RedeliverCredential(c)
        PROVE  LedgerInv'
    BY <2>8 DEF RedeliverCredential
  <2>9. CASE UNCHANGED ledgerVars
    BY <2>9 DEF ledgerVars
  <2> QED
    BY <2>1, <2>2, <2>3, <2>4, <2>5, <2>6, <2>7, <2>8, <2>9 DEF LedgerNext
<1>3. LedgerInv /\ [LedgerNext]_ledgerVars
        => [\A c \in Copy : row[c] = "revoked" => row'[c] = "revoked"]_ledgerVars
  BY RowsStayRevoked
<1>4. LedgerInv => promised \subseteq revoked
  BY DEF LedgerInv
<1> QED
  BY <1>1, <1>2, <1>3, <1>4, PTL DEF LedgerSpec, RevokedForGood

--------------------------------------------------------------------------------
(* Profiles.  What the processor has yet to acknowledge ends, for every person in   *)
(* it, with the handle of the document; and what it has applied of a batch ends     *)
(* with the handle of the row, or the row has none.                                 *)

Action == [of : Person, handle : Handle \cup {NoHandle}]

\* The last of the first n actions about the person p is the one at i.
LastOf(p, i, n) ==
  /\ i \in 1..n /\ outbox[i].of = p
  /\ \A j \in 1..n : j > i => outbox[j].of # p

EndsAsWritten ==
  \A p \in Person : Unindexed(p) =>
    \E i \in 1..Len(outbox) : LastOf(p, i, Len(outbox)) /\ outbox[i].handle = profileDoc[p]

AppliedShows ==
  \A p \in Person, i \in 1..Len(outbox) :
    LastOf(p, i, batch.next - 1) => profileRow[p] \in {NoHandle, outbox[i].handle}

IndexTyped ==
  /\ upsert \in [Upsert -> {NoUpsert} \cup
        [state : {"reserved", "free"}, by : Person, handle : Handle]]
  /\ outbox \in Seq(Action)
  /\ profileDoc \in [Person -> Handle \cup {NoHandle}]
  /\ profileRow \in [Person -> Handle \cup {NoHandle}]
  /\ batch \in [size : Nat, next : Nat \ {0}]
  /\ batch.size <= Len(outbox) /\ batch.next <= batch.size + 1

IndexInv == IndexTyped /\ EndsAsWritten /\ AppliedShows /\ RowFollowsProfile

\* A dispatched handle is the last action about its person, and moves no other.
LEMMA DispatchIndexed ==
  ASSUME IndexInv, NEW p \in Person, NEW h \in Handle \cup {NoHandle}, SetHandle(p, h),
         UNCHANGED <<batch, profileRow>>,
         upsert' \in [Upsert -> {NoUpsert} \cup
           [state : {"reserved", "free"}, by : Person, handle : Handle]]
  PROVE  IndexInv'
<1> DEFINE n == Len(outbox)
           new == [of |-> p, handle |-> h]
<1>1. /\ outbox \in Seq(Action) /\ new \in Action
      /\ outbox' = Append(outbox, new)
      /\ profileDoc' = [profileDoc EXCEPT ![p] = h]
  BY DEF IndexInv, IndexTyped, SetHandle, Action
<1>2. /\ outbox' \in Seq(Action) /\ n \in Nat /\ Len(outbox') = n + 1
      /\ outbox'[n + 1] = new
      /\ \A i \in 1..n : outbox'[i] = outbox[i]
  BY <1>1
<1> HIDE DEF n, new
<1>3. IndexTyped'
  BY <1>1, <1>2 DEF IndexInv, IndexTyped, n
<1>4. new.of = p /\ new.handle = h /\ profileDoc'[p] = h
  BY <1>1 DEF new, IndexInv, IndexTyped
<1>5. EndsAsWritten'
  <2> SUFFICES ASSUME NEW q \in Person, Unindexed(q)'
               PROVE  \E i \in 1..(n + 1) :
                        /\ outbox'[i].of = q /\ outbox'[i].handle = profileDoc'[q]
                        /\ \A j \in 1..(n + 1) : j > i => outbox'[j].of # q
    BY <1>2 DEF EndsAsWritten, LastOf
  <2>1. CASE q = p
    BY <2>1, <1>2, <1>4
  <2>2. CASE q # p
    <3>1. Unindexed(q)
      BY <2>2, <1>2, <1>4 DEF Unindexed, Dispatched, n
    <3>2. PICK i \in 1..n : LastOf(q, i, n) /\ outbox[i].handle = profileDoc[q]
      BY <3>1 DEF IndexInv, EndsAsWritten, n
    <3>3. profileDoc'[q] = profileDoc[q]
      BY <2>2, <1>1 DEF IndexInv, IndexTyped
    <3>4. \A j \in 1..(n + 1) : j > i => outbox'[j].of # q
      BY <1>2, <1>4, <2>2, <3>2 DEF LastOf
    <3> QED
      BY <1>2, <3>2, <3>3, <3>4 DEF LastOf
  <2> QED
    BY <2>1, <2>2
<1>6. AppliedShows'
  <2>1. batch.next - 1 \in 0..n
    BY <1>2 DEF IndexInv, IndexTyped, n
  <2> QED
    BY <1>2, <2>1 DEF IndexInv, AppliedShows, LastOf, n
<1>7. RowFollowsProfile'
  <2> SUFFICES ASSUME NEW q \in Person, ~Unindexed(q)'
               PROVE  profileRow'[q] \in {NoHandle, profileDoc'[q]}
    BY DEF RowFollowsProfile
  <2>1. \A i \in 1..(n + 1) : outbox'[i].of # q
    BY <1>2 DEF Unindexed, Dispatched
  <2>2. q # p /\ ~Unindexed(q)
    BY <1>2, <1>4, <2>1 DEF Unindexed, Dispatched, n
  <2> QED
    BY <1>1, <2>2 DEF IndexInv, RowFollowsProfile, IndexTyped
<1> QED
  BY <1>3, <1>5, <1>6, <1>7 DEF IndexInv

\* An applied action is the last one applied about its person.
LEMMA ApplyIndexed ==
  ASSUME IndexInv, ApplyOperation
  PROVE  IndexInv'
<1> DEFINE i == batch.next
           p == outbox[i].of
           h == outbox[i].handle
<1>1. /\ outbox \in Seq(Action) /\ Len(outbox) \in Nat /\ i \in 1..Len(outbox)
      /\ batch.size \in Nat /\ i <= batch.size /\ batch.size <= Len(outbox)
  BY DEF IndexInv, IndexTyped, ApplyOperation
<1>2. outbox[i] \in Action
  BY <1>1
<1>3. p \in Person /\ h \in Handle \cup {NoHandle}
  BY <1>2 DEF Action
<1>4. IndexedHandle(p, h) \in {NoHandle, h}
  BY DEF IndexedHandle
<1>5. profileRow' = [profileRow EXCEPT ![p] = IndexedHandle(p, h)] /\ UNCHANGED <<outbox, profileDoc, upsert>>
  BY DEF ApplyOperation
<1>6. batch' \in [size : Nat, next : Nat \ {0}] /\ batch'.size = batch.size /\ batch'.next = i + 1
  BY <1>1 DEF ApplyOperation, IndexInv, IndexTyped
<1> HIDE DEF i, p, h
<1>7. profileRow'[p] \in {NoHandle, h} /\ \A q \in Person \ {p} : profileRow'[q] = profileRow[q]
  BY <1>3, <1>4, <1>5 DEF IndexInv, IndexTyped
<1>8. IndexTyped'
  BY <1>1, <1>3, <1>4, <1>5, <1>6 DEF IndexInv, IndexTyped
<1>9. EndsAsWritten'
  BY <1>5 DEF IndexInv, EndsAsWritten, Unindexed, Dispatched, LastOf
<1>10. AppliedShows'
  <2> SUFFICES ASSUME NEW q \in Person, NEW k \in 1..Len(outbox), k \in 1..i, outbox[k].of = q,
                      \A j \in 1..i : j > k => outbox[j].of # q
               PROVE  profileRow'[q] \in {NoHandle, outbox[k].handle}
    BY <1>1, <1>5, <1>6 DEF AppliedShows, LastOf
  <2>1. CASE k = i
    BY <2>1, <1>7 DEF p, h
  <2>2. CASE k # i
    <3>1. q # p /\ k \in 1..(i - 1)
      BY <2>2, <1>1 DEF p
    <3>2. LastOf(q, k, batch.next - 1)
      BY <3>1, <1>1 DEF LastOf, i
    <3> QED
      BY <3>1, <3>2, <1>7 DEF IndexInv, AppliedShows
  <2> QED
    BY <2>1, <2>2
<1>11. RowFollowsProfile'
  <2> SUFFICES ASSUME NEW q \in Person, ~Unindexed(q)
               PROVE  profileRow'[q] \in {NoHandle, profileDoc[q]}
    BY <1>5 DEF RowFollowsProfile, Unindexed, Dispatched
  <2>1. q # p
    BY <1>1 DEF Unindexed, Dispatched, p
  <2> QED
    BY <2>1, <1>7 DEF IndexInv, RowFollowsProfile
<1> QED
  BY <1>8, <1>9, <1>10, <1>11 DEF IndexInv

\* Acknowledged are the actions that were applied, each person's last one among them.
LEMMA AcknowledgeIndexed ==
  ASSUME IndexInv, AcknowledgeBatch
  PROVE  IndexInv'
<1> DEFINE n == Len(outbox)
           m == batch.size
<1>1. /\ outbox \in Seq(Action) /\ n \in Nat /\ m \in 0..n /\ batch.next = m + 1
      /\ outbox' = SubSeq(outbox, m + 1, n) /\ batch' = NoBatch
      /\ UNCHANGED <<upsert, profileDoc, profileRow>>
  BY DEF IndexInv, IndexTyped, AcknowledgeBatch
<1>2. /\ outbox' \in Seq(Action) /\ Len(outbox') = n - m
      /\ \A i \in 1..(n - m) : outbox'[i] = outbox[m + i]
  <2> HIDE DEF n, m
  <2>1. m + 1 \in 1..(n + 1)
    BY <1>1
  <2>2. n = Len(outbox)
    BY DEF n
  <2> QED
    BY <1>1, <2>1, <2>2
<1> HIDE DEF n, m
<1>3. IndexTyped'
  BY <1>1, <1>2 DEF IndexInv, IndexTyped, NoBatch
<1>4. ASSUME NEW p \in Person, Unindexed(p)
      PROVE  \E i \in 1..n : LastOf(p, i, n) /\ outbox[i].handle = profileDoc[p]
  BY <1>4 DEF IndexInv, EndsAsWritten, n
<1>5. EndsAsWritten'
  <2> DEFINE Ends(p) ==
        \E i \in 1..(n - m) :
          /\ outbox'[i].of = p /\ outbox'[i].handle = profileDoc[p]
          /\ \A j \in 1..(n - m) : j > i => outbox'[j].of # p
  <2> SUFFICES ASSUME NEW p \in Person, Unindexed(p)'
               PROVE  Ends(p)
    <3>1. ASSUME NEW p \in Person, Ends(p)
          PROVE  \E i \in 1..Len(outbox') :
                   LastOf(p, i, Len(outbox))' /\ outbox'[i].handle = profileDoc'[p]
      <4>1. Len(outbox') = n - m /\ profileDoc' = profileDoc
        BY <1>1, <1>2
      <4> QED
        BY <3>1, <4>1 DEF LastOf
    <3> HIDE DEF Ends
    <3> QED
      BY <3>1 DEF EndsAsWritten
  <2>1. PICK k \in 1..(n - m) : outbox'[k].of = p
    BY <1>2 DEF Unindexed, Dispatched
  <2>2. m + k \in 1..n /\ outbox[m + k].of = p
    BY <1>1, <1>2, <2>1
  <2>3. Unindexed(p)
    BY <2>2 DEF Unindexed, Dispatched, n
  <2>4. PICK i \in 1..n : LastOf(p, i, n) /\ outbox[i].handle = profileDoc[p]
    BY <1>4, <2>3
  <2>5. ~(m + k > i)
    BY <2>2, <2>4 DEF LastOf
  <2>6. i - m \in 1..(n - m) /\ m + (i - m) = i
    BY <1>1, <2>5
  <2>7. outbox'[i - m] = outbox[i]
    BY <1>2, <2>6
  <2>8. \A j \in 1..(n - m) : j > i - m => outbox'[j].of # p
    <3> SUFFICES ASSUME NEW j \in 1..(n - m), j > i - m PROVE outbox'[j].of # p
      OBVIOUS
    <3>1. m + j \in 1..n /\ m + j > i
      BY <1>1
    <3> QED
      BY <1>2, <3>1, <2>4 DEF LastOf
  <2> QED
    BY <2>4, <2>6, <2>7, <2>8 DEF LastOf
<1>6. AppliedShows'
  <2>1. batch'.next - 1 = 0
    BY <1>1 DEF NoBatch
  <2> QED
    BY <2>1 DEF AppliedShows, LastOf
<1>7. RowFollowsProfile'
  <2> SUFFICES ASSUME NEW p \in Person, ~Unindexed(p)'
               PROVE  profileRow[p] \in {NoHandle, profileDoc[p]}
    BY <1>1 DEF RowFollowsProfile
  <2>1. CASE ~Unindexed(p)
    BY <2>1 DEF IndexInv, RowFollowsProfile
  <2>2. CASE Unindexed(p)
    <3>1. PICK i \in 1..n : LastOf(p, i, n) /\ outbox[i].handle = profileDoc[p]
      BY <1>4, <2>2
    <3>2. i <= m
      <4> SUFFICES ASSUME i > m PROVE FALSE
        BY <1>1
      <4>1. i - m \in 1..(n - m) /\ m + (i - m) = i
        BY <1>1
      <4>2. outbox'[i - m].of = p
        BY <1>2, <4>1, <3>1 DEF LastOf
      <4> QED
        BY <1>2, <4>1, <4>2 DEF Unindexed, Dispatched
    <3>3. batch.next - 1 = m
      BY <1>1
    <3>4. LastOf(p, i, batch.next - 1)
      BY <1>1, <3>1, <3>2, <3>3 DEF LastOf
    <3> QED
      BY <3>1, <3>4 DEF IndexInv, AppliedShows, n
  <2> QED
    BY <2>1, <2>2
<1> QED
  BY <1>3, <1>5, <1>6, <1>7 DEF IndexInv

\* RowFollowsProfile for any persons and handles, any number of requests, actions, errors
\* and deliveries: once all of a profile's actions are indexed, its row has the document's
\* handle or none.
THEOREM RowsFollowProfiles == HandleSpec => []RowFollowsProfile
<1>1. HandleInit => IndexInv
  BY DEF HandleInit, IndexInv, IndexTyped, EndsAsWritten, AppliedShows, RowFollowsProfile,
         Unindexed, Dispatched, LastOf, NoBatch
<1>2. IndexInv /\ [HandleNext]_handleVars => IndexInv'
  <2> SUFFICES ASSUME IndexInv, [HandleNext]_handleVars
               PROVE  IndexInv'
    OBVIOUS
  <2> DEFINE Requests == {NoUpsert} \cup
                [state : {"reserved", "free"}, by : Person, handle : Handle]
  <2>1. ASSUME upsert' \in [Upsert -> Requests], UNCHANGED <<outbox, batch, profileDoc, profileRow>>
        PROVE  IndexInv'
    BY <2>1 DEF IndexInv, IndexTyped, EndsAsWritten, AppliedShows, RowFollowsProfile,
                Unindexed, Dispatched, LastOf
  <2>2. upsert \in [Upsert -> Requests]
    BY DEF IndexInv, IndexTyped
  <2>3. \A r \in Upsert : upsert[r].state \in {"reserved", "free"} =>
          upsert[r] \in [state : {"reserved", "free"}, by : Person, handle : Handle]
    BY <2>2 DEF NoUpsert
  <2>4. ASSUME NEW r \in Upsert, NEW p \in Person, NEW h \in Handle, ReserveHandle(r, p, h)
        PROVE  IndexInv'
    BY <2>1, <2>2, <2>4 DEF ReserveHandle
  <2>5. ASSUME NEW r \in Upsert, FindHandleFree(r)
        PROVE  IndexInv'
    <3>1. upsert'[r] = [upsert[r] EXCEPT !.state = "free"] /\ upsert' = [upsert EXCEPT ![r] = upsert'[r]]
      BY <2>2, <2>5 DEF FindHandleFree
    <3>2. upsert'[r] \in Requests
      BY <2>3, <2>5, <3>1 DEF FindHandleFree
    <3> QED
      BY <2>1, <2>2, <2>5, <3>1, <3>2 DEF FindHandleFree
  <2>6. ASSUME NEW r \in Upsert, DispatchHandle(r) \/ UpsertFailsLate(r)
        PROVE  IndexInv'
    <3>1. upsert[r].by \in Person /\ upsert[r].handle \in Handle
      BY <2>3, <2>6 DEF DispatchHandle, UpsertFailsLate
    <3>2. upsert' \in [Upsert -> Requests]
      BY <2>2, <2>6 DEF DispatchHandle, UpsertFailsLate
    <3> QED
      BY <2>6, <3>1, <3>2, DispatchIndexed DEF DispatchHandle, UpsertFailsLate
  <2>7. ASSUME NEW r \in Upsert, UpsertFails(r)
        PROVE  IndexInv'
    BY <2>1, <2>2, <2>7 DEF UpsertFails
  <2>8. ASSUME NEW p \in Person, GiveUpHandle(p)
        PROVE  IndexInv'
    BY <2>2, <2>8, DispatchIndexed DEF GiveUpHandle
  <2>9. ASSUME NEW h \in Handle, ClaimExpires(h)
        PROVE  IndexInv'
    BY <2>1, <2>2, <2>9 DEF ClaimExpires
  <2>10. CASE DeliverBatch
    BY <2>10 DEF DeliverBatch, IndexInv, IndexTyped, EndsAsWritten, AppliedShows, RowFollowsProfile,
                 Unindexed, Dispatched, LastOf
  <2>11. CASE ApplyOperation
    BY <2>11, ApplyIndexed
  <2>12. CASE RetryBatch
    BY <2>12 DEF RetryBatch, IndexInv, IndexTyped, EndsAsWritten, AppliedShows, RowFollowsProfile,
                 Unindexed, Dispatched, LastOf
  <2>13. CASE AcknowledgeBatch
    BY <2>13, AcknowledgeIndexed
  <2>14. CASE UNCHANGED handleVars
    BY <2>1, <2>2, <2>14 DEF handleVars
  <2> QED
    BY <2>4, <2>5, <2>6, <2>7, <2>8, <2>9, <2>10, <2>11, <2>12, <2>13, <2>14 DEF HandleNext
<1>3. IndexInv => RowFollowsProfile
  BY DEF IndexInv
<1> QED
  BY <1>1, <1>2, <1>3, PTL DEF HandleSpec
==============================================================================
