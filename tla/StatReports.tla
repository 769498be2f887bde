----------------------------- MODULE StatReports -----------------------------
(***************************************************************************)
(* One user's value of one app's metric: in the user's stats document and  *)
(* in the aggregate row of app_metric_values.  A report writes the         *)
(* document and then the row, under the user's lock; the backfill, which   *)
(* starts with the process and takes no lock, copies documents into rows.  *)
(*                                                                         *)
(* A report reads the clock once and then writes a document, so two        *)
(* reports never carry the same time.                                      *)
(***************************************************************************)
EXTENDS Naturals

CONSTANTS StatValue,   \* numbers an app may report
          MaxReports   \* bound: reports of a behaviour

VARIABLES
  statDoc,     \* the stat in the user's document: its value and updatedAt
  statRow,     \* the aggregate row; at = 0 when there is none
  report,      \* the report that holds the user's lock
  reports,     \* the clock: reports accepted so far
  backfill,    \* what the backfill has read of the document and not written
  jobDone,     \* renown_stats_jobs
  rowBehind    \* the document has a value that no answered write put in the row (history)

statVars == <<statDoc, statRow, report, reports, backfill, jobDone, rowBehind>>

Stat == [value : StatValue \cup {0}, at : 0..MaxReports + 1]
NoStat == [value |-> 0, at |-> 0]
NoReport == NoStat

\* a document from before the aggregate rows, or none
StatInit ==
  /\ statDoc \in {NoStat} \cup [value : StatValue, at : {1}]
  /\ statRow = NoStat
  /\ report = NoReport
  /\ reports = 1
  /\ backfill = NoStat
  /\ jobDone = FALSE
  /\ rowBehind = (statDoc # NoStat)

\* setStatOperation: an older report is a late retry, not news
SetStat(stat) == IF stat.at < statDoc.at THEN statDoc ELSE stat

\* Mutant: the row takes whatever is written last.
LastOneWins(stat) == statRow' = stat

\* recordMetricValues: the newer updatedAt wins
RecordMetricValue(stat) == statRow' = IF statRow.at <= stat.at THEN stat ELSE statRow

\* an unchanged value appends no operation
ReportUserStat(v) ==
  /\ report = NoReport /\ reports <= MaxReports
  /\ reports' = reports + 1
  /\ LET stat == [value |-> v, at |-> reports + 1]
     IN  /\ statDoc' = IF statDoc.value = v /\ statDoc # NoStat THEN statDoc ELSE SetStat(stat)
         /\ report' = stat
  /\ UNCHANGED <<statRow, backfill, jobDone, rowBehind>>

ReportRow ==
  /\ report # NoReport
  /\ RecordMetricValue(report)
  /\ report' = NoReport
  /\ rowBehind' = FALSE
  /\ UNCHANGED <<statDoc, reports, backfill, jobDone>>

\* the row is not written (SERVICE_UNAVAILABLE), or the process stops: the document stays
ReportLost ==
  /\ report # NoReport
  /\ report' = NoReport
  /\ rowBehind' = TRUE
  /\ UNCHANGED <<statDoc, statRow, reports, backfill, jobDone>>

BackfillRead ==
  /\ ~jobDone /\ backfill = NoStat /\ statDoc # NoStat
  /\ backfill' = statDoc
  /\ UNCHANGED <<statDoc, statRow, report, reports, jobDone, rowBehind>>

\* the document's rows, and after the last document the job is marked done
BackfillWrite ==
  /\ backfill # NoStat
  /\ RecordMetricValue(backfill)
  /\ backfill' = NoStat
  /\ jobDone' = TRUE
  /\ rowBehind' = IF backfill = statDoc THEN FALSE ELSE rowBehind
  /\ UNCHANGED <<statDoc, report, reports>>

\* logged; the job stays open and the next start begins again
BackfillFails ==
  /\ backfill # NoStat
  /\ backfill' = NoStat
  /\ UNCHANGED <<statDoc, statRow, report, reports, jobDone, rowBehind>>

StatNext ==
  \/ \E v \in StatValue : ReportUserStat(v)
  \/ ReportRow \/ ReportLost
  \/ BackfillRead \/ BackfillWrite \/ BackfillFails

StatSpec == StatInit /\ [][StatNext]_statVars

\* The public totals follow the documents: once a report has been answered, the row holds
\* the document's value however a backfill that read the document earlier interleaves with
\* it, and after a lost row write the next report of any value, changed or not, repairs it.
RowFollowsDocument ==
  report = NoReport /\ ~rowBehind => statRow.value = statDoc.value
==============================================================================
