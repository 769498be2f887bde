-------------------------- MODULE ModerationReports --------------------------
(***************************************************************************)
(* The reports about one organisation and what platform admins make of     *)
(* them.  A resolution is stored with its effect in one transaction, then  *)
(* written to the organisation's document; when that fails, both are put   *)
(* back.                                                                   *)
(*                                                                         *)
(* resolveOrgReport holds the organisation's lock and reads the report     *)
(* again under it, so one report of the organisation is resolved at a      *)
(* time; others are filed meanwhile.  What a takedown does to webhook      *)
(* deliveries is in WebhookDeliveries, what a released handle becomes in   *)
(* OrgHandles; a reporter's daily limit is left out.                       *)
(***************************************************************************)
EXTENDS Naturals

CONSTANTS Report,
          NoReportRow,
          MaxModFaults   \* bound: failed writes, failed undos, stops

VARIABLES
  resolution,  \* of each report: "none" before it is filed, "OPEN", or how it was resolved
  orgDown,     \* takenDown in the store
  docDown,     \* takenDown in the document
  resolving,   \* the report being resolved, with what was read under the lock
  astray,      \* a fault has separated store and document since the document was last written (history)
  modFaults

reportVars == <<resolution, orgDown, docDown, resolving, astray, modFaults>>

Outcomes == {"DISMISS", "TAKE_DOWN", "RESTORE", "RELEASE_HANDLE"}
NotResolving == [step |-> "idle", report |-> NoReportRow, as |-> "none", before |-> "none", wasDown |-> FALSE]

ReportInit ==
  /\ resolution = [r \in Report |-> "none"]
  /\ orgDown = FALSE /\ docDown = FALSE
  /\ resolving = NotResolving
  /\ astray = FALSE /\ modFaults = 0

\* reportOrganization
FileReport(r) ==
  /\ resolution[r] = "none"
  /\ resolution' = [resolution EXCEPT ![r] = "OPEN"]
  /\ UNCHANGED <<orgDown, docDown, resolving, astray, modFaults>>

\* An open report takes any resolution; a taken-down organisation is restored on its own.
Resolvable(r, as) ==
  resolution[r] = "OPEN" \/ (as = "RESTORE" /\ resolution[r] = "TAKE_DOWN")

\* under the lock; the compare-and-set of resolveReport is asked of the report just read
StoreResolution(r, as) ==
  /\ resolving = NotResolving /\ Resolvable(r, as)
  /\ resolution' = [resolution EXCEPT ![r] = as]
  /\ orgDown' = CASE as = "TAKE_DOWN" -> TRUE [] as = "RESTORE" -> FALSE [] OTHER -> orgDown
  /\ resolving' = IF as = "DISMISS" THEN NotResolving
                  ELSE [step |-> "document", report |-> r, as |-> as,
                        before |-> resolution[r], wasDown |-> orgDown]
  /\ UNCHANGED <<docDown, astray, modFaults>>

\* what SET_TAKEN_DOWN makes of the document; RELEASE_HANDLE writes another field
FlagWritten == IF resolving.as = "RELEASE_HANDLE" THEN docDown ELSE resolving.as = "TAKE_DOWN"

WriteResolution ==
  /\ resolving.step = "document"
  /\ docDown' = FlagWritten
  /\ astray' = IF resolving.as = "RELEASE_HANDLE" THEN astray ELSE FALSE
  /\ resolving' = NotResolving
  /\ UNCHANGED <<resolution, orgDown, modFaults>>

\* the write fails, or is applied and reported as failed
WriteResolutionFails ==
  /\ resolving.step = "document" /\ modFaults < MaxModFaults
  /\ modFaults' = modFaults + 1
  /\ resolving' = [resolving EXCEPT !.step = "undo"]
  /\ \/ UNCHANGED <<docDown, astray>>
     \/ docDown' = FlagWritten /\ astray' = (astray \/ FlagWritten # docDown)
  /\ UNCHANGED <<resolution, orgDown>>

\* Mutant: the flag is put back, and the report is left resolved.
FlagAlone ==
  /\ orgDown' = IF resolving.as = "RELEASE_HANDLE" THEN orgDown ELSE resolving.wasDown
  /\ UNCHANGED resolution

\* the report as it was read, and the organisation's flag unless its handle was released
ReportAndFlag ==
  /\ resolution' = [resolution EXCEPT ![resolving.report] = resolving.before]
  /\ orgDown' = IF resolving.as = "RELEASE_HANDLE" THEN orgDown ELSE resolving.wasDown

UndoResolution ==
  /\ resolving.step = "undo"
  /\ ReportAndFlag
  /\ resolving' = NotResolving
  /\ UNCHANGED <<docDown, astray, modFaults>>

\* the undo fails, or the process stops on the way: the store keeps the resolution
ResolutionLost ==
  /\ resolving # NotResolving /\ modFaults < MaxModFaults
  /\ modFaults' = modFaults + 1
  /\ resolving' = NotResolving
  /\ astray' = (astray \/ docDown # orgDown)
  /\ UNCHANGED <<resolution, orgDown, docDown>>

ReportNext ==
  \/ \E r \in Report : FileReport(r) \/ \E as \in Outcomes : StoreResolution(r, as)
  \/ WriteResolution \/ WriteResolutionFails \/ UndoResolution \/ ResolutionLost

ReportSpec == ReportInit /\ [][ReportNext]_reportVars

\* "Restored on the same report: no new report needs filing": whichever of several reports took
\* the organisation down or restored it, and whatever was undone or lost on the way, an
\* organisation that is down has a report that an admin can restore it on.
RestorableWhileDown == orgDown => \E r \in Report : resolution[r] = "TAKE_DOWN"

\* Between resolutions the document says what the store says, unless a write was
\* unheard or an undo was lost; the next document written sets that right too.
DocumentKnowsOfTakedown == resolving = NotResolving /\ ~astray => docDown = orgDown
==============================================================================
