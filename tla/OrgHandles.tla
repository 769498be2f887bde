----------------------------- MODULE OrgHandles -----------------------------
(***************************************************************************)
(* The handles of organisations: taken when one is created, changed by a   *)
(* proposal, released by a moderator.  Each holds the lock of the handle   *)
(* it goes for (and its organisation's), looks whether it is free, writes  *)
(* the rows in one transaction and the document after them, and undoes the *)
(* rows when the document cannot be written.                               *)
(*                                                                         *)
(* The handles of users, in the same namespace, are left out: they are     *)
(* looked up in the index of the profiles and share no lock with these.    *)
(***************************************************************************)
EXTENDS Naturals

CONSTANTS Company,      \* organisations, created or not
          Name, NoName,
          DomainNames,  \* company -> the names of its verified registrable domains
          MaxMishaps    \* bound: failing document writes, failing undos and stops

ASSUME NameAssumption == NoName \notin Name /\ DomainNames \in [Company -> SUBSET Name]

VARIABLES
  rowName,   \* organizations.handle, or NoName without a row
  docName,   \* the handle in the document
  kept,      \* reserved_handles: why and for whom, as long as "until" lies ahead
  rename,    \* the request that holds a company's lock
  apart,      \* companies whose row and document differ for a reason named below (history)
  contested, \* names an undo gave back while another request was about them (history)
  mishaps

nameVars == <<rowName, docName, kept, rename, apart, contested, mishaps>>

NotKept == [reason |-> "none", company |-> NoName]
NoRename == [step |-> "idle"]

NameInit ==
  /\ rowName = [c \in Company |-> NoName]
  /\ docName = [c \in Company |-> NoName]
  /\ kept = [n \in Name |-> NotKept]
  /\ rename = [c \in Company |-> NoRename]
  /\ apart = {} /\ contested = {} /\ mishaps = 0

HandleLocked(n) == \E c \in Company : rename[c].step # "idle" /\ rename[c].to = n

Heard(c) == rename' = [rename EXCEPT ![c] = NoRename]

\* orgHandleProblem, its first read.  Archived companies and expired rows are left out.
LookUpHolder(c, n, how) ==
  /\ rename[c].step = "idle" /\ ~HandleLocked(n)
  /\ (how = "CREATED") <=> (rowName[c] = NoName)
  /\ \A d \in Company : rowName[d] # n
  /\ rename' = [rename EXCEPT ![c] =
       [step |-> "unheld", to |-> n, from |-> rowName[c], how |-> how, previous |-> NotKept]]
  /\ UNCHANGED <<rowName, docName, kept, apart, contested, mishaps>>

\* claimsReleased: a released handle may go to the domain that names it
ClaimsReleased(c) ==
  /\ kept[rename[c].to].reason = "RELEASED"
  /\ rename[c].to \in DomainNames[c]

\* a new company has no id yet that a reservation could name
MayHave(c) ==
  \/ kept[rename[c].to] = NotKept
  \/ rename[c].how # "CREATED" /\ (kept[rename[c].to].company = c \/ ClaimsReleased(c))

\* orgHandleProblem, its second read, and the reservation an undo puts back
LookUpReservation(c) ==
  /\ rename[c].step = "unheld"
  /\ IF MayHave(c)
       THEN rename' = [rename EXCEPT ![c].step = "free",
              ![c].previous = IF rename[c].from = NoName THEN NotKept ELSE kept[rename[c].from]]
       ELSE Heard(c)
  /\ UNCHANGED <<rowName, docName, kept, apart, contested, mishaps>>

\* Mutant: the handle is reserved after the document was written.
KeepsNothing(c) == kept

\* a handle changed from is kept for its company, a released one for nobody
Keeps(c) ==
  IF rename[c].how = "CREATED"
    THEN kept
    ELSE [kept EXCEPT ![rename[c].from] =
            [reason |-> rename[c].how, company |-> IF rename[c].how = "CHANGED" THEN c ELSE NoName]]

\* the rows in one transaction; the unique index on the handle has the last word
WriteRows(c) ==
  /\ rename[c].step = "free"
  /\ IF \E d \in Company : rowName[d] = rename[c].to
       THEN Heard(c) /\ UNCHANGED <<rowName, kept>>
       ELSE /\ rowName' = [rowName EXCEPT ![c] = rename[c].to]
            /\ kept' = Keeps(c)
            /\ rename' = [rename EXCEPT ![c].step = "document"]
  /\ UNCHANGED <<docName, apart, contested, mishaps>>

WriteName(c) ==
  /\ rename[c].step = "document"
  /\ docName' = [docName EXCEPT ![c] = rename[c].to]
  /\ apart' = apart \ {c}
  /\ Heard(c)
  /\ UNCHANGED <<rowName, kept, contested, mishaps>>

\* the write fails, or is applied and reported as failed
WriteNameFails(c) ==
  /\ rename[c].step = "document" /\ mishaps < MaxMishaps
  /\ mishaps' = mishaps + 1
  /\ \/ UNCHANGED <<docName, apart>>
     \/ docName' = [docName EXCEPT ![c] = rename[c].to] /\ apart' = apart \cup {c}
  /\ rename' = [rename EXCEPT ![c].step = "undo"]
  /\ UNCHANGED <<rowName, kept, contested>>

\* the old handle and its reservation; the unique index refuses both when it is gone
UndoRows(c) ==
  /\ rename[c].step = "undo"
  /\ Heard(c)
  /\ IF rename[c].from # NoName /\ \E d \in Company : rowName[d] = rename[c].from
       THEN /\ apart' = IF rename[c].how = "RELEASED" \/ rename[c].from \in contested
                         THEN apart \cup {c}
                         ELSE apart
            /\ UNCHANGED <<rowName, kept, contested>>
       ELSE /\ rowName' = [rowName EXCEPT ![c] = rename[c].from]
            /\ kept' = [n \in Name |-> IF n = rename[c].from THEN rename[c].previous ELSE kept[n]]
            /\ contested' = contested \cup
                 {n \in {rename[c].from} : \E d \in Company \ {c} :
                    rename[d].step # "idle" /\ n \in {rename[d].from, rename[d].to}}
            /\ UNCHANGED apart
  /\ UNCHANGED <<docName, mishaps>>

UndoRowsFails(c) ==
  /\ rename[c].step = "undo" /\ mishaps < MaxMishaps
  /\ mishaps' = mishaps + 1
  /\ apart' = apart \cup {c}
  /\ Heard(c)
  /\ UNCHANGED <<rowName, docName, kept, contested>>

\* RELEASE_HANDLE of a company that has its replacement handle already: it is its own holder,
\* so no reservation is looked up, and the row keeps the handle, which is now reserved for
\* nobody.  Under both locks nobody can tell the writes of rows and document apart.
ReleaseOwnHandle(c) ==
  /\ rename[c].step = "idle" /\ rowName[c] # NoName /\ ~HandleLocked(rowName[c])
  /\ LET released == [kept EXCEPT ![rowName[c]] = [reason |-> "RELEASED", company |-> NoName]]
         written == [docName EXCEPT ![c] = rowName[c]]
     IN  \/ /\ kept' = released /\ docName' = written
            /\ apart' = apart \ {c}
            /\ UNCHANGED mishaps
         \/ /\ mishaps < MaxMishaps /\ mishaps' = mishaps + 1
            /\ kept' \in {kept, released} /\ docName' \in {docName, written}
            /\ UNCHANGED apart
  /\ UNCHANGED <<rowName, rename, contested>>

NamesStop ==
  /\ mishaps < MaxMishaps /\ \E c \in Company : rename[c].step # "idle"
  /\ mishaps' = mishaps + 1
  /\ apart' = apart \cup {c \in Company : rename[c].step \in {"document", "undo"}}
  /\ rename' = [c \in Company |-> NoRename]
  /\ UNCHANGED <<rowName, docName, kept, contested>>

\* the 30 days pass, far longer than a request takes
ReservationLapses(n) ==
  /\ kept[n] # NotKept
  /\ \A c \in Company : rename[c].step # "idle" => rename[c].from # n
  /\ kept' = [kept EXCEPT ![n] = NotKept]
  /\ UNCHANGED <<rowName, docName, rename, apart, contested, mishaps>>

NameNext ==
  \/ \E c \in Company :
       \/ \E n \in Name, how \in {"CREATED", "CHANGED", "RELEASED"} : LookUpHolder(c, n, how)
       \/ LookUpReservation(c) \/ WriteRows(c) \/ WriteName(c)
       \/ WriteNameFails(c) \/ UndoRows(c) \/ UndoRowsFails(c)
       \/ ReleaseOwnHandle(c)
  \/ NamesStop
  \/ \E n \in Name : ReservationLapses(n)

NameSpec == NameInit /\ [][NameNext]_nameVars

\* A change of handle whose document cannot be written is undone: the handle changed from
\* "is never free while the document is written", although nobody holds its lock, so the
\* undo gets it back and row and document agree again.  What may leave them apart is a
\* deaf write, a failed undo, a stop, a released handle that its domain's organisation
\* claimed in between, or an undo that gave a handle back in the middle of a request for it.
FailedChangesAreUndone ==
  \A c \in Company : rename[c].step = "idle" /\ c \notin apart => rowName[c] = docName[c]
==============================================================================
