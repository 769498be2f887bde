---------------------------- MODULE CategoryIndex ----------------------------
(***************************************************************************)
(* One app's category: in its profile document, in the column the profiles *)
(* are filtered by, and in the cached counts of appProfileCategories.  A   *)
(* save writes the three in that order under the app's lock.  The counts   *)
(* are read by one shared scan at a time, kept for a minute, and dropped   *)
(* with a new generation by every save; the backfill of old profiles takes *)
(* no lock and drops nothing.                                              *)
(***************************************************************************)
EXTENDS Naturals

CONSTANTS Category,    \* categories an app may have
          NoCategory,  \* none, in the document and in the column
          MaxSaves,    \* bound: saves of a behaviour
          Backfilling  \* whether this start has old profiles to work through

VARIABLES
  category,    \* in the profile document
  column,      \* app_profile_documents.category, and how often it was written
  save,        \* the save that holds the app's lock: how far it is
  saves,
  scan,        \* the scan under way: the generation it belongs to, what it has read
  generation,
  cached,      \* the cached counts, with the number of the write they include, or 0
  confirmed,   \* the latest write of the column that an answered save made (history)
  copying      \* what the backfill has read

catVars == <<category, column, save, saves, scan, generation, cached, confirmed, copying>>

NoScan == [generation |-> 0, read |-> 0]

CatInit ==
  /\ category \in Category \cup {NoCategory}
  /\ column = [value |-> IF Backfilling THEN NoCategory ELSE category, writes |-> 1]
  /\ save = "none" /\ saves = 0
  /\ scan = NoScan /\ generation = 1
  /\ cached = 0 /\ confirmed = 1
  /\ copying = IF Backfilling THEN "ahead" ELSE "over"

WriteColumn(c) == column' = [value |-> c, writes |-> column.writes + 1]

\* upsertAppProfile: the document first
SaveDocument(c) ==
  /\ save = "none" /\ saves < MaxSaves
  /\ category' = c
  /\ save' = "document" /\ saves' = saves + 1
  /\ UNCHANGED <<column, scan, generation, cached, confirmed, copying>>

\* setAppCategory, from the document as it is now
SaveColumn ==
  /\ save = "document"
  /\ WriteColumn(category)
  /\ save' = "column"
  /\ UNCHANGED <<category, saves, scan, generation, cached, confirmed, copying>>

\* a failed read or write of the index (SERVICE_UNAVAILABLE), landed or not, or a stop
SaveLost ==
  /\ save \in {"document", "column"}
  /\ save' = "none"
  /\ UNCHANGED <<category, column, saves, scan, generation, cached, confirmed, copying>>

\* Mutant: the cached counts are dropped, but a scan under way may still be kept.
SaveDropsTheCacheOnly ==
  /\ save = "column"
  /\ save' = "none"
  /\ cached' = 0
  /\ confirmed' = column.writes
  /\ UNCHANGED <<category, column, saves, scan, generation, copying>>

SaveReturns ==
  /\ save = "column"
  /\ save' = "none"
  /\ cached' = 0 /\ generation' = generation + 1
  /\ confirmed' = column.writes
  /\ UNCHANGED <<category, column, saves, scan, copying>>

\* appProfileCategories: concurrent requests share one scan, and its generation
AskCategories ==
  /\ cached = 0 /\ scan = NoScan
  /\ scan' = [generation |-> generation, read |-> 0]
  /\ UNCHANGED <<category, column, save, saves, generation, cached, confirmed, copying>>

ScanReads ==
  /\ scan # NoScan /\ scan.read = 0
  /\ scan' = [scan EXCEPT !.read = column.writes]
  /\ UNCHANGED <<category, column, save, saves, generation, cached, confirmed, copying>>

ScanReturns ==
  /\ scan.read # 0
  /\ cached' = IF scan.generation = generation THEN scan.read ELSE cached
  /\ scan' = NoScan
  /\ UNCHANGED <<category, column, save, saves, generation, confirmed, copying>>

ScanFails ==
  /\ scan # NoScan
  /\ scan' = NoScan
  /\ UNCHANGED <<category, column, save, saves, generation, cached, confirmed, copying>>

CacheExpires ==
  /\ cached # 0
  /\ cached' = 0
  /\ UNCHANGED <<category, column, save, saves, scan, generation, confirmed, copying>>

\* backfillAppCategories: the document is read, and its category written later
CopyRead ==
  /\ copying = "ahead"
  /\ copying' \in {category, "failed"}
  /\ UNCHANGED <<category, column, save, saves, scan, generation, cached, confirmed>>

CopyWrite ==
  /\ copying \in Category \cup {NoCategory}
  /\ WriteColumn(copying)
  /\ copying' = "over"
  /\ UNCHANGED <<category, save, saves, scan, generation, cached, confirmed>>

CatNext ==
  \/ \E c \in Category \cup {NoCategory} : SaveDocument(c)
  \/ SaveColumn \/ SaveLost \/ SaveReturns
  \/ AskCategories \/ ScanReads \/ ScanReturns \/ ScanFails \/ CacheExpires
  \/ CopyRead \/ CopyWrite

CatSpec == CatInit /\ [][CatNext]_catVars

\* A category chip is never older than a save whose author was told it is saved: what is
\* cached was read after that save's write, whichever scan was under way at the time.
CachedCountsAreCurrent == cached # 0 => cached >= confirmed
==============================================================================
