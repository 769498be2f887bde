--------------------------- MODULE ProfileHandles ---------------------------
(***************************************************************************)
(* Handles of the persons' profiles.  renown_upsertProfile reserves the    *)
(* handle in this process, looks it up in the read model and dispatches    *)
(* it to the profile document; a processor indexes the documents' actions  *)
(* later, batch by batch, each batch again from its start after an error.  *)
(* Every person's profile document exists and is indexed by its address;   *)
(* its other fields are indexed as the handle is, without the unique index.*)
(***************************************************************************)
EXTENDS Sequences, Naturals

CONSTANTS Person, Handle, NoHandle,
          Upsert,         \* renown_upsertProfile requests under way at a time
          PartlyRefused,  \* whether an action beside the handle's may be refused
          MaxActions      \* bound: actions the processor has yet to acknowledge

ASSUME HandleAssumption == NoHandle \notin Handle

VARIABLES
  upsert,     \* the requests: state, person, handle
  claimed,    \* createHandleClaims: the person a handle is held for, or none
  profileDoc, \* the profile documents
  outbox,     \* the actions the processor has not acknowledged
  batch,      \* how much of it was delivered, and how far the processor is
  profileRow  \* renown_user

handleVars == <<upsert, claimed, profileDoc, outbox, batch, profileRow>>

Nobody == "nobody"
NoUpsert == [state |-> "idle", by |-> Nobody, handle |-> NoHandle]
NoBatch == [size |-> 0, next |-> 1]

HandleInit ==
  /\ upsert = [r \in Upsert |-> NoUpsert]
  /\ claimed = [h \in Handle |-> Nobody]
  /\ profileDoc = [p \in Person |-> NoHandle]
  /\ outbox = <<>> /\ batch = NoBatch
  /\ profileRow = profileDoc

Dispatched == { outbox[i] : i \in DOMAIN outbox }
Unindexed(p) == \E action \in Dispatched : action.of = p

SetHandle(p, h) ==
  /\ Len(outbox) < MaxActions
  /\ outbox' = Append(outbox, [of |-> p, handle |-> h])
  /\ profileDoc' = [profileDoc EXCEPT ![p] = h]

--------------------------------------------------------------------------------
(* renown_upsertProfile.                                                            *)

\* handleClaims.claim: also drops the person's other claims
ReserveHandle(r, p, h) ==
  /\ upsert[r].state = "idle"
  /\ claimed[h] \in {Nobody, p}
  /\ claimed' = [g \in Handle |-> CASE g = h -> p
                                     [] g # h /\ claimed[g] = p -> Nobody
                                     [] OTHER -> claimed[g]]
  /\ upsert' = [upsert EXCEPT ![r] = [state |-> "reserved", by |-> p, handle |-> h]]
  /\ UNCHANGED <<profileDoc, outbox, batch, profileRow>>

\* assertHandleFree
FindHandleFree(r) ==
  /\ upsert[r].state = "reserved"
  /\ \A q \in Person \ {upsert[r].by} : profileRow[q] # upsert[r].handle
  /\ upsert' = [upsert EXCEPT ![r].state = "free"]
  /\ UNCHANGED <<claimed, profileDoc, outbox, batch, profileRow>>

DispatchHandle(r) ==
  /\ upsert[r].state = "free"
  /\ SetHandle(upsert[r].by, upsert[r].handle)
  /\ upsert' = [upsert EXCEPT ![r] = NoUpsert]
  /\ UNCHANGED <<claimed, batch, profileRow>>

Released(r) ==
  [claimed EXCEPT ![upsert[r].handle] = IF @ = upsert[r].by THEN Nobody ELSE @]

\* the handle is another profile's or an organisation's, the avatar is no image, a read
\* or the dispatch fails
UpsertFails(r) ==
  /\ upsert[r].state \in {"reserved", "free"}
  /\ claimed' = Released(r)
  /\ upsert' = [upsert EXCEPT ![r] = NoUpsert]
  /\ UNCHANGED <<profileDoc, outbox, batch, profileRow>>

\* the handle is set, but another action of the same request is refused
UpsertFailsLate(r) ==
  /\ PartlyRefused
  /\ upsert[r].state = "free"
  /\ SetHandle(upsert[r].by, upsert[r].handle)
  /\ claimed' = Released(r)
  /\ upsert' = [upsert EXCEPT ![r] = NoUpsert]
  /\ UNCHANGED <<batch, profileRow>>

\* an upsert that gives the handle up claims nothing
GiveUpHandle(p) ==
  /\ SetHandle(p, NoHandle)
  /\ UNCHANGED <<upsert, claimed, batch, profileRow>>

\* HANDLE_CLAIM_TTL_MS: longer than a request or the index takes
ClaimExpires(h) ==
  /\ claimed[h] # Nobody
  /\ ~Unindexed(claimed[h])
  /\ \A r \in Upsert : upsert[r].state \in {"reserved", "free"} => upsert[r].handle # h
  /\ claimed' = [claimed EXCEPT ![h] = Nobody]
  /\ UNCHANGED <<upsert, profileDoc, outbox, batch, profileRow>>

--------------------------------------------------------------------------------
(* RenownUserProcessor.onOperations.                                                *)

DeliverBatch ==
  /\ batch = NoBatch
  /\ \E size \in 1..Len(outbox) : batch' = [size |-> size, next |-> 1]
  /\ UNCHANGED <<upsert, claimed, profileDoc, outbox, profileRow>>

\* setHandle: the unique index refuses a handle another row holds; it is then cleared
IndexedHandle(p, h) ==
  IF h # NoHandle /\ \E q \in Person \ {p} : profileRow[q] = h THEN NoHandle ELSE h

ApplyOperation ==
  /\ batch.next <= batch.size
  /\ LET action == outbox[batch.next]
     IN  profileRow' = [profileRow EXCEPT ![action.of] = IndexedHandle(action.of, action.handle)]
  /\ batch' = [batch EXCEPT !.next = @ + 1]
  /\ UNCHANGED <<upsert, claimed, profileDoc, outbox>>

\* Mutant: every error is skipped like a data exception.
SkipOnError ==
  /\ batch.next <= batch.size
  /\ batch' = [batch EXCEPT !.next = @ + 1]
  /\ UNCHANGED <<upsert, claimed, profileDoc, outbox, profileRow>>

\* any other error, or a stop before the acknowledgement: delivered again from the start
RetryBatch ==
  /\ batch # NoBatch
  /\ batch' = [batch EXCEPT !.next = 1]
  /\ UNCHANGED <<upsert, claimed, profileDoc, outbox, profileRow>>

AcknowledgeBatch ==
  /\ batch # NoBatch /\ batch.next > batch.size
  /\ outbox' = SubSeq(outbox, batch.size + 1, Len(outbox))
  /\ batch' = NoBatch
  /\ UNCHANGED <<upsert, claimed, profileDoc, profileRow>>

HandleNext ==
  \/ \E r \in Upsert :
       \/ \E p \in Person, h \in Handle : ReserveHandle(r, p, h)
       \/ FindHandleFree(r) \/ DispatchHandle(r) \/ UpsertFails(r) \/ UpsertFailsLate(r)
  \/ \E p \in Person : GiveUpHandle(p)
  \/ \E h \in Handle : ClaimExpires(h)
  \/ DeliverBatch \/ ApplyOperation \/ RetryBatch \/ AcknowledgeBatch

HandleSpec == HandleInit /\ [][HandleNext]_handleVars

--------------------------------------------------------------------------------
(* Properties.                                                                      *)

\* However often a batch is delivered again, wherever it broke off, and whoever else's
\* handles it moved: once all of a profile's actions are indexed, its row has the
\* document's handle or none, never one the profile has given up.
RowFollowsProfile ==
  \A p \in Person : ~Unindexed(p) => profileRow[p] \in {NoHandle, profileDoc[p]}

\* What the reservations are for ("without it, two upserts a few milliseconds apart could
\* both see a handle as free"): within one process no two profiles are given one handle.
OneProfilePerHandle ==
  \A p, q \in Person : p # q /\ profileDoc[p] # NoHandle =>
    profileDoc[p] # profileDoc[q]
==============================================================================
