-------------------------- MODULE CredentialLedger --------------------------
(***************************************************************************)
(* The credentials one issuer signed: their documents, the read model a    *)
(* processor builds from them, and the two mutations of renown-auth.  A    *)
(* credential may be stored in several copies, and revoking one revokes    *)
(* its app key: every copy of every credential issued to it that the read  *)
(* model knows.  Documents of other issuers and the profile that a first   *)
(* credential seeds are left out.                                          *)
(***************************************************************************)
EXTENDS Naturals

CONSTANTS AppKey,   \* delegated did:keys
          Login,    \* what tells the credentials of one key apart
          Copy,     \* documents
          Revoker   \* renown_revokeCredential requests under way at a time

LedgerEntry == AppKey \X Login
KeyOf(credential) == credential[1]

VARIABLES
  stored,    \* the copies: the credential, or None
  revoked,   \* copies whose document is revoked
  deleted,   \* copies whose document the processor has deleted
  row,       \* renown_credential: "none", "live" or "revoked"
  seen,      \* how many of a copy's actions (INIT, REVOKE) the processor applied
  revoking,  \* the requests: the copies left to revoke, and those it set out to
  promised   \* the copies of requests that answered true (history)

ledgerVars == <<stored, revoked, deleted, row, seen, revoking, promised>>

None == <<>>
NoRequest == [active |-> FALSE, left |-> {}, all |-> {}]

LedgerInit ==
  /\ stored = [c \in Copy |-> None]
  /\ revoked = {} /\ deleted = {}
  /\ row = [c \in Copy |-> "none"]
  /\ seen = [c \in Copy |-> 0]
  /\ revoking = [r \in Revoker |-> NoRequest]
  /\ promised = {}

Indexed(status) == { c \in Copy : row[c] \in status }

\* renown_issueCredential: answered with the copy the read model knows, revoked or not
IssueCredential(credential, c) ==
  /\ stored[c] = None
  /\ \A d \in Indexed({"live", "revoked"}) : stored[d] # credential
  /\ stored' = [stored EXCEPT ![c] = credential]
  /\ UNCHANGED <<revoked, deleted, row, seen, revoking, promised>>

\* Mutant: only the copies of the credential that was asked for.
OnlyItsOwnCopies(credential) == { c \in Indexed({"live"}) : stored[c] = credential }

\* findCredentialDocs, then findLiveAppKeyDocs
RevocationTargets(credential) ==
  { c \in Indexed({"live"}) : KeyOf(stored[c]) = KeyOf(credential) }

RevokeCredential(r, credential) ==
  /\ ~revoking[r].active
  /\ \E c \in Indexed({"live", "revoked"}) : stored[c] = credential
  /\ LET targets == RevocationTargets(credential)
     IN  revoking' = [revoking EXCEPT ![r] =
                        [active |-> TRUE, left |-> targets,
                         all |-> { c \in Indexed({"live"}) : KeyOf(stored[c]) = KeyOf(credential) }]]
  /\ UNCHANGED <<stored, revoked, deleted, row, seen, promised>>

RevokeNext(r, c) ==
  /\ revoking[r].active /\ c \in revoking[r].left
  /\ c \notin revoked
  /\ revoked' = revoked \cup {c}
  /\ revoking' = [revoking EXCEPT ![r].left = @ \ {c}]
  /\ UNCHANGED <<stored, deleted, row, seen, promised>>

\* the reactor fails, or the document is revoked (ALREADY_REVOKED) or gone: an error answer
RevokeFails(r) ==
  /\ revoking[r].active /\ revoking[r].left # {}
  /\ revoking' = [revoking EXCEPT ![r] = NoRequest]
  /\ UNCHANGED <<stored, revoked, deleted, row, seen, promised>>

RevokeAnswers(r) ==
  /\ revoking[r].active /\ revoking[r].left = {}
  /\ promised' = promised \cup revoking[r].all
  /\ revoking' = [revoking EXCEPT ![r] = NoRequest]
  /\ UNCHANGED <<stored, revoked, deleted, row, seen>>

--------------------------------------------------------------------------------
(* RenownCredentialProcessor: the actions of a copy in order, possibly again.       *)

Actions(c) == IF stored[c] = None THEN 0 ELSE IF c \in revoked THEN 2 ELSE 1

\* an INIT delivered again updates the row but for its revocation
RowAfterInit(status) == IF status = "none" THEN "live" ELSE status

IndexInit(c) ==
  /\ seen[c] = 0 /\ Actions(c) >= 1
  /\ row' = [row EXCEPT ![c] = RowAfterInit(@)]
  /\ seen' = [seen EXCEPT ![c] = 1]
  /\ UNCHANGED <<stored, revoked, deleted, revoking, promised>>

\* the deletion of the document may fail
IndexRevoke(c) ==
  /\ seen[c] = 1 /\ Actions(c) = 2
  /\ row' = [row EXCEPT ![c] = IF @ = "none" THEN @ ELSE "revoked"]
  /\ deleted' \in {deleted, deleted \cup {c}}
  /\ seen' = [seen EXCEPT ![c] = 2]
  /\ UNCHANGED <<stored, revoked, revoking, promised>>

\* a failure later in the batch, or a stop before it is acknowledged
RedeliverCredential(c) ==
  /\ seen[c] # 0
  /\ seen' = [seen EXCEPT ![c] = 0]
  /\ UNCHANGED <<stored, revoked, deleted, row, revoking, promised>>

LedgerNext ==
  \/ \E credential \in LedgerEntry :
       \/ \E c \in Copy : IssueCredential(credential, c)
       \/ \E r \in Revoker : RevokeCredential(r, credential)
  \/ \E r \in Revoker :
       \/ \E c \in Copy : RevokeNext(r, c)
       \/ RevokeFails(r) \/ RevokeAnswers(r)
  \/ \E c \in Copy : IndexInit(c) \/ IndexRevoke(c) \/ RedeliverCredential(c)

LedgerSpec == LedgerInit /\ [][LedgerNext]_ledgerVars

\* Once a revocation is answered with true, every copy that was live for the app key when
\* it was asked is revoked in its document; and whatever is replayed, delivered again or
\* fails beside it, a row that says revoked never says live again, not for a moment.
RevokedForGood ==
  /\ [](promised \subseteq revoked)
  /\ [][\A c \in Copy : row[c] = "revoked" => row'[c] = "revoked"]_ledgerVars
==============================================================================
