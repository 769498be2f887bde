------------------------------ MODULE OidcLogin ------------------------------
(***************************************************************************)
(* One login request of renown-oidc and the codes and tokens that come of  *)
(* it.  The handlers run side by side and keep their state in four tables; *)
(* a code is consumed by a conditional update, the token is written later, *)
(* and a sweep deletes what has expired.  Each code has one token at most; *)
(* it is named by its code.                                                *)
(***************************************************************************)
EXTENDS Naturals

CONSTANTS Code,      \* authorization codes, one for each sign-in of the login request
          Exchange,  \* token requests under way at a time
          LoginTtl, CodeTtl, TokenTtl, \* LOGIN_REQUEST_TTL_MS and so on, in ticks
          CodeRetention,               \* AUTH_CODE_RETENTION_MS, in ticks
          EndOfTime                    \* bound: ticks

ASSUME OidcAssumption ==
  /\ {LoginTtl, CodeTtl, TokenTtl, CodeRetention, EndOfTime} \subseteq Nat
  /\ CodeRetention >= TokenTtl

VARIABLES
  time,
  login,     \* the login request exists
  code,      \* "none", "signing" (verified, not stored yet), "fresh", "used", "gone"
  codeEnds,
  token,     \* "none", "live", "revoked", "gone"
  tokenEnds,
  exchange,  \* the token requests: step, code, the time they read, see Begin
  active,    \* the client is ACTIVE and its organisation live
  eligible,  \* the client lets the subject in
  answered,  \* codes exchanged for a token the client has received (history)
  presented  \* codes presented again afterwards, and refused (history)

oidcVars == <<time, login, code, codeEnds, token, tokenEnds, exchange, active, eligible,
              answered, presented>>

NoExchange == [step |-> "idle"]

OidcInit ==
  /\ time = 0 /\ login = TRUE
  /\ code = [k \in Code |-> "none"] /\ codeEnds = [k \in Code |-> 0]
  /\ token = [k \in Code |-> "none"] /\ tokenEnds = [k \in Code |-> 0]
  /\ exchange = [e \in Exchange |-> NoExchange]
  /\ active = TRUE /\ eligible = TRUE
  /\ answered = {} /\ presented = {}

Expired(ends) == ends <= time

\* complete: the login request is read, the signature and the subject are checked
SignIn(k) ==
  /\ code[k] = "none"
  /\ login /\ ~Expired(LoginTtl) /\ active /\ eligible
  /\ code' = [code EXCEPT ![k] = "signing"]
  /\ UNCHANGED <<time, login, codeEnds, token, tokenEnds, exchange, active, eligible, answered, presented>>

\* the login request is deleted and a code stored, in either order of two sign-ins
IssueCode(k) ==
  /\ code[k] = "signing"
  /\ login' = FALSE
  /\ code' = [code EXCEPT ![k] = "fresh"]
  /\ codeEnds' = [codeEnds EXCEPT ![k] = time + CodeTtl]
  /\ UNCHANGED <<time, token, tokenEnds, exchange, active, eligible, answered, presented>>

\* consumeAuthCode: one update of a code that is not used yet, else a look at the row
ConsumeCode(e, k) ==
  /\ exchange[e].step = "idle" /\ active /\ code[k] \notin {"none", "signing"}
  /\ LET request(step) == [step |-> step, code |-> k, since |-> time, again |-> k \in answered]
     IN  \/ /\ code[k] = "fresh"
            /\ code' = [code EXCEPT ![k] = "used"]
            /\ exchange' = [exchange EXCEPT ![e] = request("mint")]
         \/ /\ code[k] = "used" /\ UNCHANGED code
            /\ exchange' = [exchange EXCEPT ![e] = request("replay")]
         \/ /\ code[k] = "gone" /\ UNCHANGED code
            /\ exchange' = [exchange EXCEPT ![e] = request("refuse")]
  /\ UNCHANGED <<time, login, codeEnds, token, tokenEnds, active, eligible, answered, presented>>

\* revokeAccessTokensForCode
RevokeMinted(e) ==
  /\ exchange[e].step = "replay"
  /\ token' = [token EXCEPT ![exchange[e].code] = IF @ = "live" THEN "revoked" ELSE @]
  /\ exchange' = [exchange EXCEPT ![e].step = "refuse"]
  /\ UNCHANGED <<time, login, code, codeEnds, tokenEnds, active, eligible, answered, presented>>

\* invalid_grant
Refuse(e) ==
  /\ exchange[e].step = "refuse"
  /\ presented' = IF exchange[e].again THEN presented \cup {exchange[e].code} ELSE presented
  /\ exchange' = [exchange EXCEPT ![e] = NoExchange]
  /\ UNCHANGED <<time, login, code, codeEnds, token, tokenEnds, active, eligible, answered>>

\* the code has not expired, and is this client's, with its redirect URI and verifier
MintToken(e) ==
  /\ exchange[e].step = "mint"
  /\ codeEnds[exchange[e].code] > exchange[e].since
  /\ token' = [token EXCEPT ![exchange[e].code] = "live"]
  /\ tokenEnds' = [tokenEnds EXCEPT ![exchange[e].code] = exchange[e].since + TokenTtl]
  /\ exchange' = [exchange EXCEPT ![e].step = "answer"]
  /\ UNCHANGED <<time, login, code, codeEnds, active, eligible, answered, presented>>

Answer(e) ==
  /\ exchange[e].step = "answer"
  /\ answered' = answered \cup {exchange[e].code}
  /\ exchange' = [exchange EXCEPT ![e] = NoExchange]
  /\ UNCHANGED <<time, login, code, codeEnds, token, tokenEnds, active, eligible, presented>>

\* a check of the grant or a write fails, or the process stops: the code stays used
ExchangeFails(e) ==
  /\ exchange[e].step # "idle"
  /\ exchange' = [exchange EXCEPT ![e] = NoExchange]
  /\ UNCHANGED <<time, login, code, codeEnds, token, tokenEnds, active, eligible, answered, presented>>

\* Mutant: a code is deleted once it has expired.
CodeForgottenOnceExpired(k) == code[k] \in {"fresh", "used"} /\ codeEnds[k] < time

\* deleteExpired, table by table
CodeForgotten(k) == code[k] \in {"fresh", "used"} /\ codeEnds[k] + CodeRetention < time

DeleteExpired ==
  /\ \/ /\ login' = (login /\ LoginTtl >= time)
        /\ UNCHANGED <<code, token>>
     \/ /\ code' = [k \in Code |-> IF CodeForgotten(k) THEN "gone" ELSE code[k]]
        /\ UNCHANGED <<login, token>>
     \/ /\ token' = [k \in Code |-> IF token[k] # "none" /\ tokenEnds[k] < time THEN "gone" ELSE token[k]]
        /\ UNCHANGED <<login, code>>
  /\ UNCHANGED <<time, codeEnds, tokenEnds, exchange, active, eligible, answered, presented>>

\* updateClient, or the owning organisation's archive, takedown and restore
SetActive ==
  /\ active' = ~active
  /\ UNCHANGED <<time, login, code, codeEnds, token, tokenEnds, exchange, eligible, answered, presented>>

\* the subject leaves or joins the organisation, or the client's lists change
SetEligible ==
  /\ eligible' = ~eligible
  /\ UNCHANGED <<time, login, code, codeEnds, token, tokenEnds, exchange, active, answered, presented>>

\* a request is answered within a tick
Tick ==
  /\ time < EndOfTime
  /\ \A e \in Exchange : exchange[e].step = "idle"
  /\ time' = time + 1
  /\ UNCHANGED <<login, code, codeEnds, token, tokenEnds, exchange, active, eligible, answered, presented>>

OidcNext ==
  \/ \E k \in Code : SignIn(k) \/ IssueCode(k)
  \/ \E e \in Exchange :
       \/ \E k \in Code : ConsumeCode(e, k)
       \/ RevokeMinted(e) \/ Refuse(e) \/ MintToken(e) \/ Answer(e) \/ ExchangeFails(e)
  \/ DeleteExpired \/ SetActive \/ SetEligible \/ Tick

OidcSpec == OidcInit /\ [][OidcNext]_oidcVars

\* userinfo: the token, its client and the subject's eligibility, as they are now
Honoured(k) == token[k] = "live" /\ ~Expired(tokenEnds[k]) /\ active /\ eligible

\* A code is good for one token: no two exchanges of it get as far as minting, and one
\* presented again after its exchange was answered takes that token with it.  For as long
\* as the token would be honoured the code is remembered, to the last tick of both,
\* whatever the sweep deletes in between.
CodesAreUsedOnce ==
  /\ \A k \in presented : ~Honoured(k)
  /\ \A e, f \in Exchange : {exchange[e].step, exchange[f].step} \subseteq {"mint", "answer"} =>
       /\ ~exchange[e].again
       /\ e # f => exchange[e].code # exchange[f].code
==============================================================================
