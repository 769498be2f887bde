-------------------------- MODULE OidcLogin_proofs --------------------------
(***************************************************************************)
(* One code, one token: for any number of codes, token requests and ticks, *)
(* and any times to live for which codes are kept as long as tokens count. *)
(***************************************************************************)
EXTENDS OidcLogin, TLAPS

Steps == {"mint", "answer", "replay", "refuse"}

OidcTyped ==
  /\ time \in Nat
  /\ code \in [Code -> {"none", "signing", "fresh", "used", "gone"}]
  /\ token \in [Code -> {"none", "live", "revoked", "gone"}]
  /\ codeEnds \in [Code -> Nat] /\ tokenEnds \in [Code -> Nat]
  /\ exchange \in [Exchange -> {NoExchange} \cup
                    [step : Steps, code : Code, since : {time}, again : BOOLEAN]]
  /\ answered \subseteq Code /\ presented \subseteq answered

Minting(e) == exchange[e].step \in {"mint", "answer"}

Spent(k) == code[k] \in {"used", "gone"}

Ended(k) == token[k] # "live" \/ tokenEnds[k] <= time

\* A code is consumed once: the request that consumed it is the only one to mint, and
\* whoever was answered was that request.
Consumed ==
  /\ \A e \in Exchange : Minting(e) => Spent(exchange[e].code) /\ ~exchange[e].again
                                         /\ exchange[e].code \notin answered
  /\ \A e, f \in Exchange : Minting(e) /\ Minting(f) /\ exchange[e].code = exchange[f].code => e = f
  /\ \A k \in answered : Spent(k)

\* The token of a code ends before the code is forgotten.
Outlived ==
  /\ \A k \in Code : token[k] # "none" => Spent(k) /\ tokenEnds[k] < codeEnds[k] + TokenTtl
  /\ \A k \in Code : code[k] = "gone" => codeEnds[k] + CodeRetention < time

\* A code that came back takes its token with it, for good.
Returned ==
  /\ \A e \in Exchange : exchange[e].step \in {"replay", "refuse"} /\ exchange[e].again
                           => exchange[e].code \in answered
  /\ \A e \in Exchange : exchange[e].step = "refuse" /\ exchange[e].again => Ended(exchange[e].code)
  /\ \A k \in presented : Ended(k)

OidcInv == OidcTyped /\ Consumed /\ Outlived /\ Returned

LEMMA InvHoldsAtFirst == OidcInit => OidcInv
BY OidcAssumption DEF OidcInit, OidcInv, OidcTyped, Consumed, Outlived, Returned, Minting, Spent,
      Ended, NoExchange

\* Storing a code, and the steps before.
LEMMA SigningKeeps ==
  ASSUME OidcInv, NEW k \in Code, SignIn(k) \/ IssueCode(k)
  PROVE  OidcInv'
<1> USE OidcAssumption DEF OidcInv, OidcTyped, Minting, Spent, Ended, NoExchange, Steps
<1>1. CASE SignIn(k)
  BY <1>1 DEF SignIn, Consumed, Outlived, Returned
<1>2. CASE IssueCode(k)
  <2>1. OidcTyped'
    BY <1>2 DEF IssueCode
  <2>2. Consumed'
    BY <1>2 DEF IssueCode, Consumed
  <2>3. Outlived'
    BY <1>2 DEF IssueCode, Outlived
  <2>4. Returned'
    BY <1>2 DEF IssueCode, Returned
  <2> QED
    BY <2>1, <2>2, <2>3, <2>4
<1> QED
  BY <1>1, <1>2

\* consumeAuthCode decides who may mint.
LEMMA ConsumingKeeps ==
  ASSUME OidcInv, NEW e \in Exchange, NEW k \in Code, ConsumeCode(e, k)
  PROVE  OidcInv'
<1> USE OidcAssumption DEF OidcInv, OidcTyped, Minting, Spent, Ended, NoExchange, Steps
<1> DEFINE request(step) == [step |-> step, code |-> k, since |-> time, again |-> k \in answered]
<1>0. UNCHANGED <<time, codeEnds, token, tokenEnds, answered, presented>>
  BY DEF ConsumeCode
<1>1. CASE /\ code[k] = "fresh" /\ code' = [code EXCEPT ![k] = "used"]
           /\ exchange' = [exchange EXCEPT ![e] = request("mint")]
  <2>1. k \notin answered /\ \A f \in Exchange : Minting(f) => exchange[f].code # k
    BY <1>1 DEF Consumed
  <2>2. OidcTyped'
    BY <1>0, <1>1
  <2>3. Consumed'
    <3>1. \A f \in Exchange : exchange'[f] = IF f = e THEN request("mint") ELSE exchange[f]
      BY <1>1
    <3>2. \A c \in Code : code'[c] = IF c = k THEN "used" ELSE code[c]
      BY <1>1
    <3>3. request("mint").code = k /\ ~request("mint").again
      BY <2>1
    <3> HIDE DEF request
    <3>4. \A f \in Exchange : Minting(f)' =>
            Spent(exchange[f].code)' /\ ~exchange'[f].again /\ exchange'[f].code \notin answered'
      BY <1>0, <2>1, <3>1, <3>2, <3>3 DEF Consumed
    <3>5. \A f, g \in Exchange :
            Minting(f)' /\ Minting(g)' /\ exchange'[f].code = exchange'[g].code => f = g
      BY <2>1, <3>1, <3>3 DEF Consumed
    <3>6. \A c \in answered' : Spent(c)'
      BY <1>0, <2>1, <3>2 DEF Consumed
    <3> QED
      BY <3>4, <3>5, <3>6 DEF Consumed
  <2>4. Outlived'
    BY <1>0, <1>1, <2>1 DEF Outlived
  <2>5. Returned'
    BY <1>0, <1>1, <2>1 DEF Returned
  <2> QED
    BY <2>2, <2>3, <2>4, <2>5
<1>2. CASE /\ code[k] = "used" /\ UNCHANGED code
           /\ exchange' = [exchange EXCEPT ![e] = request("replay")]
  <2>1. OidcTyped'
    BY <1>0, <1>2
  <2>2. Consumed'
    BY <1>0, <1>2 DEF Consumed
  <2>3. Outlived' /\ Returned'
    BY <1>0, <1>2 DEF Outlived, Returned
  <2> QED
    BY <2>1, <2>2, <2>3
<1>3. CASE /\ code[k] = "gone" /\ UNCHANGED code
           /\ exchange' = [exchange EXCEPT ![e] = request("refuse")]
  <2>1. OidcTyped'
    BY <1>0, <1>3
  <2>2. Consumed'
    BY <1>0, <1>3 DEF Consumed
  <2>3. Ended(k)
    BY <1>3 DEF Outlived
  <2>4. Outlived' /\ Returned'
    BY <1>0, <1>3, <2>3 DEF Outlived, Returned
  <2> QED
    BY <2>1, <2>2, <2>4
<1> QED
  BY <1>1, <1>2, <1>3 DEF ConsumeCode

\* The rest of a token request.
LEMMA ExchangeKeeps ==
  ASSUME OidcInv, NEW e \in Exchange,
         RevokeMinted(e) \/ Refuse(e) \/ MintToken(e) \/ Answer(e) \/ ExchangeFails(e)
  PROVE  OidcInv'
<1> USE OidcAssumption DEF OidcInv, OidcTyped, Minting, Spent, Ended, NoExchange, Steps
<1>1. CASE RevokeMinted(e)
  <2>1. OidcTyped'
    BY <1>1 DEF RevokeMinted
  <2>2. Consumed'
    BY <1>1 DEF RevokeMinted, Consumed
  <2>3. Outlived' /\ Returned'
    BY <1>1 DEF RevokeMinted, Outlived, Returned
  <2> QED
    BY <2>1, <2>2, <2>3
<1>2. CASE Refuse(e)
  <2>1. OidcTyped'
    BY <1>2 DEF Refuse, Returned
  <2>2. Consumed'
    BY <1>2 DEF Refuse, Consumed
  <2>3. Outlived' /\ Returned'
    BY <1>2 DEF Refuse, Outlived, Returned
  <2> QED
    BY <2>1, <2>2, <2>3
<1>3. CASE MintToken(e)
  <2>1. exchange[e].since = time /\ exchange[e].code \in Code /\ Spent(exchange[e].code)
          /\ exchange[e].code \notin answered
    BY <1>3 DEF MintToken, Consumed
  <2>2. code[exchange[e].code] # "gone"
    BY <1>3, <2>1 DEF MintToken, Outlived
  <2>3. OidcTyped'
    BY <1>3, <2>1 DEF MintToken
  <2>4. Consumed'
    BY <1>3 DEF MintToken, Consumed
  <2>5. Outlived'
    BY <1>3, <2>1, <2>2 DEF MintToken, Outlived
  <2>6. Returned'
    BY <1>3, <2>1 DEF MintToken, Returned
  <2> QED
    BY <2>3, <2>4, <2>5, <2>6
<1>4. CASE Answer(e)
  <2>1. OidcTyped'
    BY <1>4 DEF Answer
  <2>2. Consumed'
    BY <1>4 DEF Answer, Consumed
  <2>3. Outlived' /\ Returned'
    BY <1>4 DEF Answer, Outlived, Returned
  <2> QED
    BY <2>1, <2>2, <2>3
<1>5. CASE ExchangeFails(e)
  <2>1. OidcTyped'
    BY <1>5 DEF ExchangeFails
  <2>2. Consumed'
    BY <1>5 DEF ExchangeFails, Consumed
  <2>3. Outlived' /\ Returned'
    BY <1>5 DEF ExchangeFails, Outlived, Returned
  <2> QED
    BY <2>1, <2>2, <2>3
<1> QED
  BY <1>1, <1>2, <1>3, <1>4, <1>5

\* The sweep, the clock, and what clients and subjects become.
LEMMA SurroundingsKeep ==
  ASSUME OidcInv, DeleteExpired \/ SetActive \/ SetEligible \/ Tick \/ UNCHANGED oidcVars
  PROVE  OidcInv'
<1> USE OidcAssumption DEF OidcInv, OidcTyped, Minting, Spent, Ended, NoExchange, Steps
<1>1. CASE DeleteExpired
  <2>1. OidcTyped'
    BY <1>1 DEF DeleteExpired
  <2>2. Consumed'
    BY <1>1 DEF DeleteExpired, Consumed, CodeForgotten
  <2>3. Outlived'
    BY <1>1 DEF DeleteExpired, Outlived, CodeForgotten
  <2>4. Returned'
    BY <1>1 DEF DeleteExpired, Returned
  <2> QED
    BY <2>1, <2>2, <2>3, <2>4
<1>2. CASE SetActive \/ SetEligible \/ UNCHANGED oidcVars
  BY <1>2 DEF SetActive, SetEligible, oidcVars, Consumed, Outlived, Returned
<1>3. CASE Tick
  <2>1. exchange' = exchange /\ \A e \in Exchange : exchange[e] = NoExchange
    BY <1>3 DEF Tick
  <2>2. OidcTyped'
    BY <1>3, <2>1 DEF Tick
  <2>3. Consumed' /\ Outlived' /\ Returned'
    BY <1>3, <2>1 DEF Tick, Consumed, Outlived, Returned
  <2> QED
    BY <2>2, <2>3
<1> QED
  BY <1>1, <1>2, <1>3

\* CodesAreUsedOnce: a code buys one token at most, and one that is presented again after
\* it was exchanged leaves no token that userinfo would honour, for any times to live.
THEOREM OneTokenPerCode == OidcSpec => []CodesAreUsedOnce
<1>1. OidcInv /\ [OidcNext]_oidcVars => OidcInv'
  BY SigningKeeps, ConsumingKeeps, ExchangeKeeps, SurroundingsKeep DEF OidcNext
<1>2. OidcInv => CodesAreUsedOnce
  BY DEF OidcInv, OidcTyped, Consumed, Returned, Minting, Ended, CodesAreUsedOnce, Honoured, Expired
<1> QED
  BY InvHoldsAtFirst, <1>1, <1>2, PTL DEF OidcSpec
==============================================================================
