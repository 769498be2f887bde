-------------------------- MODULE KeyedLock_proofs --------------------------
(***************************************************************************)
(* The keyed lock for any number of calls and keys: types, mutual          *)
(* exclusion, that it implements the fair mutex and that it forgets the    *)
(* keys nobody uses; and the handlers on top of it, which never wait for   *)
(* each other in a circle.                                                 *)
(***************************************************************************)
EXTENDS LockOrder, TLAPS

(***************************************************************************)
(* Mutual exclusion is not inductive: it rests on what the chain of        *)
(* promises looks like.  Made(c) are the calls of c's key made before it.  *)
(***************************************************************************)
Earlier(d, c) == keyOf[d] = keyOf[c] /\ arrived[d] < arrived[c]

\* Every call that was made has a key of its own, an arrival number of its own.
Numbered ==
  /\ \A c \in Call : stage[c] = "idle" <=> keyOf[c] = NoKey
  /\ \A c \in Call : stage[c] # "idle" => arrived[c] < arrivals
  /\ \A c, d \in Call :
       stage[c] # "idle" /\ stage[d] # "idle" /\ arrived[c] = arrived[d] => c = d

\* A call that got past its wait has every earlier call of its key behind it.
Ordered ==
  \A c, d \in Call :
    stage[c] \in {"running", "settled", "returned"} /\ Earlier(d, c) => HasSettled(d)

\* The call it waits for is the last one made before it; there is none only if all of
\* those have settled.
Chained ==
  \A c \in Call : stage[c] # "idle" =>
    IF previous[c] = NoCall
      THEN \A d \in Call : Earlier(d, c) => HasSettled(d)
      ELSE /\ Earlier(previous[c], c)
           /\ \A d \in Call : Earlier(d, c) => d = previous[c] \/ Earlier(d, previous[c])

\* The tail of a key is the last call made with it; a key without a tail has only
\* settled calls.
Tailed ==
  \A k \in Key :
    IF tails[k] = NoCall
      THEN \A c \in Call : keyOf[c] = k => HasSettled(c)
      ELSE /\ keyOf[tails[k]] = k
           /\ \A c \in Call : keyOf[c] = k => c = tails[k] \/ Earlier(c, tails[k])

LockInv == LockTypeOK /\ Numbered /\ Ordered /\ Chained /\ Tailed

\* The variables always hold what the map and the promises can hold.
THEOREM LockTypeCorrect == LockSpec => []LockTypeOK
<1>1. LockInit => LockTypeOK
  BY DEF LockInit, LockTypeOK
<1>2. LockTypeOK /\ [LockNext]_lockVars => LockTypeOK'
  <2> SUFFICES ASSUME LockTypeOK, [LockNext]_lockVars
               PROVE  LockTypeOK'
    OBVIOUS
  <2>1. ASSUME NEW c \in Call, NEW k \in Key, Acquire(c, k)
        PROVE  LockTypeOK'
    BY <2>1 DEF LockTypeOK, Acquire
  <2>2. ASSUME NEW c \in Call, Run(c)
        PROVE  LockTypeOK'
    BY <2>2 DEF LockTypeOK, Run
  <2>3. ASSUME NEW c \in Call, Settle(c)
        PROVE  LockTypeOK'
    BY <2>3 DEF LockTypeOK, Settle
  <2>4. ASSUME NEW c \in Call, Return(c)
        PROVE  LockTypeOK'
    BY <2>4 DEF LockTypeOK, Return
  <2>5. CASE UNCHANGED lockVars
    BY <2>5 DEF LockTypeOK, lockVars
  <2> QED
    BY <2>1, <2>2, <2>3, <2>4, <2>5 DEF LockNext
<1> QED
  BY <1>1, <1>2, PTL DEF LockSpec

\* The chain invariant holds initially: no call was made.
LEMMA LockInvInit == LockInit => LockInv
<1> SUFFICES ASSUME LockInit PROVE LockInv
  OBVIOUS
<1> USE LockAssumption DEF LockInit
<1>1. LockTypeOK
  BY DEF LockTypeOK
<1>2. Numbered
  BY DEF Numbered
<1>3. Ordered
  BY DEF Ordered
<1>4. Chained
  BY DEF Chained
<1>5. Tailed
  BY DEF Tailed
<1> QED
  BY <1>1, <1>2, <1>3, <1>4, <1>5 DEF LockInv

\* A new call becomes the tail of its key and waits for the one before.
LEMMA AcquireKeeps ==
  ASSUME LockInv, NEW c \in Call, NEW k \in Key, Acquire(c, k)
  PROVE  LockInv'
<1> USE LockAssumption DEF LockInv
<1>1. LockTypeOK'
  BY DEF LockTypeOK, Acquire
<1>2. Numbered'
  BY DEF LockTypeOK, Acquire, Numbered
<1>a. /\ stage[c] = "idle" /\ keyOf[c] = NoKey /\ k # NoKey
      /\ keyOf' = [keyOf EXCEPT ![c] = k]
      /\ arrived' = [arrived EXCEPT ![c] = arrivals]
      /\ stage' = [stage EXCEPT ![c] = "waiting"]
  BY DEF Acquire, Numbered
<1>b. \A d, e \in Call : e # c => (Earlier(d, e)' <=> d # c /\ Earlier(d, e))
  <2> SUFFICES ASSUME NEW d \in Call, NEW e \in Call, e # c
               PROVE  Earlier(d, e)' <=> d # c /\ Earlier(d, e)
    OBVIOUS
  <2>1. CASE d # c
    BY <1>a, <2>1 DEF LockTypeOK, Earlier
  <2>2. CASE d = c
    <3>1. ~Earlier(d, e)'
      <4> SUFFICES ASSUME keyOf'[c] = keyOf'[e] PROVE ~(arrived'[c] < arrived'[e])
        BY <2>2 DEF Earlier
      <4>1. keyOf[e] = k
        BY <1>a DEF LockTypeOK
      <4>2. stage[e] # "idle"
        BY <1>a, <4>1 DEF Numbered
      <4>3. arrived[e] < arrivals
        BY <4>2 DEF Numbered
      <4> QED
        BY <1>a, <4>3 DEF LockTypeOK
    <3> QED
      BY <2>2, <3>1
  <2> QED
    BY <2>1, <2>2
<1>c. \A d \in Call : Earlier(d, c)' <=> keyOf[d] = k
  <2> SUFFICES ASSUME NEW d \in Call
               PROVE  Earlier(d, c)' <=> keyOf[d] = k
    OBVIOUS
  <2>1. CASE d = c
    BY <1>a, <2>1 DEF LockTypeOK, Earlier
  <2>2. CASE d # c
    <3>1. keyOf[d] = k => arrived[d] < arrivals
      BY <1>a DEF Numbered
    <3> QED
      BY <1>a, <2>2, <3>1 DEF LockTypeOK, Earlier
  <2> QED
    BY <2>1, <2>2
<1>d. \A d \in Call : d # c => (HasSettled(d)' <=> HasSettled(d))
  BY <1>a DEF LockTypeOK, HasSettled
<1>e. ~HasSettled(c)
  BY <1>a DEF HasSettled
<1>3. Ordered'
  BY <1>a, <1>b, <1>d DEF Ordered, LockTypeOK
<1>4. Chained'
  <2> SUFFICES ASSUME NEW e \in Call, stage'[e] # "idle"
               PROVE  (IF previous[e] = NoCall
                         THEN \A d \in Call : Earlier(d, e) => HasSettled(d)
                         ELSE /\ Earlier(previous[e], e)
                              /\ \A d \in Call : Earlier(d, e)
                                   => d = previous[e] \/ Earlier(d, previous[e]))'
    BY DEF Chained
  <2>1. CASE e # c
    <3>1. stage[e] # "idle" /\ previous'[e] = previous[e]
      BY <2>1, <1>a DEF Acquire, LockTypeOK
    <3>2. CASE previous[e] = NoCall
      BY <2>1, <3>1, <3>2, <1>b, <1>d DEF Chained
    <3>3. CASE previous[e] # NoCall
      <4>1. previous[e] \in Call /\ Earlier(previous[e], e) /\ previous[e] # c
        BY <3>1, <3>3, <1>a DEF Chained, LockTypeOK, Earlier, Numbered
      <4> QED
        BY <2>1, <3>1, <3>3, <4>1, <1>b DEF Chained
    <3> QED
      BY <3>2, <3>3
  <2>2. CASE e = c
    <3>1. previous'[c] = tails[k]
      BY DEF Acquire, LockTypeOK
    <3>2. CASE tails[k] = NoCall
      BY <2>2, <3>1, <3>2, <1>a, <1>c, <1>d DEF Tailed
    <3>3. CASE tails[k] # NoCall
      <4>1. tails[k] \in Call /\ keyOf[tails[k]] = k /\ tails[k] # c
        BY <3>3, <1>a DEF Tailed, LockTypeOK
      <4>2. \A d \in Call : keyOf[d] = k => d = tails[k] \/ (d # c /\ Earlier(d, tails[k]))
        BY <3>3, <1>a DEF Tailed
      <4> QED
        BY <2>2, <3>1, <3>3, <4>1, <4>2, <1>b, <1>c
    <3> QED
      BY <3>2, <3>3
  <2> QED
    BY <2>1, <2>2
<1>5. Tailed'
  <2> SUFFICES ASSUME NEW j \in Key
               PROVE  (IF tails[j] = NoCall
                         THEN \A d \in Call : keyOf[d] = j => HasSettled(d)
                         ELSE /\ keyOf[tails[j]] = j
                              /\ \A d \in Call : keyOf[d] = j
                                   => d = tails[j] \/ Earlier(d, tails[j]))'
    BY DEF Tailed
  <2>1. CASE j = k
    <3>1. tails'[j] = c /\ c # NoCall
      BY <2>1 DEF Acquire, LockTypeOK
    <3> QED
      BY <2>1, <3>1, <1>a, <1>c DEF LockTypeOK
  <2>2. CASE j # k
    <3>1. tails'[j] = tails[j]
      BY <2>2 DEF Acquire, LockTypeOK
    <3>2. \A d \in Call : keyOf'[d] = j <=> d # c /\ keyOf[d] = j
      BY <2>2, <1>a DEF LockTypeOK
    <3>3. CASE tails[j] = NoCall
      BY <3>1, <3>2, <3>3, <1>d DEF Tailed
    <3>4. CASE tails[j] # NoCall
      <4>1. tails[j] \in Call /\ keyOf[tails[j]] = j /\ tails[j] # c
        BY <3>4, <1>a DEF Tailed, LockTypeOK
      <4> QED
        BY <3>1, <3>2, <3>4, <4>1, <1>b DEF Tailed
    <3> QED
      BY <3>3, <3>4
  <2> QED
    BY <2>1, <2>2
<1> QED
  BY <1>1, <1>2, <1>3, <1>4, <1>5

\* A call runs once the one before it has settled, and then all earlier ones have.
LEMMA RunKeeps ==
  ASSUME LockInv, NEW c \in Call, Run(c)
  PROVE  LockInv'
<1> USE LockAssumption DEF LockInv
<1>1. LockTypeOK'
  BY DEF LockTypeOK, Run
<1>a. /\ stage[c] = "waiting"
      /\ stage' = [stage EXCEPT ![c] = "running"]
      /\ UNCHANGED <<keyOf, previous, tails, arrived, arrivals>>
  BY DEF Run
<1>b. \A d \in Call : HasSettled(d)' <=> HasSettled(d)
  BY <1>a DEF LockTypeOK, HasSettled
<1>c. \A d, e \in Call : Earlier(d, e)' <=> Earlier(d, e)
  BY <1>a DEF Earlier
<1>2. Numbered'
  BY <1>a DEF LockTypeOK, Numbered
<1>3. Ordered'
  <2>1. \A d \in Call : Earlier(d, c) => HasSettled(d)
    <3>1. CASE previous[c] = NoCall
      BY <3>1, <1>a DEF Chained
    <3>2. CASE previous[c] # NoCall
      <4>1. previous[c] \in Call /\ HasSettled(previous[c])
        BY <3>2 DEF Run, LockTypeOK
      <4>2. \A d \in Call : Earlier(d, previous[c]) => HasSettled(d)
        BY <4>1 DEF Ordered, HasSettled
      <4> QED
        BY <3>2, <4>1, <4>2, <1>a DEF Chained
    <3> QED
      BY <3>1, <3>2
  <2> QED
    BY <2>1, <1>a, <1>b, <1>c DEF Ordered, LockTypeOK
<1>4. Chained'
  <2>1. \A d \in Call : stage'[d] # "idle" => stage[d] # "idle"
    BY <1>a DEF LockTypeOK
  <2> QED
    BY <2>1, <1>a, <1>b, <1>c DEF Chained, LockTypeOK
<1>5. Tailed'
  BY <1>a, <1>b, <1>c DEF Tailed, LockTypeOK
<1> QED
  BY <1>1, <1>2, <1>3, <1>4, <1>5

\* Settling only adds to the settled calls.
LEMMA SettleKeeps ==
  ASSUME LockInv, NEW c \in Call, Settle(c)
  PROVE  LockInv'
<1> USE LockAssumption DEF LockInv
<1>1. LockTypeOK'
  BY DEF LockTypeOK, Settle
<1>a. /\ stage[c] = "running"
      /\ stage' = [stage EXCEPT ![c] = "settled"]
      /\ UNCHANGED <<keyOf, previous, tails, arrived, arrivals>>
  BY DEF Settle
<1>b. \A d \in Call : HasSettled(d) => HasSettled(d)'
  BY <1>a DEF LockTypeOK, HasSettled
<1>c. \A d, e \in Call : Earlier(d, e)' <=> Earlier(d, e)
  BY <1>a DEF Earlier
<1>2. Numbered'
  BY <1>a DEF LockTypeOK, Numbered
<1>3. Ordered'
  BY <1>a, <1>b, <1>c DEF Ordered, LockTypeOK
<1>4. Chained'
  <2>1. \A d \in Call : stage'[d] # "idle" => stage[d] # "idle"
    BY <1>a DEF LockTypeOK
  <2> QED
    BY <2>1, <1>a, <1>b, <1>c DEF Chained, LockTypeOK
<1>5. Tailed'
  BY <1>a, <1>b, <1>c DEF Tailed, LockTypeOK
<1> QED
  BY <1>1, <1>2, <1>3, <1>4, <1>5

\* A key is dropped only by the last call made with it.
LEMMA ReturnKeeps ==
  ASSUME LockInv, NEW c \in Call, Return(c)
  PROVE  LockInv'
<1> USE LockAssumption DEF LockInv
<1>1. LockTypeOK'
  BY DEF LockTypeOK, Return
<1>a. /\ stage[c] = "settled"
      /\ stage' = [stage EXCEPT ![c] = "returned"]
      /\ tails' = [tails EXCEPT ![keyOf[c]] = IF @ = c THEN NoCall ELSE @]
      /\ UNCHANGED <<keyOf, previous, arrived, arrivals>>
  BY DEF Return
<1>b. \A d \in Call : HasSettled(d)' <=> HasSettled(d)
  BY <1>a DEF LockTypeOK, HasSettled
<1>c. \A d, e \in Call : Earlier(d, e)' <=> Earlier(d, e)
  BY <1>a DEF Earlier
<1>2. Numbered'
  BY <1>a DEF LockTypeOK, Numbered
<1>3. Ordered'
  BY <1>a, <1>b, <1>c DEF Ordered, LockTypeOK
<1>4. Chained'
  <2>1. \A d \in Call : stage'[d] # "idle" => stage[d] # "idle"
    BY <1>a DEF LockTypeOK
  <2> QED
    BY <2>1, <1>a, <1>b, <1>c DEF Chained, LockTypeOK
<1>5. Tailed'
  <2> SUFFICES ASSUME NEW k \in Key
               PROVE  (IF tails[k] = NoCall
                         THEN \A d \in Call : keyOf[d] = k => HasSettled(d)
                         ELSE /\ keyOf[tails[k]] = k
                              /\ \A d \in Call : keyOf[d] = k
                                   => d = tails[k] \/ Earlier(d, tails[k]))'
    BY DEF Tailed
  <2>1. CASE keyOf[c] = k /\ tails[k] = c
    <3>1. tails'[k] = NoCall
      BY <2>1, <1>a DEF LockTypeOK
    <3>2. \A d \in Call : keyOf[d] = k => d = c \/ Earlier(d, c)
      BY <2>1 DEF Tailed
    <3>3. \A d \in Call : keyOf[d] = k => HasSettled(d)
      BY <3>2, <1>a DEF Ordered, HasSettled
    <3> QED
      BY <3>1, <3>3, <1>a, <1>b
  <2>2. CASE ~(keyOf[c] = k /\ tails[k] = c)
    <3>1. tails'[k] = tails[k]
      BY <2>2, <1>a DEF LockTypeOK
    <3> QED
      BY <3>1, <1>a, <1>b, <1>c DEF Tailed, LockTypeOK
  <2> QED
    BY <2>1, <2>2
<1> QED
  BY <1>1, <1>2, <1>3, <1>4, <1>5

\* Every step of the lock keeps the chain as it was described.
LEMMA LockInvKept == LockInv /\ [LockNext]_lockVars => LockInv'
<1> SUFFICES ASSUME LockInv, [LockNext]_lockVars
             PROVE  LockInv'
  OBVIOUS
<1>1. CASE LockNext
  BY <1>1, AcquireKeeps, RunKeeps, SettleKeeps, ReturnKeeps DEF LockNext
<1>2. CASE UNCHANGED lockVars
  BY <1>2 DEF lockVars, LockInv, LockTypeOK, Numbered, Ordered, Chained, Tailed,
              Earlier, HasSettled
<1> QED
  BY <1>1, <1>2

\* The chain of promises is always as LockInv says.
THEOREM LockInvariant == LockSpec => []LockInv
BY LockInvInit, LockInvKept, PTL DEF LockSpec

\* Same-key functions never overlap: of two running calls the later one would have
\* the earlier one settled (keyed-lock.ts, "same-key calls run one after another").
THEOREM LockExcludes == LockSpec => []MutualExclusion
<1>1. LockInv => MutualExclusion
  <2> SUFFICES ASSUME LockInv,
                      NEW c \in Call, NEW d \in Call,
                      stage[c] = "running", stage[d] = "running", keyOf[c] = keyOf[d],
                      c # d
               PROVE  FALSE
    BY DEF MutualExclusion
  <2>1. arrived[c] # arrived[d] /\ arrived[c] \in Nat /\ arrived[d] \in Nat
    BY DEF LockInv, Numbered, LockTypeOK
  <2>2. Earlier(c, d) \/ Earlier(d, c)
    BY <2>1 DEF Earlier
  <2> QED
    BY <2>2 DEF LockInv, Ordered, HasSettled
<1> QED
  BY LockInvariant, <1>1, PTL

\* The keyed lock implements the fair mutex: every step of it is a request, a
\* beginning, a finish or nothing to its callers.
THEOREM LockImplementsMutex == LockSpec => ImplementsMutex
<1> USE LockAssumption
<1>1. LockInit => Mutex!MutexInit
  BY DEF LockInit, Mutex!MutexInit, HasSettled
<1>2. LockInv /\ LockInv' /\ [LockNext]_lockVars => [Mutex!MutexNext]_(Mutex!mutexVars)
  <2> SUFFICES ASSUME LockInv, LockInv', [LockNext]_lockVars
               PROVE  [Mutex!MutexNext]_(Mutex!mutexVars)
    OBVIOUS
  <2> DEFINE st == [c \in Call |-> IF HasSettled(c) THEN "done" ELSE stage[c]]
             ah == [c \in Call |-> {d \in Call : /\ keyOf[c] # NoKey
                                                 /\ keyOf[d] = keyOf[c]
                                                 /\ arrived[d] < arrived[c]}]
  <2> USE DEF LockInv
  <2>1. ASSUME NEW c \in Call, NEW k \in Key, Acquire(c, k)
        PROVE  Mutex!Request(c, k)
    <3>1. stage[c] = "idle" /\ keyOf[c] = NoKey /\ k # NoKey
      BY <2>1 DEF Acquire, Numbered
    <3>2. st[c] = "idle" /\ st' = [st EXCEPT ![c] = "waiting"]
      BY <2>1, <3>1 DEF Acquire, HasSettled, LockTypeOK
    <3>3. keyOf' = [keyOf EXCEPT ![c] = k]
      BY <2>1 DEF Acquire
    <3>4. \A d \in Call : keyOf[d] = k => arrived[d] < arrivals
      BY <3>1 DEF Numbered
    <3>5. \A e \in Call \ {c} : ah'[e] = ah[e]
      <4> SUFFICES ASSUME NEW e \in Call, e # c, NEW d \in Call, keyOf[e] # NoKey
                   PROVE  (keyOf'[d] = keyOf'[e] /\ arrived'[d] < arrived'[e])
                            <=> (keyOf[d] = keyOf[e] /\ arrived[d] < arrived[e])
        BY <2>1 DEF Acquire, LockTypeOK
      <4>1. CASE d # c
        BY <2>1, <4>1 DEF Acquire, LockTypeOK
      <4>2. CASE d = c
        <5>1. arrived[e] < arrivals /\ keyOf[d] # keyOf[e]
          BY <3>1, <4>2 DEF Numbered
        <5> QED
          BY <2>1, <4>2, <5>1 DEF Acquire, LockTypeOK
      <4> QED
        BY <4>1, <4>2
    <3>6. ah'[c] = {d \in Call : keyOf[d] = k}
      <4> SUFFICES ASSUME NEW d \in Call
                   PROVE  (keyOf'[c] # NoKey /\ keyOf'[d] = keyOf'[c] /\ arrived'[d] < arrived'[c])
                            <=> keyOf[d] = k
        OBVIOUS
      <4>1. CASE d = c
        BY <2>1, <3>1, <4>1 DEF Acquire, LockTypeOK
      <4>2. CASE d # c
        BY <2>1, <3>1, <3>4, <4>2 DEF Acquire, LockTypeOK
      <4> QED
        BY <4>1, <4>2
    <3>7. ah' = [ah EXCEPT ![c] = {d \in Call : keyOf[d] = k}]
      BY <3>5, <3>6
    <3> QED
      BY <3>2, <3>3, <3>7 DEF Mutex!Request
  <2>2. ASSUME NEW c \in Call, Run(c)
        PROVE  Mutex!Begin(c)
    <3>1. st[c] = "waiting" /\ st' = [st EXCEPT ![c] = "running"]
      BY <2>2 DEF Run, HasSettled, LockTypeOK
    <3>2. \A d \in ah[c] : st[d] = "done"
      <4> SUFFICES ASSUME NEW d \in Call, Earlier(d, c)
                   PROVE  HasSettled(d)
        BY DEF Earlier
      <4>1. stage'[c] = "running" /\ Earlier(d, c)'
        BY <2>2 DEF Run, Earlier, LockTypeOK
      <4>2. HasSettled(d)'
        BY <4>1 DEF Ordered
      <4> QED
        BY <4>2, <2>2 DEF Run, HasSettled, LockTypeOK
    <3>3. keyOf' = keyOf /\ ah' = ah
      BY <2>2 DEF Run
    <3> QED
      BY <3>1, <3>2, <3>3 DEF Mutex!Begin
  <2>3. ASSUME NEW c \in Call, Settle(c)
        PROVE  Mutex!Finish(c)
    <3>1. st[c] = "running" /\ st' = [st EXCEPT ![c] = "done"]
      BY <2>3 DEF Settle, HasSettled, LockTypeOK
    <3>2. keyOf' = keyOf /\ ah' = ah
      BY <2>3 DEF Settle
    <3> QED
      BY <3>1, <3>2 DEF Mutex!Finish
  <2>4. ASSUME NEW c \in Call, Return(c)
        PROVE  UNCHANGED Mutex!mutexVars
    <3>1. st' = st
      BY <2>4 DEF Return, HasSettled, LockTypeOK
    <3>2. keyOf' = keyOf /\ ah' = ah
      BY <2>4 DEF Return
    <3> QED
      BY <3>1, <3>2 DEF Mutex!mutexVars
  <2>5. CASE UNCHANGED lockVars
    BY <2>5 DEF lockVars, Mutex!mutexVars, HasSettled
  <2> QED
    BY <2>1, <2>2, <2>3, <2>4, <2>5 DEF LockNext, Mutex!MutexNext
<1> QED
  BY <1>1, <1>2, LockInvariant, PTL DEF LockSpec, ImplementsMutex, Mutex!MutexSpec

\* The tail of a key is dropped before its call returns: what is left in the map belongs
\* to a call that has still to look at it.
Pending == \A k \in Key, c \in Call : tails[k] = c => stage[c] # "returned"

\* The map of tails holds no key that nobody uses any more: the finally block of the last
\* call drops it, and no earlier one can put it back (keyed-lock.ts, "drops idle keys").
THEOREM IdleKeysGo == LockSpec => []IdleKeysAreDropped
<1> USE LockAssumption
<1>1. LockInit => Pending
  BY DEF LockInit, Pending
<1>2. LockInv /\ Pending /\ [LockNext]_lockVars => Pending'
  <2> SUFFICES ASSUME LockInv, Pending, [LockNext]_lockVars
               PROVE  Pending'
    OBVIOUS
  <2> USE DEF LockInv
  <2>1. ASSUME NEW c \in Call, NEW k \in Key, Acquire(c, k)
        PROVE  Pending'
    BY <2>1 DEF Pending, Acquire, LockTypeOK
  <2>2. ASSUME NEW c \in Call, Run(c) \/ Settle(c)
        PROVE  Pending'
    BY <2>2 DEF Pending, Run, Settle, LockTypeOK
  <2>3. ASSUME NEW c \in Call, Return(c)
        PROVE  Pending'
    <3> SUFFICES ASSUME NEW k \in Key, NEW d \in Call, tails'[k] = d
                 PROVE  stage'[d] # "returned"
      BY DEF Pending
    <3>1. tails[k] = d /\ ~(keyOf[c] = k /\ d = c)
      BY <2>3 DEF Return, LockTypeOK
    <3>2. keyOf[d] = k
      BY <3>1 DEF Tailed
    <3> QED
      BY <2>3, <3>1, <3>2 DEF Pending, Return, LockTypeOK
  <2>4. CASE UNCHANGED lockVars
    BY <2>4 DEF Pending, lockVars
  <2> QED
    BY <2>1, <2>2, <2>3, <2>4 DEF LockNext
<1>3. LockInv /\ Pending => IdleKeysAreDropped
  BY DEF LockInv, LockTypeOK, Tailed, Pending, IdleKeysAreDropped
<1> QED
  BY <1>1, <1>2, <1>3, LockInvariant, PTL DEF LockSpec

--------------------------------------------------------------------------------
(* The handlers on top of the lock.                                                 *)

\* The order in which the code nests its keys: a creator's outermost, then organisations
\* in the order of their ids, then an app or a handle.
Before(j, k) ==
  \/ j \in Creators /\ k \notin Creators
  \/ j \in Orgs /\ k \in Apps \cup Handles
  \/ j \in Orgs /\ k \in Orgs /\ j < k

\* Keys that come before each other in turn do so altogether, and none before itself.
LEMMA BeforeOrders ==
  ASSUME NEW i \in Key, NEW j \in Key, NEW k \in Key
  PROVE  /\ ~Before(i, i)
         /\ Before(i, j) /\ Before(j, k) => Before(i, k)
BY OrderAssumption DEF Before

\* Every plan of the code takes its keys in that order.
LEMMA PlansAscend ==
  ASSUME NEW keys \in Plans
  PROVE  /\ Len(keys) \in 1..MaxDepth
         /\ \A d \in 1..Len(keys) : keys[d] \in Key
         /\ \A d, e \in 1..Len(keys) : d < e => Before(keys[d], keys[e])
<1> USE OrderAssumption
<1>1. ASSUME NEW k \in Orgs \cup Apps, keys = <<k>>
      PROVE  /\ Len(keys) = 1 /\ keys[1] \in Key
    BY <1>1
<1>2. ASSUME NEW j \in Key, NEW k \in Key, keys = <<j, k>>, Before(j, k)
      PROVE  Len(keys) = 2 /\ keys[1] = j /\ keys[2] = k
    BY <1>2
<1>3. ASSUME keys \in Orgs \X Orgs \X Apps, keys[1] < keys[2]
      PROVE  /\ Len(keys) = 3
             /\ \A d \in 1..3 : keys[d] \in Key
             /\ \A d, e \in 1..3 : d < e => Before(keys[d], keys[e])
  <2>1. /\ keys[1] \in Orgs /\ keys[2] \in Orgs /\ keys[3] \in Apps /\ Len(keys) = 3
        /\ \A d \in 1..3 : d \in {1, 2, 3}
    BY <1>3
  <2>2. Before(keys[1], keys[2]) /\ Before(keys[2], keys[3]) /\ Before(keys[1], keys[3])
    BY <1>3, <2>1 DEF Before
  <2> QED
    BY <2>1, <2>2
<1>4. CASE \E k \in Orgs \cup Apps : keys = <<k>>
  BY <1>1, <1>4
<1>5. CASE \E j \in Key, k \in Key : keys = <<j, k>> /\ Before(j, k)
  BY <1>2, <1>5
<1>6. CASE keys \in Orgs \X Orgs \X Apps /\ keys[1] < keys[2]
  <2>1. /\ Len(keys) = 3
        /\ \A d \in 1..3 : keys[d] \in Key
        /\ \A d, e \in 1..3 : d < e => Before(keys[d], keys[e])
    BY <1>3, <1>6
  <2>2. 3 \in 1..MaxDepth
    OBVIOUS
  <2> QED
    BY <2>1, <2>2
<1>7. \/ \E k \in Orgs \cup Apps : keys = <<k>>
      \/ keys \in (Creators \X Handles) \cup (Orgs \X Handles) \cup (Orgs \X Apps)
      \/ keys \in Orgs \X Orgs \X Apps /\ keys[1] < keys[2]
  BY DEF Plans, TransferPlans
<1>8. keys \in (Creators \X Handles) \cup (Orgs \X Handles) \cup (Orgs \X Apps)
        => \E j \in Key, k \in Key : keys = <<j, k>> /\ Before(j, k)
  BY DEF Before
<1> QED
  BY <1>4, <1>5, <1>6, <1>7, <1>8

Depth == 1..MaxDepth
Open == {"waiting", "running", "settled"}

\* The calls of a handler nest: each is made for the next key of its plan by the running
\* function of the one around it, which waits for it to return.
Nested ==
  /\ plan \in [Proc -> Plans]
  /\ \A p \in Proc, d \in Depth : stage[<<p, d>>] # "idle" =>
       d <= Len(plan[p]) /\ keyOf[<<p, d>>] = plan[p][d]
  /\ \A p \in Proc, d, e \in Depth : d < e =>
       /\ stage[<<p, e>>] \in Open => stage[<<p, d>>] = "running"
       /\ stage[<<p, d>>] \in {"idle", "waiting"} => stage[<<p, e>>] = "idle"

\* A handler makes a call for each key of its plan and lets it run, settle and return.
LEMMA HandlersUseTheLock ==
  ASSUME plan \in [Proc -> Plans], [OrderNext]_orderVars
  PROVE  [LockNext]_lockVars /\ UNCHANGED plan
<1>1. ASSUME NEW p \in Proc, NEW d \in 1..MaxDepth
      PROVE  /\ <<p, d>> \in Call
             /\ d <= Len(plan[p]) => plan[p][d] \in Key
  BY PlansAscend, OrderAssumption
<1>2. ASSUME NEW p \in Proc, NEW d \in 1..MaxDepth,
             TakeLock(p, d) \/ EnterFunction(p, d) \/ LeaveFunction(p, d) \/ LeaveLock(p, d)
      PROVE  LockNext /\ UNCHANGED plan
  BY <1>1, <1>2 DEF TakeLock, EnterFunction, LeaveFunction, LeaveLock, LockNext
<1> QED
  BY <1>2 DEF OrderNext, AllDone, orderVars, lockVars

\* Nested calls stay nested: a function settles only once the call it made has returned.
LEMMA NestedKept ==
  ASSUME LockInv, Nested, [OrderNext]_orderVars
  PROVE  Nested'
<1> USE DEF Depth
<1>d. MaxDepth = 3
  BY OrderAssumption
<1>1. /\ \A p \in Proc, d \in Depth : <<p, d>> \in Call
      /\ stage \in [Call -> {"idle", "waiting", "running", "settled", "returned"}]
      /\ keyOf \in [Call -> Key \cup {NoKey}]
  BY OrderAssumption DEF LockInv, LockTypeOK
<1>2. plan' = plan /\ plan' \in [Proc -> Plans]
  BY HandlersUseTheLock DEF Nested
<1>3. \A p \in Proc : Len(plan[p]) \in Depth
  BY PlansAscend DEF Nested
<1> DEFINE at(p, d) == stage[<<p, d>>]
           next(p, d) == stage'[<<p, d>>]
           keyAt(p, d) == keyOf[<<p, d>>]
           nextKeyAt(p, d) == keyOf'[<<p, d>>]
<1>a. \A p \in Proc, d \in Depth : at(p, d) # "idle" => d <= Len(plan[p]) /\ keyAt(p, d) = plan[p][d]
  BY DEF Nested
<1>b. \A p \in Proc, d, e \in Depth : d < e =>
        /\ at(p, e) \in Open => at(p, d) = "running"
        /\ at(p, d) \in {"idle", "waiting"} => at(p, e) = "idle"
  BY DEF Nested
\* Only the call at depth d moves, to s.
<1>4. ASSUME NEW p \in Proc, NEW d \in Depth, NEW s \in Open \cup {"returned"},
             d <= Len(plan[p]),
             \A q \in Proc, e \in Depth :
               /\ next(q, e) = IF q = p /\ e = d THEN s ELSE at(q, e)
               /\ nextKeyAt(q, e) = IF q = p /\ e = d THEN plan[p][d] ELSE keyAt(q, e),
             \A e \in Depth : e < d => at(p, e) = "running",
             s # "running" => \A e \in Depth : d < e => at(p, e) \notin Open,
             s = "waiting" => \A e \in Depth : d < e => at(p, e) = "idle"
      PROVE  Nested'
  <2>1. \A q \in Proc, e \in Depth : next(q, e) # "idle" =>
          e <= Len(plan[q]) /\ nextKeyAt(q, e) = plan[q][e]
    BY <1>a, <1>4
  <2>2. \A q \in Proc, e, f \in Depth : e < f =>
          /\ next(q, f) \in Open => next(q, e) = "running"
          /\ next(q, e) \in {"idle", "waiting"} => next(q, f) = "idle"
    <3> SUFFICES ASSUME NEW q \in Proc, NEW e \in Depth, NEW f \in Depth, e < f
                 PROVE  /\ next(q, f) \in Open => next(q, e) = "running"
                        /\ next(q, e) \in {"idle", "waiting"} => next(q, f) = "idle"
      OBVIOUS
    <3>0. /\ at(q, f) \in Open => at(q, e) = "running"
          /\ at(q, e) \in {"idle", "waiting"} => at(q, f) = "idle"
      BY <1>b
    <3> HIDE DEF at, next, keyAt, nextKeyAt, Depth
    <3>1. CASE q # p \/ (e # d /\ f # d)
      BY <1>4, <3>0, <3>1
    <3>2. CASE q = p /\ e = d
      BY <1>4, <3>0, <3>2 DEF Open
    <3>3. CASE q = p /\ f = d
      BY <1>4, <3>0, <3>3 DEF Open
    <3> QED
      BY <3>1, <3>2, <3>3
  <2> QED
    BY <1>2, <2>1, <2>2 DEF Nested
<1>5. ASSUME NEW p \in Proc, NEW d \in Depth, TakeLock(p, d)
      PROVE  Nested'
  <2>1. /\ at(p, d) = "idle" /\ stage' = [stage EXCEPT ![<<p, d>>] = "waiting"]
        /\ keyOf' = [keyOf EXCEPT ![<<p, d>>] = plan[p][d]]
        /\ d <= Len(plan[p])
        /\ d > 1 => at(p, d - 1) = "running"
    BY <1>5 DEF TakeLock, Acquire, Within
  <2>2. \A e \in Depth : e < d => at(p, e) = "running"
    <3> SUFFICES ASSUME NEW e \in Depth, e < d
                 PROVE  at(p, e) = "running"
      OBVIOUS
    <3>1. d - 1 \in Depth /\ at(p, d - 1) = "running"
      BY <1>d, <2>1
    <3> HIDE DEF at
    <3> QED
      BY <1>b, <3>1 DEF Open
  <2>3. \A e \in Depth : d < e => at(p, e) = "idle"
    <3> HIDE DEF at
    <3> QED
      BY <1>b, <2>1
  <2>4. \A q \in Proc, e \in Depth :
          /\ next(q, e) = IF q = p /\ e = d THEN "waiting" ELSE at(q, e)
          /\ nextKeyAt(q, e) = IF q = p /\ e = d THEN plan[p][d] ELSE keyAt(q, e)
    <3> SUFFICES ASSUME NEW q \in Proc, NEW e \in Depth
                 PROVE  /\ next(q, e) = IF q = p /\ e = d THEN "waiting" ELSE at(q, e)
                        /\ nextKeyAt(q, e) = IF q = p /\ e = d THEN plan[p][d] ELSE keyAt(q, e)
      OBVIOUS
    <3>1. next(q, e) = IF q = p /\ e = d THEN "waiting" ELSE at(q, e)
      BY <1>1, <2>1
    <3> QED
      BY <1>1, <2>1, <3>1
  <2>5. \A e \in Depth : d < e => at(p, e) \notin Open
    BY <2>3 DEF Open
  <2> HIDE DEF at, next, keyAt, nextKeyAt
  <2> QED
    BY <1>4, <2>1, <2>2, <2>3, <2>4, <2>5 DEF Open
<1>6. ASSUME NEW p \in Proc, NEW d \in Depth,
             EnterFunction(p, d) \/ LeaveFunction(p, d) \/ LeaveLock(p, d)
      PROVE  Nested'
  <2>1. PICK s \in {"running", "settled", "returned"} :
          /\ stage' = [stage EXCEPT ![<<p, d>>] = s] /\ keyOf' = keyOf
          /\ at(p, d) \in {"waiting", "running", "settled"}
          /\ s = "running" => at(p, d) = "waiting"
          /\ s = "settled" => /\ at(p, d) = "running"
                              /\ d < Len(plan[p]) => at(p, d + 1) = "returned"
          /\ s = "returned" => at(p, d) = "settled"
    BY <1>6 DEF EnterFunction, LeaveFunction, LeaveLock, Run, Settle, Return
  <2>2. d <= Len(plan[p]) /\ keyAt(p, d) = plan[p][d]
    BY <1>a, <2>1
  <2>3. \A e \in Depth : e < d => at(p, e) = "running"
    BY <1>b, <2>1 DEF Open
  <2>4. s # "running" => \A e \in Depth : d < e => at(p, e) \notin Open
    <3> SUFFICES ASSUME NEW e \in Depth, d < e, s # "running", at(p, e) \in Open
                 PROVE  FALSE
      OBVIOUS
    <3>1. at(p, d) = "running" /\ s = "settled"
      BY <1>b, <2>1
    <3>2. e <= Len(plan[p])
      BY <1>a DEF Open
    <3>3. d < Len(plan[p]) /\ d + 1 \in Depth
      BY <1>d, <1>3, <3>2
    <3>4. at(p, d + 1) = "returned"
      BY <2>1, <3>1, <3>3
    <3>5. e # d + 1
      BY <3>4 DEF Open
    <3>6. d + 1 < e
      BY <3>5
    <3> HIDE DEF at
    <3> QED
      BY <1>b, <3>3, <3>4, <3>6
  <2>5. \A q \in Proc, e \in Depth :
          /\ next(q, e) = IF q = p /\ e = d THEN s ELSE at(q, e)
          /\ nextKeyAt(q, e) = IF q = p /\ e = d THEN plan[p][d] ELSE keyAt(q, e)
    <3> SUFFICES ASSUME NEW q \in Proc, NEW e \in Depth
                 PROVE  /\ next(q, e) = IF q = p /\ e = d THEN s ELSE at(q, e)
                        /\ nextKeyAt(q, e) = IF q = p /\ e = d THEN plan[p][d] ELSE keyAt(q, e)
      OBVIOUS
    <3>1. next(q, e) = IF q = p /\ e = d THEN s ELSE at(q, e)
      BY <1>1, <2>1
    <3> QED
      BY <2>1, <2>2, <3>1
  <2> HIDE DEF at, next, keyAt, nextKeyAt
  <2> QED
    BY <1>4, <2>1, <2>2, <2>3, <2>4, <2>5 DEF Open
<1>7. CASE UNCHANGED orderVars
  BY <1>7 DEF orderVars, lockVars, Nested
<1> QED
  BY <1>5, <1>6, <1>7 DEF OrderNext, AllDone

\* Whatever handlers run, the chain of promises is as LockInv says and their calls nest.
THEOREM HandlersNest == OrderSpec => [](LockInv /\ Nested)
<1>1. OrderInit => LockInv /\ Nested
  <2>1. \A p \in Proc, d \in Depth : <<p, d>> \in Call
    BY OrderAssumption DEF Depth
  <2> QED
    BY <2>1, LockInvInit DEF OrderInit, LockInit, Nested, Open
<1>2. LockInv /\ Nested /\ [OrderNext]_orderVars => LockInv' /\ Nested'
  BY NestedKept, HandlersUseTheLock, LockInvKept DEF Nested
<1> QED
  BY <1>1, <1>2, PTL DEF OrderSpec

\* What handlers do with the lock is what callers of it may do: every step of theirs is one
\* of the lock or leaves it alone, so all that holds of the lock holds under them.
THEOREM HandlersImplementTheLock == OrderSpec => LockSpec
<1>1. LockInv /\ Nested /\ [OrderNext]_orderVars => [LockNext]_lockVars
  BY HandlersUseTheLock DEF Nested
<1> QED
  BY <1>1, HandlersNest, PTL DEF OrderSpec, OrderInit, LockSpec

\* Who waits inside a call of his own waits for a later key: whoever keeps others waiting
\* with a call waits himself, if at all, for the same key or for one that comes after it.
LEMMA WaitsFurtherIn ==
  ASSUME LockInv, Nested, NEW p \in Proc, NEW d \in Depth, NEW e \in Depth,
         stage[<<p, d>>] = "waiting", stage[<<p, e>>] \in {"waiting", "running"}
  PROVE  /\ e <= d
         /\ e = d \/ Before(keyOf[<<p, e>>], keyOf[<<p, d>>])
<1>1. e <= d
  BY DEF Nested, Open, Depth
<1>2. /\ d <= Len(plan[p]) /\ keyOf[<<p, d>>] = plan[p][d]
      /\ e <= Len(plan[p]) /\ keyOf[<<p, e>>] = plan[p][e]
  BY DEF Nested
<1>3. e < d => Before(plan[p][e], plan[p][d])
  <2>1. plan[p] \in Plans /\ Len(plan[p]) \in 1..MaxDepth
    BY PlansAscend DEF Nested
  <2>2. d \in 1..Len(plan[p]) /\ e \in 1..Len(plan[p])
    BY <1>2, <2>1, OrderAssumption DEF Depth
  <2> QED
    BY <2>1, <2>2, PlansAscend
<1> QED
  BY <1>1, <1>2, <1>3, OrderAssumption DEF Depth

\* The call somebody waits for was made with the same key and has yet to settle.
LEMMA WaitedFor ==
  ASSUME LockInv, NEW p \in Proc, NEW q \in Proc, NEW d \in Depth, NEW e \in Depth,
         stage[<<p, d>>] = "waiting", previous[<<p, d>>] = <<q, e>>, ~HasSettled(<<q, e>>)
  PROVE  stage[<<q, e>>] \in {"waiting", "running"} /\ keyOf[<<q, e>>] = keyOf[<<p, d>>]
<1>1. <<p, d>> \in Call /\ <<q, e>> \in Call
  BY OrderAssumption DEF Depth
<1>2. keyOf[<<q, e>>] = keyOf[<<p, d>>] /\ keyOf[<<p, d>>] # NoKey
  BY <1>1, LockAssumption DEF LockInv, Chained, Numbered, Earlier
<1> QED
  BY <1>1, <1>2 DEF LockInv, LockTypeOK, Numbered, HasSettled

\* A group in which everybody waits for somebody of the group.
Stuck(group) == group # {} /\ \A p \in group : \E q \in group : WaitsFor(p, q)

\* A new call closes no circle: whoever would keep it waiting waits for a key at or after
\* its own, and so does whoever they wait for, so none of them waits for the caller, who
\* holds only earlier keys.  They were stuck without it already.
LEMMA NewCallClosesNoCircle ==
  ASSUME LockInv, Nested, NoCircularWait, NEW p \in Proc, NEW d \in Depth, TakeLock(p, d),
         NEW group \in SUBSET Proc, Stuck(group)'
  PROVE  FALSE
<1> USE DEF Depth
<1> DEFINE key == plan[p][d]
<1>0. MaxDepth = 3 /\ plan[p] \in Plans /\ Len(plan[p]) \in 1..3
  BY PlansAscend, OrderAssumption DEF Nested
<1>1. /\ \A q \in Proc, e \in Depth : <<q, e>> \in Call
      /\ stage \in [Call -> {"idle", "waiting", "running", "settled", "returned"}]
      /\ keyOf \in [Call -> Key \cup {NoKey}]
      /\ previous \in [Call -> Call \cup {NoCall}]
  BY OrderAssumption DEF LockInv, LockTypeOK
<1>2. /\ stage[<<p, d>>] = "idle" /\ stage' = [stage EXCEPT ![<<p, d>>] = "waiting"]
      /\ previous' = [previous EXCEPT ![<<p, d>>] = tails[key]]
      /\ d <= Len(plan[p])
      /\ d > 1 => stage[<<p, d - 1>>] = "running"
  BY DEF TakeLock, Acquire, Within
\* Among the calls that were there before, who waits for whom stays as it was.
<1>3. ASSUME NEW q \in Proc, NEW e \in Depth, q # p \/ e # d
      PROVE  stage'[<<q, e>>] = stage[<<q, e>>] /\ previous'[<<q, e>>] = previous[<<q, e>>]
  BY <1>1, <1>2, <1>3
<1>4. ASSUME NEW x \in Proc, NEW y \in Proc, NEW f \in Depth, NEW e \in Depth,
             x # p \/ f # d, stage'[<<x, f>>] = "waiting", previous'[<<x, f>>] = <<y, e>>,
             ~HasSettled(<<y, e>>)'
      PROVE  /\ stage[<<x, f>>] = "waiting" /\ previous[<<x, f>>] = <<y, e>>
             /\ ~HasSettled(<<y, e>>)
  BY <1>1, <1>2, <1>3, <1>4 DEF HasSettled
\* Nobody waited for the caller at the new call or inside it, and the caller for nobody.
<1>5. \A e \in Depth : IF e < d THEN stage[<<p, e>>] = "running" ELSE stage[<<p, e>>] = "idle"
  <2> SUFFICES ASSUME NEW e \in Depth
               PROVE  IF e < d THEN stage[<<p, e>>] = "running" ELSE stage[<<p, e>>] = "idle"
    OBVIOUS
  <2>1. CASE e > d
    BY <1>2, <2>1 DEF Nested
  <2>2. CASE e = d
    BY <1>2, <2>2
  <2>3. CASE e < d
    <3>1. d - 1 \in Depth /\ stage[<<p, d - 1>>] = "running"
      BY <1>0, <1>2, <2>3
    <3>2. CASE e = d - 1
      BY <3>1, <3>2
    <3>3. CASE e < d - 1
      BY <3>1, <3>3 DEF Nested, Open
    <3> QED
      BY <2>3, <3>2, <3>3
  <2> QED
    BY <2>1, <2>2, <2>3
<1>6. \A e \in Depth : e < d => keyOf[<<p, e>>] \in Key /\ Before(keyOf[<<p, e>>], key)
  <2> SUFFICES ASSUME NEW e \in Depth, e < d
               PROVE  keyOf[<<p, e>>] \in Key /\ Before(keyOf[<<p, e>>], key)
    OBVIOUS
  <2>1. stage[<<p, e>>] # "idle"
    BY <1>5
  <2>2. keyOf[<<p, e>>] = plan[p][e]
    BY <2>1 DEF Nested
  <2>3. e \in 1..Len(plan[p]) /\ d \in 1..Len(plan[p])
    BY <1>0, <1>2
  <2> QED
    BY <1>0, <2>2, <2>3, PlansAscend
<1>7. key \in Key
  <2>1. d \in 1..Len(plan[p])
    BY <1>0, <1>2
  <2> QED
    BY <1>0, <2>1, PlansAscend
<1> DEFINE AtOrAfter(x) ==
             \E f \in Depth : /\ stage[<<x, f>>] = "waiting"
                              /\ keyOf[<<x, f>>] = key \/ Before(key, keyOf[<<x, f>>])
           behind == {x \in group \ {p} : AtOrAfter(x)}
\* Somebody of the group who keeps a call at or after the key waiting is behind it too.
<1>8. ASSUME NEW y \in group, NEW e \in Depth, stage[<<y, e>>] \in {"waiting", "running"},
             keyOf[<<y, e>>] = key \/ Before(key, keyOf[<<y, e>>])
      PROVE  y \in behind
  <2>1. y # p
    <3> SUFFICES ASSUME y = p PROVE FALSE
      OBVIOUS
    <3>1. e < d
      BY <1>5, <1>8
    <3> QED
      BY <1>6, <1>7, <1>8, <3>1, BeforeOrders
  <2>2. PICK z \in group, f \in Depth, g \in Depth :
          stage'[<<y, f>>] = "waiting" /\ previous'[<<y, f>>] = <<z, g>> /\ ~HasSettled(<<z, g>>)'
    BY DEF Stuck, WaitsFor
  <2>3. stage[<<y, f>>] = "waiting"
    BY <1>4, <2>1, <2>2
  <2>4. e = f \/ Before(keyOf[<<y, e>>], keyOf[<<y, f>>])
    BY <1>8, <2>3, WaitsFurtherIn
  <2>5. keyOf[<<y, e>>] \in Key /\ keyOf[<<y, f>>] \in Key
    BY <1>1, <1>8, <2>3 DEF LockInv, Numbered
  <2>6. keyOf[<<y, f>>] = key \/ Before(key, keyOf[<<y, f>>])
    BY <1>7, <1>8, <2>4, <2>5, BeforeOrders
  <2> QED
    BY <2>1, <2>3, <2>6
<1>9. p \in group => behind # {}
  <2> SUFFICES ASSUME p \in group PROVE behind # {}
    OBVIOUS
  <2>1. PICK y \in group, f \in Depth, e \in Depth :
          stage'[<<p, f>>] = "waiting" /\ previous'[<<p, f>>] = <<y, e>> /\ ~HasSettled(<<y, e>>)'
    BY DEF Stuck, WaitsFor
  <2>2. f = d
    BY <1>3, <1>5, <2>1
  <2>3. tails[key] = <<y, e>> /\ <<y, e>> \in Call
    BY <1>1, <1>2, <2>1, <2>2
  <2>4. keyOf[<<y, e>>] = key
    BY <1>7, <2>3, LockAssumption DEF LockInv, Tailed
  <2>5. stage[<<y, e>>] \in {"waiting", "running"}
    BY <1>1, <1>2, <1>7, <2>1, <2>3, <2>4, LockAssumption DEF LockInv, Numbered, HasSettled
  <2> QED
    BY <1>8, <2>4, <2>5
<1>10. Stuck(behind) \/ behind = {}
  <2> SUFFICES ASSUME NEW x \in behind
               PROVE  \E y \in behind : WaitsFor(x, y)
    BY DEF Stuck
  <2>1. PICK h \in Depth : /\ stage[<<x, h>>] = "waiting"
                           /\ keyOf[<<x, h>>] = key \/ Before(key, keyOf[<<x, h>>])
    <3>1. AtOrAfter(x)
      OBVIOUS
    <3> QED
      BY <3>1
  <2>2. PICK y \in group, f \in Depth, e \in Depth :
          stage'[<<x, f>>] = "waiting" /\ previous'[<<x, f>>] = <<y, e>> /\ ~HasSettled(<<y, e>>)'
    BY DEF Stuck, WaitsFor
  <2>3. stage[<<x, f>>] = "waiting" /\ previous[<<x, f>>] = <<y, e>> /\ ~HasSettled(<<y, e>>)
    BY <1>4, <2>2
  <2>4. f = h
    <3>1. f <= h /\ h <= f
      BY <2>1, <2>3, WaitsFurtherIn
    <3> QED
      BY <3>1, OrderAssumption
  <2>5. stage[<<y, e>>] \in {"waiting", "running"} /\ keyOf[<<y, e>>] = keyOf[<<x, f>>]
    BY <2>3, WaitedFor
  <2>6. y \in behind
    BY <1>8, <2>1, <2>4, <2>5
  <2> QED
    BY <2>3, <2>6 DEF WaitsFor
<1>11. p \notin group => Stuck(group)
  <2> SUFFICES ASSUME p \notin group, NEW x \in group
               PROVE  \E y \in group : WaitsFor(x, y)
    BY DEF Stuck
  <2>1. PICK y \in group, f \in Depth, e \in Depth :
          stage'[<<x, f>>] = "waiting" /\ previous'[<<x, f>>] = <<y, e>> /\ ~HasSettled(<<y, e>>)'
    BY DEF Stuck, WaitsFor
  <2>2. stage[<<x, f>>] = "waiting" /\ previous[<<x, f>>] = <<y, e>> /\ ~HasSettled(<<y, e>>)
    BY <1>4, <2>1
  <2> QED
    BY <2>2 DEF WaitsFor
<1>12. \A g \in SUBSET Proc : ~Stuck(g)
  BY DEF NoCircularWait, Stuck
<1> QED
  BY <1>9, <1>10, <1>11, <1>12

\* Handlers never wait for each other in a circle, however many run at once and in whatever
\* order they meet: each nests its keys as organisations, lowest id first, before an app or
\* a handle, so the calls that stand in each other's way lead to ever later keys
\* (transfers.ts, transferOrgs: "sorted (the lock order)").
THEOREM NobodyWaitsInACircle == OrderSpec => []NoCircularWait
<1>1. OrderInit => NoCircularWait
  <2>1. \A p \in Proc, d \in Depth : <<p, d>> \in Call
    BY OrderAssumption DEF Depth
  <2> QED
    BY <2>1 DEF OrderInit, LockInit, NoCircularWait, WaitsFor, Depth
<1>2. LockInv /\ Nested /\ NoCircularWait /\ [OrderNext]_orderVars => NoCircularWait'
  <2> SUFFICES ASSUME LockInv, Nested, NoCircularWait, [OrderNext]_orderVars,
                      NEW group \in SUBSET Proc, Stuck(group)'
               PROVE  FALSE
    BY DEF NoCircularWait, Stuck
  <2>1. CASE \E p \in Proc, d \in Depth : TakeLock(p, d)
    BY <2>1, NewCallClosesNoCircle
  \* Every other step can only let somebody stop waiting.
  <2>2. CASE \A p \in Proc, q \in Proc : WaitsFor(p, q)' => WaitsFor(p, q)
    BY <2>2 DEF NoCircularWait, Stuck
  <2>3. ASSUME NEW p \in Proc, NEW d \in Depth,
               EnterFunction(p, d) \/ LeaveFunction(p, d) \/ LeaveLock(p, d)
        PROVE  \A x \in Proc, y \in Proc : WaitsFor(x, y)' => WaitsFor(x, y)
    <3>1. PICK s \in {"running", "settled", "returned"} :
            /\ stage' = [stage EXCEPT ![<<p, d>>] = s] /\ previous' = previous
            /\ s = "running" => stage[<<p, d>>] = "waiting"
            /\ s = "settled" => stage[<<p, d>>] = "running"
            /\ s = "returned" => stage[<<p, d>>] = "settled"
      BY <2>3 DEF EnterFunction, LeaveFunction, LeaveLock, Run, Settle, Return
    <3> SUFFICES ASSUME NEW x \in Proc, NEW y \in Proc, NEW f \in Depth, NEW e \in Depth,
                        stage'[<<x, f>>] = "waiting", previous'[<<x, f>>] = <<y, e>>,
                        ~HasSettled(<<y, e>>)'
                 PROVE  /\ stage[<<x, f>>] = "waiting" /\ previous[<<x, f>>] = <<y, e>>
                        /\ ~HasSettled(<<y, e>>)
      BY DEF WaitsFor, Depth
    <3>2. \A c \in Call : stage'[c] = "waiting" => stage[c] = "waiting"
      BY <3>1 DEF LockInv, LockTypeOK
    <3>3. \A c \in Call : HasSettled(c) => HasSettled(c)'
      BY <3>1 DEF LockInv, LockTypeOK, HasSettled
    <3>4. <<x, f>> \in Call /\ <<y, e>> \in Call
      BY OrderAssumption DEF Depth
    <3> QED
      BY <3>1, <3>2, <3>3, <3>4
  <2>4. CASE UNCHANGED orderVars
    BY <2>2, <2>4 DEF orderVars, lockVars, WaitsFor, HasSettled
  <2> QED
    BY <2>1, <2>2, <2>3, <2>4 DEF OrderNext, AllDone, Depth
<1> QED
  BY <1>1, <1>2, HandlersNest, PTL DEF OrderSpec

==============================================================================
