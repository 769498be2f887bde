------------------------------ MODULE KeyedLock ------------------------------
(***************************************************************************)
(* createKeyedLock: mutual exclusion per key by a chain of promises.  Each *)
(* call waits for the tail of its key, becomes the tail itself, runs its   *)
(* function once the tail before it has settled, and, when the function    *)
(* has settled, drops the tail from the map if that is still its own.      *)
(*                                                                         *)
(* A step is what runs between two awaits: making a call reads and         *)
(* replaces the tail in one go; the start of the next function and the     *)
(* finally block of the last one are separate promise reactions, taken     *)
(* here in either order.                                                   *)
(***************************************************************************)
EXTENDS Integers

CONSTANTS Call, Key, NoCall, NoKey

ASSUME LockAssumption == NoCall \notin Call /\ NoKey \notin Key

VARIABLES stage,     \* of each call: idle, waiting, running, settled, returned
          keyOf,     \* the key it was made with
          previous,  \* the call whose tail it waits for, NoCall when the key was idle
          tails,     \* the map: per key the call whose tail it holds, or NoCall
          arrived,   \* the order in which calls were made (read by no guard)
          arrivals

lockVars == <<stage, keyOf, previous, tails, arrived, arrivals>>

HasSettled(c) == stage[c] \in {"settled", "returned"}

Acquire(c, k) ==
  /\ stage[c] = "idle"
  /\ stage' = [stage EXCEPT ![c] = "waiting"]
  /\ keyOf' = [keyOf EXCEPT ![c] = k]
  /\ previous' = [previous EXCEPT ![c] = tails[k]]
  /\ tails' = [tails EXCEPT ![k] = c]
  /\ arrived' = [arrived EXCEPT ![c] = arrivals]
  /\ arrivals' = arrivals + 1

\* Mutant: the function is called without waiting for the tail.
RunAtOnce(c) ==
  /\ stage[c] = "waiting"
  /\ stage' = [stage EXCEPT ![c] = "running"]
  /\ UNCHANGED <<keyOf, previous, tails, arrived, arrivals>>

\* previous.then(fn); a tail never rejects, so a failed function blocks nobody
Run(c) ==
  /\ stage[c] = "waiting"
  /\ previous[c] # NoCall => HasSettled(previous[c])
  /\ stage' = [stage EXCEPT ![c] = "running"]
  /\ UNCHANGED <<keyOf, previous, tails, arrived, arrivals>>

\* the function fulfils or rejects, and with it the tail fulfils
Settle(c) ==
  /\ stage[c] = "running"
  /\ stage' = [stage EXCEPT ![c] = "settled"]
  /\ UNCHANGED <<keyOf, previous, tails, arrived, arrivals>>

\* Mutant: the finally block drops no tail.
ReturnNeverDrops(c) ==
  /\ stage[c] = "settled"
  /\ stage' = [stage EXCEPT ![c] = "returned"]
  /\ UNCHANGED <<keyOf, previous, tails, arrived, arrivals>>

\* the finally block
Return(c) ==
  /\ stage[c] = "settled"
  /\ stage' = [stage EXCEPT ![c] = "returned"]
  /\ tails' = [tails EXCEPT ![keyOf[c]] = IF @ = c THEN NoCall ELSE @]
  /\ UNCHANGED <<keyOf, previous, arrived, arrivals>>

LockInit ==
  /\ stage = [c \in Call |-> "idle"]
  /\ keyOf = [c \in Call |-> NoKey]
  /\ previous = [c \in Call |-> NoCall]
  /\ tails = [k \in Key |-> NoCall]
  /\ arrived = [c \in Call |-> 0]
  /\ arrivals = 0

LockNext ==
  \E c \in Call : Run(c) \/ Settle(c) \/ Return(c) \/ \E k \in Key : Acquire(c, k)

LockSpec == LockInit /\ [][LockNext]_lockVars

(***************************************************************************)
(* Properties                                                              *)
(***************************************************************************)
LockTypeOK ==
  /\ stage \in [Call -> {"idle", "waiting", "running", "settled", "returned"}]
  /\ keyOf \in [Call -> Key \cup {NoKey}]
  /\ previous \in [Call -> Call \cup {NoCall}]
  /\ tails \in [Key -> Call \cup {NoCall}]
  /\ arrived \in [Call -> Nat]
  /\ arrivals \in Nat

\* The functions of two calls with the same key never overlap, although idle keys are
\* dropped from the map while later calls may already wait.
MutualExclusion ==
  \A c, d \in Call :
    stage[c] = "running" /\ stage[d] = "running" /\ keyOf[c] = keyOf[d] => c = d

\* The map holds no key that nobody uses: it does not grow.
IdleKeysAreDropped ==
  \A k \in Key :
    (\A c \in Call : keyOf[c] = k => stage[c] = "returned") => tails[k] = NoCall

\* What the lock is to its callers.
Mutex == INSTANCE FairMutex WITH
  stage <- [c \in Call |-> IF HasSettled(c) THEN "done" ELSE stage[c]],
  of <- keyOf,
  ahead <- [c \in Call |->
              {d \in Call : /\ keyOf[c] # NoKey
                            /\ keyOf[d] = keyOf[c]
                            /\ arrived[d] < arrived[c]}]

ImplementsMutex == Mutex!MutexSpec
==============================================================================
