------------------------------ MODULE FairMutex ------------------------------
(***************************************************************************)
(* What the keyed lock promises its callers: calls with the same key run   *)
(* one after another, in the order they were made; calls with different    *)
(* keys do not wait for each other.                                        *)
(***************************************************************************)
CONSTANTS Call,  \* the calls of lock(key, fn) of a behaviour
          Key,
          NoKey

VARIABLES stage,  \* of each call
          of,     \* the key it was made with
          ahead   \* the calls with that key made before it

mutexVars == <<stage, of, ahead>>

Request(c, k) ==
  /\ stage[c] = "idle"
  /\ stage' = [stage EXCEPT ![c] = "waiting"]
  /\ of' = [of EXCEPT ![c] = k]
  /\ ahead' = [ahead EXCEPT ![c] = {d \in Call : of[d] = k}]

Begin(c) ==
  /\ stage[c] = "waiting"
  /\ \A d \in ahead[c] : stage[d] = "done"
  /\ stage' = [stage EXCEPT ![c] = "running"]
  /\ UNCHANGED <<of, ahead>>

Finish(c) ==
  /\ stage[c] = "running"
  /\ stage' = [stage EXCEPT ![c] = "done"]
  /\ UNCHANGED <<of, ahead>>

MutexInit ==
  /\ stage = [c \in Call |-> "idle"]
  /\ of = [c \in Call |-> NoKey]
  /\ ahead = [c \in Call |-> {}]

MutexNext ==
  \E c \in Call : Begin(c) \/ Finish(c) \/ \E k \in Key : Request(c, k)

MutexSpec == MutexInit /\ [][MutexNext]_mutexVars
==============================================================================
