------------------------------ MODULE LockOrder ------------------------------
(***************************************************************************)
(* The handlers on top of the keyed lock.  A handler takes the locks of    *)
(* its plan from the outside in: each next call of lock() is made by the   *)
(* function of the one before, whose own promise settles only after it.    *)
(* Nothing bounds how long a function waits, so whether handlers can wait  *)
(* on each other for ever depends on the order they nest their keys in.    *)
(***************************************************************************)
EXTENDS KeyedLock, Sequences

CONSTANTS Proc,      \* handlers that run at the same time
          MaxDepth,  \* the deepest nesting
          Orgs,      \* keys org:<id>; keys are numbers, so that they can be sorted
          Apps,      \* keys app:<did>
          Handles,   \* keys handle:<name>
          Creators   \* keys creator:<address>

ASSUME OrderAssumption ==
  /\ MaxDepth = 3
  /\ Call = Proc \X (1..MaxDepth)
  /\ Key = Orgs \cup Apps \cup Handles \cup Creators
  /\ Key \subseteq Nat
  \* their prefixes keep the keys of different kinds apart
  /\ Creators \cap (Orgs \cup Apps \cup Handles) = {} /\ Orgs \cap (Apps \cup Handles) = {}

\* Mutant: the organisations of a transfer are locked in the order they are named.
UnsortedTransferPlans ==
  {<<o, a>> : o \in Orgs, a \in Apps}
    \cup {keys \in Orgs \X Orgs \X Apps : keys[1] # keys[2]}

\* acceptAppTransfer holds every organisation involved, sorted by transferOrgs, and the app.
TransferPlans ==
  {<<o, a>> : o \in Orgs, a \in Apps}
    \cup {keys \in Orgs \X Orgs \X Apps : keys[1] < keys[2]}

\* The nestings of the code: createOrganization; members, teams, domains and proposals;
\* upsertAppProfile, proposeAppTransfer and declineAppTransfer; CHANGE_HANDLE and
\* RELEASE_HANDLE; TRANSFER_APP_OUT and FREEZE_APP; acceptAppTransfer.
Plans ==
  (Creators \X Handles)
    \cup {<<o>> : o \in Orgs}
    \cup {<<a>> : a \in Apps}
    \cup (Orgs \X Handles)
    \cup (Orgs \X Apps)
    \cup TransferPlans

VARIABLE plan  \* of each handler

orderVars == <<lockVars, plan>>

\* the call at depth d of handler p, and whether the function around it is running
Within(p, d) == d > 1 => stage[<<p, d - 1>>] = "running"

TakeLock(p, d) ==
  /\ d <= Len(plan[p])
  /\ Within(p, d)
  /\ Acquire(<<p, d>>, plan[p][d])
  /\ UNCHANGED plan

EnterFunction(p, d) == Run(<<p, d>>) /\ UNCHANGED plan

LeaveFunction(p, d) ==
  /\ d < Len(plan[p]) => stage[<<p, d + 1>>] = "returned"
  /\ Settle(<<p, d>>)
  /\ UNCHANGED plan

LeaveLock(p, d) == Return(<<p, d>>) /\ UNCHANGED plan

HandlerDone(p) == stage[<<p, 1>>] = "returned"

AllDone == (\A p \in Proc : HandlerDone(p)) /\ UNCHANGED orderVars

OrderInit == LockInit /\ plan \in [Proc -> Plans]

OrderNext ==
  \/ \E p \in Proc, d \in 1..MaxDepth :
       TakeLock(p, d) \/ EnterFunction(p, d) \/ LeaveFunction(p, d) \/ LeaveLock(p, d)
  \/ AllDone

\* Promise reactions run, and the functions (queries and document writes) answer.
OrderFairness == \A p \in Proc, d \in 1..MaxDepth :
  /\ WF_orderVars(TakeLock(p, d)) /\ WF_orderVars(EnterFunction(p, d))
  /\ WF_orderVars(LeaveFunction(p, d)) /\ WF_orderVars(LeaveLock(p, d))

OrderSpec == OrderInit /\ [][OrderNext]_orderVars /\ OrderFairness

\* Every handler gets all its locks and returns: nobody waits for ever on
\* somebody who waits on them, whichever handlers meet.
EveryHandlerReturns == \A p \in Proc : <>HandlerDone(p)

\* p waits for a function of q
WaitsFor(p, q) ==
  \E d, e \in 1..MaxDepth :
    /\ stage[<<p, d>>] = "waiting"
    /\ previous[<<p, d>>] = <<q, e>>
    /\ ~HasSettled(<<q, e>>)

\* Handlers never wait for each other in a circle, in whatever order their nested calls
\* of lock() meet: in any group of them one waits for nobody of the group.
NoCircularWait ==
  \A group \in (SUBSET Proc) \ {{}} : \E p \in group : \A q \in group : ~WaitsFor(p, q)
==============================================================================
