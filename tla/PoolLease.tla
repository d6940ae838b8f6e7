------------------------------ MODULE PoolLease ------------------------------
(***************************************************************************)
(* What GenginePool promises its callers: every call is given one engine   *)
(* instance for its own use, no instance serves two calls at a time, and   *)
(* an instance whose call has ended may serve another one.  How instances  *)
(* are queued, locked and handed back (engine/gengine_pool.go) is left to  *)
(* module GenginePool, which is shown to implement this one.               *)
(***************************************************************************)
CONSTANTS
  Requests,   \* the calls of ExecuteOpts
  Instances,  \* the engine instances of the pool
  NULL        \* no instance

VARIABLES
  stage,      \* "none" | "waiting" | "served" | "done", per call
  lease       \* the instance a call holds, or NULL

vars == <<stage, lease>>

Init ==
  /\ stage = [r \in Requests |-> "none"]
  /\ lease = [r \in Requests |-> NULL]

Arrive(r) ==
  /\ stage[r] = "none"
  /\ stage' = [stage EXCEPT ![r] = "waiting"]
  /\ UNCHANGED lease

(* An instance is granted only while nobody holds it. *)
Grant(r, t) ==
  /\ stage[r] = "waiting"
  /\ \A q \in Requests : lease[q] # t
  /\ stage' = [stage EXCEPT ![r] = "served"]
  /\ lease' = [lease EXCEPT ![r] = t]

GiveBack(r) ==
  /\ stage[r] = "served"
  /\ stage' = [stage EXCEPT ![r] = "done"]
  /\ lease' = [lease EXCEPT ![r] = NULL]

Next ==
  \E r \in Requests : Arrive(r) \/ (\E t \in Instances : Grant(r, t)) \/ GiveBack(r)

Safety == Init /\ [][Next]_vars

(* Once a call has arrived it is granted an instance, and gives it back. *)
Fairness ==
  \A r \in Requests : /\ SF_vars(\E t \in Instances : Grant(r, t))
                      /\ WF_vars(GiveBack(r))

Spec == Safety /\ Fairness
=============================================================================
