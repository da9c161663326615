----------------------------- MODULE RunService -----------------------------
(***************************************************************************)
(* What the agent runtime promises its callers, without its threads.       *)
(*                                                                         *)
(* A run is opened, is active for a while and settles once, in one         *)
(* outcome.  A cancellation is accepted only while the run is active, and  *)
(* an accepted cancellation rules out the outcome "completed".  The model  *)
(* has Concurrency slots: a run calls the model only from a slot, and a    *)
(* slot is never given up while the call it was taken for still runs, not  *)
(* even by a run that has settled.                                         *)
(***************************************************************************)
EXTENDS FiniteSets, Naturals

CONSTANTS Runs,         \* the runs that may ever be opened
          Concurrency   \* the number of slots, a positive number

VARIABLES phase,      \* phase[r]: where run r stands
          requested,  \* the runs whose cancellation has been accepted
          using,      \* the runs that have a slot
          calling     \* the runs whose model call is under way

vars == <<phase, requested, using, calling>>

Outcomes == {"completed", "failed", "cancelled"}
Phases == {"absent", "active"} \cup Outcomes

Init ==
  /\ phase = [r \in Runs |-> "absent"]
  /\ requested = {}
  /\ using = {}
  /\ calling = {}

Open(r) ==
  /\ phase[r] = "absent"
  /\ phase' = [phase EXCEPT ![r] = "active"]
  /\ UNCHANGED <<requested, using, calling>>

RequestCancel(r) ==
  /\ phase[r] = "active"
  /\ requested' = requested \cup {r}
  /\ UNCHANGED <<phase, using, calling>>

Settle(r, outcome) ==
  /\ phase[r] = "active"
  /\ outcome = "completed" => r \notin requested
  /\ phase' = [phase EXCEPT ![r] = outcome]
  /\ UNCHANGED <<requested, using, calling>>

TakeSlot(r) ==
  /\ phase[r] = "active"
  /\ r \notin using
  /\ Cardinality(using) < Concurrency
  /\ using' = using \cup {r}
  /\ UNCHANGED <<phase, requested, calling>>

BeginCall(r) ==
  /\ phase[r] = "active"
  /\ r \in using \ calling
  /\ calling' = calling \cup {r}
  /\ UNCHANGED <<phase, requested, using>>

EndCall(r) ==
  /\ r \in calling
  /\ calling' = calling \ {r}
  /\ UNCHANGED <<phase, requested, using>>

GiveUpSlot(r) ==
  /\ r \in using \ calling
  /\ using' = using \ {r}
  /\ UNCHANGED <<phase, requested, calling>>

Next ==
  \E r \in Runs :
    \/ Open(r)
    \/ RequestCancel(r)
    \/ \E outcome \in Outcomes : Settle(r, outcome)
    \/ TakeSlot(r)
    \/ BeginCall(r)
    \/ EndCall(r)
    \/ GiveUpSlot(r)

Spec == Init /\ [][Next]_vars
=============================================================================
