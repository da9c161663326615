---------------------------- MODULE AgentRuntime ----------------------------
(***************************************************************************)
(* The threads of the agent runtime (agent/runtime.py, agent/state.py):    *)
(* one request thread per run, one worker thread per model call, one       *)
(* release thread for a run that ended while its call was still under way, *)
(* the clients that cancel, and the wall clock.  They share the gate (a    *)
(* bounded semaphore of Concurrency permits), the registry of recent runs  *)
(* and the AgentRun objects.                                               *)
(*                                                                         *)
(* pc[r] is the place of run r's thread in run_chat, _run, _call_model and *)
(* authorize; a step ends where another thread can make a difference.      *)
(* Left to other modules: which calls the tool cache answers and the tool  *)
(* budget (ToolLoop), who may approve what (PermissionEngine), what is     *)
(* stored (SessionStore).  Here a batch is the number of calls to execute, *)
(* an approval is a wait and a verdict.  Modes "ask" and "agent" take the  *)
(* same steps and are both called "agent".                                 *)
(***************************************************************************)
EXTENDS RunState, FiniteSets, Naturals, Sequences

CONSTANTS
  Runs,            \* one run_chat call each
  Modes,           \* the modes a request may ask for
  Concurrency,     \* permits of the gate
  RecentRunLimit,  \* recent_run_limit: how many runs the registry keeps
  MaxIterations,   \* max_iterations of the tool loop
  MaxCalls,        \* tool calls parse_calls returns at most (4 in the code)
  StoreMayFail     \* TRUE when writing a snapshot may raise

ASSUME RuntimeAssumption ==
  /\ IsFiniteSet(Runs)
  /\ Modes \subseteq {"plan", "agent"}
  /\ Concurrency \in Nat \ {0}
  /\ RecentRunLimit \in Nat \ {0}
  /\ MaxIterations \in Nat \ {0}
  /\ MaxCalls \in Nat \ {0}
  /\ StoreMayFail \in BOOLEAN

VARIABLES
  state,      \* state[r]: AgentRun.state
  cancel,     \* cancel[r]: the event AgentRun._cancel is set
  registry,   \* AgentRuntime._runs, oldest first
  pc,         \* pc[r]: where the request thread of r is
  mode,       \* mode[r]: "plan" or "agent"
  id,         \* id[r]: run_id, named by one of the runs whose clients chose it
  late,       \* late[r]: total_timeout has passed since r was admitted
  iteration,  \* iteration[r]: rounds of the tool loop begun
  final,      \* final[r]: the next answer must not contain tool calls
  calls,      \* calls[r]: tool calls of the batch still to be executed
  permits,    \* value of the gate
  held,       \* held[r]: capacity_held, r's thread owns a permit
  worker,     \* worker[r]: the thread of r's latest model call
  releaser,   \* releaser[r]: a release thread owns the permit of r
  toolsAfterCancel  \* history: tools r started after its cancellation

runVars  == <<state, cancel>>
request  == <<mode, id>>
loopVars == <<request, iteration, final, calls>>
gateVars == <<permits, held, worker, releaser>>
vars == <<runVars, registry, pc, late, loopVars, gateVars, toolsAfterCancel>>

\* Inside the try statement of run_chat: an exception leads to its handlers.
TryBlock ==
  {"started", "iterate", "launch", "model", "batch", "authorize", "park",
   "approval", "resume", "resumed", "decided", "dispatch", "tool", "observe",
   "finish", "verify", "complete", "persist"}

Locations ==
  {"idle", "created", "admission", "busy", "cancelling", "failing", "finally",
   "prune", "done"} \cup TryBlock

\* "idle": there was no model call yet, or the latest one has set _model_done.
WorkerStates == {"idle", "running", "returned"}

Terminal(r) == state[r] \in TerminalStates

\* What _check_active raises for.
DeadlineOnly(r) == late[r]  \* mutant of Stopped
Stopped(r) == cancel[r] \/ late[r]

Goto(r, place) == pc' = [pc EXCEPT ![r] = place]
Enter(r, s) == state' = [state EXCEPT ![r] = s]

Init ==
  /\ state = [r \in Runs |-> "analyzing"]
  /\ cancel = [r \in Runs |-> FALSE]
  /\ registry = <<>>
  /\ pc = [r \in Runs |-> "idle"]
  /\ mode \in [Runs -> Modes]
  /\ id \in {f \in [Runs -> Runs] : \A r \in Runs : f[f[r]] = f[r]}
  /\ late = [r \in Runs |-> FALSE]
  /\ iteration = [r \in Runs |-> 0]
  /\ final = [r \in Runs |-> FALSE]
  /\ calls = [r \in Runs |-> 0]
  /\ permits = Concurrency
  /\ held = [r \in Runs |-> FALSE]
  /\ worker = [r \in Runs |-> "idle"]
  /\ releaser = [r \in Runs |-> FALSE]
  /\ toolsAfterCancel = [r \in Runs |-> 0]
-----------------------------------------------------------------------------
(* The registry of recent runs.                                            *)

\* _prune_runs_locked drops the k oldest runs of before: each was over and one
\* too many, and the run after them is not.
DropsAnyOldest(before, k) ==  \* mutant of Drops
  k = IF Len(before) > RecentRunLimit THEN Len(before) - RecentRunLimit ELSE 0

Drops(before, k) ==
  /\ \A i \in 1..k :
       Terminal(before[i]) /\ Len(before) - (i - 1) > RecentRunLimit
  /\ Len(before) - k > RecentRunLimit => ~ Terminal(before[k + 1])

\* The registry a step leaves when it prunes what it has.
Prune(before) ==
  \E k \in 0..Len(before) :
    /\ Drops(before, k)
    /\ registry' = SubSeq(before, k + 1, Len(before))

Registered(r) == \E i \in DOMAIN registry : id[registry[i]] = id[r]

\* A run_id that is in the registry is refused, and there is no run.
Create(r) ==
  /\ pc[r] = "idle"
  /\ ~ Registered(r)
  /\ Prune(Append(registry, r))
  /\ Goto(r, "created")
  /\ UNCHANGED <<runVars, late, loopVars, gateVars, toolsAfterCancel>>

\* forget_runs, after the sessions of r were deleted.
Forget(r) ==
  /\ Terminal(r)
  /\ \E i \in DOMAIN registry :
       /\ registry[i] = r
       /\ registry' = SubSeq(registry, 1, i - 1)
                        \o SubSeq(registry, i + 1, Len(registry))
  /\ UNCHANGED <<runVars, pc, late, loopVars, gateVars, toolsAfterCancel>>

NotYetCancelled(r) == ~ cancel[r]  \* mutant of Cancellable
Cancellable(r) == ~ Terminal(r) /\ ~ cancel[r]

\* A client cancels: the run is looked up, then flagged unless it is over.
Cancel(r) ==
  /\ \E i \in DOMAIN registry : registry[i] = r
  /\ Cancellable(r)
  /\ cancel' = [cancel EXCEPT ![r] = TRUE]
  /\ UNCHANGED <<state, registry, pc, late, loopVars, gateVars, toolsAfterCancel>>
-----------------------------------------------------------------------------
(* Admission.                                                              *)

\* create_session accepts the request, or raises outside the try statement:
\* the request is over and its run stays as it is.
StoreSession(r) ==
  /\ pc[r] = "created"
  /\ Goto(r, "admission") \/ Goto(r, "done")
  /\ UNCHANGED <<runVars, registry, late, loopVars, gateVars, toolsAfterCancel>>

Admit(r) ==
  /\ pc[r] = "admission"
  /\ permits > 0
  /\ permits' = permits - 1
  /\ held' = [held EXCEPT ![r] = TRUE]
  /\ Goto(r, "started")
  /\ UNCHANGED <<runVars, registry, late, loopVars, worker, releaser, toolsAfterCancel>>

Refuse(r) ==
  /\ pc[r] = "admission"
  /\ permits = 0
  /\ Goto(r, "busy")
  /\ UNCHANGED <<runVars, registry, late, loopVars, gateVars, toolsAfterCancel>>

TerminateAgain(r, outcome) == Enter(r, outcome)  \* mutant of Terminate

\* _terminate, in one of its three uses.  A run that is over already keeps
\* its outcome; writing the error may raise before the outcome is entered.
Terminate(r, outcome) ==
  \/ ~ Terminal(r) /\ Enter(r, outcome)
  \/ Terminal(r) /\ UNCHANGED state
  \/ StoreMayFail /\ UNCHANGED state

FailBusy(r) ==
  /\ pc[r] = "busy"
  /\ Terminate(r, "failed")
  /\ Goto(r, "done")
  /\ UNCHANGED <<cancel, registry, late, loopVars, gateVars, toolsAfterCancel>>
-----------------------------------------------------------------------------
(* The tool loop.                                                          *)

Plan(r) ==
  /\ pc[r] = "started"
  /\ Enter(r, "planning")
  /\ Goto(r, "iterate")
  /\ UNCHANGED <<cancel, registry, late, loopVars, gateVars, toolsAfterCancel>>

CheckPointsButModel ==  \* mutant of CheckPoints
  {"iterate", "launch", "batch", "resume", "decided", "finish"}

\* _check_active at each place that calls it.
CheckPoints == {"iterate", "launch", "model", "batch", "resume", "decided", "finish"}

CheckActiveRaises(r) ==
  /\ pc[r] \in CheckPoints
  /\ Stopped(r)
  /\ Goto(r, IF cancel[r] THEN "cancelling" ELSE "failing")
  /\ UNCHANGED <<runVars, registry, late, loopVars, gateVars, toolsAfterCancel>>

Iterate(r) ==
  /\ pc[r] = "iterate"
  /\ ~ Stopped(r)
  /\ iteration' = [iteration EXCEPT ![r] = @ + 1]
  /\ Goto(r, "launch")
  /\ UNCHANGED <<runVars, registry, late, request, final, calls, gateVars, toolsAfterCancel>>

LaunchModel(r) ==
  /\ pc[r] = "launch"
  /\ ~ Stopped(r)
  /\ worker' = [worker EXCEPT ![r] = "running"]
  /\ Goto(r, "model")
  /\ UNCHANGED <<runVars, registry, late, loopVars, permits, held, releaser, toolsAfterCancel>>

\* The worker puts its result first and sets _model_done afterwards.
WorkerReturns(r) ==
  /\ worker[r] = "running"
  /\ worker' = [worker EXCEPT ![r] = "returned"]
  /\ UNCHANGED <<runVars, registry, pc, late, loopVars, permits, held, releaser, toolsAfterCancel>>

WorkerEnds(r) ==
  /\ worker[r] = "returned"
  /\ worker' = [worker EXCEPT ![r] = "idle"]
  /\ UNCHANGED <<runVars, registry, pc, late, loopVars, permits, held, releaser, toolsAfterCancel>>

\* What the run has taken out of the queue when it gets here.
HasResult(r) == pc[r] = "model" /\ worker[r] # "running"

\* The worker raised: RunCancelled out of receive, or the model's own error.
ModelFails(r) ==
  /\ HasResult(r)
  /\ \/ cancel[r] /\ Goto(r, "cancelling")
     \/ Goto(r, "failing")
  /\ UNCHANGED <<runVars, registry, late, loopVars, gateVars, toolsAfterCancel>>

AnswerWithoutCalls(r) ==
  /\ HasResult(r)
  /\ Goto(r, "finish")
  /\ UNCHANGED <<runVars, registry, late, loopVars, gateVars, toolsAfterCancel>>

\* Tool calls where none are allowed: a plan run is asked once more, an
\* answer that had to be final fails the run.
AnswerWithForbiddenCalls(r) ==
  /\ HasResult(r)
  /\ \/ final[r] /\ Goto(r, "failing") /\ UNCHANGED final
     \/ /\ ~ final[r] /\ mode[r] = "plan"
        /\ final' = [final EXCEPT ![r] = TRUE]
        /\ Goto(r, "launch")
  /\ UNCHANGED <<runVars, registry, late, request, iteration, calls, gateVars, toolsAfterCancel>>

\* A batch of n calls to execute; the others are answered from the cache.
\* A batch answered from the cache alone asks for the final answer next.
AnswerWithCalls(r) ==
  /\ HasResult(r)
  /\ ~ final[r] /\ mode[r] # "plan"
  /\ \E n \in 0..MaxCalls :
       /\ n = 0 => iteration[r] > 1
       /\ calls' = [calls EXCEPT ![r] = n]
       /\ final' = [final EXCEPT ![r] = (n = 0)]
  /\ Enter(r, "executing")
  /\ Goto(r, "batch")
  /\ UNCHANGED <<cancel, registry, late, request, iteration, gateVars, toolsAfterCancel>>

NextCall(r) ==
  /\ pc[r] = "batch"
  /\ calls[r] > 0
  /\ ~ Stopped(r)
  /\ Goto(r, "authorize")
  /\ UNCHANGED <<runVars, registry, late, loopVars, gateVars, toolsAfterCancel>>

\* authorize decides at once: a read tool, a grant, or an earlier denial.
DecidedAtOnce(r) ==
  /\ pc[r] = "authorize"
  /\ Goto(r, "decided")
  /\ UNCHANGED <<runVars, registry, late, loopVars, gateVars, toolsAfterCancel>>

AskApproval(r) ==
  /\ pc[r] = "authorize"
  /\ Enter(r, "awaiting_approval")
  /\ Goto(r, "park")
  /\ UNCHANGED <<cancel, registry, late, loopVars, gateVars, toolsAfterCancel>>

\* release_capacity, called as on_wait.
ReleaseCapacity(r) ==
  /\ pc[r] = "park"
  /\ IF held[r]
       THEN /\ permits' = permits + 1
            /\ held' = [held EXCEPT ![r] = FALSE]
       ELSE UNCHANGED <<permits, held>>
  /\ Goto(r, "approval")
  /\ UNCHANGED <<runVars, registry, late, loopVars, worker, releaser, toolsAfterCancel>>

\* The wait ends: a decision, a cancellation, or the deadline.
ApprovalEnds(r) ==
  /\ pc[r] = "approval"
  /\ Goto(r, "resume")
  /\ UNCHANGED <<runVars, registry, late, loopVars, gateVars, toolsAfterCancel>>

\* reacquire_capacity, called as on_resume unless the run was cancelled; a
\* cancellation or the deadline may fall while the acquire is blocked.
ReacquireCapacity(r) ==
  /\ pc[r] = "resume"
  /\ permits > 0
  /\ permits' = permits - 1
  /\ held' = [held EXCEPT ![r] = TRUE]
  /\ Goto(r, "resumed")
  /\ UNCHANGED <<runVars, registry, late, loopVars, worker, releaser, toolsAfterCancel>>

Resume(r) ==
  /\ pc[r] = "resumed"
  /\ IF cancel[r] THEN UNCHANGED state ELSE Enter(r, "executing")
  /\ Goto(r, "decided")
  /\ UNCHANGED <<cancel, registry, late, loopVars, gateVars, toolsAfterCancel>>

\* The verdict on the call: refused by the active skill, which is looked at before
\* anything else, or by authorize; or on its way to the tool registry.
Refused(r) ==
  /\ \/ pc[r] = "authorize"
     \/ pc[r] = "decided" /\ ~ Stopped(r)
  /\ calls' = [calls EXCEPT ![r] = @ - 1]
  /\ Goto(r, "batch")
  /\ UNCHANGED <<runVars, registry, late, request, iteration, final, gateVars, toolsAfterCancel>>

Allowed(r) ==
  /\ pc[r] = "decided"
  /\ ~ Stopped(r)
  /\ Goto(r, "dispatch")
  /\ UNCHANGED <<runVars, registry, late, loopVars, gateVars, toolsAfterCancel>>

StartTool(r) ==
  /\ pc[r] = "dispatch"
  /\ Goto(r, "tool")
  /\ toolsAfterCancel' =
       [toolsAfterCancel EXCEPT ![r] = IF cancel[r] THEN @ + 1 ELSE @]
  /\ UNCHANGED <<runVars, registry, late, loopVars, gateVars>>

ToolReturns(r) ==
  /\ pc[r] = "tool"
  /\ calls' = [calls EXCEPT ![r] = @ - 1]
  /\ Goto(r, "batch")
  /\ UNCHANGED <<runVars, registry, late, request, iteration, final, gateVars, toolsAfterCancel>>

EndBatch(r) ==
  /\ pc[r] = "batch"
  /\ calls[r] = 0
  /\ Enter(r, "observing")
  /\ Goto(r, "observe")
  /\ UNCHANGED <<cancel, registry, late, loopVars, gateVars, toolsAfterCancel>>

OneRoundTooMany(r) == iteration[r] <= MaxIterations  \* mutant of RoundsLeft
RoundsLeft(r) == iteration[r] < MaxIterations

\* Back to planning: another round, or the final answer when the batch was
\* answered from the cache alone or the iterations are used up.
NextRound(r) ==
  /\ pc[r] = "observe"
  /\ Enter(r, "planning")
  /\ \/ /\ ~ final[r] /\ RoundsLeft(r)
        /\ Goto(r, "iterate")
        /\ UNCHANGED final
     \/ /\ final[r] \/ ~ RoundsLeft(r)
        /\ final' = [final EXCEPT ![r] = TRUE]
        /\ Goto(r, "launch")
  /\ UNCHANGED <<cancel, registry, late, request, iteration, calls, gateVars, toolsAfterCancel>>
-----------------------------------------------------------------------------
(* The end of a run.                                                       *)

BeginVerify(r) ==
  /\ pc[r] = "finish"
  /\ ~ Stopped(r)
  /\ Enter(r, "verifying")
  /\ Goto(r, "verify")
  /\ UNCHANGED <<cancel, registry, late, loopVars, gateVars, toolsAfterCancel>>

\* No verifier, or the verifier passed the answer.
VerifyPasses(r) ==
  /\ pc[r] = "verify"
  /\ Goto(r, "complete")
  /\ UNCHANGED <<runVars, registry, late, loopVars, gateVars, toolsAfterCancel>>

AlwaysActive(r) == TRUE  \* mutant of Active
Active(r) == ~ cancel[r]

\* transition_if_active: the flag is tested and the state set under one lock.
Complete(r) ==
  /\ pc[r] = "complete"
  /\ IF Active(r)
       THEN Enter(r, "completed") /\ Goto(r, "persist")
       ELSE Goto(r, "cancelling") /\ UNCHANGED state
  /\ UNCHANGED <<cancel, registry, late, loopVars, gateVars, toolsAfterCancel>>

Persist(r) ==
  /\ pc[r] = "persist"
  /\ Goto(r, "finally")
  /\ UNCHANGED <<runVars, registry, late, loopVars, gateVars, toolsAfterCancel>>

\* Any call of the try statement may raise: the skill loader, a thread that
\* cannot start, the client's connection, a tool record, the verifier.
Raise(r) ==
  /\ pc[r] \in TryBlock
  /\ Goto(r, "failing")
  /\ UNCHANGED <<runVars, registry, late, loopVars, gateVars, toolsAfterCancel>>

Handle(r) ==
  /\ \/ pc[r] = "cancelling" /\ Terminate(r, "cancelled")
     \/ pc[r] = "failing" /\ Terminate(r, "failed")
  /\ Goto(r, "finally")
  /\ UNCHANGED <<cancel, registry, late, loopVars, gateVars, toolsAfterCancel>>

NeverUnderWay(r) == FALSE  \* mutant of CallUnderWay
CallUnderWay(r) == worker[r] # "idle"

ReleaseTwice(r) == permits + 1  \* mutant of GivenBack
GivenBack(r) == IF held[r] THEN permits + 1 ELSE permits

\* The finally clause: the permit goes back, or to a release thread when the
\* model call has not ended.  The locals of the thread are gone.
LeaveCapacity(r) ==
  /\ pc[r] = "finally"
  /\ held' = [held EXCEPT ![r] = FALSE]
  /\ IF held[r] /\ CallUnderWay(r)
       THEN releaser' = [releaser EXCEPT ![r] = TRUE] /\ UNCHANGED permits
       ELSE /\ permits' = GivenBack(r)
            /\ UNCHANGED releaser
  /\ late' = [late EXCEPT ![r] = FALSE]
  /\ iteration' = [iteration EXCEPT ![r] = 0]
  /\ final' = [final EXCEPT ![r] = FALSE]
  /\ calls' = [calls EXCEPT ![r] = 0]
  /\ Goto(r, "prune")
  /\ UNCHANGED <<runVars, registry, request, worker, toolsAfterCancel>>

PruneRuns(r) ==
  /\ pc[r] = "prune"
  /\ Prune(registry)
  /\ Goto(r, "done")
  /\ UNCHANGED <<runVars, late, loopVars, gateVars, toolsAfterCancel>>

DoneAndRegistered(r) ==  \* mutant of CallDone
  worker[r] = "idle" /\ \E i \in DOMAIN registry : registry[i] = r
CallDone(r) == worker[r] = "idle"

\* _release_when_done.
ReleaseWhenDone(r) ==
  /\ releaser[r]
  /\ CallDone(r)
  /\ permits' = permits + 1
  /\ releaser' = [releaser EXCEPT ![r] = FALSE]
  /\ Prune(registry)
  /\ UNCHANGED <<runVars, pc, late, loopVars, held, worker, toolsAfterCancel>>

\* total_timeout passes; the last check is the one before verification.
Deadline(r) ==
  /\ pc[r] \in TryBlock \ {"verify", "complete", "persist"}
  /\ ~ late[r]
  /\ late' = [late EXCEPT ![r] = TRUE]
  /\ UNCHANGED <<runVars, registry, pc, loopVars, gateVars, toolsAfterCancel>>
-----------------------------------------------------------------------------
\* One step of the request thread of r, exceptions apart.
Thread(r) ==
  \/ StoreSession(r) \/ Admit(r) \/ Refuse(r) \/ FailBusy(r)
  \/ Plan(r) \/ CheckActiveRaises(r) \/ Iterate(r) \/ LaunchModel(r)
  \/ ModelFails(r) \/ AnswerWithoutCalls(r) \/ AnswerWithForbiddenCalls(r)
  \/ AnswerWithCalls(r)
  \/ NextCall(r) \/ DecidedAtOnce(r) \/ AskApproval(r) \/ ReleaseCapacity(r)
  \/ ApprovalEnds(r) \/ ReacquireCapacity(r) \/ Resume(r)
  \/ Refused(r) \/ Allowed(r) \/ StartTool(r) \/ ToolReturns(r)
  \/ EndBatch(r) \/ NextRound(r)
  \/ BeginVerify(r) \/ VerifyPasses(r) \/ Complete(r) \/ Persist(r)
  \/ Handle(r) \/ LeaveCapacity(r) \/ PruneRuns(r)

Worker(r) == WorkerReturns(r) \/ WorkerEnds(r)

Next ==
  \E r \in Runs :
    \/ Create(r) \/ Thread(r) \/ Raise(r)
    \/ Worker(r) \/ ReleaseWhenDone(r)
    \/ Cancel(r) \/ Forget(r) \/ Deadline(r)

\* The scheduler runs every thread, the clock advances, and what a thread
\* waits for is bounded: tools, approvals and the verifier all have a timeout.
\* A model call may take for ever.
ThreadFairness ==
  \A r \in Runs : /\ WF_vars(Thread(r))
                  /\ WF_vars(ReleaseWhenDone(r))
                  /\ WF_vars(Deadline(r))

Spec == Init /\ [][Next]_vars
FairSpec == Spec /\ ThreadFairness
-----------------------------------------------------------------------------
(* What is true at each place; the safety properties follow from it.       *)

\* The state a run is in while its thread is at a place.
StateAtPlace ==
  \A r \in Runs :
    /\ pc[r] \in {"idle", "created", "admission", "busy", "started"}
         => state[r] = "analyzing"
    /\ pc[r] \in {"iterate", "launch", "model", "finish"} => state[r] = "planning"
    /\ pc[r] \in {"batch", "authorize", "dispatch", "tool"} => state[r] = "executing"
    /\ pc[r] \in {"park", "approval", "resume", "resumed"}
         => state[r] = "awaiting_approval"
    /\ pc[r] = "decided" => \/ state[r] = "executing"
                            \/ state[r] = "awaiting_approval" /\ cancel[r]
    /\ pc[r] = "observe" => state[r] = "observing"
    /\ pc[r] \in {"verify", "complete"} => state[r] = "verifying"
    /\ pc[r] = "persist" => state[r] = "completed"
    /\ pc[r] = "cancelling" => ~ Terminal(r)
    /\ pc[r] = "failing" => state[r] \notin {"failed", "cancelled"}

\* The loop counters at the places that count.
CountersAtPlace ==
  \A r \in Runs :
    /\ pc[r] \in {"idle", "created", "admission", "busy", "started"} => iteration[r] = 0
    /\ pc[r] = "iterate" => iteration[r] < MaxIterations
    /\ pc[r] \in {"authorize", "park", "approval", "resume", "resumed", "decided",
                   "dispatch", "tool"} => calls[r] > 0

\* What the registry holds: runs that were opened.
RegistryOpened == \A i \in DOMAIN registry : pc[registry[i]] # "idle"

\* A run in progress is in the registry.
ActiveInRegistry ==
  \A r \in Runs :
    pc[r] # "idle" /\ ~ Terminal(r) => \E i \in DOMAIN registry : registry[i] = r

\* A run_id finds one run.
RunIdsApart ==
  \A i, j \in DOMAIN registry : id[registry[i]] = id[registry[j]] => i = j

\* Where a thread owns a permit, and where it may still have one.
Owning ==
  {"started", "iterate", "launch", "model", "batch", "authorize", "park",
   "resumed", "decided", "dispatch", "tool", "observe", "finish", "verify",
   "complete", "persist"}
Ending == {"cancelling", "failing", "finally"}

PermitAtPlace ==
  \A r \in Runs :
    /\ pc[r] \in Owning => held[r]
    /\ held[r] => pc[r] \in Owning \cup Ending
    /\ releaser[r] => pc[r] \in {"prune", "done"}
    /\ worker[r] = "running" =>
         \/ pc[r] \in {"model"} \cup Ending /\ held[r]
         \/ releaser[r]

\* Tools started after a cancellation: none before the last check is passed.
ToolsAtPlace ==
  \A r \in Runs :
    /\ toolsAfterCancel[r] <= 1
    /\ ~ cancel[r] \/ pc[r] = "dispatch" => toolsAfterCancel[r] = 0
-----------------------------------------------------------------------------
(* Properties.                                                             *)

\* Every variable keeps its type: the states and places the code names, and
\* loop counters within the limits of the loop.
TypeOK ==
  /\ state \in [Runs -> RunStates]
  /\ cancel \in [Runs -> BOOLEAN]
  /\ registry \in Seq(Runs)
  /\ pc \in [Runs -> Locations]
  /\ mode \in [Runs -> Modes]
  /\ id \in [Runs -> Runs]
  /\ late \in [Runs -> BOOLEAN]
  /\ iteration \in [Runs -> 0..MaxIterations]
  /\ final \in [Runs -> BOOLEAN]
  /\ calls \in [Runs -> 0..MaxCalls]
  /\ permits \in Nat
  /\ held \in [Runs -> BOOLEAN]
  /\ worker \in [Runs -> WorkerStates]
  /\ releaser \in [Runs -> BOOLEAN]
  /\ toolsAfterCancel \in [Runs -> Nat]

\* Who owns a permit: a request thread, or the release thread it left behind.
Owners == {r \in Runs : held[r] \/ releaser[r]}

\* No permit of the gate is lost or given back twice, whatever the order of
\* approvals, cancellations, timeouts and late model results: the permits
\* left and the owners always add up to Concurrency.
GateConserved ==
  /\ permits + Cardinality(Owners) = Concurrency
  /\ \A r \in Runs : ~ (held[r] /\ releaser[r])

\* At most Concurrency model calls are under way, also while calls of
\* cancelled or timed-out runs are still running and while runs that waited
\* for an approval come back for a permit.
ModelCallsBounded ==
  Cardinality({r \in Runs : worker[r] = "running"}) <= Concurrency

\* Once a cancellation was accepted the run does not end as completed:
\* transition_if_active decides between the two under the lock of the run.
CancelledNeverCompletes ==
  \A r \in Runs : cancel[r] => state[r] # "completed"

\* After an accepted cancellation at most one more tool starts: the one that
\* had passed the last _check_active before registry.execute.
OneToolAfterCancel ==
  \A r \in Runs : toolsAfterCancel[r] <= 1

\* A run in progress is found by its run_id, so that it can be cancelled: neither
\* pruning nor forgetting drops it, and no other run gets in its way although
\* clients may use a run_id again.
ActiveRunsRegistered == ActiveInRegistry /\ RunIdsApart

\* Every change of a run's state is one TRANSITIONS allows, so the code never
\* raises "invalid run transition", and an outcome is never replaced.
LegalMoves ==
  [][\A r \in Runs : state'[r] # state[r] => state'[r] \in Transitions[state[r]]]_vars

\* README: the runtime "tracks bounded recent runs".  With no request in
\* progress the registry is back within recent_run_limit.
RecentRunsBounded ==
  (\A r \in Runs : pc[r] \in {"idle", "done"}) => Len(registry) <= RecentRunLimit

\* An admitted run reaches an outcome and its thread ends, whatever the model
\* does: the wall clock and the cancellation are polled everywhere it waits.  It is
\* promised where saves succeed (StoreMayFail = FALSE): when one of _terminate
\* raises, the thread ends and leaves the run active.
AdmittedRunsEnd ==
  \A r \in Runs : pc[r] = "started" ~> (pc[r] = "done" /\ Terminal(r))

\* If model calls end, every permit comes back to the gate.
CallsEnd == \A r \in Runs : []<>(worker[r] = "idle")

CapacityReturns ==
  CallsEnd => \A r \in Runs : r \in Owners ~> r \notin Owners

\* The runtime implements the abstract service: a run owns a slot while its
\* thread or its release thread owns a permit.
Phase == [r \in Runs |->
            IF pc[r] = "idle" THEN "absent"
            ELSE IF Terminal(r) THEN state[r] ELSE "active"]
Requested == {r \in Runs : cancel[r]}
Calling == {r \in Runs : worker[r] = "running"}

Service == INSTANCE RunService WITH
  phase <- Phase, requested <- Requested, using <- Owners, calling <- Calling

ImplementsService == Service!Spec
=============================================================================
