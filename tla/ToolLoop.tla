------------------------------ MODULE ToolLoop ------------------------------
(***************************************************************************)
(* The tool loop of one run (AgentRuntime._run): the model's answers, the  *)
(* cache of tool results, the budget of tool calls, the rounds, and the    *)
(* recovery prompts that ask for an answer without tools.                  *)
(*                                                                         *)
(* A call is a name with its arguments.  What matters of a result is how   *)
(* many changes of the workspace it has seen.  A write whose handler runs  *)
(* into the timeout of ToolRegistry goes on in its thread and may take     *)
(* effect later, or have taken effect already when it is reported failed.  *)
(***************************************************************************)
EXTENDS FiniteSets, Naturals, Sequences

CONSTANTS
  Reads,          \* calls of the tools that change nothing
  Writes,         \* calls of MUTATING_TOOLS
  Tests,          \* calls of test_run, which are never answered from the cache
  Modes,          \* modes the run may be in
  MaxBatch,       \* calls parse_calls returns at most (4 in the code)
  MaxIterations,  \* max_iterations
  MaxToolCalls    \* max_tool_calls

Calls == Reads \cup Writes \cup Tests

ASSUME LoopAssumption ==
  /\ Reads \cap Writes = {} /\ Reads \cap Tests = {} /\ Writes \cap Tests = {}
  /\ Modes \subseteq {"plan", "agent"}
  /\ MaxBatch \in Nat \ {0}
  /\ MaxIterations \in Nat \ {0}
  /\ MaxToolCalls \in Nat \ {0}

VARIABLES
  mode,        \* "plan" or "agent" ("ask" takes the steps of "agent")
  pc,          \* where the thread of the run is
  iteration,   \* rounds of the for loop begun
  asked,       \* answers the model has given
  batch,       \* calls of the current answer not dealt with yet
  fresh,       \* a call of the current answer was executed: duplicate_count < len(calls)
  seen,        \* changes when the call under way started
  cache,       \* tool_cache: the event of each call it holds
  toolCalls,   \* run.tool_calls
  events,      \* events: the results so far, in order
  changes,     \* changes the workspace has undergone
  unreported,  \* those since the cache was last cleared that no result reported
  late         \* failed writes whose threads still run

loopVars == <<mode, iteration, asked, batch, fresh>>
worldVars == <<changes, unreported, late>>
vars == <<pc, loopVars, seen, cache, toolCalls, events, worldVars>>

InProgress == {"asking", "batch", "tool", "recovering"}
Locations == InProgress \cup {"answered", "failed"}

Event == [call : Calls, ok : BOOLEAN, seen : Nat]

Init ==
  /\ mode \in Modes
  /\ pc = "asking"
  /\ iteration = 1
  /\ asked = 0
  /\ batch = <<>>
  /\ fresh = FALSE
  /\ seen = 0
  /\ cache = [c \in {} |-> <<>>]
  /\ toolCalls = 0
  /\ events = <<>>
  /\ changes = 0
  /\ unreported = 0
  /\ late = 0
-----------------------------------------------------------------------------
Cached(c) == c \in DOMAIN cache

\* new_call_count: the calls of an answer the cache holds no result for.
NewCalls(b) == Cardinality({i \in DOMAIN b : ~ Cached(b[i])})

BudgetSpentOnly(b) == toolCalls <= MaxToolCalls  \* mutant of WithinBudget
WithinBudget(b) == toolCalls + NewCalls(b) <= MaxToolCalls

\* The calls an answer may contain.
Batches == UNION {[1..n -> Calls] : n \in 1..MaxBatch}

AnswerWithoutCalls ==
  /\ pc = "asking"
  /\ asked' = asked + 1
  /\ pc' = "answered"
  /\ UNCHANGED <<mode, iteration, batch, fresh, seen, cache, toolCalls, events, worldVars>>

\* A plan run that calls tools is asked to answer without.
PlanWithCalls ==
  /\ pc = "asking"
  /\ mode = "plan"
  /\ asked' = asked + 1
  /\ pc' = "recovering"
  /\ UNCHANGED <<mode, iteration, batch, fresh, seen, cache, toolCalls, events, worldVars>>

AnswerOverBudget(b) ==
  /\ pc = "asking"
  /\ mode # "plan"
  /\ ~ WithinBudget(b)
  /\ asked' = asked + 1
  /\ pc' = "failed"
  /\ UNCHANGED <<mode, iteration, batch, fresh, seen, cache, toolCalls, events, worldVars>>

AnswerWithCalls(b) ==
  /\ pc = "asking"
  /\ mode # "plan"
  /\ WithinBudget(b)
  /\ asked' = asked + 1
  /\ batch' = b
  /\ fresh' = FALSE
  /\ pc' = "batch"
  /\ UNCHANGED <<mode, iteration, seen, cache, toolCalls, events, worldVars>>

Cacheable(c) == c \notin Tests

Reuse ==
  /\ pc = "batch"
  /\ batch # <<>>
  /\ Cacheable(Head(batch)) /\ Cached(Head(batch))
  /\ batch' = Tail(batch)
  /\ UNCHANGED <<pc, mode, iteration, asked, fresh, seen, cache, toolCalls, events, worldVars>>

StartCall ==
  /\ pc = "batch"
  /\ batch # <<>>
  /\ ~ (Cacheable(Head(batch)) /\ Cached(Head(batch)))
  /\ toolCalls' = toolCalls + 1
  /\ seen' = changes
  /\ pc' = "tool"
  /\ UNCHANGED <<loopVars, cache, events, worldVars>>

ClearsNothing(e) == FALSE  \* mutant of Clears
Clears(e) == e.call \in Writes /\ e.ok

StoredThenCleared(e) ==  \* mutant of CacheAfter
  IF Clears(e) THEN [c \in {} |-> e]
  ELSE IF Cacheable(e.call)
         THEN [c \in DOMAIN cache \cup {e.call} |-> IF c = e.call THEN e ELSE cache[c]]
         ELSE cache

\* A successful change empties the cache, then the result itself is stored.
CacheAfter(e) ==
  LET kept == IF Clears(e) THEN {} ELSE DOMAIN cache
      held == IF Cacheable(e.call) THEN kept \cup {e.call} ELSE kept
  IN [c \in held |-> IF c = e.call THEN e ELSE cache[c]]

\* The result e of the call at the head of the batch is stored and recorded.
Record(e) ==
  /\ cache' = CacheAfter(e)
  /\ events' = Append(events, e)
  /\ batch' = Tail(batch)
  /\ fresh' = TRUE
  /\ pc' = "batch"
  /\ UNCHANGED <<mode, iteration, asked, seen, toolCalls>>

\* A call that changes nothing may read before or after a change that arrives
\* while it runs.  Any call may fail, by refusal, error or timeout.
FinishCall ==
  /\ pc = "tool"
  /\ Head(batch) \notin Writes
  /\ \E ok \in BOOLEAN, n \in seen..changes :
       Record([call |-> Head(batch), ok |-> ok, seen |-> n])
  /\ UNCHANGED worldVars

WriteSucceeds ==
  /\ pc = "tool"
  /\ Head(batch) \in Writes
  /\ changes' = changes + 1
  /\ unreported' = IF Clears([call |-> Head(batch), ok |-> TRUE]) THEN 0 ELSE unreported
  /\ Record([call |-> Head(batch), ok |-> TRUE, seen |-> changes + 1])
  /\ UNCHANGED late

\* A write is reported failed: without effect, with an effect nobody reported,
\* or while its thread still runs.
WriteFails ==
  /\ pc = "tool"
  /\ Head(batch) \in Writes
  /\ \/ UNCHANGED worldVars
     \/ /\ changes' = changes + 1
        /\ unreported' = unreported + 1
        /\ UNCHANGED late
     \/ late' = late + 1 /\ UNCHANGED <<changes, unreported>>
  /\ Record([call |-> Head(batch), ok |-> FALSE, seen |-> changes])

\* The thread of a timed-out write ends, with its effect or without.
LateWriteEnds ==
  /\ late > 0
  /\ late' = late - 1
  /\ \/ UNCHANGED <<changes, unreported>>
     \/ changes' = changes + 1 /\ unreported' = unreported + 1
  /\ UNCHANGED <<pc, loopVars, seen, cache, toolCalls, events>>

OneRoundTooMany == iteration <= MaxIterations  \* mutant of RoundsLeft
RoundsLeft == iteration < MaxIterations

\* After the results: a final answer when nothing was executed or no round is
\* left, the next round otherwise.
EndBatch ==
  /\ pc = "batch"
  /\ batch = <<>>
  /\ \/ /\ fresh /\ RoundsLeft
        /\ iteration' = iteration + 1
        /\ pc' = "asking"
     \/ /\ ~ fresh \/ ~ RoundsLeft
        /\ pc' = "recovering"
        /\ UNCHANGED iteration
  /\ UNCHANGED <<mode, asked, batch, fresh, seen, cache, toolCalls, events, worldVars>>

AskAgain == {"answered", "recovering"}  \* mutant of AfterRecovery
\* _require_final_answer accepts the answer or fails the run.
AfterRecovery == {"answered", "failed"}

RecoveryAnswer ==
  /\ pc = "recovering"
  /\ asked' = asked + 1
  /\ pc' \in AfterRecovery
  /\ UNCHANGED <<mode, iteration, batch, fresh, seen, cache, toolCalls, events, worldVars>>

\* Cancellation, deadline or an error, at any point; a call under way when the
\* approval wait raises has been counted and leaves no result.
Stop ==
  /\ pc \in InProgress
  /\ pc' = "failed"
  /\ UNCHANGED <<loopVars, seen, cache, toolCalls, events, worldVars>>

Next ==
  \/ AnswerWithoutCalls \/ PlanWithCalls
  \/ \E b \in Batches : AnswerOverBudget(b) \/ AnswerWithCalls(b)
  \/ Reuse \/ StartCall \/ FinishCall \/ WriteSucceeds \/ WriteFails
  \/ LateWriteEnds \/ EndBatch \/ RecoveryAnswer \/ Stop

Spec == Init /\ [][Next]_vars
-----------------------------------------------------------------------------
(* Properties.                                                             *)

\* Types; the rounds stay within max_iterations.
TypeOK ==
  /\ mode \in Modes
  /\ pc \in Locations
  /\ iteration \in 1..MaxIterations
  /\ asked \in Nat
  /\ batch \in Seq(Calls)
  /\ fresh \in BOOLEAN
  /\ seen \in Nat
  /\ DOMAIN cache \subseteq Reads \cup Writes
  /\ \A c \in DOMAIN cache : cache[c] \in Event
  /\ toolCalls \in Nat
  /\ events \in Seq(Event)
  /\ changes \in Nat
  /\ unreported \in Nat
  /\ late \in Nat

\* README: a run is bounded by a "tool-call" limit.  The code admits a batch by
\* the results the cache holds before the batch starts.
ToolBudgetKept == toolCalls <= MaxToolCalls

\* The limit that does hold: a batch that clears the cache on its way repeats
\* at most its other calls, and the next batch is then refused.
ToolCallsBounded == toolCalls < MaxToolCalls + MaxBatch

\* A result in the cache has seen every change a tool reported as done: it may
\* miss only effects of writes that were reported as failed.
CachedResultsCurrent == \A c \in DOMAIN cache : cache[c].seen + unreported >= changes

\* Between two executions of the same call another call has changed the
\* workspace and said so; test_run is meant to be repeated.
SameCallNotRepeated ==
  \A i, j \in DOMAIN events :
    i < j /\ events[i].call = events[j].call /\ events[i].call \notin Tests
      => \E k \in (i + 1)..(j - 1) : events[k].call \in Writes /\ events[k].ok

\* Every round asks the model once, and one answer without tools may be asked
\* for after them; a run cannot keep the model busy beyond that.
AnswersBounded == asked <= MaxIterations + 1
=============================================================================
