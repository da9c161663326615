-------------------------- MODULE PermissionEngine --------------------------
(***************************************************************************)
(* The approval of tool calls (agent/permissions.py) with the tables       *)
(* permission_requests and permission_grants of the session store.         *)
(*                                                                         *)
(* The actors are the request threads of the runs, inside authorize and    *)
(* around it; the threads of the web server that answer a request, revoke  *)
(* a grant or cancel a run; and a restart of the process.  decide holds    *)
(* the condition of the engine from its first test to its last assignment, *)
(* so it is one step; authorize leaves the condition before it writes the  *)
(* outcome of a wait to the store.                                         *)
(*                                                                         *)
(* A request is a run and the number of its tool call.  Read tools never   *)
(* ask and are left out; so is the time: a wait may be given up at any     *)
(* point, by the deadline of the request or of the run.                    *)
(***************************************************************************)
EXTENDS FiniteSets, Naturals

CONSTANTS
  Runs,      \* the runs
  Users,     \* owners of runs
  Tools,     \* tools that need an approval, each of a fixed risk level
  MaxCalls,  \* tool calls per run
  StoreMayFail  \* TRUE when a write to the store may raise

ASSUME EngineAssumption ==
  /\ MaxCalls \in Nat \ {0}
  /\ StoreMayFail \in BOOLEAN

Requests == Runs \X (1..MaxCalls)
NoTool == "none"
Scopes == {"once", "session", "always_tool"}
Statuses == {"none", "pending", "allowed", "denied", "expired", "cancelled"}
Answers == {"allowed", "denied"}

VARIABLES
  owner,    \* owner[r]: AgentRun.owner_id
  pc,       \* pc[r]: where the request thread of r is
  number,   \* number[r]: tool calls of r so far
  tool,     \* tool[a]: the tool that call a names, NoTool before the call
  status,   \* status[r]: approval['status'] of the request that r has open
  listed,   \* keys of _pending
  denied,   \* denied[r]: _denied[run_id]
  row,      \* row[a]: status and scope in permission_requests
  grants,   \* rows of permission_grants
  cancel,   \* cancel[r]: the run has been cancelled
  started,  \* history: calls that reached the tool registry
  unsaved   \* history: runs with a request the store failed to write

memory == <<status, listed, denied>>
store == <<row, grants>>
history == <<started, unsaved>>
vars == <<owner, pc, number, tool, memory, store, cancel, history>>

Locations ==
  {"new", "ready", "lookup", "insert", "waiting", "record", "resume", "settle",
   "dispatch", "raised", "done"}

NoRow == [status |-> "none", scope |-> "none"]
Rows == [status : Statuses, scope : Scopes \cup {"none"}]

\* The call that the thread of r is busy with.
Current(r) == <<r, number[r]>>
CurrentTool(r) == tool[Current(r)]

Goto(r, place) == pc' = [pc EXCEPT ![r] = place]

Init ==
  /\ owner \in [Runs -> Users]
  /\ pc = [r \in Runs |-> "new"]
  /\ number = [r \in Runs |-> 0]
  /\ tool = [a \in Requests |-> NoTool]
  /\ status = [r \in Runs |-> "none"]
  /\ listed = {}
  /\ denied = [r \in Runs |-> {}]
  /\ row = [a \in Requests |-> NoRow]
  /\ grants = {}
  /\ cancel = [r \in Runs |-> FALSE]
  /\ started = {}
  /\ unsaved = {}
-----------------------------------------------------------------------------
(* Grants.                                                                 *)

\* The row of a grant of a scope; its key is the row itself.
Grant(a, scope) ==
  [scope |-> scope, owner |-> owner[a[1]], tool |-> tool[a],
   runs |-> IF scope = "session" THEN {a[1]} ELSE Runs]

AnyRunGranted(r) ==  \* mutant of Granted
  \E g \in grants : g.owner = owner[r] /\ g.tool = CurrentTool(r)

\* find_permission_grant.
Granted(r) ==
  \E g \in grants : /\ g.owner = owner[r] /\ g.tool = CurrentTool(r)
                    /\ r \in g.runs

Revoke(g) ==
  /\ g \in grants
  /\ grants' = grants \ {g}
  /\ UNCHANGED <<owner, pc, number, tool, memory, row, cancel, history>>
-----------------------------------------------------------------------------
(* authorize, on the request thread of run r.                              *)

Start(r) ==
  /\ pc[r] = "new"
  /\ Goto(r, "ready")
  /\ UNCHANGED <<owner, number, tool, memory, store, cancel, history>>

\* The next tool call: a tool denied before in this run is refused at once.
Call(r, t) ==
  /\ pc[r] = "ready"
  /\ ~ cancel[r]
  /\ number[r] < MaxCalls
  /\ number' = [number EXCEPT ![r] = @ + 1]
  /\ tool' = [tool EXCEPT ![<<r, number[r] + 1>>] = t]
  /\ Goto(r, IF t \in denied[r] THEN "ready" ELSE "lookup")
  /\ UNCHANGED <<owner, memory, store, cancel, history>>

UseGrant(r) ==
  /\ pc[r] = "lookup"
  /\ Granted(r)
  /\ Goto(r, "dispatch")
  /\ UNCHANGED <<owner, number, tool, memory, store, cancel, history>>

\* Without a grant the request is made and listed in memory first.
Register(r) ==
  /\ pc[r] = "lookup"
  /\ ~ Granted(r)
  /\ status' = [status EXCEPT ![r] = "pending"]
  /\ listed' = listed \cup {Current(r)}
  /\ Goto(r, "insert")
  /\ UNCHANGED <<owner, number, tool, denied, store, cancel, history>>

\* create_permission_request; then the run shows awaiting_approval, which is
\* saved as well, and gives its permit back.
InsertRow(r) ==
  /\ pc[r] = "insert"
  /\ row' = [row EXCEPT ![Current(r)] = [status |-> "pending", scope |-> "none"]]
  /\ \/ Goto(r, "waiting") /\ UNCHANGED unsaved
     \/ StoreMayFail /\ Goto(r, "raised") /\ unsaved' = unsaved \cup {r}
  /\ UNCHANGED <<owner, number, tool, memory, grants, cancel, started>>

\* The lookup or the insert raises.
StoreRaises(r) ==
  /\ StoreMayFail
  /\ pc[r] \in {"lookup", "insert"}
  /\ Goto(r, "raised")
  /\ UNCHANGED <<owner, number, tool, memory, store, cancel, history>>

GivesUpAnyway(r) == TRUE  \* mutant of MayGiveUp
MayGiveUp(r) == status[r] = "pending"

\* The wait is given up: the run was cancelled or a deadline has passed.
GiveUp(r) ==
  /\ pc[r] = "waiting"
  /\ MayGiveUp(r)
  /\ status' = [status EXCEPT ![r] = IF cancel[r] THEN "cancelled" ELSE "expired"]
  /\ Goto(r, "record")
  /\ UNCHANGED <<owner, number, tool, listed, denied, store, cancel, history>>

\* decide_permission, which raises unless the stored request is pending.
RecordOutcome(r) ==
  /\ pc[r] = "record"
  /\ IF row[Current(r)].status = "pending"
       THEN /\ row' = [row EXCEPT ![Current(r)].status = status[r]]
            /\ Goto(r, "resume")
       ELSE Goto(r, "raised") /\ UNCHANGED row
  /\ UNCHANGED <<owner, number, tool, memory, grants, cancel, history>>

RecordFails(r) ==
  /\ StoreMayFail
  /\ pc[r] = "record"
  /\ Goto(r, "raised")
  /\ unsaved' = unsaved \cup {r}
  /\ UNCHANGED <<owner, number, tool, memory, store, cancel, started>>

ForgetsDenial(r) == denied[r]  \* mutant of DeniedAfter
DeniedAfter(r) ==
  IF status[r] = "denied" THEN denied[r] \cup {CurrentTool(r)} ELSE denied[r]

\* After an answer, or a wait given up: on_resume takes a permit again, or raises
\* at the deadline or when the run is cancelled; the request is dropped from
\* memory either way.
Resume(r) ==
  /\ \/ pc[r] = "resume"
     \/ pc[r] = "waiting" /\ status[r] \in Answers
  /\ listed' = listed \ {Current(r)}
  /\ denied' = [denied EXCEPT ![r] = DeniedAfter(r)]
  /\ Goto(r, "settle") \/ Goto(r, "raised")
  /\ UNCHANGED <<owner, number, tool, status, store, cancel, history>>

Approved(r) == status[r] = "allowed"

\* A cancelled run stops here, and so does one whose return to executing cannot
\* be saved.  Arguments that changed while the request was
\* pending are refused like a request that was not allowed.
Settle(r) ==
  /\ pc[r] = "settle"
  /\ \/ (cancel[r] \/ StoreMayFail) /\ Goto(r, "raised")
     \/ ~ cancel[r] /\ Goto(r, "ready")
     \/ ~ cancel[r] /\ Approved(r) /\ Goto(r, "dispatch")
  /\ status' = [status EXCEPT ![r] = "none"]
  /\ UNCHANGED <<owner, number, tool, listed, denied, store, cancel, history>>

\* _check_active, then registry.execute.
Dispatch(r) ==
  /\ pc[r] = "dispatch"
  /\ IF cancel[r]
       THEN Goto(r, "raised") /\ UNCHANGED started
       ELSE Goto(r, "ready") /\ started' = started \cup {Current(r)}
  /\ UNCHANGED <<owner, number, tool, memory, store, cancel, unsaved>>

KeepsWhatRaised(r) == listed  \* mutant of ListedAfter
ListedAfter(r) == {a \in listed : a[1] # r}

\* The run ends, in whatever way: finish_run.
Finish(r) ==
  /\ pc[r] \in {"ready", "raised"}
  /\ denied' = [denied EXCEPT ![r] = {}]
  /\ listed' = ListedAfter(r)
  /\ status' = [status EXCEPT ![r] = "none"]
  /\ Goto(r, "done")
  /\ UNCHANGED <<owner, number, tool, store, cancel, history>>
-----------------------------------------------------------------------------
(* The web server.                                                         *)

AnyListed(a) == a \in listed  \* mutant of Decidable
\* What decide and apply_permission_decision test, before and in the write.
Decidable(a) ==
  /\ a \in listed
  /\ status[a[1]] = "pending"
  /\ row[a].status = "pending"

StoresEveryScope(answer, scope) == answer = "allowed"  \* mutant of MakesGrant
MakesGrant(answer, scope) == answer = "allowed" /\ scope # "once"

\* The answer, and the grant it makes, in one transaction.
Decide(a, answer, scope) ==
  /\ Decidable(a)
  /\ status' = [status EXCEPT ![a[1]] = answer]
  /\ row' = [row EXCEPT ![a] =
       [status |-> answer, scope |-> IF answer = "allowed" THEN scope ELSE "none"]]
  /\ grants' = IF MakesGrant(answer, scope) THEN grants \cup {Grant(a, scope)}
                                             ELSE grants
  /\ UNCHANGED <<owner, pc, number, tool, listed, denied, cancel, history>>

Cancel(r) ==
  /\ pc[r] \notin {"new", "done"}
  /\ ~ cancel[r]
  /\ cancel' = [cancel EXCEPT ![r] = TRUE]
  /\ UNCHANGED <<owner, pc, number, tool, memory, store, history>>

RecoveredRows ==
  [a \in Requests |->
     IF row[a].status = "pending" THEN [row[a] EXCEPT !.status = "cancelled"] ELSE row[a]]

\* The process starts again: its memory is gone, recover_interrupted closes
\* what the store still holds open.
Restart ==
  /\ \E r \in Runs : pc[r] # "new"
  /\ pc' = [r \in Runs |-> IF pc[r] = "new" THEN "new" ELSE "done"]
  /\ listed' = {}
  /\ status' = [r \in Runs |-> "none"]
  /\ denied' = [r \in Runs |-> {}]
  /\ cancel' = [r \in Runs |-> FALSE]
  /\ row' = RecoveredRows
  /\ unsaved' = {}
  /\ UNCHANGED <<owner, number, tool, grants, started>>
-----------------------------------------------------------------------------
Thread(r) ==
  \/ Start(r) \/ UseGrant(r) \/ Register(r) \/ InsertRow(r) \/ StoreRaises(r)
  \/ GiveUp(r) \/ RecordOutcome(r) \/ RecordFails(r) \/ Resume(r) \/ Settle(r)
  \/ Dispatch(r) \/ Finish(r)
  \/ \E t \in Tools : Call(r, t)

Next ==
  \/ \E r \in Runs : Thread(r) \/ Cancel(r)
  \/ \E a \in Requests, answer \in Answers, scope \in Scopes : Decide(a, answer, scope)
  \/ \E g \in grants : Revoke(g)
  \/ Restart

Spec == Init /\ [][Next]_vars
-----------------------------------------------------------------------------
(* What is true at each place; the safety properties follow from it.       *)

\* Where a call is being decided.
Asking == {"lookup", "insert", "waiting", "record", "resume", "settle", "dispatch"}

\* A call being decided has a number and a tool and has not started, also when
\* its run is about to fail; calls to come have left no trace.
CallAtPlace ==
  \A r \in Runs :
    /\ pc[r] = "new" => number[r] = 0
    /\ pc[r] \in Asking \cup {"raised"} =>
         /\ Current(r) \in Requests \ started
         /\ CurrentTool(r) \in Tools
    /\ \A i \in 1..MaxCalls :
         i > number[r] => row[<<r, i>>] = NoRow /\ <<r, i>> \notin started

\* The status of the open request, and its row, at each place.
StatusAtPlace ==
  \A r \in Runs :
    /\ pc[r] \in {"new", "ready", "lookup", "dispatch", "done"} => status[r] = "none"
    /\ pc[r] = "insert" => status[r] = "pending"
    /\ pc[r] = "waiting" => status[r] \in Answers \cup {"pending"}
    /\ pc[r] \in {"record", "resume"} => status[r] \in {"expired", "cancelled"}
    /\ pc[r] = "settle" => status[r] \in Answers \cup {"expired", "cancelled"}

RowAtPlace ==
  \A r \in Runs :
    /\ pc[r] \in {"lookup", "insert"} => row[Current(r)] = NoRow
    /\ pc[r] = "record" => row[Current(r)].status = "pending"
    /\ pc[r] \in {"waiting", "resume", "settle"} => row[Current(r)].status = status[r]
    /\ pc[r] = "dispatch" => row[Current(r)].status \in {"none", "allowed"}

\* Only the call being decided, or one whose run is about to fail, is listed.
ListedAtPlace ==
  \A a \in listed :
    /\ a = Current(a[1])
    /\ pc[a[1]] \in {"insert", "waiting", "record", "resume", "raised"}

\* A row stays open while its run waits, or when the store failed.
OpenRows ==
  \A r \in Runs, i \in 1..MaxCalls :
    row[<<r, i>>].status = "pending" =>
      r \in unsaved \/ (i = number[r] /\ pc[r] \in {"waiting", "record"})

\* A denied tool is remembered, or its run is about to do so or to end; a call
\* being decided is not one of a tool denied before.
DenialsHeld ==
  \A r \in Runs, i \in 1..MaxCalls :
    row[<<r, i>>].status = "denied" =>
      /\ \/ pc[r] \in {"raised", "done"}
         \/ tool[<<r, i>>] \in denied[r]
         \/ i = number[r] /\ pc[r] = "waiting"
      /\ pc[r] \in Asking /\ tool[<<r, i>>] = CurrentTool(r) => i = number[r]

\* A run that is over has forgotten its denials.
DoneForgets == \A r \in Runs : pc[r] = "done" => denied[r] = {}

\* A grant stems from an answer of its scope.
GrantsAnswered ==
  \A g \in grants :
    \E b \in Requests :
      /\ row[b] = [status |-> "allowed", scope |-> g.scope]
      /\ g = Grant(b, g.scope)

\* The answer b allows the call a: it was given to this very call, or for the
\* session of its run, or for the tool in every run of the same owner.
Covers(b, a) ==
  /\ row[b].status = "allowed"
  /\ tool[b] = tool[a]
  /\ \/ b = a
     \/ row[b].scope = "session" /\ b[1] = a[1]
     \/ row[b].scope = "always_tool" /\ owner[b[1]] = owner[a[1]]

\* A call on its way to the tool registry has its answer.
DispatchCovered ==
  \A r \in Runs :
    pc[r] = "dispatch" => \E b \in Requests : Covers(b, Current(r))
-----------------------------------------------------------------------------
(* Properties.                                                             *)

\* Types.
TypeOK ==
  /\ owner \in [Runs -> Users]
  /\ pc \in [Runs -> Locations]
  /\ number \in [Runs -> 0..MaxCalls]
  /\ tool \in [Requests -> Tools \cup {NoTool}]
  /\ status \in [Runs -> Statuses]
  /\ listed \subseteq Requests
  /\ denied \in [Runs -> SUBSET Tools]
  /\ row \in [Requests -> Rows]
  /\ grants \subseteq [scope : Scopes \ {"once"}, owner : Users, tool : Tools,
                       runs : SUBSET Runs]
  /\ cancel \in [Runs -> BOOLEAN]
  /\ started \subseteq Requests
  /\ unsaved \subseteq Runs

\* README: tools other than read tools "wait for an authenticated approval
\* before execution".  No call starts without an answer that covers it.
StartedWithConsent == \A a \in started : \E b \in Requests : Covers(b, a)

\* README: "Denying a tool blocks further attempts to use that tool in the
\* same run", whatever else is granted to other runs meanwhile.
DeniedNeverStarts ==
  \A a, b \in Requests :
    row[a].status = "denied" /\ a[1] = b[1] /\ a[2] <= b[2] /\ tool[a] = tool[b]
      => b \notin started

\* A stored answer is final: neither a second client, nor a wait that ends at
\* the same moment, nor a restart replaces it.
AnswersFinal ==
  [][\A a \in Requests : row[a].status \in Statuses \ {"none", "pending"}
                           => row'[a] = row[a]]_vars

\* The run and the store never disagree on an answer, although the outcome of
\* a wait is stored after the engine's lock is left.
AnswersAgree ==
  \A r \in Runs :
    LET a == Current(r) IN
    pc[r] \in {"record", "resume", "settle"} /\ a \in Requests =>
      /\ row[a].status \in Answers \/ status[r] \in Answers => row[a].status = status[r]
      /\ pc[r] = "settle" => row[a].status = status[r]

\* A run that has ended leaves nothing in the engine's memory, and no open
\* request in the store unless the store failed it.
NothingLeftBehind ==
  \A r \in Runs :
    pc[r] = "done" =>
      /\ denied[r] = {}
      /\ \A a \in listed : a[1] # r
      /\ r \notin unsaved => \A i \in 1..MaxCalls : row[<<r, i>>].status # "pending"

\* The engine implements the abstract service: a request is what its row says, a grant
\* a consent in the runs of its owner that it names, and a call is cleared between the
\* end of authorize and the tool registry.  So a revoked grant clears no call any more.
Outcome(x) ==
  CASE x.status = "allowed" -> x.scope
    [] x.status \in {"expired", "cancelled"} -> "lapsed"
    [] OTHER -> x.status
Verdict == [a \in Requests |-> Outcome(row[a])]
Standing ==
  {[tool |-> g.tool, runs |-> {r \in g.runs : owner[r] = g.owner}] : g \in grants}
Cleared == {Current(r) : r \in {r \in Runs : pc[r] = "dispatch"}}

Consent == INSTANCE ConsentService WITH
  Calls <- Requests, verdict <- Verdict, standing <- Standing, cleared <- Cleared

ImplementsConsent == Consent!Spec
=============================================================================
