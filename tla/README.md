# A verification project for Thor Manager

Thor Manager is a web server for one Jetson machine: it relays chats to a local
model, lets the model call tools under the control of its users, keeps sessions
in SQLite, and starts images, schedules and MCP servers.  This directory holds
TLA+ modules that model the parts of it in which several threads, requests, late
answers or failures meet, the TLC configurations that check them on small
instances, and proofs that TLAPS checks for every size.

Paths below are relative to the root of the repository (`src/`).  PROJECT.json
names, for every definition that models code, the lines it was translated from.

## 1. The system

### The agent harness (`agent/`, `storage/`, `tools/`)

| component | state | operations | hard behaviour | what makes it correct |
|---|---|---|---|---|
| Agent runtime, `agent/runtime.py`, `agent/state.py` | registry of recent runs, the gate (a bounded semaphore of model calls), per run: state, cancellation, deadline, permit, model thread | `run_chat`, `_run`, `_call_model`, `cancel`, `forget_runs`, `_terminate`, pruning | one request thread per run, a worker thread per model call, a release thread for calls that outlive their run, cancellation from other requests, wall clock, permits handed back for an approval | permits are conserved, a cancelled run never completes, states follow the table of transitions, active runs are found by their run_ids, admitted runs end where saves succeed |
| Tool loop, `AgentRuntime._run`, `tools/registry.py` | cache of results, count of calls, rounds | answers of the model, reuse, execution, timeouts, recovery prompts | a tool thread goes on after its timeout; changes make cached results stale | cached results are current, identical calls are not repeated, calls and answers are bounded |
| Permission engine, `agent/permissions.py` | open requests, denials, in memory; requests and grants in the store | `authorize`, `decide`, `revoke`, `finish_run` | answers race with timeouts, cancellations and other answers; the outcome of a wait is stored after the lock is left; restart | no call without consent, no call after a denial, answers are final and agree |
| Session store, `storage/database.py` | sessions, messages, events, permissions, grants, schedules, endpoints, servers, accounts | `create_session`, `save_snapshot`, `complete_session`, `delete_conversation`, `recover_interrupted`, `cleanup` | one transaction per call but several calls per step of a run; overlapping runs of a conversation; deletion and restart in between; clients choose run_ids, which rows are found by | the store follows the runs, completed sessions have their answer, terminal states are final, deleted sessions stay away, failed ones can be resumed (they cannot always, finding 3), a run_id means one run (it does not always, finding 4) |
| Scheduler, `agent/scheduler.py` | the thread and its stop event; table `scheduled_runs` | `tick`, `start`, `stop`, enable and disable | failures outside its try statement, crash between a run and its record, a schedule disabled after the tick has read it | a due schedule is run, once unless a run went unrecorded |
| MCP manager, `agent/mcp.py` | clients by name, each a process with a lock | `connect`, `disconnect`, `add`, `status`, requests, delete of a server | connect races delete and reconfiguration; a timeout closes a process others wait for | no client of a server that was deleted, unless it was looked up between the disconnection and the deletion; no process left behind, unless its server refused to initialize; both exceptions are leaks of the code, see the remarks of section 4 |
| Workspace mutation, `tools/coding.py` | files, git's index and head, a lock for each root | `file_write`, `file_patch`, `git_stage`, `git_commit`, `shell_execute` | a hash is checked and the file replaced, or the index committed, in two steps; editors and git outside take no lock | no change is lost that a check could have seen, what is committed was approved unless git was used by others in between |
| File search, `tools/workspace.py` | per search: the process of ripgrep, a reader thread, a queue | `file_search` | the queue is full or the caller gone; the limit, the deadline and the end of the process race | a search ends and leaves nothing behind, what it returns is complete |
| Context compaction, `agent/context.py` | none | `compact_messages` | sizes have lower bounds, the last messages may leave nothing for others | the result fits |
| Model client and stream filter, `agent/models.py`, `_call_model`, `stream_chat` | text held back | `edge_chat`, one delta at a time | markers of tool calls split over deltas; the stream breaks | nothing of a tool call is shown, the rest once and whole |
| Verifier, worktrees, skills, notifications, redaction, stateless tools | none that changes | single functions | - | - |

### The web server (`server.py`) and its neighbours

| component | state | hard behaviour | what makes it correct |
|---|---|---|---|
| Routes and monitoring | none of their own; they call the components above from one thread per request | see the components | - |
| Accounts and login, `agent/auth.py` | rows of accounts, tokens with a version, failures per address within a window | two logins are checked before either is counted; accounts are deleted and made anew | failures stay bounded, a token that was made invalid stays so |
| Image proxy and history | copies, `history.jsonl` under `image_history_lock` | several requests end at a time, an append is cut short | an answered image is in the history file, whose last 100 records the page shows |
| Image service, `qwen-image/app.py` | one pipeline under an asyncio lock | loading fails half-way; the proxy gives up while a job goes on | a job draws with a whole pipeline of its kind |
| Browser pages, set-up scripts | - | presentation and straight-line input and output | - |

How they interact: a request thread of the server calls `run_chat`; the runtime
asks the gate for a permit, starts a model thread, asks the permission engine
before each tool (which hands the permit back while it waits, through the
callbacks `on_wait` and `on_resume`), executes the tool through the registry in a
thread of its own, and writes a snapshot through `AgentRun._on_change` at every
change of state.  Other requests reach into the same objects: `cancel`,
`decide`, `revoke`, `delete_conversation` followed by `forget_runs`, and
resume, which starts a new run from what is stored.  A restart loses the memory
and runs `recover_interrupted` and `cleanup` on the store.

`hazards` in PROJECT.json lists, line by line, what is hard to test in this code
and the property that looks at it.

## 2. The modules

| module | models | composes |
|---|---|---|
| `RunState` | the states of a run and the table of transitions | |
| `RunService` | abstract: runs are opened, settle once, hold slots | |
| `AgentRuntime` | the threads of the runtime, the gate, the registry | extends `RunState`; implements `RunService` |
| `ToolLoop` | the loop of one run: answers, cache, budget, rounds, tool threads | |
| `ConsentService` | abstract: calls are asked about, cleared and started, consents stand until revoked | |
| `PermissionEngine` | approvals with their two tables | implements `ConsentService` |
| `SessionStore` | sessions and messages under runs, deletions and restarts | |
| `McpManager` | connections to MCP servers, their processes and locks | |
| `FileMutation` | the tools that change files and commit, editors and git beside them | |
| `FileSearch` | ripgrep, its reader, the queue and the caller | |
| `Scheduler` | the scheduler's thread and its table | |
| `Accounts` | accounts, tokens and the failed logins of an address | |
| `ImageService` | the image service, its proxy and the history | |
| `StreamFilter` | an answer from the model's stream to the user's | |
| `ContextCompaction` | the sizes of what the model is sent | |
| `Services` | the parts around the agent, side by side | extends `McpManager`, instantiates the six modules above it |
| `MC...` | model values, sets and symmetry for TLC | extend their module |
| `...Proofs` | theorems and proofs | extend their module and `TLAPS` |

### AgentRuntime

`pc[r]` is the place of the request thread of run `r` in `run_chat`, `_run`,
`_call_model` and `authorize`; a step reaches as far as no other thread can make
a difference.  `state` and `cancel` are the two fields `AgentRun` guards with its
lock, `registry` is `AgentRuntime._runs` with its order, `permits` the semaphore,
`held` the local `capacity_held`, `worker` the latest model thread and `releaser`
the thread that waits for it when the run is over.  `late` says that
`total_timeout` has passed: `Deadline` may set it at any place before
verification, so every order of the clock and the threads is covered.  Clients choose
the run_ids: `id` says which runs have the same one, named by one of them, and
`Registered` is the only thing that keeps them apart.

An exception is an action of its own (`CheckActiveRaises`, `ModelFails`, `Raise`)
that goes to the handlers of `run_chat`; these go through `_terminate`, then the
`finally` block (`LeaveCapacity`: keep the permit for the release thread if the
call is under way, give it back otherwise), then pruning.  `StoreMayFail` lets
every save raise, the one inside `_terminate` too.

Modes ask and agent take the same steps.  Which calls come from the cache, who may
approve and what is stored belong to the other modules: here a batch is a number
of calls and an approval is a wait with a verdict.

`RunService` is what a caller may count on: a run is active from its opening
until it settles in one outcome; a cancellation that was accepted excludes
completed; a call needs a slot, and a slot is not given up under a call.
`ImplementsService` maps a run's slot to a permit held by its request thread or
by the release thread it left.

### ToolLoop

One run, its model, its workspace and the tool threads.  A call is a name with its
arguments; of a result only its success counts and `seen`, how many changes of the
workspace it has seen.  `ToolRegistry.execute` gives up after a timeout but its
thread goes on: `late` counts writes that were reported failed and may still take
effect, and `WriteFails` includes an effect that nobody reported.  `CacheAfter` is
the order in the code: a successful change empties the cache, then its own result
is stored.  `mcp_call` is not in `MUTATING_TOOLS`, so the code treats it as a call
that changes nothing and so does the model; what an MCP server changes in the
workspace is outside of `CachedResultsCurrent`.

### PermissionEngine

A request is a run and the number of its call.  `authorize` is cut where it leaves
the condition or calls the store: look-up of grants, insertion of the request, the
wait, the record of the outcome, the call of `on_resume`, the final verdict.
`decide` holds the condition from its first test to its last assignment and is
one step.  A wait may be given up at any point (its own deadline, the deadline or
the cancellation of the run).  `Restart` loses the memory, and expires what the
store holds open as `recover_interrupted` does.

`ConsentService` is what the owner of a run may count on, in one step each: a call is
asked about once and has one verdict; an answer may leave a consent for a tool in some
runs; a call is cleared by its own verdict or by a consent in force at that moment, and
starts only when it was cleared and its tool was not denied in the run.  `ImplementsConsent`
maps a request to its row, a grant to a consent in the runs of its owner it names, and the
time between `authorize` and `registry.execute` to being cleared.  It says more than the
invariants about started calls: `README.md:94` promises that a grant of `always_tool` persists
"until revoked", and here a call that is looked up after a revocation needs another
consent.  A call that was cleared before it may still start.

### SessionStore

A run is one request and the `AgentRun` it makes.  Its run_id (`id`) is chosen by the client,
so two runs may have the same one: `create_run` refuses it while a run of it is in the
registry, which `Prune`, `ForgetRuns` and `Restart` empty, and the primary key of sessions
refuses it while a row of it is stored (`Holder`).  A row is named by the run that
inserted it, and a save goes to the holder of the run_id (`Save`), whoever that is:
the last event of a failed run may come after its deletion, when another run has stored
a session under that run_id.  The history variable `overwritten` remembers such rows; the
invariants about what a run and its row have in common except them.

Each `with` block of the store is a transaction and a step.  `create_session` reads
the history before its transaction, inserts session and messages in one, and its
caller saves the first snapshot in another.  `row` and `msgs` are what the tables
hold, `mem` and `known` what the process holds, and no step reads one for the
other.  `_terminate` makes three saves (error, state, event); each may fail, and the
last raises by itself when the session was deleted and no other has its run_id, because an
event refers to it.  `unsaved` has the runs the store has failed since the last restart.
`DeleteConversation` and `ForgetRuns` are the two halves of the delete handler.
`Restart` is `recover_interrupted` followed by `cleanup` with any cutoff; it closes what the
store had failed to close before, so `unsaved` is empty after it.

Left out: events, tool records, usage samples and project memories, which are
written with the same saves and only read by people.  The conversations are
those of one owner.  `updated_at` and `created_at` are kept as the
orders they give; two runs updated within one tick of the clock are not
distinguished.

### McpManager

A request is a tool call or a handler of the web server in a thread of its own; it
uses, lists, configures, disconnects or deletes a server.  `manager` is the holder
of the manager's lock where it is held over several steps, that is while `connect`
starts and initializes a process; elsewhere the lock is taken and left within one
step.  `busy` is the lock of a client, held for a request to its server.  `close`
takes neither lock: `Pop` (under the manager's lock) and `Close` are the two steps of
`disconnect`, followed by `DeleteRow` in the delete handler.  A client is named by
the request that made it and its server, since a request makes one for a server at
most once.  The reader waits for each line with the whole timeout, so a line that is
no answer (`Chatter`) makes it wait anew.

`add` leaves a running client as it is: a server that is configured anew or disabled
keeps its connection until it ends, and the model says the same.

### FileMutation

A hash stands for what it is the hash of, so `task[c].expected` is a content or a
tree of the index.  `Check` is what happens from taking the lock to the last check
before the first effect, `Recheck` the second reading of `_apply`, `Replace`
`os.replace`; `Add`, `Hash` and `Commit` are git commands of their own.  `Edit` and
`GitOutside` are everybody who takes no lock, `shell_execute` among them.  They may come
between a check and the effect that follows; nothing in the code could see that, so
the history variable `touched` remembers it, and `NoChangeLost` and `CommitsApproved` except it.
What an editor saves between the second check and `os.replace` is lost, and no property
would catch it; the same is true of git between the check and the commit.  A caller
that has given up on a tool leaves a thread that goes on: the module does not say
whether anybody still waits.

### FileSearch

A line of ripgrep is a hit, another one, or odd: one with a colon where the code
expects a number, which raises.  The reader and the caller are cut at the queue.
`Put` may still put a line after `quit` was set, since the code looks at the event
before it waits for room.  `PutEnd` drops the end marker when the queue is full, as
`put_nowait` does.  The process may write, end or fail at any time.

### Scheduler

`Tick` reads the due schedules once, `Run`, `RunEnds` and `Record` are the steps of each;
handlers change the table in between.  `TickFails` and `RecordFails` are exceptions of the
store outside the try statement, which end the thread.  Of times only matters whether
`next_run_at` was reached.

### Accounts

A clock that grows with each use identifies writes and failures, as `time.time()`
does.  A login is cut between the limiter, the check of the password and the
issue of the token.  `updated[u]` is 0 without a row: accounts of the environment have
version 0 until their first change.

### ImageService

`job[r]` is where the service is with a request, `proxy[r]` where the web server is: when
it gives up, the job goes on.  `pipeline` and `loaded` are the two globals, set at
different places of `get_pipeline`.  An append is two steps, and one cut short by an
error or a stop leaves any part of its line.  The history is the file: that the page
shows the last 100 of its records is left out.

### StreamFilter and ContextCompaction

An answer is a sequence of characters, split in parts in every way.  `Found` and `Held`
say by positions what the loop of `_call_model` computes with `find` and `startswith`.
`ContextCompaction` keeps the length of each message, the system message of the run first; its sums and its passes over the
messages are folds.

### Services

These parts run in threads beside each other and share no state.  `Services` has their
variables side by side, and a step of it is a step of one part.  `FileMutation` and
`Accounts` are instantiated by the modules of their proofs, so that their theorems can
be used for `Services`.  For TLC, `MCServices` chooses at the start which part moves: the
others would only multiply the states, as no property speaks of two parts.  A part
that rests is in its first state, where none of its fair actions is enabled.

## 3. The runs

Every passing run is exhaustive for its instance.

| run | instance | what it shows |
|---|---|---|
| `runtime_safety` | 2 runs, both modes, 1 permit, registry of 1, 2 rounds, 2 calls, run_ids the same or not, saves may fail; 1.4 M states | the invariants of the runtime, that moves follow the table, and that it implements `RunService` |
| `runtime_liveness` | 2 runs, 1 permit, 1 round, 1 call, run_ids the same or not, saves succeed; 241 k states | `AdmittedRunsEnd`, `CapacityReturns` |
| `runtime_abandoned` | the same | expected violation, finding 1 |
| `tool_loop` | a read, two writes, a test, batches of 2, 3 rounds, 4 calls; 379 k states | staleness, repetition, bounds |
| `tool_budget` | a call of each kind, 2 calls allowed | expected violation, finding 2 |
| `approvals` | 2 runs of 1 or 2 owners, 3 calls in all; one run with 2 tools and a store that may lose requests, or two runs with 1 tool; 598 k states | consent and denial across runs, grants of every scope, restarts; answers are final and agree, nothing is left behind; the engine implements `ConsentService` |
| `sessions` | 3 runs of 1 conversation under 2 run_ids, no conversation protected, saves may fail; 765 k states | memory, store, answers and deletion, whatever run_ids are used again |
| `session_resume` | 2 runs of 1 conversation | expected violation, finding 3 |
| `run_id_reuse` | 2 runs, 1 run_id | expected violation, finding 4 |
| `services` | see below; 196 k states | the fifteen properties of the parts of `Services` |
| `mcp_list` | 2 requests, 1 server | expected violation, finding 5 |
| `context_bound` | up to 3 messages, limit 10000, the smallest the runtime allows | expected violation, finding 6 |

The parts of `services`:

| part | instance | properties |
|---|---|---|
| `McpManager` | 3 requests, 1 server | `ProcessesReachable`, `TimedOutUnused`, `DeletedDisconnected`, `OperationsEnd` |
| `FileMutation` | 2 calls, 1 path | `NoChangeLost`, `CommitsApproved` |
| `FileSearch` | at most 1 match, so a queue of 3, and 4 lines | `SearchEnds`, `ResultComplete` |
| `Scheduler` | 2 schedules, 1 unrecorded run of each | `SchedulesRun`, `RunsAsScheduled` |
| `Accounts` | 1 account of the environment and another, 2 logins, 1 failure allowed, 1 token, clock to 5 | `RevokedStaysRevoked`, `FailuresBounded` |
| `ImageService` | 2 requests | `PipelineFits`, `AnsweredInHistory` |
| `StreamFilter` | 4 characters, 3 markers, parts of 3, answers of 4 | `ShownIsAnswer` |

Why these bounds are enough.  Two runs and one permit are the smallest instance in
which a permit has two claimants, and each of them can be the run that is waiting
for an approval, the one with a call that outlives it, and the one that prunes the
other.  Two calls in a batch are needed for a call to follow an approval with the
permit taken again, two rounds for a round to follow another.  In the loop, a batch
of two holds a change followed by a call that was cached, and three rounds put a
cached result, a change and a repetition into three answers.  Approvals need two
calls of a run (the second can profit from the first answer) and two runs of one
owner (grants cross runs) or of two (they must not).  Three calls and two tools
put a denied tool, another tool and the denied one again in a row.  Sessions need
three runs: one that is stored, one that overlaps it, and one that resumes either.
A run_id that is used again needs two runs, the third may have another: with two run_ids all
three runs may have the same, or two of them.  Three run_ids were checked once (1.0 M states),
as was a second conversation under run_ids of their own (322 k states); both added nothing:
deletion and history look at one conversation at a time, and retention compares them only
through `KeepRecent`; the instance has it at 0 so that the conversation may expire.
Three requests to an MCP server are one that deletes, one that connects and one that
waits for a lock of either; the safety properties were also checked for two servers (192 k states).
Two calls on one file are one that changes it and one that holds its old hash; three
calls were checked once (9.2 M states).  Four lines are one more than the queue holds,
so that the reader waits for room when the caller stops.  Two schedules put one behind
the other in a tick.  The window of failed logins (3) and the life of a token (3) end
before the clock does, and two logins may pass the limiter together.  Two requests for
images want two kinds of pipeline and two lines of the history (three were checked
once, 107 k states).  The markers of the stream begin inside each other or repeat a
character, and parts of three may split each in every place.  For two runs and two
tools with a store that may fail `approvals` would be too large: grants cross runs with
one tool, and writes fail in one run with two.

Every bound is a constant.  Those of the new parts whose comment says so (`MaxLines`, `MaxLost`,
`MaxTokens`, `MaxClock`, `MaxPart`, `MaxText`, `MaxMessages`) are only of the model; `MaxIterations`, `MaxToolCalls`, `MaxBatch`, `MaxCalls`
and `RecentRunLimit` are limits the code has itself; `MaxCalls` of
`PermissionEngine` and the finite set `Runs` (each stands for one request) are what
keeps the instances finite.  A `run_id` may be used again, in `AgentRuntime` and in
`SessionStore`.  The runs of `PermissionEngine` are those that `create_session` accepted: its
memory and its rows of requests are gone with a run and its session, so a run_id used again
after a deletion meets neither.

Symmetry is used only where runs (or owners) are interchangeable and no liveness is
checked.  Deadlock checking is off throughout, because each system stops when all
its runs are over.

### Fairness

`runtime_liveness` and `services` need it.  `ThreadFairness` is weak fairness of
  - `Thread(r)`: the steps of a request thread.  None of them waits without limit:
    an approval polls and has a deadline, permits are polled every 0.1 s, a tool
    and the verifier have timeouts, and a model call is polled for cancellation
    and deadline;
  - `ReleaseWhenDone(r)`: the release thread, which waits for the end of the call;
  - `Deadline(r)`: the clock goes on.

`AdmittedRunsEnd` is about runs whose saves succeed (`StoreMayFail` is FALSE in
`runtime_liveness`).  With a failing save it is false: when one of the saves in `_terminate`
raises, the thread of the run ends and the run stays active in memory until the process is
started again.

A model call (`WorkerReturns`, `WorkerEnds`) is not fair: `AdmittedRunsEnd` holds
although a call may last for ever.  `CapacityReturns` cannot, and says so: its
premise `CallsEnd` is that calls end, which `urlopen(..., timeout=900)` in
`agent/models.py` is there for.

`McpManager` assumes weak fairness of the steps of each request.  A request that waits
for an answer ends in its timeout; one that waits for a lock gets it when the others
are through, for each request is one operation, so no fairness of the lock itself is
assumed.  A server that sends other lines for ever keeps its reader, and with
`initialize` the manager's lock, for ever: `OperationsEnd` has the premise that it
does not.

`FileSearch` assumes that its two threads are run.  Ripgrep is not fair: it may neither
write nor end, and `SearchEnds` holds by the deadline of the caller, after which the
killed process gives the reader its end.  `Deadline` is fair with the caller, since
`get` has a timeout.  `Scheduler` assumes that its thread is run and that a run ends, which the
runtime guarantees (`AdmittedRunsEnd`); `SchedulesRun` is promised only while the thread
lives.  Nothing is assumed of handlers, users and the clock.

## 4. Findings

1. **A run whose session cannot be created is never ended** (`runtime_abandoned`).
   `run_chat` registers the run at `agent/runtime.py:143`, calls `create_session` at
   line 145 and opens its try statement after it.  When `create_session` raises,
   because the history differs or the store fails, the run stays in analyzing and
   `_prune_runs_locked` stops at it for ever: the registry grows.  `README.md:143`
   says the runtime "tracks bounded recent runs".
2. **A batch may exceed the limit of tool calls** (`tool_budget`).  The batch is
   admitted by counting what the cache does not hold (`agent/runtime.py:304`), and
   a change in the batch clears the cache (line 319).  What does hold, and is
   proved, is `ToolCallsBounded`: fewer than the limit plus one batch.
3. **A resume that is refused each time** (`session_resume`).  The resume handler
   drops one answer at the end of the stored conversation (`server.py:356`), and
   `create_session` demands that the stored messages are a beginning of those sent
   (`storage/database.py:65`).  Two overlapping runs of a conversation, one
   answered and one failed after it, leave exactly such an end.
4. **A run_id may mean two runs** (`run_id_reuse`).  Clients choose the run_ids (`README.md:74`),
   and `create_run` refuses one only while it is in the registry (`agent/runtime.py:101`),
   which a restart and pruning empty.  A run_id that is sent again is registered, the
   primary key of sessions refuses its row (`storage/database.py:66`), and as in finding 1
   the run stays active, now beside the stored session of the earlier run.  Deleting
   that session does not help: `forget_runs` finds the run by the run_id, and skips it
   because it is active (`agent/runtime.py:123`).  `docs/thor-agent-harness-blueprint.md:102`
   says that each run is given a run_id of its own.
5. **`mcp_list` may start a server** (`mcp_list`).  It reads the status of the servers,
   then calls `connect` for each that was connected (`tools/mcp.py:15`).  When the
   process has ended, timed out or been disconnected in between, `connect` starts it
   anew.  `README.md:126` says "`mcp_list` never starts a disconnected server".
6. **What the model is sent may exceed the limit** (`context_bound`).  When the last
   messages have used up what remains, `allowed` is 0 and `content[-allowed:]`
   (`agent/context.py:15`) is the whole content.  With a limit of 10000, a system message of
   5000 characters and two others of 5000 are sent as 14056.  `agent/context.py:1` says
   "Bounded conversation context".

Remarks without a run of their own:
  - `_terminate` saves the terminal state, then its last event (`agent/runtime.py:187`), each by
    run_id alone.  When the conversation is deleted in between and the run_id used again,
    the event marks the session of the new run failed, and the conversation of an active
    run can be deleted, which `delete_conversation` refuses (`storage/database.py:224`).
    The properties of `SessionStore` except such a session (`overwritten`).
  - `git_commit` compares the index with the hash (`tools/coding.py:119`) and commits by a later
    command (line 124) under a lock that only its own process takes: git used outside in
    between puts into the commit what was not approved.  `README.md:100` says `git_stage`
    "returns an index hash that `git_commit` must match"; among the tools it does, and
    `CommitsApproved` excepts the rest (`touched`).
  - For a single file ripgrep writes no file name unless told to, and lines of three fields are
    dropped (`tools/workspace.py:217`): where ripgrep is installed, a search of one file finds
    nothing.  `tests/test_workspace.py:81`, test_file_search_returns_relative_line_evidence,
    expects a match with its path.  `ResultComplete` excepts such a search (`single`).
  - A line whose file name has a colon makes `int()` raise in `file_search`, outside of what
    closes ripgrep and its reader: `SearchEnds` excepts a search that raised.
  - The end marker is dropped when the queue is full.  When the lines in it are all of
    ignored files, the search then waits for its deadline and fails; it does end.
  - An exception of the store outside the try statement of `tick` ends the scheduler's
    thread, and nothing starts it again.  The server never calls `stop`.
  - One line of `history.jsonl` that is cut short empties the history that is shown, for
    good; while a line is being written the history may be empty for a moment, as
    `image_history` reads without the lock.
  - A server that refuses `initialize` leaves its process alive and registered nowhere
    (`agent/mcp.py:30`): `ProcessesReachable` excepts it (`refused`).
  - A `connect` that comes between the disconnection of a server and the deletion of its row
    keeps a client of a deleted server (`agent/mcp.py:96`): `DeletedDisconnected` excepts it
    (`raced`).  No document promises either, so neither has a run.
  - What an editor saves between the second check and `os.replace` is overwritten
    (`tools/coding.py:51`).  `NoChangeLost` excepts it (`touched`).
  - A schedule whose run was not recorded is run again; `RunsAsScheduled` bounds how often,
    and does not exclude it.
  - `delete_conversation` deletes the grants for its sessions (`storage/database.py:227`),
    `cleanup` does not: a run_id used again after it would find them.  And the thread
    of a failed run calls `finish_run` after its last event, by run_id: of a new run
    under the same run_id it would clear the denials.  `PermissionEngine` models neither.
  - Lower case may be longer than the text (a dotted capital I): the filter's positions
    are then off by one.  The model compares texts in lower case.

A further remark: `docs/thor-agent-harness-execution-plan.md:175` promises that no tool
starts after a cancellation.  Between the last check and `registry.execute` there
is room for one; `OneToolAfterCancel` states and proves "at most one".

## 5. Proofs

tlapm checks every leaf.  The theorems hold for every value of the constants that
satisfies the named assumption of the module: `RuntimeAssumption` (finitely many
runs, positive limits), `LoopAssumption` (kinds of calls are disjoint, positive
limits), `EngineAssumption` (a positive number of calls),
`StoreAssumption` (`KeepRecent` is a number, `NoRun` no run_id), `ManagerAssumption` (no
client is `None`), `ServicesAssumption` (calls, requests and the contents of editors are
distinct, finitely many logins, limits are numbers, markers are texts of which none lies
within another).  TLC evaluates each
assumption in the runs.  The form is the same throughout: a conjunction
`Invariant` of named parts holds initially (`InvariantInit`), each part has a
lemma that a step preserves it (`...Step`), and the properties follow.

**AgentRuntimeProofs.**  None of the properties is inductive alone.  `StateAtPlace`
(the state at each place of the thread) gives `LegalMoves`; `PermitAtPlace` (where a
thread owns a permit, and that a running call has an owner) gives
`ModelCallsBounded` from `GateConserved`, whose counting rests on the lemmas
`PermitTaken` and `PermitReturned` about cardinalities; `ToolsAtPlace` gives
`OneToolAfterCancel`; `RegistryOpened` makes a run enter the registry once, which
`ActiveInRegistry` needs, and with `RunIdsApart` (no two runs in the registry have the same
run_id, though clients may choose it) makes `ActiveRunsRegistered`; `CountersAtPlace` bounds the loop for `TypeOK`.
`RuntimeImplementsService` shows that each step is a step of `RunService` or a
stutter under the mapping.

**ToolLoopProofs.**  `Room` relates the budget to the calls of the batch that are
left, `UnderWay` what is known while a call runs, `Remembered` that a call executed
since the last change is in the cache, `Asked` the answers to the rounds.

**PermissionEngineProofs.**  `CallAtPlace`, `StatusAtPlace`, `RowAtPlace`,
`ListedAtPlace` and `OpenRows` say what memory and store hold at each place;
`DenialsHeld` and `DoneForgets` that a denial is remembered for as long as the run
may ask; `GrantsAnswered` that each grant stems from an answer; `DispatchCovered`
that a call on its way has one.  The two properties about started calls use four
facts about steps (`Kept`: answers stay; `NewDispatch`, `NewStart`, `NewDenial`: how a
call gets to the registry, and a denial into the store).  `EngineImplementsConsent` maps each
step to one of `ConsentService` or a stutter; it needs two facts more, that calls to come have
no tool (`Unmade`) and that an allowed request has a scope (`Scoped`).  Two grants may map to
one consent, so that revoking one of them is a stutter.

**SessionStoreProofs.**  `RunAtPhase` says what row and memory of a run are at each
place of its thread, `ActiveKeepsSession` that a run with saves to make has an active
row, which no deletion takes.  `IdsApart` is what is left of a run_id's being unique: one
run in the registry and one row have it, and a run with a session that is not over is alone with
it.  So every save of such a run finds its own row as it left it; only the last event of a
failed run may find that of another, which is then in `overwritten`.  From them follow
`StoreFollowsMemory`, `AnsweredCompleted` (the row is completed exactly when it has a final
answer), `EndedRunsClosed` (a restart ends its exception, because it closes what is active),
`DeletedAtRest` (deleted runs are over) and `DeletedForgotten`; `SessionsFinal` is a property of
steps under this invariant.  A restart
is taken as `Recovered`, which forgets the orders and the cutoff: some closed or
interrupted rows go, the other interrupted ones become failed.

A second invariant, `Contents`, is about sequences, and rests on the first: `Orders`
(the order of creation lists each run that was stored, that of updates each that still
is, both once), `MessageTypes`, `AnswersOld` (an answer among the messages of any run is
that of a run that has ended) and `AnswerIsLast` (the last message of an answered run is
its answer, that of no other run is its own).  With it follow `TypeOK` and
`CompletedHasAnswer`.  `AnswersOld` is what makes the last inductive: a run that resumes
a conversation copies the answers of others, and none of them may be its own.

`FlattenSeq`, of which `Without` and `History` are made, is a fold and so defined by
recursion, and the induction theorems of the library cannot be used here.  The module
has its own induction, for one set instead of one predicate: `Least` (a set of naturals
with a member has a least one, because the intervals up to ever smaller members would be
an endless descent of finite sets, which `FS_StrictSubsetOrderingWellFounded` excludes)
and `Induction` (a set that has 0 and with each number the next has them all).  With the
set of the lengths for which a statement is true, it proves what `FlattenSeq` returns,
`WithoutProperties` and the rest.

**McpManagerProofs.**  `InHand` says which client a thread has in hand, `LockHeld` that a
client is made under the lock and in an empty place, which `ProcessesReachable` needs
when the new client is registered; `UnbornUnknown` that a client still to be made is
known to nobody, so that its timeout during `initialize` concerns no reader;
`ExpiredEnded` that a timed-out connection stays closed; `DeletionRaced` carries the
argument that a connection under way when a deletion starts is waited for.

**FileMutationProofs.**  `LockHeld`: only the holder of the lock is past `Check`, with a task of
its kind.  `Checked`: what a call has checked last still holds, or somebody without the
lock has touched it, so `Replace` and `Commit` do what the properties allow.

**AccountsProofs.**  `Past` (versions are times that have passed) makes a new version differ from
those of all tokens; with it `RevokedForGood` follows step by step.  `FailuresFit` counts
the failures together with the logins that may still fail: `FailuresBounded` alone is not
inductive, because a login that has passed the limiter adds one later.

**ServicesProofs.**  `Services` implements `McpManager`, `FileMutation` and `Accounts` (each step is one of
the part, or leaves it alone), so their theorems hold of it.  For the scheduler, `RunsCounted`
says that a due schedule has no more runs than went unrecorded but for the one under
way, `BatchDue` that the schedules of a tick stay due until they are recorded, `LateOnce`
that what was disabled leaves the batch with its run.  For the image service, `PipelineAtPlace` and
`NamedWhole` relate the two globals to the job that holds the lock, and `HistoryOrdered`
orders copies, records and answers.

For the search, `Waiting` says that the queue holds the lines of the output between
those the caller has taken and those read, then perhaps the end marker; `Counted` that
the caller has counted the hits among the ones taken (`Count`, with lemmas on how it
grows line by line); `ResultWhole` that what was found when the caller left its loop is
whole.  The end marker that may be dropped matters here: a search that takes it has all
lines.

For the stream, `Missed(text, i)` says that each marker differs from the text from `i`
on, in a character the text already has, so that no later part can make a marker begin
there.  `ShownSafe`: what is shown is a beginning of the answer and its places are
missed; `PartsFollow`: what is held back and the parts in the queue are the pieces of
the answer that follow, by the places where they end.  `SafeMissed` is the argument
about `Held`: a place before the longest end that may begin a marker, and without a
marker of its own, is missed.  It needs that no marker lies within another one after its
start and before its end (`MarkersApart`): otherwise the part is blocked by the inner
one while the outer one, which began before it, has been shown in part.  The four
markers of the code (`agent/runtime.py:211`) begin with characters that none of them has
anywhere else, but for the backticks, which have no marker shorter than themselves.

Only model-checked: liveness under fairness (`AdmittedRunsEnd`, `CapacityReturns`,
`OperationsEnd`, `SearchEnds`, `SchedulesRun`), which, like ENABLED, is beyond this
prover.  Every invariant and every action property of the passing runs is stated by a
theorem.
The violated properties are false, so there is nothing to prove.

## 6. Not modelled, and why

Text: parsing of tool calls and verdicts, redaction, prompts, layout.  Cryptography:
hashes and signatures.  One-shot input and output: notifications, worktrees, web and
system tools, the tools that only read a workspace, set-up scripts, browser pages.  The
HTTP protocol of the model client and the MCP servers is an answer, an error or nothing.
Schemas and output limits of the tool registry are checks of data without state.

## 7. Plan

Order by weight for the system.

1. The agent: `AgentRuntime`, `RunService`, `ToolLoop`, `PermissionEngine`, `SessionStore`, with
   their proofs: done.
2. The services: `McpManager`, `FileMutation`, `FileSearch`, `Scheduler`, `Accounts`,
   `ImageService`, `StreamFilter`, `ContextCompaction`, composed in `Services`: done, with their
   proofs.
3. The properties about sequences, of `SessionStore`, `FileSearch` and `StreamFilter`: proved.
4. The refinement of an abstract permission service, `ConsentService`: checked and proved.
5. An abstract ledger of sessions that `SessionStore` implements, as `PermissionEngine` does
   `ConsentService`: a session is opened, closed once with or without its answer, and deleted
   with its whole conversation or not at all.
6. `ToolLoop` and `FileMutation` in one instance: what a write that outlives its timeout does
   to a file whose hash the loop has in its cache.
