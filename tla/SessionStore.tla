----------------------------- MODULE SessionStore -----------------------------
(***************************************************************************)
(* The tables sessions and messages of storage/database.py, as the threads *)
(* of the runs, the requests of clients and a restart use them.            *)
(*                                                                         *)
(* Each with-block of the store is one transaction and one step; reads     *)
(* that come before the first write of a block are not part of its         *)
(* transaction.  A run in the store is a row with a state, messages and an *)
(* answer; the row is looked at apart from the AgentRun in memory.         *)
(*                                                                         *)
(* A run stands for one request and the AgentRun it makes.  Its run_id is  *)
(* chosen by the client, who may choose one that was used before: only the *)
(* registry and the primary key of sessions are in the way.  A row is      *)
(* named here by the run that inserted it; a save finds it by the run_id.  *)
(* The conversations are those of one owner.                               *)
(*                                                                         *)
(* Events, tool records and usage samples are left out: they are written   *)
(* with the same saves and only read by people.  updated_at and created_at *)
(* are the orders of runs they give, taken when they are stored; the text  *)
(* of a message is left out but for its author and its run.                *)
(***************************************************************************)
EXTENDS Naturals, Sequences, FiniteSets, SequencesExt

CONSTANTS
  Runs,           \* the runs
  Ids,            \* the run_ids
  Conversations,  \* the conversation_ids of an owner
  KeepRecent,     \* THOR_SESSION_KEEP_RECENT
  NoRun,          \* resumed_from of a run that resumes none
  StoreMayFail    \* TRUE when a write to the store may raise

ASSUME StoreAssumption ==
  /\ KeepRecent \in Nat
  /\ NoRun \notin Ids
  /\ StoreMayFail \in BOOLEAN

TerminalStates == {"completed", "failed", "cancelled"}
Messages == {"user", "assistant"} \X Runs

VARIABLES
  phase,     \* phase[r]: where the request thread of r is
  id,        \* id[r]: run_id of r, from its request on
  conv,      \* conv[r]: conversation of r, from its request on
  parent,    \* parent[r]: resumed_from
  sent,      \* sent[r]: the messages of the request, until they are stored
  seen,      \* seen[r]: how many messages create_session has found stored
  known,     \* AgentRuntime._runs
  mem,       \* mem[r]: AgentRun.state, "active" before and until it is terminal
  row,       \* row[r]: sessions.state, "none" without a row
  msgs,      \* msgs[r]: rows of messages
  answered,  \* runs whose row has a final_answer
  born,      \* the runs by created_at
  touched,   \* the runs in the store by updated_at
  forget,    \* run_ids that a delete request has yet to forget
  deleted,   \* history: runs whose row has been deleted
  unsaved,   \* history: runs that the store has failed since the last restart
  overwritten \* history: runs whose row a save of another run has changed

target == <<id, conv>>
request == <<target, parent, sent>>
memory == <<known, mem, forget>>
store == <<row, msgs, answered, touched>>
history == <<deleted, unsaved, overwritten>>
vars == <<phase, request, seen, memory, store, born, history>>

Phases ==
  {"new", "read", "insert", "first", "running", "answer", "terminate", "last", "ended"}

Goto(r, place) == phase' = [phase EXCEPT ![r] = place]

Init ==
  /\ phase = [r \in Runs |-> "new"]
  /\ id \in [Runs -> Ids]
  /\ conv \in [Runs -> Conversations]
  /\ parent = [r \in Runs |-> NoRun]
  /\ sent = [r \in Runs |-> <<>>]
  /\ seen = [r \in Runs |-> 0]
  /\ known = {}
  /\ mem = [r \in Runs |-> "active"]
  /\ row = [r \in Runs |-> "none"]
  /\ msgs = [r \in Runs |-> <<>>]
  /\ answered = {}
  /\ born = <<>>
  /\ touched = <<>>
  /\ forget = {}
  /\ deleted = {}
  /\ unsaved = {}
  /\ overwritten = {}
-----------------------------------------------------------------------------
(* What the store holds.                                                   *)

Stored(c) == {r \in Runs : conv[r] = c /\ row[r] # "none"}

\* get_conversation: the messages of a conversation, by the age of their runs.
History(c) ==
  FlattenSeq([i \in DOMAIN born |-> IF born[i] \in Stored(c) THEN msgs[born[i]] ELSE <<>>])

\* An order of runs without those in rs.
Without(order, rs) ==
  FlattenSeq([i \in DOMAIN order |-> IF order[i] \in rs THEN <<>> ELSE <<order[i]>>])

\* The run of a conversation that was updated last.
Latest(c) == Last(Without(touched, Runs \ Stored(c)))

\* What a resume sends: the history without an answer at its end.
ResumeMessages(c) ==
  LET h == History(c) IN IF h # <<>> /\ Last(h)[1] = "assistant" THEN Front(h) ELSE h

Touch(order, r) == Append(Without(order, {r}), r)
-----------------------------------------------------------------------------
(* The request of a client and create_session.                             *)

\* create_run: the registry has no run of that run_id.
Registered(r) ==
  /\ \A q \in known : id[q] # id[r]
  /\ born' = Append(born, r)
  /\ known' = known \cup {r}

\* A client knows the conversation, or has known it, and adds a message.
Request(r) ==
  /\ phase[r] = "new"
  /\ Registered(r)
  /\ \E n \in 0..Len(History(conv[r])) :
       sent' = [sent EXCEPT ![r] =
                  Append(SubSeq(History(conv[r]), 1, n), <<"user", r>>)]
  /\ Goto(r, "read")
  /\ UNCHANGED <<target, parent, seen, mem, forget, store, history>>

Resumable(c) == Stored(c) # {} /\ row[Latest(c)] \in {"failed", "cancelled"}

\* The resume handler of the server.
ResumeRequest(r) ==
  /\ phase[r] = "new"
  /\ Resumable(conv[r]) /\ ResumeMessages(conv[r]) # <<>>
  /\ Registered(r)
  /\ parent' = [parent EXCEPT ![r] = id[Latest(conv[r])]]
  /\ sent' = [sent EXCEPT ![r] = ResumeMessages(conv[r])]
  /\ Goto(r, "read")
  /\ UNCHANGED <<target, seen, mem, forget, store, history>>

\* create_session is over with its locals.
Leave(r) ==
  /\ sent' = [sent EXCEPT ![r] = <<>>]
  /\ seen' = [seen EXCEPT ![r] = 0]

\* The stored messages must be a beginning of those sent.
ReadHistory(r) ==
  /\ phase[r] = "read"
  /\ IsPrefix(History(conv[r]), sent[r])
  /\ seen' = [seen EXCEPT ![r] = Len(History(conv[r]))]
  /\ Goto(r, "insert")
  /\ UNCHANGED <<request, memory, store, born, history>>

HistoryDiffers(r) ==
  /\ phase[r] = "read"
  /\ ~ IsPrefix(History(conv[r]), sent[r])
  /\ Leave(r)
  /\ Goto(r, "ended")
  /\ UNCHANGED <<target, parent, memory, store, born, history>>

\* resumed_from refers to a row of sessions, which may be the new one.
ParentStored(r) ==
  parent[r] # NoRun =>
    parent[r] = id[r] \/ \E q \in Runs : id[q] = parent[r] /\ row[q] # "none"

\* The row of the run_id of r, if there is one, whoever has inserted it.
Holder(r) == {q \in Runs : id[q] = id[r] /\ row[q] # "none"}

\* The session with the messages that were not stored before.
InsertSession(r) ==
  /\ phase[r] = "insert"
  /\ ParentStored(r) /\ Holder(r) = {}
  /\ row' = [row EXCEPT ![r] = "active"]
  /\ msgs' = [msgs EXCEPT ![r] = SubSeq(sent[r], seen[r] + 1, Len(sent[r]))]
  /\ touched' = Touch(touched, r)
  /\ Leave(r)
  /\ Goto(r, "first")
  /\ UNCHANGED <<target, parent, memory, answered, born, history>>

\* The row of an earlier run of that run_id stays as it is.
InsertFails(r) ==
  /\ phase[r] = "insert"
  /\ ParentStored(r) /\ Holder(r) = {} => StoreMayFail
  /\ Leave(r)
  /\ Goto(r, "ended")
  /\ UNCHANGED <<target, parent, memory, store, born, history>>
-----------------------------------------------------------------------------
(* The saves of a run.                                                     *)

\* save_snapshot of r finds the row of its run_id.
Save(r, state) ==
  \E q \in Holder(r) :
    /\ row' = [row EXCEPT ![q] = state]
    /\ touched' = Touch(touched, q)
    /\ overwritten' = overwritten \cup ({q} \ {r})

\* Without a row the save raises: its events refer to none.
Raises(r) == Holder(r) # {} => StoreMayFail

SavesEveryState(r, state) == Save(r, state)  \* mutant of Notified
\* AgentRun._on_change: every change is saved but those of a completed run.
Notified(r, state) ==
  IF state = "completed" THEN UNCHANGED <<row, touched, overwritten>> ELSE Save(r, state)

\* save_snapshot of an active run, the first one or a later one.
SaveSnapshot(r) ==
  /\ phase[r] \in {"first", "running"}
  /\ Notified(r, mem[r])
  /\ Goto(r, "running")
  /\ UNCHANGED <<request, seen, memory, msgs, answered, born, deleted, unsaved>>

\* The first save is made before the run handles its errors.
FirstSaveFails(r) ==
  /\ Raises(r)
  /\ phase[r] = "first"
  /\ Goto(r, "ended")
  /\ unsaved' = unsaved \cup {r}
  /\ UNCHANGED <<request, seen, memory, store, born, deleted, overwritten>>

\* The run moves to completed, and says so.
Complete(r) ==
  /\ phase[r] = "running"
  /\ mem' = [mem EXCEPT ![r] = "completed"]
  /\ Notified(r, "completed")
  /\ Goto(r, "answer")
  /\ UNCHANGED <<request, seen, known, forget, msgs, answered, born, deleted, unsaved>>

\* complete_session: the answer as a message, the state and the final answer.
StoreAnswer(r) ==
  /\ phase[r] = "answer"
  /\ Save(r, mem[r])
  /\ msgs' = [q \in Runs |-> IF q \in Holder(r) THEN Append(msgs[q], <<"assistant", r>>)
                                                ELSE msgs[q]]
  /\ answered' = answered \cup Holder(r)
  /\ Goto(r, "ended")
  /\ UNCHANGED <<request, seen, memory, born, deleted, unsaved>>

\* The exception handler finds a run that is terminal already.
StoreAnswerFails(r) ==
  /\ Raises(r)
  /\ phase[r] = "answer"
  /\ Goto(r, "ended")
  /\ unsaved' = unsaved \cup {r}
  /\ UNCHANGED <<request, seen, memory, store, born, deleted, overwritten>>

\* _terminate after a failure, which may be that of a save, a cancellation, a
\* deadline or a busy service: first the error is set and saved; if that fails
\* the run stays as it is.
SetError(r) ==
  /\ phase[r] = "running"
  /\ \/ Save(r, mem[r]) /\ Goto(r, "terminate") /\ UNCHANGED unsaved
     \/ /\ Raises(r)
        /\ Goto(r, "ended")
        /\ unsaved' = unsaved \cup {r}
        /\ UNCHANGED <<row, touched, overwritten>>
  /\ UNCHANGED <<request, seen, memory, msgs, answered, born, deleted>>

StoresFailed(r, state) == Notified(r, "failed")  \* mutant of TerminalRow
TerminalRow(r, state) == Notified(r, state)

\* Then it moves to the terminal state, which is saved or fails to be.
Terminate(r, state) ==
  /\ phase[r] = "terminate"
  /\ mem' = [mem EXCEPT ![r] = state]
  /\ \/ TerminalRow(r, state) /\ Goto(r, "last") /\ UNCHANGED unsaved
     \/ /\ Raises(r)
        /\ Goto(r, "ended")
        /\ unsaved' = unsaved \cup {r}
        /\ UNCHANGED <<row, touched, overwritten>>
  /\ UNCHANGED <<request, seen, known, forget, msgs, answered, born, deleted>>

\* Last it emits an event, whose save raises when the session is gone, and finds
\* that of another run when the run_id has been used again.
LastEvent(r) ==
  /\ phase[r] = "last"
  /\ \/ Notified(r, mem[r])
     \/ Raises(r) /\ UNCHANGED <<row, touched, overwritten>>
  /\ Goto(r, "ended")
  /\ UNCHANGED <<request, seen, memory, msgs, answered, born, deleted, unsaved>>
-----------------------------------------------------------------------------
(* Deletion, restart and retention.                                        *)

\* The rows of the runs rs go, and with them what refers to them.
DeleteRows(rs) ==
  /\ msgs' = [r \in Runs |-> IF r \in rs THEN <<>> ELSE msgs[r]]
  /\ answered' = answered \ rs
  /\ parent' = [r \in Runs |-> IF row[r] # "none" /\ parent[r] \in {id[q] : q \in rs}
                                THEN NoRun ELSE parent[r]]
  /\ deleted' = deleted \cup rs

DeletesAnything(c) == Stored(c) # {}  \* mutant of Deletable
Deletable(c) == Stored(c) # {} /\ \A r \in Stored(c) : row[r] \in TerminalStates

DeleteConversation(c) ==
  /\ Deletable(c)
  /\ row' = [r \in Runs |-> IF r \in Stored(c) THEN "none" ELSE row[r]]
  /\ touched' = Without(touched, Stored(c))
  /\ DeleteRows(Stored(c))
  /\ forget' = forget \cup {id[r] : r \in Stored(c)}
  /\ UNCHANGED <<phase, target, sent, seen, known, mem, born, unsaved, overwritten>>

ForgetsCompleted(r) == mem[r] = "completed"  \* mutant of Forgettable
Forgettable(r) == mem[r] \in TerminalStates

\* forget_runs, after the deletion: it looks the runs up by their run_ids.
ForgetRuns ==
  /\ forget # {}
  /\ known' = known \ {r \in known : id[r] \in forget /\ Forgettable(r)}
  /\ forget' = {}
  /\ UNCHANGED <<phase, request, seen, mem, store, born, history>>

\* The registry is full: its oldest run goes, if it is over.  Runs of other owners
\* and conversations fill it too, so that this may happen at any time.
Prune(r) ==
  /\ r \in known /\ r = Head(Without(born, Runs \ known))
  /\ mem[r] \in TerminalStates
  /\ known' = known \ {r}
  /\ UNCHANGED <<phase, request, seen, mem, forget, store, born, history>>

RecoversUnfinished == {r \in Runs : row[r] \notin {"none", "completed"}}  \* mutant of Interrupted
RecoversNothing == {}  \* mutant of Interrupted
Interrupted == {r \in Runs : row[r] \notin TerminalStates \cup {"none"}}

\* Conversations that are not among the KeepRecent updated last; order is that
\* of updated_at.
Unprotected(order) ==
  LET Recency(c) == CHOOSE i \in DOMAIN order :
                      /\ order[i] \in Stored(c)
                      /\ \A j \in DOMAIN order : order[j] \in Stored(c) => j <= i
      Held == {c \in Conversations : Stored(c) # {}}
  IN  {c \in Held : Cardinality({d \in Held : Recency(d) > Recency(c)}) >= KeepRecent}

\* The process starts again.  recover_interrupted fails what was active; then
\* cleanup deletes conversations without an update since the cutoff.
Restart ==
  /\ ~ \A r \in Runs : phase[r] = "new"
  /\ phase' = [r \in Runs |-> IF phase[r] = "new" THEN "new" ELSE "ended"]
  /\ sent' = [r \in Runs |-> <<>>]
  /\ seen' = [r \in Runs |-> 0]
  /\ known' = {}
  /\ mem' = [r \in Runs |-> "active"]
  /\ forget' = {}
  /\ LET untouched == Without(touched, Interrupted)
         order == untouched \o Without(born, Runs \ Interrupted)
         loose == Unprotected(order)
         Before(cutoff) == {c \in loose : Stored(c) \subseteq {order[i] : i \in 1..cutoff}}
     IN  \E Expired \in {UNION {Stored(c) : c \in Before(cutoff)} : cutoff \in 0..Len(untouched)} :
           /\ row' = [r \in Runs |-> IF r \in Expired THEN "none"
                                     ELSE IF r \in Interrupted THEN "failed"
                                     ELSE row[r]]
           /\ touched' = Without(order, Expired)
           /\ DeleteRows(Expired)
  /\ unsaved' = {}
  /\ UNCHANGED <<target, born, overwritten>>
-----------------------------------------------------------------------------
Thread(r) ==
  \/ Request(r) \/ ResumeRequest(r) \/ ReadHistory(r) \/ HistoryDiffers(r)
  \/ InsertSession(r) \/ InsertFails(r)
  \/ SaveSnapshot(r) \/ FirstSaveFails(r) \/ Complete(r) \/ StoreAnswer(r)
  \/ StoreAnswerFails(r) \/ SetError(r) \/ LastEvent(r)
  \/ \E state \in {"failed", "cancelled"} : Terminate(r, state)

Next ==
  \/ \E r \in Runs : Thread(r) \/ Prune(r)
  \/ \E c \in Conversations : DeleteConversation(c)
  \/ ForgetRuns
  \/ Restart

Spec == Init /\ [][Next]_vars
-----------------------------------------------------------------------------
(* What is true in each phase; the safety properties follow from it.       *)

RunAtPhase ==
  \A r \in Runs :
    /\ phase[r] = "new" => r \notin known
    /\ phase[r] \in {"new", "read", "insert"} => row[r] = "none" /\ mem[r] = "active"
    /\ phase[r] \in {"read", "insert", "first", "running", "terminate"} =>
         r \in known /\ mem[r] = "active"
    /\ phase[r] = "answer" => mem[r] = "completed"
    /\ phase[r] = "last" =>
         /\ mem[r] \in {"failed", "cancelled"} /\ row[r] # "active"
         /\ r \notin overwritten => row[r] \in {mem[r], "none"}

\* A run_id names one run in memory and one in the store, and a run that has a
\* session and is not over is alone with its run_id.
IdsApart ==
  \A r, q \in Runs :
    id[q] = id[r] /\ q # r =>
      /\ ~ (q \in known /\ r \in known)
      /\ ~ (row[q] # "none" /\ row[r] # "none")
      /\ phase[r] \in {"first", "running", "terminate"} => row[q] = "none"

\* Deleted runs have no row; they are over, unless a save of another run has
\* changed their row.
DeletedAtRest ==
  \A r \in deleted :
    /\ row[r] = "none"
    /\ phase[r] \notin {"new", "read", "insert"}
    /\ r \notin overwritten =>
         /\ phase[r] \in {"last", "ended"}
         /\ r \in known => mem[r] \in TerminalStates

AnsweredCompleted ==
  \A r \in Runs \ overwritten : row[r] = "completed" <=> r \in answered
-----------------------------------------------------------------------------
(* Properties.                                                             *)

\* Types; each run is listed once in an order.
TypeOK ==
  /\ phase \in [Runs -> Phases]
  /\ id \in [Runs -> Ids]
  /\ conv \in [Runs -> Conversations]
  /\ parent \in [Runs -> Ids \cup {NoRun}]
  /\ sent \in [Runs -> Seq(Messages)]
  /\ seen \in [Runs -> Nat]
  /\ known \subseteq Runs
  /\ mem \in [Runs -> TerminalStates \cup {"active"}]
  /\ row \in [Runs -> TerminalStates \cup {"active", "none"}]
  /\ msgs \in [Runs -> Seq(Messages)]
  /\ answered \subseteq Runs
  /\ born \in Seq(Runs) /\ IsInjective(born)
  /\ touched \in Seq(Runs) /\ IsInjective(touched)
  /\ forget \subseteq Ids
  /\ deleted \subseteq Runs
  /\ unsaved \subseteq Runs
  /\ overwritten \subseteq Runs

\* The store is never ahead of the runs: while a run is in memory, the session it
\* has stored is terminal only with the state of the run, so that whoever may
\* delete it may forget it.  A session that a late save of another run with the
\* same run_id has changed is not meant; RunIdUnique is about run_ids.
StoreFollowsMemory ==
  \A r \in known \ overwritten : row[r] \in TerminalStates => row[r] = mem[r]

\* A session is completed exactly when its answer is stored, as final_answer and
\* as its last message, although completed is the one state no save writes.
CompletedHasAnswer ==
  \A r \in Runs \ overwritten :
    /\ row[r] = "completed" <=> r \in answered
    /\ r \in answered <=> msgs[r] # <<>> /\ Last(msgs[r]) = <<"assistant", r>>

\* A run that still has to store something keeps its session, whatever is
\* deleted meanwhile and whoever else uses its run_id.
ActiveKeepsSession ==
  \A r \in Runs \ overwritten :
    phase[r] \in {"first", "running", "answer", "terminate"} => row[r] = "active"

\* The session of a run whose thread is over is terminal or deleted, unless the
\* store has failed the run since the process started: a restart recovers what
\* the store had failed before.
EndedRunsClosed ==
  \A r \in Runs :
    phase[r] = "ended" /\ r \notin unsaved => row[r] # "active"

\* When a deletion is through, no run whose session has been deleted can be found
\* in memory, although forget_runs looks runs up by run_ids and skips active ones.
DeletedForgotten ==
  \A r \in (deleted \cap known) \ overwritten : id[r] \in forget

\* The terminal state of a session is final, and a deleted session never comes
\* back, neither by a late save of its run nor by a restart.
SessionsFinal ==
  [][\A r \in Runs :
       /\ row[r] \in TerminalStates /\ r \notin overwritten' => row'[r] \in {row[r], "none"}
       /\ r \in deleted => row'[r] = "none"]_vars

\* docs/thor-agent-harness-blueprint.md: each run has a run_id of its own.  A run
\* whose thread is over is then the one the store has by its run_id.
RunIdUnique ==
  \A r \in known, q \in Runs :
    phase[r] = "ended" /\ id[q] = id[r] /\ row[q] \in TerminalStates => row[q] = mem[r]

\* README: interrupted sessions "can be inspected or resumed safely", "Failed
\* and cancelled sessions expose a Resume action".  What a resume sends is what
\* create_session accepts.
ResumeAccepted ==
  \A c \in Conversations :
    Resumable(c) => IsPrefix(History(c), ResumeMessages(c))
=============================================================================
