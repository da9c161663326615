------------------------------- MODULE Services -------------------------------
(***************************************************************************)
(* The services around the agent: the MCP connections, the tools that      *)
(* change and search a workspace, the scheduler, the accounts, the image   *)
(* service and the stream of an answer.  They run side by side in threads  *)
(* of one or two processes and share no state, so that a step of one is a  *)
(* stutter of the others.                                                  *)
(***************************************************************************)
EXTENDS McpManager, Naturals, Sequences

CONSTANTS
  Calls, Paths,             \* FileMutation
  MaxResults, MaxLines,     \* FileSearch
  Schedules, MaxLost,       \* Scheduler
  Users, Environment, Logins, MaxFailures, Window, Lifetime, MaxTokens, MaxClock,  \* Accounts
  Images,                   \* ImageService
  Characters, Markers, MaxPart, MaxText  \* StreamFilter

VARIABLES
  file, index, head, mutation, call, task, staged, touched,
  single, output, read, rg, reader, queued, quit, search, matches, truncated,
  schedules, due, loop, batch, current, halted, ran, late, lost,
  clock, updated, tokens, failures, login,
  pipeline, loaded, gpu, job, wanted, proxy, copies, records, writer, torn, damaged,
  answered, parts, pending, blocked, delivered, shown, stream, caller

mutationVars == <<file, index, head, mutation, call, task, staged, touched>>
searchVars ==
  <<single, output, read, rg, reader, queued, quit, search, matches, truncated>>
scheduleVars == <<schedules, due, loop, batch, current, halted, ran, late, lost>>
accountVars == <<clock, updated, tokens, failures, login>>
imageVars ==
  <<pipeline, loaded, gpu, job, wanted, proxy, copies, records, writer, torn, damaged>>
streamVars == <<answered, parts, pending, blocked, delivered, shown, stream, caller>>
allVars ==
  <<vars, mutationVars, searchVars, scheduleVars, accountVars, imageVars, streamVars>>

\* The two parts with a proof are taken together with their theorems.
Mutation == INSTANCE FileMutationProofs WITH Nobody <- None
Search == INSTANCE FileSearch
Timetable == INSTANCE Scheduler
Authentication == INSTANCE AccountsProofs
Imaging == INSTANCE ImageService WITH Idle <- None
Streaming == INSTANCE StreamFilter

\* What the theorems assume of the constants.
ASSUME ServicesAssumption ==
  /\ Mutation!Distinct
  /\ MaxResults \in Nat /\ MaxLines \in Nat
  /\ Authentication!Finite
  /\ None \notin Images
  /\ Markers \subseteq Seq(Characters) /\ Streaming!MarkersApart /\ MaxPart \in Nat
-----------------------------------------------------------------------------
ServicesInit ==
  /\ Init /\ Mutation!Init /\ Search!Init /\ Timetable!Init
  /\ Authentication!Init /\ Imaging!Init /\ Streaming!Init

McpStep ==
  /\ Next
  /\ UNCHANGED <<mutationVars, searchVars, scheduleVars, accountVars, imageVars, streamVars>>
MutationStep ==
  /\ Mutation!Next
  /\ UNCHANGED <<vars, searchVars, scheduleVars, accountVars, imageVars, streamVars>>
SearchStep ==
  /\ Search!Next
  /\ UNCHANGED <<vars, mutationVars, scheduleVars, accountVars, imageVars, streamVars>>
ScheduleStep ==
  /\ Timetable!Next
  /\ UNCHANGED <<vars, mutationVars, searchVars, accountVars, imageVars, streamVars>>
AccountStep ==
  /\ Authentication!Next
  /\ UNCHANGED <<vars, mutationVars, searchVars, scheduleVars, imageVars, streamVars>>
ImageStep ==
  /\ Imaging!Next
  /\ UNCHANGED <<vars, mutationVars, searchVars, scheduleVars, accountVars, streamVars>>
StreamStep ==
  /\ Streaming!Next
  /\ UNCHANGED <<vars, mutationVars, searchVars, scheduleVars, accountVars, imageVars>>

ServicesNext ==
  \/ McpStep \/ MutationStep \/ SearchStep \/ ScheduleStep
  \/ AccountStep \/ ImageStep \/ StreamStep

ServicesSpec == ServicesInit /\ [][ServicesNext]_allVars

\* Of each part, what it assumes of the threads it has started.
ServicesFairness ==
  /\ \A r \in Requests : WF_vars(Thread(r))
  /\ Search!Fairness
  /\ Timetable!Fairness
-----------------------------------------------------------------------------
(* The properties of the parts.                                            *)

\* FileMutation: no tool overwrites a content that its caller has not seen.
NoChangeLost == Mutation!NoChangeLost
\* FileMutation: what is committed is what was staged and approved.
CommitsApproved == Mutation!CommitsApproved
\* FileSearch: a search ends and leaves no process or thread behind.
SearchEnds == Search!SearchEnds
\* FileSearch: a search that returns has found every line up to the limit.
ResultComplete == Search!ResultComplete
\* Scheduler: a schedule that is due is run and recorded.
SchedulesRun == Timetable!SchedulesRun
\* Scheduler: a schedule runs once when it is due, and once after being disabled.
RunsAsScheduled == Timetable!RunsAsScheduled
\* Accounts: a token that was made invalid is never valid again.
RevokedStaysRevoked == Authentication!RevokedStaysRevoked
\* Accounts: logins at a time exceed the limit of failures by less than their number.
FailuresBounded == Authentication!FailuresBounded
\* ImageService: a job draws with a whole pipeline of its kind.
PipelineFits == Imaging!PipelineFits
\* ImageService: an answered request has its copy and its line in the history.
AnsweredInHistory == Imaging!AnsweredInHistory
\* StreamFilter: the user sees the answer, and nothing of a tool call.
ShownIsAnswer == Streaming!ShownIsAnswer
=============================================================================
