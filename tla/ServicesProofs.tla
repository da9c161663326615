---------------------------- MODULE ServicesProofs ----------------------------
(***************************************************************************)
(* Services implements McpManager, FileMutation and Accounts, whose        *)
(* theorems so hold of the services side by side; and what is proved of    *)
(* the scheduler, the image service, the search and the stream.            *)
(***************************************************************************)
EXTENDS Services, FiniteSetTheorems, SequenceTheorems, TLAPS
-----------------------------------------------------------------------------
(* Least and largest numbers.                                              *)

\* A set of naturals with a member has a least one: were there always a smaller
\* one, the intervals up to them would be ever smaller finite sets.
LEMMA Least ==
  ASSUME NEW B \in SUBSET Nat, NEW b \in B
  PROVE  \E m \in B : \A k \in B : m <= k
<1> DEFINE T == {0..k : k \in {j \in B : j <= b}}
<1>1. T \subseteq FiniteSubsetsOf(0..b) /\ T # {}
  <2>1. \A k \in {j \in B : j <= b} : 0..k \in FiniteSubsetsOf(0..b)
    <3> SUFFICES ASSUME NEW k \in B, k <= b PROVE 0..k \in FiniteSubsetsOf(0..b)
      OBVIOUS
    <3>1. IsFiniteSet(0..k)
      BY FS_Interval
    <3>2. 0..k \subseteq 0..b
      OBVIOUS
    <3> QED
      BY <3>1, <3>2 DEF FiniteSubsetsOf
  <2>2. 0..b \in T
    OBVIOUS
  <2> QED
    BY <2>1, <2>2
<1>2. PICK t \in T : \A u \in T : <<u, t>> \notin StrictSubsetOrdering(0..b)
  <2> HIDE DEF T
  <2> QED
    BY <1>1, WFMin, FS_StrictSubsetOrderingWellFounded
<1>3. PICK m \in B : m <= b /\ t = 0..m
  OBVIOUS
<1>4. ASSUME NEW k \in B, k < m PROVE FALSE
  <2>1. 0..k \in T
    BY <1>3, <1>4
  <2>2. /\ 0..k \subseteq 0..m /\ 0..k # 0..m /\ 0..m \subseteq 0..b
        /\ 0..k \in SUBSET (0..b) /\ 0..m \in SUBSET (0..b)
    BY <1>3, <1>4
  <2>3. <<0..k, 0..m>> \in StrictSubsetOrdering(0..b)
    BY <2>2 DEF StrictSubsetOrdering
  <2> QED
    BY <1>2, <1>3, <2>1, <2>3
<1> QED
  BY <1>4

\* A set of sizes has a largest one.
LEMMA Largest ==
  ASSUME NEW n \in Nat, NEW S \in SUBSET (0..n), S # {}
  PROVE  \E m \in S : \A k \in S : m >= k
<1> DEFINE B == {n - k : k \in S}
<1>1. PICK b : b \in B
  OBVIOUS
<1>2. B \in SUBSET Nat
  OBVIOUS
<1>3. PICK m \in B : \A k \in B : m <= k
  <2> HIDE DEF B
  <2> QED
    BY <1>1, <1>2, Least
<1>4. PICK s \in S : m = n - s
  BY <1>3
<1>5. ASSUME NEW k \in S PROVE s >= k
  <2>1. n - k \in B
    OBVIOUS
  <2>2. n - s <= n - k
    BY <1>3, <1>4, <2>1
  <2> QED
    BY <2>2
<1> QED
  BY <1>5
-----------------------------------------------------------------------------
\* A step of the services is one of the connection manager or leaves it alone.
THEOREM ImplementsMcp == ServicesSpec => Spec
<1>1. ServicesInit => Init
  BY DEF ServicesInit
<1>2. [ServicesNext]_allVars => [Next]_vars
  BY DEF AccountStep, ImageStep, McpStep, MutationStep, ScheduleStep, SearchStep,
     ServicesNext, StreamStep, allVars
<1> QED
  BY <1>1, <1>2, PTL DEF ServicesSpec, Spec

\* A step of the services is one of the tools that change a workspace, or of
\* another part, which leaves the state of those tools alone.
THEOREM ImplementsMutation == ServicesSpec => Mutation!Spec
<1>1. ServicesInit => Mutation!Init
  BY DEF ServicesInit
<1>2. [ServicesNext]_allVars => [Mutation!Next]_(Mutation!vars)
  BY DEF AccountStep, ImageStep, McpStep, Mutation!git, Mutation!vars, MutationStep,
     ScheduleStep, SearchStep, ServicesNext, StreamStep, allVars, mutationVars
<1> QED
  BY <1>1, <1>2, PTL DEF Mutation!Spec, ServicesSpec

\* The same for the accounts and logins.
THEOREM ImplementsAccounts == ServicesSpec => Authentication!Spec
<1>1. ServicesInit => Authentication!Init
  BY DEF ServicesInit
<1>2. [ServicesNext]_allVars => [Authentication!Next]_(Authentication!vars)
  BY DEF AccountStep, Authentication!vars, ImageStep, McpStep, MutationStep,
     ScheduleStep, SearchStep, ServicesNext, StreamStep, accountVars, allVars
<1> QED
  BY <1>1, <1>2, PTL DEF Authentication!Spec, ServicesSpec
-----------------------------------------------------------------------------
\* file_write and file_patch lose no change of an editor that their second check
\* could have seen.
THEOREM NothingIsLost == ServicesSpec => NoChangeLost
<1>1. Mutation!Spec => Mutation!NoChangeLost
  BY ServicesAssumption, Mutation!NothingLost
<1> QED
  BY <1>1, ImplementsMutation, PTL DEF NoChangeLost

\* git_commit commits what was staged and approved.
THEOREM ApprovedIsCommitted == ServicesSpec => CommitsApproved
<1>1. Mutation!Spec => Mutation!CommitsApproved
  BY ServicesAssumption, Mutation!CommitsAreApproved
<1> QED
  BY <1>1, ImplementsMutation, PTL DEF CommitsApproved

\* The limiter of the logins keeps fewer failures than its limit and the threads.
THEOREM LoginsAreLimited == ServicesSpec => []FailuresBounded
<1>1. Authentication!Spec => []Authentication!FailuresBounded
  BY ServicesAssumption, Authentication!FailuresAreBounded
<1> QED
  BY <1>1, ImplementsAccounts, PTL DEF FailuresBounded

\* A token that was made invalid is never valid again.
THEOREM TokensStayRevoked == ServicesSpec => RevokedStaysRevoked
<1>1. Authentication!Spec => Authentication!RevokedStaysRevoked
  BY ServicesAssumption, Authentication!RevokedForGood
<1> QED
  BY <1>1, ImplementsAccounts, PTL DEF RevokedStaysRevoked
-----------------------------------------------------------------------------
(* The scheduler.                                                          *)

Ticking == loop \in {"ticking", "running", "recording"}
Running == loop \in {"running", "recording"}

\* The schedules of a tick are due until they are recorded, and each is run once.
BatchDue ==
  /\ Ticking => \A s \in batch : due[s]
  /\ Running => due[current] /\ current \notin batch

\* A schedule that is due has no more runs than went unrecorded, but for the one
\* under way.
RunsCounted ==
  \A s \in Schedules :
    /\ due[s] => ran[s] <= lost[s] \/ (Running /\ s = current)
    /\ ran[s] <= lost[s] + 1

\* What is disabled and still to run was not run since.
LateOnce ==
  \A s \in Schedules :
    /\ late[s] <= 1
    /\ Ticking /\ s \in batch /\ schedules[s] = "disabled" => late[s] = 0

TimetableTypes ==
  /\ ran \in [Schedules -> Nat] /\ late \in [Schedules -> Nat] /\ lost \in [Schedules -> Nat]
  /\ due \in [Schedules -> BOOLEAN]
  /\ schedules \in [Schedules -> {"none", "enabled", "disabled"}]
  /\ Ticking => batch \subseteq Schedules
  /\ Running => current \in Schedules

TimetableInvariant == TimetableTypes /\ BatchDue /\ RunsCounted /\ LateOnce

\* At first there is no schedule.
LEMMA TimetableInit == Timetable!Init => TimetableInvariant
  BY DEF BatchDue, LateOnce, Running, RunsCounted, Timetable!Init, TimetableInvariant,
     TimetableTypes

\* The counters go up by one at most.
LEMMA CountedUp ==
  ASSUME NEW runs \in [Schedules -> Nat], NEW s \in Schedules
  PROVE  /\ Timetable!Count(runs, s) \in [Schedules -> Nat]
         /\ Timetable!Count(runs, s)[s] <= runs[s] + 1
         /\ \A u \in Schedules : u # s => Timetable!Count(runs, s)[u] = runs[u]
  BY DEF Timetable!Count

\* What the handlers and the clock do keeps the invariant.
LEMMA HandlersStep ==
  ASSUME TimetableInvariant, NEW s \in Schedules,
         Timetable!Create(s) \/ Timetable!SetEnabled(s) \/ Timetable!TimePasses(s)
  PROVE  TimetableInvariant'
<1> USE DEF BatchDue, LateOnce, Running, RunsCounted, Ticking, TimetableInvariant,
            TimetableTypes, Timetable!counts, Timetable!memory, Timetable!table
<1>1. CASE Timetable!Create(s)
  BY <1>1 DEF Timetable!Create
<1>2. CASE Timetable!SetEnabled(s)
  BY <1>2 DEF Timetable!SetEnabled
<1>3. CASE Timetable!TimePasses(s)
  BY <1>3 DEF Timetable!TimePasses
<1> QED
  BY <1>1, <1>2, <1>3

\* Every step keeps the invariant.
LEMMA TimetableStep ==
  TimetableInvariant /\ [Timetable!Next]_(Timetable!vars) => TimetableInvariant'
<1> SUFFICES ASSUME TimetableInvariant, [Timetable!Next]_(Timetable!vars)
             PROVE  TimetableInvariant'
  OBVIOUS
<1> USE DEF BatchDue, LateOnce, Running, RunsCounted, Ticking, TimetableInvariant,
            TimetableTypes, Timetable!counts, Timetable!memory, Timetable!table
<1>1. ASSUME NEW s \in Schedules, Timetable!Run(s) PROVE TimetableInvariant'
  <2>1. /\ loop = "ticking" /\ loop' = "running" /\ s \in batch
        /\ batch' = batch \ {s} /\ current' = s
        /\ ran' = Timetable!Count(ran, s)
        /\ late' = IF schedules[s] = "disabled" THEN Timetable!Count(late, s) ELSE late
        /\ UNCHANGED <<schedules, due, lost>>
    BY <1>1 DEF Timetable!Run
  <2>2. RunsCounted'
    BY <2>1, CountedUp
  <2>3. LateOnce'
    BY <2>1, CountedUp, SMTT(30)
  <2>4. TimetableTypes'
    BY <2>1, CountedUp
  <2> QED
    BY <2>1, <2>2, <2>3, <2>4
<1>2. CASE Timetable!Tick
  BY <1>2 DEF Timetable!DueSchedules, Timetable!Tick
<1>3. CASE Timetable!Record
  BY <1>3 DEF Timetable!Record, Timetable!Recorded
<1>4. CASE Timetable!RecordFails
  BY <1>4 DEF Timetable!RecordFails
<1>5. CASE Timetable!Crash
  BY <1>5 DEF Timetable!Crash
<1>6. CASE Timetable!Leave \/ Timetable!TickFails \/ Timetable!TickDone \/ Timetable!Start
  BY <1>6 DEF Timetable!Leave, Timetable!Start, Timetable!TickDone, Timetable!TickFails
<1>7. CASE Timetable!RunEnds \/ Timetable!Stop \/ UNCHANGED Timetable!vars
  BY <1>7 DEF Timetable!RunEnds, Timetable!Stop, Timetable!vars
<1> QED
  BY <1>1, <1>2, <1>3, <1>4, <1>5, <1>6, <1>7, HandlersStep DEF Timetable!Loop,
     Timetable!Next

\* A schedule runs once each time it is due, again only if a run went unrecorded,
\* and at most once after it was disabled.
THEOREM SchedulesRunOnce == ServicesSpec => []RunsAsScheduled
<1>1. ServicesInit => TimetableInvariant
  BY TimetableInit DEF ServicesInit
<1>2. TimetableInvariant /\ [ServicesNext]_allVars => TimetableInvariant'
  <2>1. [ServicesNext]_allVars => [Timetable!Next]_(Timetable!vars)
    BY DEF AccountStep, ImageStep, McpStep, MutationStep, ScheduleStep, SearchStep,
       ServicesNext, StreamStep, Timetable!counts, Timetable!memory, Timetable!table,
       Timetable!vars, allVars, scheduleVars
  <2> QED
    BY <2>1, TimetableStep
<1>3. TimetableInvariant => RunsAsScheduled
  <2> SUFFICES ASSUME TimetableInvariant, NEW s \in Schedules
               PROVE  ran[s] <= 1 + lost[s] /\ late[s] <= 1
    BY DEF RunsAsScheduled, Timetable!RunsAsScheduled
  <2> QED
    BY DEF LateOnce, RunsCounted, TimetableInvariant, TimetableTypes
<1> QED
  BY <1>1, <1>2, <1>3, PTL DEF ServicesSpec
-----------------------------------------------------------------------------
(* The image service and its proxy.                                        *)

Places == {"none", "queued", "get", "load", "move", "use", "done", "failed"}
Handlers == {"idle", "waiting", "copy", "record", "append", "sent", "failed"}

ImagingTypes ==
  /\ job \in [Images -> Places] /\ proxy \in [Images -> Handlers]
  /\ wanted \in [Images -> {"generate", "edit"}]
  /\ loaded \in {"none", "generate", "edit"}

\* What is wanted is settled with the request.
NotAsked == \A r \in Images : proxy[r] = "idle" => job[r] = "none"

\* Only the job with the lock is past it, and how far its pipeline is.
PipelineAtPlace ==
  \A r \in Images :
    /\ job[r] \in Imaging!Under => gpu = r
    /\ job[r] = "load" => pipeline = Imaging!NoPipeline
    /\ job[r] = "move" => pipeline = [kind |-> wanted[r], ready |-> FALSE]
    /\ job[r] \in {"load", "move"} => loaded = "none"
    /\ job[r] = "use" => pipeline = [kind |-> wanted[r], ready |-> TRUE]

\* A pipeline with a name is whole.
NamedWhole == loaded # "none" => pipeline = [kind |-> loaded, ready |-> TRUE]

\* Copies come before records and records before answers, one line at a time.
HistoryOrdered ==
  /\ \A r \in Images :
       /\ proxy[r] = "append" <=> writer = r
       /\ proxy[r] \in {"record", "append", "sent"} => r \in copies
       /\ proxy[r] = "sent" => r \in records \/ damaged
  /\ writer \in Images \cup {None}
  /\ records \subseteq copies
  /\ torn => damaged

ImagingInvariant ==
  ImagingTypes /\ NotAsked /\ PipelineAtPlace /\ NamedWhole /\ HistoryOrdered

\* At first there is no request.
LEMMA ImagingInit == Imaging!Init => ImagingInvariant
  BY ServicesAssumption DEF Handlers, HistoryOrdered, Imaging!Init, Imaging!Under,
     ImagingInvariant, ImagingTypes, NamedWhole, NotAsked, PipelineAtPlace, Places

\* What a job does; the history is left as it is.
LEMMA ServiceSteps ==
  ASSUME ImagingInvariant, NEW r \in Images,
         \/ Imaging!Lock(r) \/ Imaging!Reuse(r) \/ Imaging!Unload(r) \/ Imaging!Load(r)
         \/ Imaging!Move(r) \/ Imaging!JobFails(r) \/ Imaging!Draw(r)
  PROVE  ImagingInvariant'
<1> USE ServicesAssumption
    DEF Handlers, ImagingInvariant, ImagingTypes, NotAsked, Places,
        Imaging!At, Imaging!NoPipeline, Imaging!Under
<1>1. HistoryOrdered'
  BY DEF HistoryOrdered, Imaging!Draw, Imaging!JobFails, Imaging!Load, Imaging!Lock,
     Imaging!Move, Imaging!Reuse, Imaging!Unload, Imaging!web
<1> USE DEF NamedWhole, PipelineAtPlace, Imaging!web
<1>2. CASE Imaging!Lock(r)
  BY <1>1, <1>2 DEF Imaging!Lock
<1>3. CASE Imaging!Reuse(r)
  BY <1>1, <1>3 DEF Imaging!Reuse
<1>4. CASE Imaging!Unload(r)
  BY <1>1, <1>4 DEF Imaging!Unload
<1>5. CASE Imaging!Load(r)
  BY <1>1, <1>5 DEF Imaging!Load, Imaging!NotYetNamed
<1>6. CASE Imaging!Move(r)
  <2>1. pipeline = [kind |-> wanted[r], ready |-> FALSE]
    BY <1>6 DEF Imaging!Move
  <2>2. pipeline' = [kind |-> wanted[r], ready |-> TRUE] /\ loaded' = wanted[r]
    BY <1>6, <2>1 DEF Imaging!Move
  <2> QED
    BY <1>1, <1>6, <2>2 DEF Imaging!Move
<1>7. CASE Imaging!JobFails(r)
  BY <1>1, <1>7 DEF Imaging!JobFails
<1>8. CASE Imaging!Draw(r)
  BY <1>1, <1>8 DEF Imaging!Draw
<1> QED
  BY <1>2, <1>3, <1>4, <1>5, <1>6, <1>7, <1>8

\* What a handler does; pipelines are left as they are.
LEMMA ProxySteps ==
  ASSUME ImagingInvariant, NEW r \in Images,
         \/ Imaging!Submit(r) \/ Imaging!Answered(r) \/ Imaging!GivesUp(r) \/ Imaging!Copy(r)
         \/ Imaging!BeginAppend(r) \/ Imaging!EndAppend(r) \/ Imaging!CutShort(r)
  PROVE  ImagingInvariant'
<1> USE ServicesAssumption
    DEF Handlers, HistoryOrdered, ImagingInvariant, ImagingTypes, NamedWhole, NotAsked,
        PipelineAtPlace, Places, Imaging!Answer, Imaging!service
<1>1. CASE Imaging!Submit(r)
  BY <1>1 DEF Imaging!At, Imaging!PipelineKinds, Imaging!Submit, Imaging!Under
<1>2. CASE Imaging!Answered(r)
  BY <1>2 DEF Imaging!Answered
<1>3. CASE Imaging!GivesUp(r)
  BY <1>3 DEF Imaging!GivesUp
<1>4. CASE Imaging!Copy(r)
  BY <1>4 DEF Imaging!Copy
<1>5. CASE Imaging!BeginAppend(r)
  BY <1>5 DEF Imaging!Alone, Imaging!BeginAppend
<1>6. CASE Imaging!EndAppend(r)
  BY <1>6 DEF Imaging!EndAppend
<1>7. CASE Imaging!CutShort(r)
  BY <1>7 DEF Imaging!CutShort, Imaging!Interrupted
<1> QED
  BY <1>1, <1>2, <1>3, <1>4, <1>5, <1>6, <1>7

\* Every step keeps the invariant; a stop of either process as well.
LEMMA ImagingStep ==
  ImagingInvariant /\ [Imaging!Next]_(Imaging!vars) => ImagingInvariant'
<1> SUFFICES ASSUME ImagingInvariant, [Imaging!Next]_(Imaging!vars)
             PROVE  ImagingInvariant'
  OBVIOUS
<1> USE ServicesAssumption
    DEF Handlers, HistoryOrdered, ImagingInvariant, ImagingTypes, NamedWhole, NotAsked,
        PipelineAtPlace, Places, Imaging!service, Imaging!web
<1>1. CASE Imaging!ServiceStops
  BY <1>1 DEF Imaging!ServiceStops, Imaging!Under
<1>2. CASE Imaging!WebStops
  BY <1>2 DEF Imaging!Interrupted, Imaging!Open, Imaging!WebStops
<1>3. CASE UNCHANGED Imaging!vars
  BY <1>3 DEF Imaging!vars
<1> QED
  BY <1>1, <1>2, <1>3, ProxySteps, ServiceSteps DEF Imaging!Next

\* The invariant holds of the services side by side.
LEMMA ImagingHolds == ServicesSpec => []ImagingInvariant
<1>1. ServicesInit => ImagingInvariant
  BY ImagingInit DEF ServicesInit
<1>2. ImagingInvariant /\ [ServicesNext]_allVars => ImagingInvariant'
  <2>1. [ServicesNext]_allVars => [Imaging!Next]_(Imaging!vars)
    BY DEF AccountStep, ImageStep, Imaging!service, Imaging!vars, Imaging!web, McpStep,
       MutationStep, ScheduleStep, SearchStep, ServicesNext, StreamStep, allVars,
       imageVars
  <2> QED
    BY <2>1, ImagingStep
<1> QED
  BY <1>1, <1>2, PTL DEF ServicesSpec

\* The pipeline a job draws with is of its kind and on the GPU.
THEOREM PipelinesFit == ServicesSpec => []PipelineFits
<1>1. ImagingInvariant => PipelineFits
  BY DEF Imaging!PipelineFits, Imaging!Under, ImagingInvariant, PipelineAtPlace,
     PipelineFits
<1> QED
  BY <1>1, ImagingHolds, PTL

\* An answered request has its copy and is shown in the history, unless a line is
\* being written or was cut short.
THEOREM AnswersInHistory == ServicesSpec => []AnsweredInHistory
<1>1. ImagingInvariant => AnsweredInHistory
  BY DEF AnsweredInHistory, HistoryOrdered, Imaging!AnsweredInHistory, Imaging!Shown,
     ImagingInvariant
<1> QED
  BY <1>1, ImagingHolds, PTL
-----------------------------------------------------------------------------
(* The search.                                                             *)

\* The number of lines among the first n that are wanted.
Count(lines, n) == Cardinality({i \in 1..n : lines[i] # "other"})

\* The search counts in the same way.
LEMMA SameCardinality == \A S : Search!Cardinality(S) = Cardinality(S)
  BY DEF Search!Cardinality, Cardinality

\* One line more.
LEMMA CountNext ==
  ASSUME NEW lines, NEW n \in Nat
  PROVE  /\ Count(lines, 0) = 0 /\ Count(lines, n) \in Nat
         /\ Count(lines, n + 1) = IF lines[n + 1] = "other" THEN Count(lines, n)
                                  ELSE Count(lines, n) + 1
<1> DEFINE Before == {i \in 1..n : lines[i] # "other"}
           After == {i \in 1..n + 1 : lines[i] # "other"}
<1>1. IsFiniteSet(Before) /\ Cardinality(Before) \in Nat
  <2>1. IsFiniteSet(1..n) /\ Before \subseteq 1..n
    BY FS_Interval
  <2> HIDE DEF Before
  <2> QED
    BY <2>1, FS_Subset, FS_CardinalityType
<1>2. After = IF lines[n + 1] = "other" THEN Before ELSE Before \cup {n + 1}
  OBVIOUS
<1>3. n + 1 \notin Before
  OBVIOUS
<1>4. Cardinality(After) = IF lines[n + 1] = "other" THEN Cardinality(Before)
                           ELSE Cardinality(Before) + 1
  <2> HIDE DEF After, Before
  <2> QED
    BY <1>1, <1>2, <1>3, FS_AddElement
<1>5. Count(lines, 0) = 0
  <2>1. {i \in 1..0 : lines[i] # "other"} = {}
    OBVIOUS
  <2> QED
    BY <2>1, FS_EmptySet DEF Count
<1> QED
  BY <1>1, <1>4, <1>5 DEF Count

\* Fewer lines, no more of them wanted.
LEMMA CountGrows ==
  ASSUME NEW lines, NEW m \in Nat, NEW n \in 0..m
  PROVE  Count(lines, m) \in Nat /\ Count(lines, n) <= Count(lines, m)
<1> DEFINE Some == {i \in 1..n : lines[i] # "other"}
           All == {i \in 1..m : lines[i] # "other"}
<1>1. IsFiniteSet(All) /\ Some \subseteq All
  <2>1. IsFiniteSet(1..m) /\ All \subseteq 1..m
    BY FS_Interval
  <2>2. Some \subseteq All
    OBVIOUS
  <2> HIDE DEF All, Some
  <2> QED
    BY <2>1, <2>2, FS_Subset
<1>2. Cardinality(All) \in Nat /\ Cardinality(Some) <= Cardinality(All)
  <2> HIDE DEF All, Some
  <2> QED
    BY <1>1, FS_Subset, FS_CardinalityType
<1> QED
  BY <1>2 DEF Count

\* Of all lines those are wanted that the search should find.
LEMMA WantedLines ==
  /\ output \in Seq(Search!Kinds) => Search!Wanted = Count(output, Len(output))
  /\ output' \in Seq(Search!Kinds) => Search!Wanted' = Count(output', Len(output'))
<1>1. ASSUME NEW lines \in Seq(Search!Kinds)
      PROVE  Search!Cardinality({i \in DOMAIN lines : lines[i] # "other"})
               = Count(lines, Len(lines))
  <2>1. DOMAIN lines = 1..Len(lines)
    OBVIOUS
  <2> QED
    BY <2>1, SameCardinality DEF Count
<1> QED
  BY <1>1 DEF Search!Wanted

\* Any lines are a sequence of kinds.
LEMMA OutputLines == Search!SeqOf(Search!Kinds, MaxLines) \subseteq Seq(Search!Kinds)
  BY ServicesAssumption DEF Search!SeqOf

SearchTypes ==
  /\ single \in BOOLEAN /\ output \in Seq(Search!Kinds)
  /\ read \in 0..Len(output) /\ (reader = "putting" => read # 0)
  /\ queued \in Seq(Search!Kinds \cup {"end"})
  /\ matches \in Nat /\ truncated \in BOOLEAN /\ quit \in BOOLEAN

\* Before a search nothing is running or waiting.
SearchIdle ==
  search = "idle" =>
    /\ read = 0 /\ reader = "none" /\ queued = <<>> /\ ~ quit
    /\ matches = 0 /\ ~ truncated

\* The queue holds the lines read after the first ones, which the caller has
\* taken, and last perhaps the marker, when the reader is through.
Waiting(taken, held) ==
  /\ read = taken + held + (IF reader = "putting" THEN 1 ELSE 0)
  /\ \A j \in 1..held : queued[j] = output[taken + j]
  /\ \/ Len(queued) = held
     \/ Len(queued) = held + 1 /\ queued[held + 1] = "end" /\ reader = "done"

\* What the caller has counted among the lines it has taken.
Counted(taken) ==
  ~ single => matches = Count(output, taken) /\ matches <= MaxResults

SearchUnderWay ==
  search = "getting" =>
    /\ ~ quit /\ ~ truncated
    /\ reader \in {"ending", "done"} => read = Len(output)
    /\ \E taken, held \in Nat : Waiting(taken, held) /\ Counted(taken)

\* The result holds every line up to the limit.
Whole ==
  /\ matches = IF Search!Wanted > MaxResults THEN MaxResults ELSE Search!Wanted
  /\ truncated = (Search!Wanted > MaxResults)

ResultWhole ==
  /\ search \in {"getting", "closing"} => rg # "none"
  /\ search \in {"closing", "returned"} /\ (~ single \/ rg = "none") => Whole

SearchInvariant == SearchTypes /\ SearchIdle /\ SearchUnderWay /\ ResultWhole

\* At first there is no search.
LEMMA SearchInit == Search!Init => SearchInvariant
<1> SUFFICES ASSUME Search!Init PROVE SearchInvariant
  OBVIOUS
<1>1. SearchTypes
  <2>1. \A S : <<>> \in Seq(S) /\ Len(<<>>) = 0
    OBVIOUS
  <2>2. /\ output = <<>> /\ queued = <<>> /\ read = 0 /\ reader = "none" /\ matches = 0
        /\ single = FALSE /\ truncated = FALSE /\ quit = FALSE
    BY DEF Search!Init
  <2>3. output \in Seq(Search!Kinds) /\ read \in 0..Len(output)
    BY <2>1, <2>2
  <2>4. queued \in Seq(Search!Kinds \cup {"end"})
    BY <2>1, <2>2
  <2> QED
    BY <2>2, <2>3, <2>4 DEF SearchTypes
<1> QED
  BY <1>1 DEF ResultWhole, SearchIdle, SearchInvariant, SearchUnderWay, Search!Init

\* A search starts, with rg or without.
LEMMA SearchStarts ==
  ASSUME SearchInvariant, Search!Start \/ Search!Fallback
  PROVE  SearchInvariant'
<1>1. output' \in Seq(Search!Kinds) /\ single' \in BOOLEAN
  BY OutputLines DEF Search!Fallback, Search!Start
<1>2. /\ read = 0 /\ reader = "none" /\ queued = <<>> /\ ~ quit
      /\ matches = 0 /\ ~ truncated
  BY DEF SearchIdle, SearchInvariant, Search!Fallback, Search!Start
<1>3. CASE Search!Start
  <2>1. /\ read' = 0 /\ reader' = "reading" /\ queued' = <<>> /\ ~ quit'
        /\ matches' = 0 /\ ~ truncated' /\ search' = "getting" /\ rg' = "running"
    BY <1>2, <1>3 DEF SearchInvariant, SearchTypes, Search!Start, Search!answer
  <2>2. Waiting(0, 0)'
    BY <2>1 DEF Waiting
  <2>3. Counted(0)'
    BY <2>1, CountNext, ServicesAssumption DEF Counted
  <2>4. SearchTypes'
    BY <1>1, <1>3, <2>1 DEF SearchInvariant, SearchTypes, Search!Start, Search!answer
  <2> QED
    BY <2>1, <2>2, <2>3, <2>4 DEF ResultWhole, SearchIdle, SearchInvariant, SearchUnderWay
<1>4. CASE Search!Fallback
  <2>1. /\ read' = 0 /\ queued' = queued /\ quit' = quit /\ search' = "returned"
        /\ reader' = "none"
        /\ matches' = (IF Search!Wanted' > MaxResults THEN MaxResults ELSE Search!Wanted')
        /\ truncated' = (Search!Wanted' > MaxResults)
    BY <1>2, <1>4 DEF Search!Fallback
  <2>2. Search!Wanted' \in Nat
    <3>1. Len(output') \in Nat
      BY <1>1
    <3> QED
      BY <1>1, <3>1, CountNext, WantedLines
  <2>3. SearchTypes'
    BY <1>1, <2>1, <2>2, ServicesAssumption DEF SearchInvariant, SearchTypes
  <2> QED
    BY <2>1, <2>3 DEF ResultWhole, SearchIdle, SearchInvariant, SearchUnderWay, Whole
<1> QED
  BY <1>3, <1>4

\* rg and the reader: what is taken or counted is left as it is.
LEMMA ReaderSteps ==
  ASSUME SearchInvariant,
         \/ Search!RgEnds \/ Search!ReadLine \/ Search!Put \/ Search!GiveUp
         \/ Search!EndOfOutput \/ Search!PutEnd
  PROVE  SearchInvariant'
<1>1. /\ output' = output /\ single' = single /\ search' = search /\ quit' = quit
      /\ matches' = matches /\ truncated' = truncated
  BY DEF Search!EndOfOutput, Search!GiveUp, Search!Put, Search!PutEnd, Search!ReadLine,
     Search!RgEnds, Search!answer, Search!pipe
<1>2. SearchTypes /\ SearchIdle /\ SearchUnderWay /\ ResultWhole
  BY DEF SearchInvariant
<1>3. Search!Wanted' = Search!Wanted
  BY <1>1 DEF Search!Wanted
<1>4. ASSUME NEW taken PROVE Counted(taken) => Counted(taken)'
  BY <1>1 DEF Counted
<1>5. CASE Search!RgEnds
  <2>1. read' = read /\ reader' = reader /\ queued' = queued
    BY <1>5 DEF Search!RgEnds
  <2>2. (rg' = "none" <=> rg = "none")
    BY <1>5 DEF Search!RgEnds
  <2>3. \A taken, held \in Nat : Waiting(taken, held) => Waiting(taken, held)'
    BY <1>1, <2>1 DEF Waiting
  <2>4. SearchUnderWay'
    BY <1>1, <1>2, <1>4, <2>1, <2>3 DEF SearchUnderWay
  <2>5. SearchTypes' /\ SearchIdle'
    BY <1>1, <1>2, <2>1 DEF SearchIdle, SearchTypes
  <2> QED
    BY <1>1, <1>2, <1>3, <2>2, <2>4, <2>5 DEF ResultWhole, SearchInvariant, Whole
<1>6. ASSUME rg' = rg, SearchTypes', SearchUnderWay', reader # "none" PROVE SearchInvariant'
  BY <1>1, <1>2, <1>3, <1>6 DEF ResultWhole, SearchIdle, SearchInvariant, Whole
<1>7. ASSUME NEW taken \in Nat, NEW held \in Nat, NEW more \in Nat, search = "getting",
             Waiting(taken, held), Counted(taken),
             Waiting(taken, more)', reader' \in {"ending", "done"} => read' = Len(output)
      PROVE  SearchUnderWay'
  BY <1>1, <1>2, <1>4, <1>7 DEF SearchUnderWay
<1>8. CASE Search!ReadLine
  <2>1. /\ reader = "reading" /\ read < Len(output) /\ read' = read + 1
        /\ reader' = "putting" /\ rg' = rg /\ queued' = queued
    BY <1>8 DEF Search!ReadLine
  <2>2. SearchTypes'
    BY <1>1, <1>2, <2>1 DEF SearchTypes
  <2>3. ASSUME search = "getting" PROVE SearchUnderWay'
    <3>1. PICK taken \in Nat, held \in Nat : Waiting(taken, held) /\ Counted(taken)
      BY <1>2, <2>3 DEF SearchUnderWay
    <3>2. Waiting(taken, held)'
      BY <1>1, <2>1, <3>1 DEF Waiting
    <3> QED
      BY <1>7, <2>1, <2>3, <3>1, <3>2
  <2>4. SearchUnderWay'
    BY <1>1, <2>3 DEF SearchUnderWay
  <2> QED
    BY <1>6, <2>1, <2>2, <2>4
<1>9. CASE Search!Put
  <2>1. /\ reader = "putting" /\ rg' = rg /\ read' = read
        /\ queued' = Append(queued, output[read])
        /\ reader' = IF quit THEN "ending" ELSE "reading"
    BY <1>9 DEF Search!Put
  <2>2. ASSUME search = "getting"
        PROVE  \E taken, held \in Nat :
                 Waiting(taken, held) /\ Counted(taken) /\ read = taken + held + 1
    BY <1>2, <2>1, <2>2 DEF SearchUnderWay, Waiting
  <2>3. ASSUME search = "getting" PROVE SearchUnderWay' /\ read # 0
    <3>1. PICK taken \in Nat, held \in Nat :
            Waiting(taken, held) /\ Counted(taken) /\ read = taken + held + 1
      BY <2>2, <2>3
    <3>2. Waiting(taken, held + 1)'
      BY <1>1, <1>2, <2>1, <2>3, <3>1 DEF SearchTypes, SearchUnderWay, Waiting
    <3>3. reader' = "reading"
      BY <1>2, <2>1, <2>3 DEF SearchUnderWay
    <3> QED
      BY <1>7, <2>3, <3>1, <3>2, <3>3
  <2>4. SearchUnderWay'
    BY <1>1, <2>3 DEF SearchUnderWay
  <2>5. SearchTypes'
    BY <1>1, <1>2, <2>1 DEF SearchTypes
  <2> QED
    BY <1>6, <2>1, <2>4, <2>5
<1>10. CASE Search!GiveUp
  <2>1. reader = "putting" /\ quit /\ rg' = rg /\ read' = read /\ queued' = queued
    BY <1>10 DEF Search!GiveUp
  <2>2. search # "getting"
    BY <1>2, <2>1 DEF SearchUnderWay
  <2>3. SearchUnderWay' /\ SearchTypes'
    BY <1>1, <1>2, <2>1, <2>2 DEF SearchTypes, SearchUnderWay
  <2> QED
    BY <1>6, <2>1, <2>3
<1>11. CASE Search!EndOfOutput
  <2>1. /\ reader = "reading" /\ read = Len(output) /\ reader' = "ending"
        /\ rg' = rg /\ read' = read /\ queued' = queued
    BY <1>11 DEF Search!EndOfOutput
  <2>2. ASSUME search = "getting" PROVE SearchUnderWay'
    <3>1. PICK taken \in Nat, held \in Nat : Waiting(taken, held) /\ Counted(taken)
      BY <1>2, <2>2 DEF SearchUnderWay
    <3>2. Waiting(taken, held)'
      BY <1>1, <2>1, <3>1 DEF Waiting
    <3> QED
      BY <1>7, <2>1, <2>2, <3>1, <3>2
  <2>3. SearchUnderWay' /\ SearchTypes'
    BY <1>1, <1>2, <2>1, <2>2 DEF SearchTypes, SearchUnderWay
  <2> QED
    BY <1>6, <2>1, <2>3
<1>12. CASE Search!PutEnd
  <2>1. /\ reader = "ending" /\ reader' = "done" /\ rg' = rg /\ read' = read
        /\ queued' = queued \/ queued' = Append(queued, "end")
    BY <1>12 DEF Search!PutEnd
  <2>2. ASSUME search = "getting" PROVE SearchUnderWay'
    <3>1. PICK taken \in Nat, held \in Nat : Waiting(taken, held) /\ Counted(taken)
      BY <1>2, <2>2 DEF SearchUnderWay
    <3>2. CASE queued' = queued
      <4>1. Waiting(taken, held)'
        BY <1>1, <2>1, <3>1, <3>2 DEF Waiting
      <4>2. read' = Len(output)
        BY <1>2, <2>1, <2>2 DEF SearchUnderWay
      <4> QED
        BY <1>7, <2>2, <3>1, <4>1, <4>2
    <3>3. CASE queued' = Append(queued, "end")
      <4>1. Waiting(taken, held)'
        BY <1>1, <1>2, <2>1, <3>1, <3>3 DEF SearchTypes, Waiting
      <4>2. read' = Len(output)
        BY <1>2, <2>1, <2>2 DEF SearchUnderWay
      <4> QED
        BY <1>7, <2>2, <3>1, <4>1, <4>2
    <3> QED
      BY <2>1, <3>2, <3>3
  <2>3. SearchUnderWay'
    BY <1>1, <2>2 DEF SearchUnderWay
  <2>4. SearchTypes'
    BY <1>1, <1>2, <2>1 DEF SearchTypes
  <2> QED
    BY <1>6, <2>1, <2>3, <2>4
<1> QED
  BY <1>5, <1>8, <1>9, <1>10, <1>11, <1>12

\* The caller takes a line, or the marker when it has taken all lines.
LEMMA TakeStep ==
  ASSUME SearchInvariant, Search!Take
  PROVE  SearchInvariant'
<1>1. /\ search = "getting" /\ queued # <<>> /\ queued' = Tail(queued)
      /\ output' = output /\ single' = single /\ read' = read /\ rg' = rg
      /\ reader' = reader /\ quit' = quit
  BY DEF Search!Take, Search!pipe
<1>2. SearchTypes /\ SearchUnderWay /\ ResultWhole
  BY DEF SearchInvariant
<1>3. PICK taken \in Nat, held \in Nat : Waiting(taken, held) /\ Counted(taken)
  BY <1>1, <1>2 DEF SearchUnderWay
<1>4. ~ quit /\ ~ truncated /\ (reader \in {"ending", "done"} => read = Len(output))
  BY <1>1, <1>2 DEF SearchUnderWay
<1>5. Search!Wanted' = Search!Wanted /\ Search!Wanted = Count(output, Len(output))
  BY <1>1, <1>2, WantedLines DEF SearchTypes, Search!Wanted
<1>6. Len(queued) \in Nat \ {0} /\ Head(queued) = queued[1] /\ Len(output) \in Nat
  BY <1>1, <1>2 DEF SearchTypes
<1>7. queued' \in Seq(Search!Kinds \cup {"end"})
  BY <1>1, <1>2 DEF SearchTypes
<1>8. SearchIdle' /\ (search' # "getting" => SearchUnderWay') /\ rg # "none"
  <2>1. search' # "idle"
    BY <1>1 DEF Search!Take, Search!answer
  <2> QED
    BY <1>1, <1>2, <2>1 DEF ResultWhole, SearchIdle, SearchUnderWay
<1>9. CASE queued[1] = "end"
  <2>1. search' = "closing" /\ matches' = matches /\ truncated' = truncated
    BY <1>1, <1>6, <1>9 DEF Search!Take, Search!answer
  <2>2. held = 0 /\ reader = "done"
    <3>1. ASSUME held # 0 PROVE FALSE
      <4>1. queued[1] = output[taken + 1] /\ taken + 1 \in 1..Len(output)
        BY <1>2, <1>3, <3>1 DEF SearchTypes, Waiting
      <4>2. output[taken + 1] \in Search!Kinds
        BY <1>2, <4>1 DEF SearchTypes
      <4> QED
        BY <1>9, <4>1, <4>2 DEF Search!Kinds
    <3> QED
      BY <1>3, <1>6, <3>1 DEF Waiting
  <2>3. taken = Len(output)
    BY <1>2, <1>3, <1>4, <2>2 DEF SearchTypes, Waiting
  <2>4. ~ single => Whole
    <3>1. truncated = FALSE
      BY <1>2, <1>4 DEF SearchTypes
    <3>2. ~ single => matches = Search!Wanted /\ matches <= MaxResults /\ matches \in Nat
      BY <1>2, <1>3, <1>5, <2>3 DEF Counted, SearchTypes
    <3>3. ~ single => (Search!Wanted > MaxResults) = FALSE
      BY <3>2, ServicesAssumption
    <3> QED
      BY <3>1, <3>2, <3>3 DEF Whole
  <2>5. ~ single' => Whole'
    BY <1>1, <1>5, <2>1, <2>4 DEF Whole
  <2>6. SearchTypes'
    BY <1>1, <1>2, <1>7, <2>1 DEF SearchTypes
  <2> QED
    BY <1>1, <1>8, <2>1, <2>5, <2>6 DEF ResultWhole, SearchInvariant
<1>10. CASE queued[1] # "end"
  <2>1. /\ held \in Nat \ {0} /\ queued[1] = output[taken + 1]
        /\ taken + 1 \in 1..Len(output) /\ taken + 1 \in 0..Len(output)
    BY <1>2, <1>3, <1>6, <1>10 DEF SearchTypes, Waiting
  <2>2. Waiting(taken + 1, held - 1)'
    <3>1. Len(queued') = Len(queued) - 1 /\ \A j \in 1..Len(queued) - 1 : queued'[j] = queued[j + 1]
      BY <1>1, <1>2 DEF SearchTypes
    <3>2. \A j \in 1..held - 1 : queued'[j] = output[taken + 1 + j]
      <4> SUFFICES ASSUME NEW j \in 1..held - 1 PROVE queued'[j] = output[taken + 1 + j]
        OBVIOUS
      <4>1. j + 1 \in 1..held /\ j \in 1..Len(queued) - 1 /\ taken + (j + 1) = taken + 1 + j
        BY <1>3, <1>6, <2>1 DEF Waiting
      <4>2. queued[j + 1] = output[taken + (j + 1)]
        BY <1>3, <4>1 DEF Waiting
      <4> QED
        BY <3>1, <4>1, <4>2
    <3>3. \/ Len(queued') = held - 1
          \/ Len(queued') = (held - 1) + 1 /\ queued'[(held - 1) + 1] = "end" /\ reader = "done"
      <4>1. CASE Len(queued) = held
        BY <3>1, <4>1
      <4>2. CASE Len(queued) = held + 1 /\ queued[held + 1] = "end" /\ reader = "done"
        <5>1. (held - 1) + 1 = held /\ held \in 1..Len(queued) - 1
          BY <2>1, <4>2
        <5> QED
          BY <3>1, <4>2, <5>1
      <4> QED
        BY <1>3, <4>1, <4>2 DEF Waiting
    <3>4. read' = (taken + 1) + (held - 1) + (IF reader' = "putting" THEN 1 ELSE 0)
      BY <1>1, <1>3, <2>1 DEF Waiting
    <3> QED
      BY <1>1, <3>2, <3>3, <3>4 DEF Waiting
  <2>3. Count(output, taken + 1) =
          IF queued[1] = "other" THEN Count(output, taken) ELSE Count(output, taken) + 1
    BY <2>1, CountNext
  <2>4. /\ Count(output, taken) \in Nat /\ Count(output, taken + 1) <= Search!Wanted
        /\ Search!Wanted \in Nat
    BY <1>5, <1>6, <2>1, CountGrows, CountNext
  <2>5. queued[1] \in {"hit", "other", "odd"}
    <3>1. output[taken + 1] \in Search!Kinds
      BY <1>2, <2>1 DEF SearchTypes
    <3> QED
      BY <2>1, <3>1 DEF Search!Kinds
  <2>6. ASSUME search' = "getting", truncated' = truncated, matches' \in Nat, Counted(taken + 1)'
        PROVE  SearchInvariant'
    <3>1. SearchTypes'
      BY <1>1, <1>2, <1>7, <2>6 DEF SearchTypes
    <3>2. SearchUnderWay'
      <4>1. taken + 1 \in Nat /\ held - 1 \in Nat
        BY <2>1
      <4>2. ~ quit' /\ ~ truncated' /\ (reader' \in {"ending", "done"} => read' = Len(output'))
        BY <1>1, <1>4, <2>6
      <4> QED
        BY <2>2, <2>6, <4>1, <4>2 DEF SearchUnderWay
    <3> QED
      BY <1>1, <1>8, <2>6, <3>1, <3>2 DEF ResultWhole, SearchInvariant
  <2>7. CASE /\ queued[1] = "other" \/ (queued[1] = "hit" /\ single)
             /\ search' = search /\ matches' = matches /\ truncated' = truncated
    <3>1. Counted(taken + 1)'
      BY <1>1, <1>3, <2>3, <2>7 DEF Counted
    <3> QED
      BY <1>1, <1>2, <2>6, <2>7, <3>1 DEF SearchTypes
  <2>8. CASE /\ queued[1] = "odd" \/ (queued[1] = "hit" /\ ~ single)
             /\ Search!Enough /\ truncated' = TRUE /\ search' = "closing" /\ matches' = matches
    <3>1. ~ single => matches = MaxResults /\ Search!Wanted > MaxResults
      BY <1>2, <1>3, <2>3, <2>4, <2>8, ServicesAssumption DEF Counted, SearchTypes, Search!Enough
    <3>2. ~ single' => Whole'
      BY <1>1, <1>5, <2>8, <3>1 DEF Whole
    <3>3. SearchTypes'
      BY <1>1, <1>2, <1>7, <2>8 DEF SearchTypes
    <3> QED
      BY <1>1, <1>8, <2>8, <3>2, <3>3 DEF ResultWhole, SearchInvariant
  <2>9. CASE search' = "raised" /\ matches' = matches /\ truncated' = truncated
    <3>1. SearchTypes'
      BY <1>1, <1>2, <1>7, <2>9 DEF SearchTypes
    <3> QED
      BY <1>8, <2>9, <3>1 DEF ResultWhole, SearchInvariant
  <2>10. CASE /\ queued[1] = "hit" /\ ~ single /\ ~ Search!Enough
              /\ matches' = matches + 1 /\ search' = search /\ truncated' = truncated
    <3>1. matches + 1 <= MaxResults
      BY <1>2, <2>10, ServicesAssumption DEF SearchTypes, Search!Enough
    <3>2. Counted(taken + 1)'
      BY <1>1, <1>3, <2>3, <2>10, <3>1 DEF Counted
    <3> QED
      BY <1>1, <1>2, <2>6, <2>10, <3>2 DEF SearchTypes
  <2> QED
    BY <1>6, <1>10, <2>5, <2>7, <2>8, <2>9, <2>10 DEF Search!Take, Search!answer
<1> QED
  BY <1>9, <1>10

\* The caller gives up, or closes rg and answers.
LEMMA CloseSteps ==
  ASSUME SearchInvariant, Search!Deadline \/ Search!Close
  PROVE  SearchInvariant'
<1>1. /\ output' = output /\ single' = single /\ read' = read /\ reader' = reader
      /\ queued' = queued /\ matches' = matches /\ truncated' = truncated
      /\ quit' = TRUE /\ search' \in {"timedout", "raised", "returned"}
      /\ search' = "returned" => search = "closing" /\ rg' # "none"
  BY DEF ResultWhole, SearchInvariant, Search!Close, Search!Deadline, Search!Stopped,
     Search!answer, Search!pipe
<1>2. Search!Wanted' = Search!Wanted
  BY <1>1 DEF Search!Wanted
<1> QED
  BY <1>1, <1>2 DEF ResultWhole, SearchIdle, SearchInvariant, SearchTypes, SearchUnderWay,
     Whole

\* Every step keeps the invariant.
LEMMA SearchKept ==
  SearchInvariant /\ [Search!Next]_(Search!vars) => SearchInvariant'
<1>1. ASSUME SearchInvariant, UNCHANGED Search!vars PROVE SearchInvariant'
  BY <1>1 DEF Counted, ResultWhole, SearchIdle, SearchInvariant, SearchTypes,
     SearchUnderWay, Waiting, Whole, Search!Wanted, Search!answer, Search!pipe, Search!vars
<1> QED
  BY <1>1, CloseSteps, ReaderSteps, SearchStarts, TakeStep DEF Search!Caller, Search!Next

\* A search that returns has found every line up to the limit, and says whether
\* there were more.
THEOREM SearchesFindAll == ServicesSpec => []ResultComplete
<1>1. ServicesInit => SearchInvariant
  BY SearchInit DEF ServicesInit
<1>2. SearchInvariant /\ [ServicesNext]_allVars => SearchInvariant'
  <2>1. [ServicesNext]_allVars => [Search!Next]_(Search!vars)
    BY DEF AccountStep, ImageStep, McpStep, MutationStep, ScheduleStep, SearchStep,
       ServicesNext, StreamStep, Search!answer, Search!pipe, Search!vars, allVars, searchVars
  <2> QED
    BY <2>1, SearchKept
<1>3. SearchInvariant => ResultComplete
  BY DEF ResultComplete, ResultWhole, SearchInvariant, Search!ResultComplete, Whole
<1> QED
  BY <1>1, <1>2, <1>3, PTL DEF ServicesSpec
-----------------------------------------------------------------------------
(* The stream.                                                             *)

\* One text begins with another.
LEMMA PrefixMeans ==
  ASSUME NEW C, NEW s \in Seq(C), NEW t \in Seq(C)
  PROVE  Streaming!IsPrefix(s, t) <=>
           Len(s) <= Len(t) /\ \A k \in 1..Len(s) : s[k] = t[k]
<1>1. Len(s) \in Nat /\ Len(t) \in Nat
  OBVIOUS
<1>2. /\ SubSeq(s, 1, Len(s)) \in Seq(C) /\ Len(SubSeq(s, 1, Len(s))) = Len(s)
      /\ \A k \in 1..Len(s) : SubSeq(s, 1, Len(s))[k] = s[k]
  OBVIOUS
<1>3. ASSUME Len(s) <= Len(t)
      PROVE  /\ SubSeq(t, 1, Len(s)) \in Seq(C) /\ Len(SubSeq(t, 1, Len(s))) = Len(s)
             /\ \A k \in 1..Len(s) : SubSeq(t, 1, Len(s))[k] = t[k]
  BY <1>3
<1>4. CASE Len(s) <= Len(t)
  <2>1. ASSUME \A k \in 1..Len(s) : s[k] = t[k]
        PROVE  SubSeq(s, 1, Len(s)) = SubSeq(t, 1, Len(s))
    BY <1>2, <1>3, <1>4, <2>1, SeqEqual
  <2>2. ASSUME SubSeq(s, 1, Len(s)) = SubSeq(t, 1, Len(s))
        PROVE  \A k \in 1..Len(s) : s[k] = t[k]
    BY <1>2, <1>3, <1>4, <2>2
  <2> QED
    BY <1>4, <2>1, <2>2 DEF Streaming!IsPrefix
<1> QED
  BY <1>4 DEF Streaming!IsPrefix

\* The rest of a text, from a place on.
LEMMA RestOf ==
  ASSUME NEW C, NEW text \in Seq(C), NEW i \in 1..Len(text)
  PROVE  /\ SubSeq(text, i, Len(text)) \in Seq(C)
         /\ Len(SubSeq(text, i, Len(text))) = Len(text) - i + 1
         /\ \A k \in 1..Len(text) - i + 1 : SubSeq(text, i, Len(text))[k] = text[i + k - 1]
  OBVIOUS

\* Where in a text a marker is found.
LEMMA FoundMeans ==
  ASSUME NEW text \in Seq(Characters), NEW i \in 1..Len(text)
  PROVE  i \in Streaming!Found(text) <=>
           \E m \in Markers : /\ Len(m) <= Len(text) - i + 1
                              /\ \A k \in 1..Len(m) : text[i + k - 1] = m[k]
<1> DEFINE rest == SubSeq(text, i, Len(text))
<1>1. /\ rest \in Seq(Characters) /\ Len(rest) = Len(text) - i + 1
      /\ \A k \in 1..Len(text) - i + 1 : rest[k] = text[i + k - 1]
  BY RestOf
<1>2. i \in Streaming!Found(text) <=> \E m \in Markers : Streaming!IsPrefix(m, rest)
  BY DEF Streaming!Found
<1> HIDE DEF rest
<1>3. ASSUME NEW m \in Markers
      PROVE  Streaming!IsPrefix(m, rest) <=>
               /\ Len(m) <= Len(text) - i + 1
               /\ \A k \in 1..Len(m) : text[i + k - 1] = m[k]
  <2>1. m \in Seq(Characters)
    BY ServicesAssumption
  <2>2. Len(m) \in Nat
    BY <2>1
  <2>3. Len(m) <= Len(text) - i + 1 => \A k \in 1..Len(m) : rest[k] = text[i + k - 1]
    BY <1>1, <2>2
  <2>4. Streaming!IsPrefix(m, rest) <=>
           Len(m) <= Len(rest) /\ \A k \in 1..Len(m) : m[k] = rest[k]
    BY <1>1, <2>1, PrefixMeans
  <2> QED
    BY <1>1, <2>3, <2>4
<1> QED
  BY <1>2, <1>3

\* Which ends of a text a marker begins with.
LEMMA BeginsMeans ==
  ASSUME NEW text \in Seq(Characters), NEW i \in 1..Len(text)
  PROVE  Streaming!Begins(SubSeq(text, i, Len(text))) <=>
           \E m \in Markers : /\ Len(text) - i + 1 <= Len(m)
                              /\ \A k \in 1..Len(text) - i + 1 : text[i + k - 1] = m[k]
<1> DEFINE rest == SubSeq(text, i, Len(text))
<1>1. /\ rest \in Seq(Characters) /\ Len(rest) = Len(text) - i + 1
      /\ \A k \in 1..Len(text) - i + 1 : rest[k] = text[i + k - 1]
  BY RestOf
<1>2. Streaming!Begins(rest) <=> \E m \in Markers : Streaming!IsPrefix(rest, m)
  BY DEF Streaming!Begins
<1> HIDE DEF rest
<1>3. ASSUME NEW m \in Markers
      PROVE  Streaming!IsPrefix(rest, m) <=>
               /\ Len(text) - i + 1 <= Len(m)
               /\ \A k \in 1..Len(text) - i + 1 : text[i + k - 1] = m[k]
  <2>1. m \in Seq(Characters)
    BY ServicesAssumption
  <2>2. Streaming!IsPrefix(rest, m) <=>
          Len(rest) <= Len(m) /\ \A k \in 1..Len(rest) : rest[k] = m[k]
    BY <1>1, <2>1, PrefixMeans
  <2> QED
    BY <1>1, <2>2
<1> QED
  BY <1>2, <1>3 DEF rest

\* What is held back is at least as long as any end with which a marker begins.
LEMMA HeldMeans ==
  ASSUME NEW text \in Seq(Characters)
  PROVE  /\ Streaming!Held(text) \in 0..Len(text)
         /\ \A size \in 1..Len(text) :
              Streaming!Begins(SubSeq(text, Len(text) - size + 1, Len(text)))
                => size <= Streaming!Held(text)
<1> DEFINE ends == {size \in 1..Len(text) :
                      Streaming!Begins(SubSeq(text, Len(text) - size + 1, Len(text)))}
           sizes == {0} \cup ends
<1>1. Len(text) \in Nat /\ sizes \in SUBSET (0..Len(text)) /\ sizes # {}
  OBVIOUS
<1>2. Streaming!Held(text) = CHOOSE x \in sizes : \A y \in sizes : x >= y
  BY DEF Streaming!Held, Streaming!Max
<1>3. Streaming!Held(text) \in sizes /\ \A y \in sizes : Streaming!Held(text) >= y
  <2> HIDE DEF sizes
  <2>1. \E m \in sizes : \A k \in sizes : m >= k
    BY <1>1, Largest
  <2> QED
    BY <1>2, <2>1
<1>4. \A size \in ends : size \in sizes
  OBVIOUS
<1>5. \A size \in 1..Len(text) :
        Streaming!Begins(SubSeq(text, Len(text) - size + 1, Len(text))) => size \in ends
  OBVIOUS
<1> HIDE DEF sizes, ends
<1> QED
  BY <1>1, <1>3, <1>4, <1>5

\* No marker begins at a place, whatever comes after the text.
Missed(text, i) ==
  \A m \in Markers : \E k \in 1..Len(m) : i + k - 1 <= Len(text) /\ text[i + k - 1] # m[k]

\* Such a place is not among those where one is found.
LEMMA MissedNotFound ==
  ASSUME NEW text \in Seq(Characters), NEW i \in 1..Len(text), Missed(text, i)
  PROVE  i \notin Streaming!Found(text)
  BY FoundMeans DEF Missed

\* What is neither held back nor after the first marker is such a place.
LEMMA SafeMissed ==
  ASSUME NEW text \in Seq(Characters), NEW i \in 1..Len(text), i \notin Streaming!Found(text),
         \/ i <= Len(text) - Streaming!Held(text)
         \/ \E f \in Streaming!Found(text) : i < f
  PROVE  Missed(text, i)
<1> SUFFICES ASSUME NEW a \in Markers,
                    \A k \in 1..Len(a) : i + k - 1 <= Len(text) => text[i + k - 1] = a[k]
             PROVE  FALSE
  BY DEF Missed
<1>1. Len(text) \in Nat /\ Len(a) \in Nat
  BY ServicesAssumption
<1>2. Len(a) > Len(text) - i + 1
  BY <1>1, FoundMeans
<1>3. CASE i <= Len(text) - Streaming!Held(text)
  <2>1. Streaming!Begins(SubSeq(text, i, Len(text)))
    BY <1>1, <1>2, BeginsMeans, SMTT(30)
  <2> DEFINE size == Len(text) - i + 1
  <2>2. size \in 1..Len(text) /\ Len(text) - size + 1 = i
    BY <1>1
  <2>3. size <= Streaming!Held(text)
    BY <2>1, <2>2, HeldMeans
  <2> QED
    BY <1>1, <1>3, <2>3, HeldMeans
<1>4. ASSUME NEW f \in Streaming!Found(text), i < f PROVE FALSE
  <2>1. f \in 1..Len(text)
    BY DEF Streaming!Found
  <2>2. PICK b \in Markers : /\ Len(b) <= Len(text) - f + 1
                             /\ \A k \in 1..Len(b) : text[f + k - 1] = b[k]
    BY <2>1, FoundMeans
  <2>3. Len(b) \in Nat
    BY ServicesAssumption
  <2> DEFINE d == f - i
  <2>4. d \in 1..Len(a) /\ d + Len(b) < Len(a)
    BY <1>1, <1>2, <1>4, <2>1, <2>2, <2>3
  <2>5. PICK k \in 1..Len(b) : b[k] # a[d + k]
    BY <2>4, ServicesAssumption DEF Streaming!MarkersApart
  <2>6. d + k \in 1..Len(a) /\ i + (d + k) - 1 = f + k - 1 /\ f + k - 1 <= Len(text)
    BY <1>1, <2>1, <2>2, <2>3, <2>4
  <2>7. text[f + k - 1] = a[d + k]
    BY <2>6
  <2> QED
    BY <2>2, <2>5, <2>7
<1> QED
  BY <1>3, <1>4

\* A text is the piece of another one from one place to another.
Piece(text, s, from, to) ==
  /\ from <= to /\ to <= Len(text) /\ Len(s) = to - from
  /\ \A j \in 1..Len(s) : s[j] = text[from + j]

\* A piece is also one of a longer text.
LEMMA PieceLonger ==
  ASSUME NEW text \in Seq(Characters), NEW more \in Seq(Characters), NEW s \in Seq(Characters),
         NEW from \in Nat, NEW to \in Nat, Piece(text, s, from, to)
  PROVE  Piece(text \o more, s, from, to)
  BY DEF Piece

\* Two pieces that follow each other are one.
LEMMA PieceJoin ==
  ASSUME NEW text \in Seq(Characters), NEW s \in Seq(Characters), NEW t \in Seq(Characters),
         NEW from \in Nat, NEW place \in Nat, NEW to \in Nat,
         Piece(text, s, from, place), Piece(text, t, place, to)
  PROVE  s \o t \in Seq(Characters) /\ Piece(text, s \o t, from, to)
<1>1. /\ s \o t \in Seq(Characters) /\ Len(s \o t) = Len(s) + Len(t)
      /\ \A j \in 1..Len(s) : (s \o t)[j] = s[j]
      /\ \A j \in Len(s) + 1..Len(s) + Len(t) : (s \o t)[j] = t[j - Len(s)]
  BY ConcatProperties
<1>2. Len(s) = place - from /\ Len(t) = to - place /\ from <= place /\ place <= to
  BY DEF Piece
<1>3. ASSUME NEW j \in 1..Len(s) + Len(t) PROVE (s \o t)[j] = text[from + j]
  <2>1. CASE j <= Len(s)
    BY <1>1, <1>2, <2>1 DEF Piece
  <2>2. CASE j > Len(s)
    <3>1. j - Len(s) \in 1..Len(t) /\ place + (j - Len(s)) = from + j
      BY <1>2, <2>2
    <3>2. t[j - Len(s)] = text[place + (j - Len(s))]
      BY <3>1 DEF Piece
    <3> QED
      BY <1>1, <1>2, <2>2, <3>1, <3>2
  <2> QED
    BY <1>2, <2>1, <2>2
<1> QED
  BY <1>1, <1>2, <1>3 DEF Piece

\* The two parts of a piece.
LEMMA PieceSplit ==
  ASSUME NEW text \in Seq(Characters), NEW s \in Seq(Characters), NEW from \in Nat,
         NEW to \in Nat, Piece(text, s, from, to), NEW n \in 0..Len(s)
  PROVE  /\ SubSeq(s, 1, n) \in Seq(Characters) /\ Len(SubSeq(s, 1, n)) = n
         /\ Piece(text, SubSeq(s, 1, n), from, from + n)
         /\ SubSeq(s, n + 1, Len(s)) \in Seq(Characters)
         /\ Piece(text, SubSeq(s, n + 1, Len(s)), from + n, to)
<1>1. Len(s) \in Nat /\ Len(text) \in Nat /\ Len(s) = to - from /\ from <= to /\ to <= Len(text)
  BY DEF Piece
<1>2. /\ SubSeq(s, 1, n) \in Seq(Characters) /\ Len(SubSeq(s, 1, n)) = n
      /\ \A j \in 1..n : SubSeq(s, 1, n)[j] = s[j]
  BY <1>1
<1>3. /\ SubSeq(s, n + 1, Len(s)) \in Seq(Characters)
      /\ Len(SubSeq(s, n + 1, Len(s))) = Len(s) - n
      /\ \A j \in 1..Len(s) - n : SubSeq(s, n + 1, Len(s))[j] = s[n + j]
  BY <1>1
<1>4. Piece(text, SubSeq(s, 1, n), from, from + n)
  BY <1>1, <1>2 DEF Piece
<1>5. ASSUME NEW j \in 1..Len(s) - n
      PROVE  SubSeq(s, n + 1, Len(s))[j] = text[(from + n) + j]
  <2>1. n + j \in 1..Len(s) /\ from + (n + j) = (from + n) + j
    BY <1>1
  <2> QED
    BY <1>3, <2>1 DEF Piece
<1> QED
  BY <1>1, <1>2, <1>3, <1>4, <1>5 DEF Piece

\* A place that is missed in a piece is missed in the text.
LEMMA PieceMissed ==
  ASSUME NEW text \in Seq(Characters), NEW s \in Seq(Characters), NEW from \in Nat,
         NEW to \in Nat, Piece(text, s, from, to), NEW i \in 1..Len(s), Missed(s, i)
  PROVE  Missed(text, from + i)
<1> SUFFICES ASSUME NEW m \in Markers
             PROVE  \E k \in 1..Len(m) :
                      from + i + k - 1 <= Len(text) /\ text[from + i + k - 1] # m[k]
  BY DEF Missed
<1>1. PICK k \in 1..Len(m) : i + k - 1 <= Len(s) /\ s[i + k - 1] # m[k]
  BY DEF Missed
<1>2. Len(m) \in Nat /\ Len(s) \in Nat /\ Len(text) \in Nat
  BY ServicesAssumption
<1>3. i + k - 1 \in 1..Len(s) /\ from + (i + k - 1) = from + i + k - 1
  BY <1>1, <1>2
<1>4. s[i + k - 1] = text[from + i + k - 1]
  BY <1>3 DEF Piece
<1>5. from + i + k - 1 <= Len(text)
  BY <1>1, <1>2 DEF Piece
<1> QED
  BY <1>1, <1>4, <1>5

\* It stays so when the text grows.
LEMMA MissedLonger ==
  ASSUME NEW text \in Seq(Characters), NEW more \in Seq(Characters), NEW i \in 1..Len(text),
         Missed(text, i)
  PROVE  Missed(text \o more, i)
<1>1. Piece(text, text, 0, Len(text))
  BY DEF Piece
<1>2. text \o more \in Seq(Characters) /\ 0 \in Nat /\ Len(text) \in Nat
  OBVIOUS
<1>3. Piece(text \o more, text, 0, Len(text))
  BY <1>1, <1>2, PieceLonger
<1>4. Missed(text \o more, 0 + i)
  BY <1>2, <1>3, PieceMissed
<1> QED
  BY <1>4

\* What the invariant of the stream takes for granted of each variable.
StreamTypes ==
  /\ answered \in Seq(Characters) /\ pending \in Seq(Characters) /\ shown \in Seq(Characters)
  /\ parts \in Seq(Seq(Characters)) /\ delivered \in Nat

StreamIdle ==
  caller = "idle" =>
    /\ answered = <<>> /\ parts = <<>> /\ pending = <<>> /\ shown = <<>>
    /\ delivered = 0 /\ stream = "idle" /\ ~ blocked

\* What is shown is a beginning of the answer, where no marker can begin.
ShownSafe ==
  caller # "returned" =>
    /\ Piece(answered, shown, 0, delivered)
    /\ \A i \in 1..delivered : Missed(answered, i)

\* All is shown at last.
ShownAll == caller = "returned" => shown = answered /\ stream = "whole"

\* What is held back and the parts in the queue follow what is shown: cut[i] is
\* the place where part i ends, up to what was read of an open stream.
Cuts(cut) ==
  /\ stream = "open" => cut[Len(parts)] = Len(answered)
  /\ Piece(answered, pending, delivered, cut[0])
  /\ \A i \in 1..Len(parts) : Piece(answered, parts[i], cut[i - 1], cut[i])

PartsFollow ==
  caller # "returned" /\ ~ blocked => \E cut \in [0..Len(parts) -> Nat] : Cuts(cut)

StreamInvariant == StreamTypes /\ StreamIdle /\ ShownSafe /\ ShownAll /\ PartsFollow

\* Nothing is a piece of anything, at any place in it.
LEMMA EmptyPiece ==
  ASSUME NEW text \in Seq(Characters), NEW i \in 0..Len(text)
  PROVE  Piece(text, <<>>, i, i)
  BY DEF Piece

\* At first there is no answer.
LEMMA StreamInit == Streaming!Init => StreamInvariant
<1> SUFFICES ASSUME Streaming!Init PROVE StreamInvariant
  OBVIOUS
<1>1. /\ answered = <<>> /\ parts = <<>> /\ pending = <<>> /\ shown = <<>>
      /\ delivered = 0 /\ stream = "idle" /\ caller = "idle" /\ blocked = FALSE
  BY DEF Streaming!Init
<1>2. \A S : <<>> \in Seq(S) /\ Len(<<>>) = 0
  OBVIOUS
<1>3. StreamTypes
  BY <1>1, <1>2 DEF StreamTypes
<1>4. Piece(answered, <<>>, 0, 0)
  BY <1>1, <1>2 DEF Piece
<1>5. PartsFollow
  <2> DEFINE cut == [i \in 0..0 |-> 0]
  <2>1. cut \in [0..0 -> Nat] /\ cut[0] = 0
    OBVIOUS
  <2> HIDE DEF cut
  <2>2. Cuts(cut)
    BY <1>1, <1>2, <1>4, <2>1 DEF Cuts
  <2> QED
    BY <1>1, <1>2, <2>1, <2>2 DEF PartsFollow
<1> QED
  BY <1>1, <1>3, <1>4, <1>5 DEF ShownAll, ShownSafe, StreamIdle, StreamInvariant

\* The call: nothing was shown, and the answer is empty or whole.
LEMMA CallStep ==
  ASSUME StreamInvariant, Streaming!Call
  PROVE  StreamInvariant'
<1>1. /\ answered = <<>> /\ parts = <<>> /\ pending = <<>> /\ shown = <<>>
      /\ delivered = 0 /\ ~ blocked
  BY DEF StreamIdle, StreamInvariant, Streaming!Call
<1>2. /\ caller' = "waiting" /\ parts' = <<>> /\ pending' = <<>> /\ shown' = <<>>
      /\ delivered' = 0 /\ blocked' = blocked
  BY <1>1 DEF Streaming!Call
<1>3. \A S : <<>> \in Seq(S) /\ Len(<<>>) = 0
  OBVIOUS
<1>4. answered' \in Seq(Characters) /\ (stream' = "open" => answered' = <<>>)
  <2>1. Streaming!SeqOf(Characters, MaxPart) \subseteq Seq(Characters)
    BY ServicesAssumption DEF Streaming!SeqOf
  <2> QED
    BY <1>1, <1>3, <2>1 DEF Streaming!Call
<1>5. Piece(answered', <<>>, 0, 0)
  BY <1>4, EmptyPiece
<1>6. StreamTypes'
  BY <1>2, <1>3, <1>4 DEF StreamTypes
<1>7. PartsFollow'
  <2> DEFINE cut == [i \in 0..0 |-> 0]
  <2>1. cut \in [0..0 -> Nat] /\ cut[0] = 0
    OBVIOUS
  <2> HIDE DEF cut
  <2>2. Cuts(cut)'
    BY <1>2, <1>3, <1>4, <1>5, <2>1 DEF Cuts
  <2> QED
    BY <1>2, <1>3, <2>1, <2>2 DEF PartsFollow
<1> QED
  BY <1>2, <1>3, <1>5, <1>6, <1>7 DEF ShownAll, ShownSafe, StreamIdle, StreamInvariant

\* A part is read and put into the queue.
LEMMA ReceiveStep ==
  ASSUME StreamInvariant, Streaming!Receive
  PROVE  StreamInvariant'
<1>1. PICK part \in Seq(Characters) :
        answered' = answered \o part /\ parts' = Append(parts, part)
  <2>1. Streaming!SeqOf(Characters, MaxPart) \subseteq Seq(Characters)
    BY ServicesAssumption DEF Streaming!SeqOf
  <2> QED
    BY <2>1 DEF Streaming!Receive
<1>2. /\ stream = "open" /\ pending' = pending /\ blocked' = blocked
      /\ delivered' = delivered /\ shown' = shown /\ stream' = stream /\ caller' = caller
  BY DEF Streaming!Receive
<1>3. StreamTypes /\ caller # "returned" /\ caller # "idle"
  BY <1>2 DEF ShownAll, StreamIdle, StreamInvariant
<1>4. /\ answered' \in Seq(Characters) /\ Len(answered') = Len(answered) + Len(part)
      /\ Piece(answered', part, Len(answered), Len(answered'))
  <2>1. /\ answered' \in Seq(Characters) /\ Len(answered') = Len(answered) + Len(part)
        /\ \A j \in Len(answered) + 1..Len(answered) + Len(part) :
             answered'[j] = part[j - Len(answered)]
    BY <1>1, <1>3, ConcatProperties DEF StreamTypes
  <2>2. Len(answered) \in Nat /\ Len(part) \in Nat
    BY <1>3 DEF StreamTypes
  <2>3. \A j \in 1..Len(part) : part[j] = answered'[Len(answered) + j]
    <3> SUFFICES ASSUME NEW j \in 1..Len(part) PROVE part[j] = answered'[Len(answered) + j]
      OBVIOUS
    <3>1. /\ Len(answered) + j \in Len(answered) + 1..Len(answered) + Len(part)
          /\ (Len(answered) + j) - Len(answered) = j
      BY <2>2
    <3> QED
      BY <2>1, <3>1
  <2>4. Piece(answered', part, Len(answered), Len(answered'))
    BY <2>1, <2>2, <2>3 DEF Piece
  <2> QED
    BY <2>1, <2>4
<1>5. StreamTypes'
  BY <1>1, <1>2, <1>3, <1>4 DEF StreamTypes
<1>6. ShownSafe'
  <2>1. Piece(answered', shown, 0, delivered)
    BY <1>1, <1>3, PieceLonger DEF ShownSafe, StreamInvariant, StreamTypes
  <2>2. ASSUME NEW i \in 1..delivered PROVE Missed(answered', i)
    <3>1. i \in 1..Len(answered) /\ Missed(answered, i)
      BY <1>3 DEF Piece, ShownSafe, StreamInvariant, StreamTypes
    <3> QED
      BY <1>1, <1>3, <3>1, MissedLonger DEF StreamTypes
  <2> QED
    BY <1>2, <2>1, <2>2 DEF ShownSafe
<1>7. ASSUME ~ blocked PROVE PartsFollow'
  <2>1. PICK cut \in [0..Len(parts) -> Nat] : Cuts(cut)
    BY <1>3, <1>7 DEF PartsFollow, StreamInvariant
  <2>2. Len(parts) \in Nat /\ Len(parts') = Len(parts) + 1 /\ Len(answered') \in Nat
    BY <1>1, <1>3, <1>4 DEF StreamTypes
  <2>3. PICK longer \in [0..Len(parts) + 1 -> Nat] :
          /\ longer[Len(parts) + 1] = Len(answered')
          /\ \A i \in 0..Len(parts) : longer[i] = cut[i]
    <3> DEFINE f == [i \in 0..Len(parts) + 1 |->
                       IF i = Len(parts) + 1 THEN Len(answered') ELSE cut[i]]
    <3>1. /\ f \in [0..Len(parts) + 1 -> Nat] /\ f[Len(parts) + 1] = Len(answered')
          /\ \A i \in 0..Len(parts) : f[i] = cut[i]
      BY <2>2
    <3> HIDE DEF f
    <3> QED
      BY <3>1
  <2>4. Piece(answered', pending, delivered, longer[0])
    <3>1. cut[0] \in Nat /\ longer[0] = cut[0]
      BY <2>2, <2>3
    <3> QED
      BY <1>1, <1>3, <2>1, <3>1, PieceLonger DEF Cuts, StreamTypes
  <2>5. ASSUME NEW i \in 1..Len(parts) PROVE Piece(answered', parts'[i], longer[i - 1], longer[i])
    <3>5. i - 1 \in 0..Len(parts) /\ i \in 0..Len(parts)
      BY <2>2
    <3>1. /\ i - 1 \in 0..Len(parts) /\ i \in 0..Len(parts)
          /\ cut[i - 1] \in Nat /\ cut[i] \in Nat
      BY <3>5
    <3>4. parts[i] \in Seq(Characters)
      BY <1>3, ElementOfSeq DEF StreamTypes
    <3>2. Piece(answered', parts[i], cut[i - 1], cut[i])
      BY <1>1, <1>3, <2>1, <3>1, <3>4, PieceLonger DEF Cuts, StreamTypes
    <3>3. parts'[i] = parts[i]
      BY <1>1, <1>3 DEF StreamTypes
    <3> QED
      BY <2>3, <3>1, <3>2, <3>3
  <2>6. Piece(answered', parts'[Len(parts) + 1], longer[Len(parts)], longer[Len(parts) + 1])
    <3>1. longer[Len(parts)] = Len(answered)
      BY <1>2, <2>1, <2>2, <2>3 DEF Cuts
    <3>2. parts'[Len(parts) + 1] = part
      BY <1>1, <1>3 DEF StreamTypes
    <3> QED
      BY <1>4, <2>3, <3>1, <3>2
  <2>7. \A i \in 1..Len(parts) + 1 : Piece(answered', parts'[i], longer[i - 1], longer[i])
    <3> SUFFICES ASSUME NEW i \in 1..Len(parts) + 1
                 PROVE  Piece(answered', parts'[i], longer[i - 1], longer[i])
      OBVIOUS
    <3>1. i \in 1..Len(parts) \/ (i = Len(parts) + 1 /\ i - 1 = Len(parts))
      BY <2>2
    <3> QED
      BY <2>5, <2>6, <3>1
  <2>8. Cuts(longer)'
    BY <1>2, <2>2, <2>3, <2>4, <2>7 DEF Cuts
  <2> QED
    BY <2>2, <2>3, <2>8 DEF PartsFollow
<1> QED
  BY <1>2, <1>3, <1>5, <1>6, <1>7 DEF PartsFollow, ShownAll, StreamIdle, StreamInvariant

\* The next part with what was held back is the next piece of the answer.
LEMMA NextText ==
  ASSUME StreamInvariant, caller = "waiting", parts # <<>>, ~ blocked
  PROVE  \E cut \in [0..Len(parts) - 1 -> Nat] :
           /\ pending \o Head(parts) \in Seq(Characters)
           /\ Piece(answered, pending \o Head(parts), delivered, cut[0])
           /\ stream = "open" => cut[Len(parts) - 1] = Len(answered)
           /\ \A i \in 1..Len(parts) - 1 : Piece(answered, Tail(parts)[i], cut[i - 1], cut[i])
<1>1. StreamTypes
  BY DEF StreamInvariant
<1>2. PICK old \in [0..Len(parts) -> Nat] : Cuts(old)
  BY DEF PartsFollow, StreamInvariant
<1>3. /\ Len(parts) \in Nat \ {0} /\ Head(parts) = parts[1] /\ Head(parts) \in Seq(Characters)
      /\ \A i \in 1..Len(parts) - 1 : Tail(parts)[i] = parts[i + 1]
  BY <1>1 DEF StreamTypes
<1>4. 0 \in 0..Len(parts) /\ 1 \in 0..Len(parts) /\ 1 \in 1..Len(parts)
  BY <1>3
<1>5. old[0] \in Nat /\ old[1] \in Nat
  BY <1>4
<1>6. Piece(answered, Head(parts), old[0], old[1])
  <2>1. Piece(answered, parts[1], old[1 - 1], old[1])
    BY <1>2, <1>4 DEF Cuts
  <2> QED
    BY <1>3, <2>1
<1>7. /\ pending \o Head(parts) \in Seq(Characters)
      /\ Piece(answered, pending \o Head(parts), delivered, old[1])
  BY <1>1, <1>2, <1>3, <1>5, <1>6, PieceJoin DEF Cuts, StreamTypes
<1>8. PICK cut \in [0..Len(parts) - 1 -> Nat] : \A i \in 0..Len(parts) - 1 : cut[i] = old[i + 1]
  <2> DEFINE f == [i \in 0..Len(parts) - 1 |-> old[i + 1]]
  <2>1. \A i \in 0..Len(parts) - 1 : i + 1 \in 0..Len(parts)
    BY <1>3
  <2>2. f \in [0..Len(parts) - 1 -> Nat] /\ \A i \in 0..Len(parts) - 1 : f[i] = old[i + 1]
    BY <2>1
  <2> HIDE DEF f
  <2> QED
    BY <2>2
<1>9. cut[0] = old[1]
  <2>1. 0 \in 0..Len(parts) - 1 /\ 0 + 1 = 1
    BY <1>3
  <2> QED
    BY <1>8, <2>1
<1>10. stream = "open" => cut[Len(parts) - 1] = Len(answered)
  <2>1. Len(parts) - 1 \in 0..Len(parts) - 1 /\ (Len(parts) - 1) + 1 = Len(parts)
    BY <1>3
  <2> QED
    BY <1>2, <1>8, <2>1 DEF Cuts
<1>11. ASSUME NEW i \in 1..Len(parts) - 1
       PROVE  Piece(answered, Tail(parts)[i], cut[i - 1], cut[i])
  <2>1. /\ i - 1 \in 0..Len(parts) - 1 /\ i \in 0..Len(parts) - 1 /\ i + 1 \in 1..Len(parts)
        /\ (i - 1) + 1 = i /\ (i + 1) - 1 = i
    BY <1>3
  <2>2. Piece(answered, parts[i + 1], old[(i + 1) - 1], old[i + 1])
    BY <1>2, <2>1 DEF Cuts
  <2>3. cut[i - 1] = old[i] /\ cut[i] = old[i + 1] /\ Tail(parts)[i] = parts[i + 1]
    BY <1>3, <1>8, <2>1
  <2> QED
    BY <2>1, <2>2, <2>3
<1> QED
  BY <1>7, <1>9, <1>10, <1>11

\* The beginning of a text is shown in which no marker can begin.
LEMMA ShowSafe ==
  ASSUME StreamTypes, ShownSafe, caller # "returned", answered' = answered,
         NEW text \in Seq(Characters), NEW place \in Nat,
         Piece(answered, text, delivered, place), NEW n \in 0..Len(text),
         \A i \in 1..n : Missed(text, i), Streaming!Show(SubSeq(text, 1, n))
  PROVE  /\ shown' \in Seq(Characters) /\ delivered' = delivered + n /\ ShownSafe'
         /\ SubSeq(text, n + 1, Len(text)) \in Seq(Characters)
         /\ Piece(answered, SubSeq(text, n + 1, Len(text)), delivered + n, place)
<1> DEFINE first == SubSeq(text, 1, n)
           rest == SubSeq(text, n + 1, Len(text))
<1>1. /\ first \in Seq(Characters) /\ Len(first) = n
      /\ Piece(answered, first, delivered, delivered + n)
      /\ rest \in Seq(Characters) /\ Piece(answered, rest, delivered + n, place)
  BY PieceSplit DEF StreamTypes
<1>2. shown' = shown \o first /\ delivered' = delivered + Len(first)
  BY DEF Streaming!Show
<1> HIDE DEF first
<1>3. delivered \in Nat /\ delivered + n \in Nat /\ 0 \in Nat /\ Len(text) \in Nat
  BY DEF StreamTypes
<1>4. shown' \in Seq(Characters) /\ Piece(answered, shown', 0, delivered + n)
  BY <1>1, <1>2, <1>3, PieceJoin DEF ShownSafe, StreamTypes
<1>5. ASSUME NEW i \in 1..delivered + n PROVE Missed(answered, i)
  <2>1. CASE i <= delivered
    BY <1>3, <2>1 DEF ShownSafe
  <2>2. CASE i > delivered
    <3>1. i - delivered \in 1..n /\ i - delivered \in 1..Len(text) /\ delivered + (i - delivered) = i
      BY <1>3, <2>2
    <3>2. Missed(answered, delivered + (i - delivered))
      BY <1>3, <3>1, PieceMissed DEF StreamTypes
    <3> QED
      BY <3>1, <3>2
  <2> QED
    BY <1>3, <2>1, <2>2
<1>6. ShownSafe'
  BY <1>1, <1>2, <1>4, <1>5 DEF ShownSafe
<1> QED
  BY <1>1, <1>2, <1>4, <1>6

\* A text with a marker is shown up to the first one.
LEMMA BlockStep ==
  ASSUME StreamInvariant, Streaming!Block
  PROVE  StreamInvariant'
<1> DEFINE text == pending \o Head(parts)
<1>1. /\ caller = "waiting" /\ parts # <<>> /\ ~ blocked
      /\ Streaming!Found(text) # {}
      /\ Streaming!Show(SubSeq(text, 1, Streaming!Min(Streaming!Found(text)) - 1))
      /\ parts' = Tail(parts) /\ pending' = <<>> /\ blocked' = TRUE
      /\ answered' = answered /\ stream' = stream /\ caller' = caller
  BY DEF Streaming!Block
<1>2. StreamTypes /\ ShownSafe
  BY DEF StreamInvariant
<1>3. PICK place \in Nat : text \in Seq(Characters) /\ Piece(answered, text, delivered, place)
  <2>1. PICK cut \in [0..Len(parts) - 1 -> Nat] :
          text \in Seq(Characters) /\ Piece(answered, text, delivered, cut[0])
    BY <1>1, NextText
  <2>2. 0 \in 0..Len(parts) - 1
    BY <1>1, <1>2, EmptySeq DEF StreamTypes
  <2> QED
    BY <2>1, <2>2
<1> HIDE DEF text
<1>4. PICK f \in Streaming!Found(text) :
        /\ \A i \in Streaming!Found(text) : f <= i
        /\ f = Streaming!Min(Streaming!Found(text))
  <2>1. Streaming!Found(text) \in SUBSET Nat
    BY <1>3 DEF Streaming!Found
  <2>2. PICK b : b \in Streaming!Found(text)
    BY <1>1
  <2>3. \E f \in Streaming!Found(text) : \A i \in Streaming!Found(text) : f <= i
    BY <2>1, <2>2, Least
  <2> QED
    BY <2>3 DEF Streaming!Min
<1>5. f \in 1..Len(text) /\ f - 1 \in 0..Len(text)
  <2>1. f \in DOMAIN text
    BY <1>4 DEF Streaming!Found
  <2> QED
    BY <1>3, <2>1
<1>6. ASSUME NEW i \in 1..f - 1 PROVE Missed(text, i)
  <2>1. i \in 1..Len(text) /\ i < f /\ ~ (f <= i)
    BY <1>3, <1>5
  <2>2. i \notin Streaming!Found(text)
    BY <1>4, <2>1
  <2> QED
    BY <1>3, <1>4, <2>1, <2>2, SafeMissed
<1>7. shown' \in Seq(Characters) /\ delivered' = delivered + (f - 1) /\ ShownSafe'
  BY <1>1, <1>2, <1>3, <1>4, <1>5, <1>6, ShowSafe
<1>8. StreamTypes'
  <2>1. parts' \in Seq(Seq(Characters))
    BY <1>1, <1>2 DEF StreamTypes
  <2>2. pending' \in Seq(Characters)
    BY <1>1
  <2>3. delivered' \in Nat
    BY <1>2, <1>5, <1>7 DEF StreamTypes
  <2> QED
    BY <1>1, <1>2, <1>7, <2>1, <2>2, <2>3 DEF StreamTypes
<1> QED
  BY <1>1, <1>7, <1>8 DEF PartsFollow, ShownAll, StreamIdle, StreamInvariant

\* A text without a marker is shown but for what may be the beginning of one.
LEMMA PassStep ==
  ASSUME StreamInvariant, Streaming!Pass
  PROVE  StreamInvariant'
<1> DEFINE text == pending \o Head(parts)
           safe == Len(text) - Streaming!Held(text)
<1>1. /\ caller = "waiting" /\ parts # <<>> /\ ~ blocked
      /\ Streaming!Found(text) = {}
      /\ Streaming!Show(SubSeq(text, 1, safe))
      /\ pending' = SubSeq(text, safe + 1, Len(text))
      /\ parts' = Tail(parts) /\ blocked' = blocked
      /\ answered' = answered /\ stream' = stream /\ caller' = caller
  BY DEF Streaming!Pass
<1>2. StreamTypes /\ ShownSafe
  BY DEF StreamInvariant
<1>3. PICK cut \in [0..Len(parts) - 1 -> Nat] :
        /\ text \in Seq(Characters) /\ Piece(answered, text, delivered, cut[0])
        /\ stream = "open" => cut[Len(parts) - 1] = Len(answered)
        /\ \A i \in 1..Len(parts) - 1 : Piece(answered, Tail(parts)[i], cut[i - 1], cut[i])
  BY <1>1, NextText
<1>4. cut[0] \in Nat /\ Len(parts) \in Nat /\ Len(Tail(parts)) = Len(parts) - 1
  <2>1. Len(parts) \in Nat \ {0} /\ Len(Tail(parts)) = Len(parts) - 1
    BY <1>1, <1>2, EmptySeq DEF StreamTypes
  <2>2. 0 \in 0..Len(parts) - 1
    BY <2>1
  <2> QED
    BY <2>1, <2>2
<1> HIDE DEF text
<1>5. safe \in 0..Len(text) /\ safe = Len(text) - Streaming!Held(text)
  <2>1. Streaming!Held(text) \in 0..Len(text) /\ Len(text) \in Nat
    BY <1>3, HeldMeans
  <2> QED
    BY <2>1
<1> HIDE DEF safe
<1>6. ASSUME NEW i \in 1..safe PROVE Missed(text, i)
  <2>1. i \in 1..Len(text) /\ i <= Len(text) - Streaming!Held(text)
    BY <1>3, <1>5
  <2> QED
    BY <1>1, <1>3, <2>1, SafeMissed
<1>7. /\ shown' \in Seq(Characters) /\ delivered' = delivered + safe /\ ShownSafe'
      /\ pending' \in Seq(Characters) /\ Piece(answered, pending', delivered', cut[0])
  BY <1>1, <1>2, <1>3, <1>4, <1>5, <1>6, ShowSafe
<1>8. StreamTypes'
  <2>1. parts' \in Seq(Seq(Characters))
    BY <1>1, <1>2 DEF StreamTypes
  <2>2. delivered' \in Nat
    BY <1>2, <1>5, <1>7, SMTT(30) DEF StreamTypes
  <2> QED
    BY <1>1, <1>2, <1>7, <2>1, <2>2 DEF StreamTypes
<1>9. PartsFollow'
  <2>1. Cuts(cut)'
    BY <1>1, <1>3, <1>4, <1>7 DEF Cuts
  <2> QED
    BY <1>1, <1>4, <2>1 DEF PartsFollow
<1> QED
  BY <1>1, <1>7, <1>8, <1>9 DEF ShownAll, StreamIdle, StreamInvariant

\* The end of a whole answer: the rest is shown, or nothing more.
LEMMA ReturnStep ==
  ASSUME StreamInvariant, Streaming!Return
  PROVE  StreamInvariant'
<1>1. /\ caller = "waiting" /\ stream = "whole" /\ parts = <<>>
      /\ answered' = answered /\ parts' = parts /\ pending' = pending /\ blocked' = blocked
      /\ stream' = stream
      /\ \/ caller' = "called" /\ shown' = shown /\ delivered' = delivered
         \/ /\ caller' = "returned"
            /\ Streaming!Show(SubSeq(answered, delivered + 1, Len(answered)))
  BY DEF Streaming!Return
<1>2. StreamTypes /\ ShownSafe /\ PartsFollow
  BY DEF StreamInvariant
<1>3. CASE caller' = "called" /\ shown' = shown /\ delivered' = delivered
  <2>1. \A cut : Cuts(cut) => Cuts(cut)'
    BY <1>1, <1>3 DEF Cuts
  <2>2. PartsFollow'
    BY <1>1, <1>2, <1>3, <2>1 DEF PartsFollow
  <2>3. StreamTypes' /\ ShownSafe'
    BY <1>1, <1>2, <1>3 DEF ShownSafe, StreamTypes
  <2> QED
    BY <1>1, <1>3, <2>2, <2>3 DEF ShownAll, StreamIdle, StreamInvariant
<1>4. CASE /\ caller' = "returned"
           /\ Streaming!Show(SubSeq(answered, delivered + 1, Len(answered)))
  <2> DEFINE rest == SubSeq(answered, delivered + 1, Len(answered))
  <2>1. /\ Len(answered) \in Nat /\ delivered \in 0..Len(answered)
        /\ Piece(answered, shown, 0, delivered)
    BY <1>1, <1>2 DEF Piece, ShownSafe, StreamTypes
  <2>2. Piece(answered, answered, 0, Len(answered))
    BY <2>1 DEF Piece
  <2>3. rest \in Seq(Characters) /\ Piece(answered, rest, delivered, Len(answered))
    <3>1. 0 \in Nat /\ 0 + delivered = delivered
      BY <2>1
    <3> QED
      BY <1>2, <2>1, <2>2, <3>1, PieceSplit DEF StreamTypes
  <2>4. shown' = shown \o rest /\ delivered' = delivered + Len(rest)
    BY <1>4 DEF Streaming!Show
  <2> HIDE DEF rest
  <2>5. shown' \in Seq(Characters) /\ Piece(answered, shown', 0, Len(answered))
    BY <1>2, <2>1, <2>3, <2>4, PieceJoin DEF StreamTypes
  <2>6. shown' = answered'
    <3>1. Len(shown') = Len(answered) /\ \A j \in 1..Len(shown') : shown'[j] = answered[0 + j]
      BY <2>1, <2>5 DEF Piece
    <3>2. \A j \in 1..Len(shown') : shown'[j] = answered[j]
      BY <3>1
    <3> QED
      BY <1>1, <1>2, <2>5, <3>1, <3>2, SeqEqual DEF StreamTypes
  <2>7. StreamTypes'
    <3>1. delivered' \in Nat
      BY <2>1, <2>3, <2>4
    <3> QED
      BY <1>1, <1>2, <2>5, <3>1 DEF StreamTypes
  <2> QED
    BY <1>1, <1>4, <2>6, <2>7 DEF PartsFollow, ShownAll, ShownSafe, StreamIdle, StreamInvariant
<1> QED
  BY <1>1, <1>3, <1>4

\* The steps that show nothing.
LEMMA SilentSteps ==
  ASSUME StreamInvariant,
         Streaming!StreamEnds \/ Streaming!Skip \/ Streaming!Raise \/ UNCHANGED Streaming!vars
  PROVE  StreamInvariant'
<1>1. StreamTypes /\ StreamIdle /\ ShownSafe /\ ShownAll /\ PartsFollow
  BY DEF StreamInvariant
<1>2. /\ answered' = answered /\ pending' = pending /\ shown' = shown
      /\ delivered' = delivered /\ blocked' = blocked
  BY DEF Streaming!Raise, Streaming!Skip, Streaming!StreamEnds, Streaming!vars
<1>3. CASE Streaming!Skip
  <2>1. /\ caller = "waiting" /\ blocked /\ parts # <<>> /\ parts' = Tail(parts)
        /\ stream' = stream /\ caller' = caller
    BY <1>3 DEF Streaming!Skip
  <2>2. parts' \in Seq(Seq(Characters))
    BY <1>1, <2>1 DEF StreamTypes
  <2> QED
    BY <1>1, <1>2, <2>1, <2>2 DEF PartsFollow, ShownAll, ShownSafe, StreamIdle, StreamInvariant,
       StreamTypes
<1>4. ASSUME parts' = parts, stream' = "open" => stream = "open",
             caller' # "returned" => caller # "returned",
             caller' = "returned" => caller = "returned" /\ stream' = stream,
             caller' = "idle" => caller = "idle" /\ stream' = stream
      PROVE  StreamInvariant'
  <2>1. \A cut : Cuts(cut) => Cuts(cut)'
    BY <1>2, <1>4 DEF Cuts
  <2>2. PartsFollow'
    BY <1>1, <1>2, <1>4, <2>1 DEF PartsFollow
  <2>3. StreamTypes' /\ StreamIdle' /\ ShownSafe' /\ ShownAll'
    BY <1>1, <1>2, <1>4 DEF ShownAll, ShownSafe, StreamIdle, StreamTypes
  <2> QED
    BY <2>2, <2>3 DEF StreamInvariant
<1>5. CASE Streaming!StreamEnds
  BY <1>1, <1>4, <1>5 DEF ShownAll, StreamIdle, Streaming!StreamEnds
<1>6. CASE Streaming!Raise
  BY <1>4, <1>6 DEF Streaming!Raise
<1>7. CASE UNCHANGED Streaming!vars
  BY <1>4, <1>7 DEF Streaming!vars
<1> QED
  BY <1>3, <1>5, <1>6, <1>7

\* Every step keeps the invariant.
LEMMA StreamKept ==
  StreamInvariant /\ [Streaming!Next]_(Streaming!vars) => StreamInvariant'
  BY BlockStep, CallStep, PassStep, ReceiveStep, ReturnStep, SilentSteps DEF Streaming!Next

\* What the invariant says is shown is a beginning of the answer, and all of it at
\* last, and is before any marker.
LEMMA StreamShows == StreamInvariant => Streaming!ShownIsAnswer
<1> SUFFICES ASSUME StreamInvariant PROVE Streaming!ShownIsAnswer
  OBVIOUS
<1>1. answered \in Seq(Characters) /\ shown \in Seq(Characters) /\ delivered \in Nat
  BY DEF StreamInvariant, StreamTypes
<1>2. CASE caller = "returned"
  <2>1. shown = answered
    BY <1>2 DEF ShownAll, StreamInvariant
  <2>2. Streaming!IsPrefix(answered, answered)
    BY <1>1 DEF Streaming!IsPrefix
  <2> QED
    BY <1>2, <2>1, <2>2 DEF Streaming!ShownIsAnswer
<1>3. CASE caller # "returned"
  <2>1. Piece(answered, shown, 0, delivered) /\ \A i \in 1..delivered : Missed(answered, i)
    BY <1>3 DEF ShownSafe, StreamInvariant
  <2>2. /\ Len(shown) = delivered /\ Len(shown) <= Len(answered)
        /\ \A j \in 1..Len(shown) : shown[j] = answered[j]
    BY <1>1, <2>1 DEF Piece
  <2>3. Streaming!IsPrefix(shown, answered)
    BY <1>1, <2>2, PrefixMeans
  <2>4. ASSUME NEW i \in Streaming!Found(answered) PROVE Len(shown) < i
    <3>1. i \in 1..Len(answered)
      <4>1. i \in DOMAIN answered
        BY DEF Streaming!Found
      <4> QED
        BY <1>1, <4>1
    <3>2. ~ Missed(answered, i)
      BY <1>1, <3>1, MissedNotFound
    <3> QED
      BY <1>1, <2>1, <2>2, <3>1, <3>2
  <2> QED
    BY <1>3, <2>3, <2>4 DEF Streaming!ShownIsAnswer
<1> QED
  BY <1>2, <1>3

\* The user sees the answer from its start, each character once, and nothing of
\* what comes with or after a marker unless all is shown in the end.
THEOREM UserSeesAnswer == ServicesSpec => []ShownIsAnswer
<1>1. ServicesInit => StreamInvariant
  BY StreamInit DEF ServicesInit
<1>2. StreamInvariant /\ [ServicesNext]_allVars => StreamInvariant'
  <2>1. [ServicesNext]_allVars => [Streaming!Next]_(Streaming!vars)
    BY DEF AccountStep, ImageStep, McpStep, MutationStep, ScheduleStep, SearchStep,
       ServicesNext, StreamStep, Streaming!vars, allVars, streamVars
  <2> QED
    BY <2>1, StreamKept
<1>3. StreamInvariant => ShownIsAnswer
  BY StreamShows DEF ShownIsAnswer
<1> QED
  BY <1>1, <1>2, <1>3, PTL DEF ServicesSpec
=============================================================================
