-------------------------- MODULE AgentRuntimeProofs --------------------------
(***************************************************************************)
(* Proofs about AgentRuntime, for any number of runs, permits, rounds and  *)
(* calls.  One lemma per conjunct of the inductive invariant, with one     *)
(* step per group of actions; then the theorems, and the refinement of     *)
(* RunService.                                                             *)
(***************************************************************************)
EXTENDS AgentRuntime, FiniteSetTheorems, SequenceTheorems, TLAPS

USE DEF Goto, Enter, Terminal, Stopped, HasResult, runVars, request, loopVars, gateVars

\* Pruning leaves a registry of runs (_prune_runs_locked).
LEMMA PruneType ==
  ASSUME NEW before \in Seq(Runs), Prune(before)
  PROVE registry' \in Seq(Runs)
<1>1. PICK k \in 0..Len(before) : registry' = SubSeq(before, k + 1, Len(before))
  BY DEF Prune
<1>2. \A i \in (k + 1)..Len(before) : before[i] \in Runs
  BY ElementOfSeq
<1> QED
  BY <1>1, <1>2, SubSeqProperties

\* Forgetting a run leaves a registry of runs (forget_runs).
LEMMA ForgetType ==
  ASSUME NEW r \in Runs, registry \in Seq(Runs), Forget(r)
  PROVE registry' \in Seq(Runs)
<1>1. PICK i \in DOMAIN registry :
        registry' = SubSeq(registry, 1, i - 1) \o SubSeq(registry, i + 1, Len(registry))
  BY DEF Forget
<1>2. /\ i \in 1..Len(registry)
      /\ \A j \in 1..Len(registry) : registry[j] \in Runs
  BY ElementOfSeq
<1>3. /\ SubSeq(registry, 1, i - 1) \in Seq(Runs)
      /\ SubSeq(registry, i + 1, Len(registry)) \in Seq(Runs)
  BY <1>2, SubSeqProperties
<1> QED
  BY <1>1, <1>3, ConcatProperties

\* Every step keeps the types; the rounds stay within max_iterations because
\* an iteration begins only where one is left.
LEMMA TypeStep == TypeOK /\ CountersAtPlace /\ [Next]_vars => TypeOK'
<1> SUFFICES ASSUME TypeOK, CountersAtPlace, [Next]_vars PROVE TypeOK'
  OBVIOUS
<1> USE RuntimeAssumption DEF TypeOK
<1>1. ASSUME NEW r \in Runs,
             \/ Create(r) \/ Thread(r) \/ Raise(r)
             \/ Worker(r) \/ ReleaseWhenDone(r)
             \/ Cancel(r) \/ Forget(r) \/ Deadline(r)
      PROVE TypeOK'
  <2>1. CASE Create(r)
    BY <2>1, PruneType, AppendProperties DEF Create, CountersAtPlace, RunStates, TerminalStates, Locations, TryBlock, WorkerStates
  <2>2. CASE StoreSession(r)
    BY <2>2 DEF StoreSession, CountersAtPlace, RunStates, TerminalStates, Locations, TryBlock, WorkerStates
  <2>3. CASE Admit(r)
    BY <2>3 DEF Admit, CountersAtPlace, RunStates, TerminalStates, Locations, TryBlock, WorkerStates
  <2>4. CASE Refuse(r)
    BY <2>4 DEF Refuse, CountersAtPlace, RunStates, TerminalStates, Locations, TryBlock, WorkerStates
  <2>5. CASE FailBusy(r)
    <3>1. state' \in [Runs -> RunStates]
      BY <2>5 DEF FailBusy, Terminate, RunStates, TerminalStates
    <3>2. pc' \in [Runs -> Locations]
      BY <2>5 DEF FailBusy, Locations
    <3> QED
      BY <2>5, <3>1, <3>2 DEF FailBusy
  <2>6. CASE Plan(r)
    BY <2>6 DEF Plan, CountersAtPlace, RunStates, TerminalStates, Locations, TryBlock, WorkerStates
  <2>7. CASE CheckActiveRaises(r)
    BY <2>7 DEF CheckActiveRaises, CheckPoints, CountersAtPlace, RunStates, TerminalStates, Locations, TryBlock, WorkerStates
  <2>8. CASE Iterate(r)
    BY <2>8 DEF Iterate, CountersAtPlace, RunStates, TerminalStates, Locations, TryBlock, WorkerStates
  <2>9. CASE LaunchModel(r)
    BY <2>9 DEF LaunchModel, CountersAtPlace, RunStates, TerminalStates, Locations, TryBlock, WorkerStates
  <2>10. CASE ModelFails(r)
    <3>1. \/ pc' = [pc EXCEPT ![r] = "cancelling"]
          \/ pc' = [pc EXCEPT ![r] = "failing"]
      BY <2>10 DEF ModelFails
    <3>2. pc' \in [Runs -> Locations]
      BY <3>1 DEF Locations
    <3> QED
      BY <2>10, <3>2 DEF ModelFails
  <2>11. CASE AnswerWithoutCalls(r)
    BY <2>11 DEF AnswerWithoutCalls, CountersAtPlace, RunStates, TerminalStates, Locations, TryBlock, WorkerStates
  <2>12. CASE AnswerWithForbiddenCalls(r)
    <3>1. \/ pc' = [pc EXCEPT ![r] = "failing"]
          \/ pc' = [pc EXCEPT ![r] = "launch"]
      BY <2>12 DEF AnswerWithForbiddenCalls
    <3>2. pc' \in [Runs -> Locations]
      BY <3>1 DEF Locations, TryBlock
    <3>3. final' \in [Runs -> BOOLEAN]
      BY <2>12 DEF AnswerWithForbiddenCalls
    <3> QED
      BY <2>12, <3>2, <3>3 DEF AnswerWithForbiddenCalls
  <2>13. CASE AnswerWithCalls(r)
    <3>1. pc' \in [Runs -> Locations]
      BY <2>13 DEF AnswerWithCalls, Locations, TryBlock
    <3>2. state' \in [Runs -> RunStates]
      BY <2>13 DEF AnswerWithCalls, RunStates
    <3>3. final' \in [Runs -> BOOLEAN] /\ calls' \in [Runs -> 0..MaxCalls]
      BY <2>13 DEF AnswerWithCalls
    <3> QED
      BY <2>13, <3>1, <3>2, <3>3 DEF AnswerWithCalls
  <2>14. CASE NextCall(r)
    BY <2>14 DEF NextCall, CountersAtPlace, RunStates, TerminalStates, Locations, TryBlock, WorkerStates
  <2>15. CASE DecidedAtOnce(r)
    BY <2>15 DEF DecidedAtOnce, CountersAtPlace, RunStates, TerminalStates, Locations, TryBlock, WorkerStates
  <2>16. CASE AskApproval(r)
    BY <2>16 DEF AskApproval, CountersAtPlace, RunStates, TerminalStates, Locations, TryBlock, WorkerStates
  <2>17. CASE ReleaseCapacity(r)
    <3>1. permits' \in Nat
      BY <2>17 DEF ReleaseCapacity
    <3>2. held' \in [Runs -> BOOLEAN]
      BY <2>17 DEF ReleaseCapacity
    <3>3. pc' \in [Runs -> Locations]
      BY <2>17 DEF ReleaseCapacity, Locations, TryBlock
    <3>4. QED
      BY <2>17, <3>1, <3>2, <3>3 DEF ReleaseCapacity
  <2>18. CASE ApprovalEnds(r)
    BY <2>18 DEF ApprovalEnds, CountersAtPlace, RunStates, TerminalStates, Locations, TryBlock, WorkerStates
  <2>19. CASE ReacquireCapacity(r)
    BY <2>19 DEF ReacquireCapacity, CountersAtPlace, RunStates, TerminalStates, Locations, TryBlock, WorkerStates
  <2>20. CASE Resume(r)
    BY <2>20 DEF Resume, CountersAtPlace, RunStates, TerminalStates, Locations, TryBlock, WorkerStates
  <2>21. CASE Refused(r)
    <3>1. calls[r] > 0
      BY <2>21 DEF Refused, CountersAtPlace
    <3>2. calls' \in [Runs -> 0..MaxCalls]
      BY <2>21, <3>1 DEF Refused
    <3>3. pc' \in [Runs -> Locations]
      BY <2>21 DEF Refused, Locations, TryBlock
    <3>4. QED
      BY <2>21, <3>2, <3>3 DEF Refused
  <2>22. CASE Allowed(r)
    BY <2>22 DEF Allowed, CountersAtPlace, RunStates, TerminalStates, Locations, TryBlock, WorkerStates
  <2>23. CASE StartTool(r)
    BY <2>23 DEF StartTool, CountersAtPlace, RunStates, TerminalStates, Locations, TryBlock, WorkerStates
  <2>24. CASE ToolReturns(r)
    BY <2>24 DEF ToolReturns, CountersAtPlace, RunStates, TerminalStates, Locations, TryBlock, WorkerStates
  <2>25. CASE EndBatch(r)
    BY <2>25 DEF EndBatch, CountersAtPlace, RunStates, TerminalStates, Locations, TryBlock, WorkerStates
  <2>26. CASE NextRound(r)
    <3>1. \/ pc' = [pc EXCEPT ![r] = "iterate"]
          \/ pc' = [pc EXCEPT ![r] = "launch"]
      BY <2>26 DEF NextRound
    <3>2. pc' \in [Runs -> Locations]
      BY <3>1 DEF Locations, TryBlock
    <3>3. final' \in [Runs -> BOOLEAN]
      BY <2>26 DEF NextRound
    <3>4. state' \in [Runs -> RunStates]
      BY <2>26 DEF NextRound, RunStates
    <3> QED
      BY <2>26, <3>2, <3>3, <3>4 DEF NextRound
  <2>27. CASE BeginVerify(r)
    BY <2>27 DEF BeginVerify, CountersAtPlace, RunStates, TerminalStates, Locations, TryBlock, WorkerStates
  <2>28. CASE VerifyPasses(r)
    BY <2>28 DEF VerifyPasses, CountersAtPlace, RunStates, TerminalStates, Locations, TryBlock, WorkerStates
  <2>29. CASE Complete(r)
    <3>1. \/ pc' = [pc EXCEPT ![r] = "persist"]
          \/ pc' = [pc EXCEPT ![r] = "cancelling"]
      BY <2>29 DEF Complete
    <3>2. pc' \in [Runs -> Locations]
      BY <3>1 DEF Locations, TryBlock
    <3>3. state' \in [Runs -> RunStates]
      BY <2>29 DEF Complete, RunStates, TerminalStates
    <3> QED
      BY <2>29, <3>2, <3>3 DEF Complete
  <2>30. CASE Persist(r)
    BY <2>30 DEF Persist, CountersAtPlace, RunStates, TerminalStates, Locations, TryBlock, WorkerStates
  <2>31. CASE Raise(r)
    BY <2>31 DEF Raise, CountersAtPlace, RunStates, TerminalStates, Locations, TryBlock, WorkerStates
  <2>32. CASE Handle(r)
    <3>1. state' \in [Runs -> RunStates]
      BY <2>32 DEF Handle, Terminate, RunStates, TerminalStates
    <3>2. pc' \in [Runs -> Locations]
      BY <2>32 DEF Handle, Locations
    <3> QED
      BY <2>32, <3>1, <3>2 DEF Handle
  <2>33. CASE LeaveCapacity(r)
    <3>1. /\ permits' \in Nat
          /\ held' \in [Runs -> BOOLEAN]
          /\ releaser' \in [Runs -> BOOLEAN]
      <4>1. held' \in [Runs -> BOOLEAN]
        BY <2>33 DEF LeaveCapacity
      <4>2. CASE held[r] /\ CallUnderWay(r)
        <5>1. permits' = permits /\ releaser' = [releaser EXCEPT ![r] = TRUE]
          BY <2>33, <4>2 DEF LeaveCapacity
        <5>2. releaser' \in [Runs -> BOOLEAN]
          BY <5>1
        <5>3. QED
          BY <4>1, <5>1, <5>2
      <4>3. CASE ~ (held[r] /\ CallUnderWay(r))
        <5>1. permits' = GivenBack(r) /\ releaser' = releaser
          BY <2>33, <4>3 DEF LeaveCapacity
        <5>2. GivenBack(r) \in Nat
          BY DEF GivenBack
        <5>3. QED
          BY <4>1, <5>1, <5>2
      <4>4. QED
        BY <4>2, <4>3
    <3>2. /\ late' \in [Runs -> BOOLEAN]
          /\ iteration' \in [Runs -> 0..MaxIterations]
          /\ final' \in [Runs -> BOOLEAN]
          /\ calls' \in [Runs -> 0..MaxCalls]
      BY <2>33 DEF LeaveCapacity
    <3>3. pc' \in [Runs -> Locations]
      BY <2>33 DEF LeaveCapacity, Locations
    <3>4. QED
      BY <2>33, <3>1, <3>2, <3>3 DEF LeaveCapacity
  <2>34. CASE PruneRuns(r)
    BY <2>34, PruneType DEF PruneRuns, CountersAtPlace, RunStates, TerminalStates, Locations, TryBlock, WorkerStates
  <2>35. CASE WorkerReturns(r)
    BY <2>35 DEF WorkerReturns, CountersAtPlace, RunStates, TerminalStates, Locations, TryBlock, WorkerStates
  <2>36. CASE WorkerEnds(r)
    BY <2>36 DEF WorkerEnds, CountersAtPlace, RunStates, TerminalStates, Locations, TryBlock, WorkerStates
  <2>37. CASE ReleaseWhenDone(r)
    BY <2>37, PruneType DEF ReleaseWhenDone, CallDone, CountersAtPlace, RunStates, TerminalStates, Locations, TryBlock, WorkerStates
  <2>38. CASE Cancel(r)
    BY <2>38 DEF Cancel, Cancellable, CountersAtPlace, RunStates, TerminalStates, Locations, TryBlock, WorkerStates
  <2>39. CASE Forget(r)
    <3>1. registry' \in Seq(Runs)
      BY <2>39, ForgetType
    <3>2. QED
      BY <2>39, <3>1 DEF Forget
  <2>40. CASE Deadline(r)
    BY <2>40 DEF Deadline, CountersAtPlace, RunStates, TerminalStates, Locations, TryBlock, WorkerStates
  <2>41. QED
    BY <1>1, <2>1, <2>2, <2>3, <2>4, <2>5, <2>6, <2>7, <2>8, <2>9, <2>10,
       <2>11, <2>12, <2>13, <2>14, <2>15, <2>16, <2>17, <2>18, <2>19, <2>20,
       <2>21, <2>22, <2>23, <2>24, <2>25, <2>26, <2>27, <2>28, <2>29, <2>30,
       <2>31, <2>32, <2>33, <2>34, <2>35, <2>36, <2>37, <2>38, <2>39, <2>40
       DEF Thread, Worker
<1>2. CASE UNCHANGED vars
  BY <1>2 DEF vars
<1>3. QED
  BY <1>1, <1>2 DEF Next

\* Every step keeps what is known of the loop counters at each place of _run.
LEMMA CountersStep == TypeOK /\ CountersAtPlace /\ [Next]_vars => CountersAtPlace'
<1> SUFFICES ASSUME TypeOK, CountersAtPlace, [Next]_vars PROVE CountersAtPlace'
  OBVIOUS
<1> USE RuntimeAssumption DEF TypeOK, CountersAtPlace
<1>1. ASSUME NEW r \in Runs,
             \/ Create(r) \/ Thread(r) \/ Raise(r)
             \/ Worker(r) \/ ReleaseWhenDone(r)
             \/ Cancel(r) \/ Forget(r) \/ Deadline(r)
      PROVE CountersAtPlace'
  <2>1. CASE Create(r)
    BY <2>1 DEF Create, TryBlock
  <2>2. CASE StoreSession(r)
    BY <2>2 DEF StoreSession, TryBlock
  <2>3. CASE Admit(r)
    BY <2>3 DEF Admit, TryBlock
  <2>4. CASE Refuse(r)
    BY <2>4 DEF Refuse, TryBlock
  <2>5. CASE FailBusy(r)
    BY <2>5 DEF FailBusy, Terminate, TryBlock
  <2>6. CASE Plan(r)
    BY <2>6 DEF Plan, TryBlock
  <2>7. CASE CheckActiveRaises(r)
    BY <2>7 DEF CheckActiveRaises, CheckPoints, TryBlock
  <2>8. CASE Iterate(r)
    BY <2>8 DEF Iterate, TryBlock
  <2>9. CASE LaunchModel(r)
    BY <2>9 DEF LaunchModel, TryBlock
  <2>10. CASE ModelFails(r)
    BY <2>10 DEF ModelFails, TryBlock
  <2>11. CASE AnswerWithoutCalls(r)
    BY <2>11 DEF AnswerWithoutCalls, TryBlock
  <2>12. CASE AnswerWithForbiddenCalls(r)
    BY <2>12 DEF AnswerWithForbiddenCalls, TryBlock
  <2>13. CASE AnswerWithCalls(r)
    BY <2>13 DEF AnswerWithCalls, TryBlock
  <2>14. CASE NextCall(r)
    BY <2>14 DEF NextCall, TryBlock
  <2>15. CASE DecidedAtOnce(r)
    BY <2>15 DEF DecidedAtOnce, TryBlock
  <2>16. CASE AskApproval(r)
    BY <2>16 DEF AskApproval, TryBlock
  <2>17. CASE ReleaseCapacity(r)
    BY <2>17 DEF ReleaseCapacity, TryBlock
  <2>18. CASE ApprovalEnds(r)
    BY <2>18 DEF ApprovalEnds, TryBlock
  <2>19. CASE ReacquireCapacity(r)
    BY <2>19 DEF ReacquireCapacity, TryBlock
  <2>20. CASE Resume(r)
    BY <2>20 DEF Resume, TryBlock
  <2>21. CASE Refused(r)
    BY <2>21 DEF Refused, TryBlock
  <2>22. CASE Allowed(r)
    BY <2>22 DEF Allowed, TryBlock
  <2>23. CASE StartTool(r)
    BY <2>23 DEF StartTool, TryBlock
  <2>24. CASE ToolReturns(r)
    BY <2>24 DEF ToolReturns, TryBlock
  <2>25. CASE EndBatch(r)
    BY <2>25 DEF EndBatch, TryBlock
  <2>26. CASE NextRound(r)
    BY <2>26 DEF NextRound, RoundsLeft, TryBlock
  <2>27. CASE BeginVerify(r)
    BY <2>27 DEF BeginVerify, TryBlock
  <2>28. CASE VerifyPasses(r)
    BY <2>28 DEF VerifyPasses, TryBlock
  <2>29. CASE Complete(r)
    BY <2>29 DEF Complete, Active, TryBlock
  <2>30. CASE Persist(r)
    BY <2>30 DEF Persist, TryBlock
  <2>31. CASE Raise(r)
    BY <2>31 DEF Raise, TryBlock
  <2>32. CASE Handle(r)
    BY <2>32 DEF Handle, Terminate, TryBlock
  <2>33. CASE LeaveCapacity(r)
    BY <2>33 DEF LeaveCapacity, CallUnderWay, GivenBack, TryBlock
  <2>34. CASE PruneRuns(r)
    BY <2>34 DEF PruneRuns, TryBlock
  <2>35. CASE WorkerReturns(r)
    BY <2>35 DEF WorkerReturns, TryBlock
  <2>36. CASE WorkerEnds(r)
    BY <2>36 DEF WorkerEnds, TryBlock
  <2>37. CASE ReleaseWhenDone(r)
    BY <2>37 DEF ReleaseWhenDone, CallDone, TryBlock
  <2>38. CASE Cancel(r)
    BY <2>38 DEF Cancel, Cancellable, TryBlock
  <2>39. CASE Forget(r)
    BY <2>39 DEF Forget, TryBlock
  <2>40. CASE Deadline(r)
    BY <2>40 DEF Deadline, TryBlock
  <2>41. QED
    BY <1>1, <2>1, <2>2, <2>3, <2>4, <2>5, <2>6, <2>7, <2>8, <2>9, <2>10,
       <2>11, <2>12, <2>13, <2>14, <2>15, <2>16, <2>17, <2>18, <2>19, <2>20,
       <2>21, <2>22, <2>23, <2>24, <2>25, <2>26, <2>27, <2>28, <2>29, <2>30,
       <2>31, <2>32, <2>33, <2>34, <2>35, <2>36, <2>37, <2>38, <2>39, <2>40
       DEF Thread, Worker
<1>2. CASE UNCHANGED vars
  BY <1>2 DEF vars
<1>3. QED
  BY <1>1, <1>2 DEF Next

\* Every step keeps the state of a run in line with the place of its thread in
\* run_chat, _run and authorize.
LEMMA StateStep == TypeOK /\ StateAtPlace /\ [Next]_vars => StateAtPlace'
<1> SUFFICES ASSUME TypeOK, StateAtPlace, [Next]_vars PROVE StateAtPlace'
  OBVIOUS
<1> USE RuntimeAssumption DEF TypeOK, StateAtPlace
<1>1. ASSUME NEW r \in Runs,
             \/ Create(r) \/ Thread(r) \/ Raise(r)
             \/ Worker(r) \/ ReleaseWhenDone(r)
             \/ Cancel(r) \/ Forget(r) \/ Deadline(r)
      PROVE StateAtPlace'
  <2>1. CASE Create(r)
    BY <2>1 DEF Create, TryBlock, TerminalStates
  <2>2. CASE StoreSession(r)
    BY <2>2 DEF StoreSession, TryBlock, TerminalStates
  <2>3. CASE Admit(r)
    BY <2>3 DEF Admit, TryBlock, TerminalStates
  <2>4. CASE Refuse(r)
    BY <2>4 DEF Refuse, TryBlock, TerminalStates
  <2>5. CASE FailBusy(r)
    BY <2>5 DEF FailBusy, Terminate, TryBlock, TerminalStates
  <2>6. CASE Plan(r)
    BY <2>6 DEF Plan, TryBlock, TerminalStates
  <2>7. CASE CheckActiveRaises(r)
    BY <2>7 DEF CheckActiveRaises, CheckPoints, TryBlock, TerminalStates
  <2>8. CASE Iterate(r)
    BY <2>8 DEF Iterate, TryBlock, TerminalStates
  <2>9. CASE LaunchModel(r)
    BY <2>9 DEF LaunchModel, TryBlock, TerminalStates
  <2>10. CASE ModelFails(r)
    BY <2>10 DEF ModelFails, TryBlock, TerminalStates
  <2>11. CASE AnswerWithoutCalls(r)
    BY <2>11 DEF AnswerWithoutCalls, TryBlock, TerminalStates
  <2>12. CASE AnswerWithForbiddenCalls(r)
    BY <2>12, SMTT(30) DEF AnswerWithForbiddenCalls, TryBlock, TerminalStates
  <2>13. CASE AnswerWithCalls(r)
    BY <2>13 DEF AnswerWithCalls, TryBlock, TerminalStates
  <2>14. CASE NextCall(r)
    BY <2>14 DEF NextCall, TryBlock, TerminalStates
  <2>15. CASE DecidedAtOnce(r)
    BY <2>15 DEF DecidedAtOnce, TryBlock, TerminalStates
  <2>16. CASE AskApproval(r)
    BY <2>16 DEF AskApproval, TryBlock, TerminalStates
  <2>17. CASE ReleaseCapacity(r)
    BY <2>17 DEF ReleaseCapacity, TryBlock, TerminalStates
  <2>18. CASE ApprovalEnds(r)
    BY <2>18 DEF ApprovalEnds, TryBlock, TerminalStates
  <2>19. CASE ReacquireCapacity(r)
    BY <2>19 DEF ReacquireCapacity, TryBlock, TerminalStates
  <2>20. CASE Resume(r)
    BY <2>20 DEF Resume, TryBlock, TerminalStates
  <2>21. CASE Refused(r)
    BY <2>21 DEF Refused, TryBlock, TerminalStates
  <2>22. CASE Allowed(r)
    BY <2>22 DEF Allowed, TryBlock, TerminalStates
  <2>23. CASE StartTool(r)
    BY <2>23 DEF StartTool, TryBlock, TerminalStates
  <2>24. CASE ToolReturns(r)
    BY <2>24 DEF ToolReturns, TryBlock, TerminalStates
  <2>25. CASE EndBatch(r)
    BY <2>25 DEF EndBatch, TryBlock, TerminalStates
  <2>26. CASE NextRound(r)
    BY <2>26 DEF NextRound, RoundsLeft, TryBlock, TerminalStates
  <2>27. CASE BeginVerify(r)
    BY <2>27 DEF BeginVerify, TryBlock, TerminalStates
  <2>28. CASE VerifyPasses(r)
    BY <2>28 DEF VerifyPasses, TryBlock, TerminalStates
  <2>29. CASE Complete(r)
    <3>1. CASE Active(r)
      <4>1. /\ state' = [state EXCEPT ![r] = "completed"]
            /\ cancel' = cancel /\ pc' = [pc EXCEPT ![r] = "persist"]
        BY <2>29, <3>1 DEF Complete
      <4> QED
        BY <4>1
    <3>2. CASE ~ Active(r)
      <4>1. state' = state /\ cancel' = cancel /\ pc' = [pc EXCEPT ![r] = "cancelling"]
        BY <2>29, <3>2 DEF Complete
      <4>2. state[r] = "verifying"
        BY <2>29 DEF Complete
      <4> QED
        BY <4>1, <4>2 DEF TerminalStates
    <3> QED
      BY <3>1, <3>2
  <2>30. CASE Persist(r)
    BY <2>30 DEF Persist, TryBlock, TerminalStates
  <2>31. CASE Raise(r)
    BY <2>31 DEF Raise, TryBlock, TerminalStates
  <2>32. CASE Handle(r)
    BY <2>32 DEF Handle, Terminate, TryBlock, TerminalStates
  <2>33. CASE LeaveCapacity(r)
    BY <2>33 DEF LeaveCapacity, CallUnderWay, GivenBack, TryBlock, TerminalStates
  <2>34. CASE PruneRuns(r)
    BY <2>34 DEF PruneRuns, TryBlock, TerminalStates
  <2>35. CASE WorkerReturns(r)
    BY <2>35 DEF WorkerReturns, TryBlock, TerminalStates
  <2>36. CASE WorkerEnds(r)
    BY <2>36 DEF WorkerEnds, TryBlock, TerminalStates
  <2>37. CASE ReleaseWhenDone(r)
    BY <2>37 DEF ReleaseWhenDone, CallDone, TryBlock, TerminalStates
  <2>38. CASE Cancel(r)
    BY <2>38 DEF Cancel, Cancellable, TryBlock, TerminalStates
  <2>39. CASE Forget(r)
    BY <2>39 DEF Forget, TryBlock, TerminalStates
  <2>40. CASE Deadline(r)
    BY <2>40 DEF Deadline, TryBlock, TerminalStates
  <2>41. QED
    BY <1>1, <2>1, <2>2, <2>3, <2>4, <2>5, <2>6, <2>7, <2>8, <2>9, <2>10,
       <2>11, <2>12, <2>13, <2>14, <2>15, <2>16, <2>17, <2>18, <2>19, <2>20,
       <2>21, <2>22, <2>23, <2>24, <2>25, <2>26, <2>27, <2>28, <2>29, <2>30,
       <2>31, <2>32, <2>33, <2>34, <2>35, <2>36, <2>37, <2>38, <2>39, <2>40
       DEF Thread, Worker
<1>2. CASE UNCHANGED vars
  BY <1>2 DEF vars
<1>3. QED
  BY <1>1, <1>2 DEF Next

\* Every step keeps the permits in line with the places: where a thread owns one,
\* and that a running model call has an owner (_call_model, the finally clause).
LEMMA PermitStep == TypeOK /\ PermitAtPlace /\ [Next]_vars => PermitAtPlace'
<1> SUFFICES ASSUME TypeOK, PermitAtPlace, [Next]_vars PROVE PermitAtPlace'
  OBVIOUS
<1> USE RuntimeAssumption DEF TypeOK, PermitAtPlace
<1>0. ASSUME NEW r \in Runs, NEW place \in {"iterate", "launch", "persist"} \cup Ending,
             pc[r] \in Owning, worker[r] = "running" => releaser[r],
             pc' = [pc EXCEPT ![r] = place], UNCHANGED gateVars
      PROVE  PermitAtPlace'
  <2>1. held[r] /\ ~ releaser[r] /\ pc'[r] \in Owning \cup Ending /\ worker[r] # "running"
    BY <1>0 DEF Owning, Ending
  <2>2. \A q \in Runs : q # r => pc'[q] = pc[q]
    BY <1>0
  <2> QED
    BY <1>0, <2>1, <2>2
<1>1. ASSUME NEW r \in Runs,
             \/ Create(r) \/ Thread(r) \/ Raise(r)
             \/ Worker(r) \/ ReleaseWhenDone(r)
             \/ Cancel(r) \/ Forget(r) \/ Deadline(r)
      PROVE PermitAtPlace'
  <2>1. CASE Create(r)
    BY <2>1 DEF Create, TryBlock, Owning, Ending, WorkerStates
  <2>2. CASE StoreSession(r)
    <3>1. pc' = [pc EXCEPT ![r] = "admission"] \/ pc' = [pc EXCEPT ![r] = "done"]
      BY <2>2 DEF StoreSession
    <3>2. \A q \in Runs : q # r => pc'[q] = pc[q]
      BY <3>1
    <3>3. ~ held[r] /\ ~ releaser[r] /\ pc'[r] \in {"admission", "done"}
      BY <2>2, <3>1 DEF StoreSession, Owning, Ending, TryBlock
    <3>4. UNCHANGED <<held, releaser, worker>>
      BY <2>2 DEF StoreSession
    <3>5. QED
      BY <3>2, <3>3, <3>4 DEF Owning, Ending
  <2>3. CASE Admit(r)
    BY <2>3 DEF Admit, TryBlock, Owning, Ending, WorkerStates
  <2>4. CASE Refuse(r)
    BY <2>4 DEF Refuse, TryBlock, Owning, Ending, WorkerStates
  <2>5. CASE FailBusy(r)
    BY <2>5 DEF FailBusy, Terminate, TryBlock, Owning, Ending, WorkerStates
  <2>6. CASE Plan(r)
    BY <2>6 DEF Plan, TryBlock, Owning, Ending, WorkerStates
  <2>7. CASE CheckActiveRaises(r)
    BY <2>7 DEF CheckActiveRaises, CheckPoints, TryBlock, Owning, Ending, WorkerStates
  <2>8. CASE Iterate(r)
    BY <2>8 DEF Iterate, TryBlock, Owning, Ending, WorkerStates
  <2>9. CASE LaunchModel(r)
    BY <2>9 DEF LaunchModel, TryBlock, Owning, Ending, WorkerStates
  <2>10. CASE ModelFails(r)
    <3>1. \/ pc' = [pc EXCEPT ![r] = "cancelling"]
          \/ pc' = [pc EXCEPT ![r] = "failing"]
      BY <2>10 DEF ModelFails
    <3> QED
      BY <1>0, <2>10, <3>1 DEF ModelFails, Owning, Ending
  <2>11. CASE AnswerWithoutCalls(r)
    BY <2>11 DEF AnswerWithoutCalls, TryBlock, Owning, Ending, WorkerStates
  <2>12. CASE AnswerWithForbiddenCalls(r)
    <3>1. \/ pc' = [pc EXCEPT ![r] = "failing"]
          \/ pc' = [pc EXCEPT ![r] = "launch"]
      BY <2>12 DEF AnswerWithForbiddenCalls
    <3> QED
      BY <1>0, <2>12, <3>1 DEF AnswerWithForbiddenCalls, Owning, Ending
  <2>13. CASE AnswerWithCalls(r)
    BY <2>13 DEF AnswerWithCalls, TryBlock, Owning, Ending, WorkerStates
  <2>14. CASE NextCall(r)
    BY <2>14 DEF NextCall, TryBlock, Owning, Ending, WorkerStates
  <2>15. CASE DecidedAtOnce(r)
    BY <2>15 DEF DecidedAtOnce, TryBlock, Owning, Ending, WorkerStates
  <2>16. CASE AskApproval(r)
    BY <2>16 DEF AskApproval, TryBlock, Owning, Ending, WorkerStates
  <2>17. CASE ReleaseCapacity(r)
    BY <2>17 DEF ReleaseCapacity, TryBlock, Owning, Ending, WorkerStates
  <2>18. CASE ApprovalEnds(r)
    BY <2>18 DEF ApprovalEnds, TryBlock, Owning, Ending, WorkerStates
  <2>19. CASE ReacquireCapacity(r)
    BY <2>19 DEF ReacquireCapacity, TryBlock, Owning, Ending, WorkerStates
  <2>20. CASE Resume(r)
    BY <2>20 DEF Resume, TryBlock, Owning, Ending, WorkerStates
  <2>21. CASE Refused(r)
    BY <2>21 DEF Refused, TryBlock, Owning, Ending, WorkerStates
  <2>22. CASE Allowed(r)
    BY <2>22 DEF Allowed, TryBlock, Owning, Ending, WorkerStates
  <2>23. CASE StartTool(r)
    BY <2>23 DEF StartTool, TryBlock, Owning, Ending, WorkerStates
  <2>24. CASE ToolReturns(r)
    BY <2>24 DEF ToolReturns, TryBlock, Owning, Ending, WorkerStates
  <2>25. CASE EndBatch(r)
    BY <2>25 DEF EndBatch, TryBlock, Owning, Ending, WorkerStates
  <2>26. CASE NextRound(r)
    <3>1. \/ pc' = [pc EXCEPT ![r] = "iterate"]
          \/ pc' = [pc EXCEPT ![r] = "launch"]
      BY <2>26 DEF NextRound
    <3>2. pc[r] \in Owning /\ (worker[r] = "running" => releaser[r])
      BY <2>26 DEF NextRound, Owning, Ending
    <3> QED
      BY <1>0, <2>26, <3>1, <3>2 DEF NextRound
  <2>27. CASE BeginVerify(r)
    BY <2>27 DEF BeginVerify, TryBlock, Owning, Ending, WorkerStates
  <2>28. CASE VerifyPasses(r)
    BY <2>28 DEF VerifyPasses, TryBlock, Owning, Ending, WorkerStates
  <2>29. CASE Complete(r)
    <3>1. \/ pc' = [pc EXCEPT ![r] = "persist"]
          \/ pc' = [pc EXCEPT ![r] = "cancelling"]
      BY <2>29 DEF Complete
    <3>2. pc[r] \in Owning /\ (worker[r] = "running" => releaser[r])
      BY <2>29 DEF Complete, Owning, Ending
    <3> QED
      BY <1>0, <2>29, <3>1, <3>2 DEF Complete, Ending
  <2>30. CASE Persist(r)
    BY <2>30 DEF Persist, TryBlock, Owning, Ending, WorkerStates
  <2>31. CASE Raise(r)
    BY <2>31 DEF Raise, TryBlock, Owning, Ending, WorkerStates
  <2>32. CASE Handle(r)
    BY <2>32 DEF Handle, Terminate, TryBlock, Owning, Ending, WorkerStates
  <2>33. CASE LeaveCapacity(r)
    BY <2>33 DEF LeaveCapacity, CallUnderWay, GivenBack, TryBlock, Owning, Ending, WorkerStates
  <2>34. CASE PruneRuns(r)
    BY <2>34 DEF PruneRuns, TryBlock, Owning, Ending, WorkerStates
  <2>35. CASE WorkerReturns(r)
    BY <2>35 DEF WorkerReturns, TryBlock, Owning, Ending, WorkerStates
  <2>36. CASE WorkerEnds(r)
    BY <2>36 DEF WorkerEnds, TryBlock, Owning, Ending, WorkerStates
  <2>37. CASE ReleaseWhenDone(r)
    BY <2>37 DEF ReleaseWhenDone, CallDone, TryBlock, Owning, Ending, WorkerStates
  <2>38. CASE Cancel(r)
    BY <2>38 DEF Cancel, Cancellable, TryBlock, Owning, Ending, WorkerStates
  <2>39. CASE Forget(r)
    BY <2>39 DEF Forget, TryBlock, Owning, Ending, WorkerStates
  <2>40. CASE Deadline(r)
    BY <2>40 DEF Deadline, TryBlock, Owning, Ending, WorkerStates
  <2>41. QED
    BY <1>1, <2>1, <2>2, <2>3, <2>4, <2>5, <2>6, <2>7, <2>8, <2>9, <2>10,
       <2>11, <2>12, <2>13, <2>14, <2>15, <2>16, <2>17, <2>18, <2>19, <2>20,
       <2>21, <2>22, <2>23, <2>24, <2>25, <2>26, <2>27, <2>28, <2>29, <2>30,
       <2>31, <2>32, <2>33, <2>34, <2>35, <2>36, <2>37, <2>38, <2>39, <2>40
       DEF Thread, Worker
<1>2. CASE UNCHANGED vars
  BY <1>2 DEF vars
<1>3. QED
  BY <1>1, <1>2 DEF Next

\* Every step keeps the count of tools started after a cancellation: the flag is
\* tested between any tool and the next.
LEMMA ToolsStep == TypeOK /\ ToolsAtPlace /\ [Next]_vars => ToolsAtPlace'
<1> SUFFICES ASSUME TypeOK, ToolsAtPlace, [Next]_vars PROVE ToolsAtPlace'
  OBVIOUS
<1> USE RuntimeAssumption DEF TypeOK, ToolsAtPlace
<1>1. ASSUME NEW r \in Runs,
             \/ Create(r) \/ Thread(r) \/ Raise(r)
             \/ Worker(r) \/ ReleaseWhenDone(r)
             \/ Cancel(r) \/ Forget(r) \/ Deadline(r)
      PROVE ToolsAtPlace'
  <2>1. CASE Create(r)
    BY <2>1 DEF Create, TryBlock
  <2>2. CASE StoreSession(r)
    BY <2>2 DEF StoreSession, TryBlock
  <2>3. CASE Admit(r)
    BY <2>3 DEF Admit, TryBlock
  <2>4. CASE Refuse(r)
    BY <2>4 DEF Refuse, TryBlock
  <2>5. CASE FailBusy(r)
    BY <2>5 DEF FailBusy, Terminate, TryBlock
  <2>6. CASE Plan(r)
    BY <2>6 DEF Plan, TryBlock
  <2>7. CASE CheckActiveRaises(r)
    BY <2>7 DEF CheckActiveRaises, CheckPoints, TryBlock
  <2>8. CASE Iterate(r)
    BY <2>8 DEF Iterate, TryBlock
  <2>9. CASE LaunchModel(r)
    BY <2>9 DEF LaunchModel, TryBlock
  <2>10. CASE ModelFails(r)
    BY <2>10 DEF ModelFails, TryBlock
  <2>11. CASE AnswerWithoutCalls(r)
    BY <2>11 DEF AnswerWithoutCalls, TryBlock
  <2>12. CASE AnswerWithForbiddenCalls(r)
    BY <2>12 DEF AnswerWithForbiddenCalls, TryBlock
  <2>13. CASE AnswerWithCalls(r)
    BY <2>13 DEF AnswerWithCalls, TryBlock
  <2>14. CASE NextCall(r)
    BY <2>14 DEF NextCall, TryBlock
  <2>15. CASE DecidedAtOnce(r)
    BY <2>15 DEF DecidedAtOnce, TryBlock
  <2>16. CASE AskApproval(r)
    BY <2>16 DEF AskApproval, TryBlock
  <2>17. CASE ReleaseCapacity(r)
    BY <2>17 DEF ReleaseCapacity, TryBlock
  <2>18. CASE ApprovalEnds(r)
    BY <2>18 DEF ApprovalEnds, TryBlock
  <2>19. CASE ReacquireCapacity(r)
    BY <2>19 DEF ReacquireCapacity, TryBlock
  <2>20. CASE Resume(r)
    BY <2>20 DEF Resume, TryBlock
  <2>21. CASE Refused(r)
    BY <2>21 DEF Refused, TryBlock
  <2>22. CASE Allowed(r)
    BY <2>22 DEF Allowed, TryBlock
  <2>23. CASE StartTool(r)
    BY <2>23 DEF StartTool, TryBlock
  <2>24. CASE ToolReturns(r)
    BY <2>24 DEF ToolReturns, TryBlock
  <2>25. CASE EndBatch(r)
    BY <2>25 DEF EndBatch, TryBlock
  <2>26. CASE NextRound(r)
    BY <2>26 DEF NextRound, RoundsLeft, TryBlock
  <2>27. CASE BeginVerify(r)
    BY <2>27 DEF BeginVerify, TryBlock
  <2>28. CASE VerifyPasses(r)
    BY <2>28 DEF VerifyPasses, TryBlock
  <2>29. CASE Complete(r)
    BY <2>29 DEF Complete, Active, TryBlock
  <2>30. CASE Persist(r)
    BY <2>30 DEF Persist, TryBlock
  <2>31. CASE Raise(r)
    BY <2>31 DEF Raise, TryBlock
  <2>32. CASE Handle(r)
    BY <2>32 DEF Handle, Terminate, TryBlock
  <2>33. CASE LeaveCapacity(r)
    BY <2>33 DEF LeaveCapacity, CallUnderWay, GivenBack, TryBlock
  <2>34. CASE PruneRuns(r)
    BY <2>34 DEF PruneRuns, TryBlock
  <2>35. CASE WorkerReturns(r)
    BY <2>35 DEF WorkerReturns, TryBlock
  <2>36. CASE WorkerEnds(r)
    BY <2>36 DEF WorkerEnds, TryBlock
  <2>37. CASE ReleaseWhenDone(r)
    BY <2>37 DEF ReleaseWhenDone, CallDone, TryBlock
  <2>38. CASE Cancel(r)
    BY <2>38 DEF Cancel, Cancellable, TryBlock
  <2>39. CASE Forget(r)
    BY <2>39 DEF Forget, TryBlock
  <2>40. CASE Deadline(r)
    BY <2>40 DEF Deadline, TryBlock
  <2>41. QED
    BY <1>1, <2>1, <2>2, <2>3, <2>4, <2>5, <2>6, <2>7, <2>8, <2>9, <2>10,
       <2>11, <2>12, <2>13, <2>14, <2>15, <2>16, <2>17, <2>18, <2>19, <2>20,
       <2>21, <2>22, <2>23, <2>24, <2>25, <2>26, <2>27, <2>28, <2>29, <2>30,
       <2>31, <2>32, <2>33, <2>34, <2>35, <2>36, <2>37, <2>38, <2>39, <2>40
       DEF Thread, Worker
<1>2. CASE UNCHANGED vars
  BY <1>2 DEF vars
<1>3. QED
  BY <1>1, <1>2 DEF Next

-----------------------------------------------------------------------------
(* The permits of the gate.                                                *)

\* The owners of permits can be counted.
LEMMA OwnersFinite == IsFiniteSet(Owners)
  BY RuntimeAssumption, FS_Subset DEF Owners

\* Only five steps touch the gate: the two acquires and the three releases.
LEMMA GateUntouched ==
  ASSUME NEW r \in Runs,
         \/ Create(r) \/ Thread(r) \/ Raise(r)
         \/ Worker(r) \/ ReleaseWhenDone(r)
         \/ Cancel(r) \/ Forget(r) \/ Deadline(r),
         ~ Admit(r), ~ ReleaseCapacity(r), ~ ReacquireCapacity(r),
         ~ LeaveCapacity(r), ~ ReleaseWhenDone(r)
  PROVE  UNCHANGED <<permits, held, releaser>>
<1>1. CASE Create(r) \/ Raise(r) \/ Cancel(r) \/ Forget(r) \/ Deadline(r) \/ Worker(r)
  BY <1>1 DEF Create, Raise, Cancel, Forget, Deadline, Worker, WorkerReturns, WorkerEnds
<1>2. CASE Thread(r)
  BY <1>2 DEF Thread, StoreSession, Refuse, FailBusy, Plan, CheckActiveRaises,
     Iterate, LaunchModel, ModelFails, AnswerWithoutCalls, AnswerWithForbiddenCalls,
     AnswerWithCalls, NextCall, DecidedAtOnce, AskApproval, ApprovalEnds, Resume,
     Refused, Allowed, StartTool, ToolReturns, EndBatch, NextRound, BeginVerify,
     VerifyPasses, Complete, Persist, Handle, PruneRuns
<1>3. QED
  BY <1>1, <1>2

\* Taking a permit (gate.acquire) keeps permits and owners in balance.
LEMMA PermitTaken ==
  ASSUME NEW r \in Runs, TypeOK, GateConserved, ~ held[r], ~ releaser[r],
         permits' = permits - 1, held' = [held EXCEPT ![r] = TRUE],
         releaser' = releaser
  PROVE  GateConserved' /\ Owners' = Owners \cup {r} /\ r \notin Owners
<1>1. Owners' = Owners \cup {r} /\ r \notin Owners
  BY DEF Owners, TypeOK
<1>2. Cardinality(Owners') = Cardinality(Owners) + 1
  BY <1>1, OwnersFinite, FS_AddElement
<1>3. Cardinality(Owners) \in Nat
  BY OwnersFinite, FS_CardinalityType
<1>4. QED
  BY <1>1, <1>2, <1>3, RuntimeAssumption DEF GateConserved, TypeOK

\* Giving a permit back (gate.release) keeps permits and owners in balance.
LEMMA PermitReturned ==
  ASSUME NEW r \in Runs, TypeOK, GateConserved, r \in Owners,
         permits' = permits + 1, held' = [held EXCEPT ![r] = FALSE],
         releaser' = [releaser EXCEPT ![r] = FALSE]
  PROVE  GateConserved' /\ Owners' = Owners \ {r}
<1>1. Owners' = Owners \ {r}
  BY DEF Owners, TypeOK
<1>2. Cardinality(Owners') = Cardinality(Owners) - 1
  BY <1>1, OwnersFinite, FS_RemoveElement
<1>3. Cardinality(Owners) \in Nat
  BY OwnersFinite, FS_CardinalityType
<1>4. QED
  BY <1>1, <1>2, <1>3, RuntimeAssumption DEF GateConserved, TypeOK

\* Every step keeps permits and owners in balance: an acquire comes from a run
\* that owns nothing, a release from one that does.
LEMMA GateStep ==
  TypeOK /\ PermitAtPlace /\ GateConserved /\ [Next]_vars => GateConserved'
<1> SUFFICES ASSUME TypeOK, PermitAtPlace, GateConserved, [Next]_vars
             PROVE  GateConserved'
  OBVIOUS
<1>1. ASSUME UNCHANGED <<permits, held, releaser>> PROVE GateConserved'
  BY <1>1 DEF GateConserved, Owners
<1>2. ASSUME NEW r \in Runs,
             \/ Create(r) \/ Thread(r) \/ Raise(r)
             \/ Worker(r) \/ ReleaseWhenDone(r)
             \/ Cancel(r) \/ Forget(r) \/ Deadline(r)
      PROVE GateConserved'
  <2>1. CASE Admit(r) \/ ReacquireCapacity(r)
    <3>1. ~ held[r] /\ ~ releaser[r]
      BY <2>1 DEF Admit, ReacquireCapacity, PermitAtPlace, Owning, Ending
    <3>2. QED
      BY <2>1, <3>1, PermitTaken DEF Admit, ReacquireCapacity
  <2>2. CASE ReleaseCapacity(r)
    <3>1. held[r] /\ ~ releaser[r]
      BY <2>2 DEF ReleaseCapacity, PermitAtPlace, Owning
    <3>2. releaser' = [releaser EXCEPT ![r] = FALSE]
      BY <2>2, <3>1 DEF ReleaseCapacity, TypeOK
    <3>3. QED
      BY <2>2, <3>1, <3>2, PermitReturned DEF ReleaseCapacity, Owners
  <2>3. CASE LeaveCapacity(r)
    <3>1. ~ releaser[r]
      BY <2>3 DEF LeaveCapacity, PermitAtPlace
    <3>2. CASE held[r] /\ CallUnderWay(r)
      <4>1. Owners' = Owners
        BY <2>3, <3>2 DEF LeaveCapacity, Owners, TypeOK
      <4>2. \A q \in Runs : ~ (held'[q] /\ releaser'[q])
        BY <2>3, <3>2 DEF LeaveCapacity, GateConserved, TypeOK
      <4>3. QED
        BY <2>3, <3>2, <4>1, <4>2 DEF LeaveCapacity, GateConserved
    <3>3. CASE held[r] /\ ~ CallUnderWay(r)
      <4>1. releaser' = [releaser EXCEPT ![r] = FALSE] /\ permits' = permits + 1
        BY <2>3, <3>1, <3>3 DEF LeaveCapacity, GivenBack, TypeOK
      <4>2. QED
        BY <2>3, <3>3, <4>1, PermitReturned DEF LeaveCapacity, Owners
    <3>4. CASE ~ held[r]
      <4>1. held' = held /\ releaser' = releaser /\ permits' = permits
        BY <2>3, <3>4 DEF LeaveCapacity, GivenBack, TypeOK
      <4>2. QED
        BY <1>1, <4>1
    <3>5. QED
      BY <3>2, <3>3, <3>4
  <2>4. CASE ReleaseWhenDone(r)
    <3>1. ~ held[r] /\ held' = [held EXCEPT ![r] = FALSE]
      BY <2>4 DEF ReleaseWhenDone, GateConserved, TypeOK
    <3>2. QED
      BY <2>4, <3>1, PermitReturned DEF ReleaseWhenDone, Owners
  <2>5. QED
    BY <1>1, <1>2, <2>1, <2>2, <2>3, <2>4, GateUntouched
<1>3. CASE UNCHANGED vars
  BY <1>1, <1>3 DEF vars
<1>4. QED
  BY <1>2, <1>3 DEF Next
-----------------------------------------------------------------------------
(* How a step may change the state and the cancellation flag of a run.      *)

\* The rows of TRANSITIONS, one by one.
LEMMA TransitionTable ==
  /\ Transitions["analyzing"] = {"planning", "failed", "cancelled"}
  /\ Transitions["planning"] = {"executing", "verifying", "failed", "cancelled"}
  /\ Transitions["awaiting_approval"] = {"executing", "cancelled", "failed"}
  /\ Transitions["executing"] = {"awaiting_approval", "observing", "failed", "cancelled"}
  /\ Transitions["observing"] = {"planning", "verifying", "failed", "cancelled"}
  /\ Transitions["verifying"] = {"completed", "failed", "cancelled"}
  BY DEF Transitions, RunStates, TerminalStates

\* A run that changes its state follows the table and is not completed when
\* its cancellation was accepted; a cancellation is accepted by an active run.
SoundStep ==
  \A q \in Runs :
    /\ state'[q] # state[q] => /\ state'[q] \in Transitions[state[q]]
                               /\ ~ Terminal(q)
                               /\ state'[q] = "completed" => ~ cancel'[q]
    /\ cancel'[q] # cancel[q] => cancel'[q] /\ ~ Terminal(q) /\ state'[q] = state[q]

\* Every step moves each run as TRANSITIONS allows, and no outcome is replaced.
LEMMA MovesSound == TypeOK /\ StateAtPlace /\ [Next]_vars => SoundStep
<1> SUFFICES ASSUME TypeOK, StateAtPlace, [Next]_vars PROVE SoundStep
  OBVIOUS
<1> USE DEF TypeOK, SoundStep, TerminalStates
<1>1. ASSUME NEW r \in Runs,
             \/ Create(r) \/ Thread(r) \/ Raise(r)
             \/ Worker(r) \/ ReleaseWhenDone(r)
             \/ Cancel(r) \/ Forget(r) \/ Deadline(r)
      PROVE SoundStep
  <2>1. CASE Create(r)
    BY <2>1 DEF Create, StateAtPlace
  <2>2. CASE StoreSession(r)
    BY <2>2 DEF StoreSession, StateAtPlace
  <2>3. CASE Admit(r)
    BY <2>3 DEF Admit, StateAtPlace
  <2>4. CASE Refuse(r)
    BY <2>4 DEF Refuse, StateAtPlace
  <2>5. CASE FailBusy(r)
    BY <2>5, TransitionTable DEF FailBusy, Terminate, StateAtPlace
  <2>6. CASE Plan(r)
    BY <2>6, TransitionTable DEF Plan, StateAtPlace
  <2>7. CASE CheckActiveRaises(r)
    BY <2>7 DEF CheckActiveRaises, CheckPoints, StateAtPlace
  <2>8. CASE Iterate(r)
    BY <2>8 DEF Iterate, StateAtPlace
  <2>9. CASE LaunchModel(r)
    BY <2>9 DEF LaunchModel, StateAtPlace
  <2>10. CASE ModelFails(r)
    BY <2>10 DEF ModelFails, StateAtPlace
  <2>11. CASE AnswerWithoutCalls(r)
    BY <2>11 DEF AnswerWithoutCalls, StateAtPlace
  <2>12. CASE AnswerWithForbiddenCalls(r)
    BY <2>12 DEF AnswerWithForbiddenCalls, StateAtPlace
  <2>13. CASE AnswerWithCalls(r)
    BY <2>13, TransitionTable DEF AnswerWithCalls, StateAtPlace
  <2>14. CASE NextCall(r)
    BY <2>14 DEF NextCall, StateAtPlace
  <2>15. CASE DecidedAtOnce(r)
    BY <2>15 DEF DecidedAtOnce, StateAtPlace
  <2>16. CASE AskApproval(r)
    BY <2>16, TransitionTable DEF AskApproval, StateAtPlace
  <2>17. CASE ReleaseCapacity(r)
    BY <2>17 DEF ReleaseCapacity, StateAtPlace
  <2>18. CASE ApprovalEnds(r)
    BY <2>18 DEF ApprovalEnds, StateAtPlace
  <2>19. CASE ReacquireCapacity(r)
    BY <2>19 DEF ReacquireCapacity, StateAtPlace
  <2>20. CASE Resume(r)
    BY <2>20, TransitionTable DEF Resume, StateAtPlace
  <2>21. CASE Refused(r)
    BY <2>21 DEF Refused, StateAtPlace
  <2>22. CASE Allowed(r)
    BY <2>22 DEF Allowed, StateAtPlace
  <2>23. CASE StartTool(r)
    BY <2>23 DEF StartTool, StateAtPlace
  <2>24. CASE ToolReturns(r)
    BY <2>24 DEF ToolReturns, StateAtPlace
  <2>25. CASE EndBatch(r)
    BY <2>25, TransitionTable DEF EndBatch, StateAtPlace
  <2>26. CASE NextRound(r)
    BY <2>26, TransitionTable DEF NextRound, RoundsLeft, StateAtPlace
  <2>27. CASE BeginVerify(r)
    BY <2>27, TransitionTable DEF BeginVerify, StateAtPlace
  <2>28. CASE VerifyPasses(r)
    BY <2>28 DEF VerifyPasses, StateAtPlace
  <2>29. CASE Complete(r)
    BY <2>29, TransitionTable DEF Complete, Active, StateAtPlace
  <2>30. CASE Persist(r)
    BY <2>30 DEF Persist, StateAtPlace
  <2>31. CASE Raise(r)
    BY <2>31 DEF Raise, StateAtPlace
  <2>32. CASE Handle(r)
    <3>1. state[r] \in {"analyzing", "planning", "awaiting_approval", "executing",
                       "observing", "verifying", "completed"}
      BY <2>32 DEF Handle, StateAtPlace, RunStates
    <3>2. /\ \A q \in Runs \ {r} : state'[q] = state[q]
          /\ UNCHANGED cancel
          /\ \/ state'[r] = state[r]
             \/ ~ Terminal(r) /\ state'[r] \in {"failed", "cancelled"}
      BY <2>32 DEF Handle, Terminate
    <3>3. QED
      BY <3>1, <3>2, TransitionTable
  <2>33. CASE LeaveCapacity(r)
    BY <2>33 DEF LeaveCapacity, CallUnderWay, GivenBack, StateAtPlace
  <2>34. CASE PruneRuns(r)
    BY <2>34 DEF PruneRuns, StateAtPlace
  <2>35. CASE WorkerReturns(r)
    BY <2>35 DEF WorkerReturns, StateAtPlace
  <2>36. CASE WorkerEnds(r)
    BY <2>36 DEF WorkerEnds, StateAtPlace
  <2>37. CASE ReleaseWhenDone(r)
    BY <2>37 DEF ReleaseWhenDone, CallDone, StateAtPlace
  <2>38. CASE Cancel(r)
    BY <2>38 DEF Cancel, Cancellable, StateAtPlace
  <2>39. CASE Forget(r)
    BY <2>39 DEF Forget, StateAtPlace
  <2>40. CASE Deadline(r)
    BY <2>40 DEF Deadline, StateAtPlace
  <2>41. QED
    BY <1>1, <2>1, <2>2, <2>3, <2>4, <2>5, <2>6, <2>7, <2>8, <2>9, <2>10,
       <2>11, <2>12, <2>13, <2>14, <2>15, <2>16, <2>17, <2>18, <2>19, <2>20,
       <2>21, <2>22, <2>23, <2>24, <2>25, <2>26, <2>27, <2>28, <2>29, <2>30,
       <2>31, <2>32, <2>33, <2>34, <2>35, <2>36, <2>37, <2>38, <2>39, <2>40
       DEF Thread, Worker
<1>2. CASE UNCHANGED vars
  BY <1>2 DEF vars
<1>3. QED
  BY <1>1, <1>2 DEF Next

\* No step completes a cancelled run: transition_if_active tests the flag, and a
\* run that is over accepts no cancellation.
LEMMA CancelStep ==
  TypeOK /\ StateAtPlace /\ CancelledNeverCompletes /\ [Next]_vars
    => CancelledNeverCompletes'
<1> SUFFICES ASSUME TypeOK, StateAtPlace, CancelledNeverCompletes, [Next]_vars,
                    NEW q \in Runs, cancel'[q]
             PROVE  state'[q] # "completed"
  BY DEF CancelledNeverCompletes
<1>1. SoundStep
  BY MovesSound
<1>2. CASE cancel[q]
  BY <1>1, <1>2 DEF SoundStep, CancelledNeverCompletes
<1>3. CASE ~ cancel[q]
  BY <1>1, <1>3 DEF SoundStep, TerminalStates
<1>4. QED
  BY <1>2, <1>3
-----------------------------------------------------------------------------
(* The registry.                                                           *)

\* Pruning stops at the first run in progress, so it drops none of them.
LEMMA PruneKeepsActive ==
  ASSUME NEW before \in Seq(Runs), Prune(before),
         NEW i \in 1..Len(before), ~ Terminal(before[i])
  PROVE  \E j \in DOMAIN registry' : registry'[j] = before[i]
<1>1. PICK k \in 0..Len(before) :
        /\ Drops(before, k)
        /\ registry' = SubSeq(before, k + 1, Len(before))
  BY DEF Prune
<1>2. i > k
  BY <1>1 DEF Drops
<1>3. \A j \in (k + 1)..Len(before) : before[j] \in Runs
  BY ElementOfSeq
<1>4. /\ registry' \in Seq(Runs)
      /\ Len(registry') = Len(before) - k
      /\ \A j \in 1..(Len(before) - k) : registry'[j] = before[k + j]
  BY <1>1, <1>3, SubSeqProperties
<1>5. i - k \in DOMAIN registry' /\ registry'[i - k] = before[i]
  BY <1>2, <1>4
<1>6. QED
  BY <1>5

\* What pruning leaves was there before.
LEMMA PruneAddsNothing ==
  ASSUME NEW before \in Seq(Runs), Prune(before), NEW j \in DOMAIN registry'
  PROVE  \E i \in 1..Len(before) : registry'[j] = before[i]
<1>1. PICK k \in 0..Len(before) : registry' = SubSeq(before, k + 1, Len(before))
  BY DEF Prune
<1>2. \A i \in (k + 1)..Len(before) : before[i] \in Runs
  BY ElementOfSeq
<1>3. /\ registry' \in Seq(Runs)
      /\ Len(registry') = Len(before) - k
      /\ \A i \in 1..(Len(before) - k) : registry'[i] = before[k + i]
  BY <1>1, <1>2, SubSeqProperties
<1>4. j \in 1..(Len(before) - k)
  BY <1>3, LenProperties
<1>5. k + j \in 1..Len(before) /\ registry'[j] = before[k + j]
  BY <1>3, <1>4, LenProperties
<1>6. QED
  BY <1>5

\* What pruning leaves was there before, each at a place of its own.
LEMMA PruneKeepsApart ==
  ASSUME NEW before \in Seq(Runs), Prune(before),
         \A m, n \in 1..Len(before) : id[before[m]] = id[before[n]] => m = n
  PROVE  \A i, j \in DOMAIN registry' : id[registry'[i]] = id[registry'[j]] => i = j
<1>1. PICK k \in 0..Len(before) : registry' = SubSeq(before, k + 1, Len(before))
  BY DEF Prune
<1>2. \A i \in (k + 1)..Len(before) : before[i] \in Runs
  BY ElementOfSeq
<1>3. /\ registry' \in Seq(Runs)
      /\ Len(registry') = Len(before) - k
      /\ \A i \in 1..(Len(before) - k) : registry'[i] = before[k + i]
  BY <1>1, <1>2, SubSeqProperties
<1>4. ASSUME NEW i \in 1..(Len(before) - k), NEW j \in 1..(Len(before) - k),
             id[registry'[i]] = id[registry'[j]]
      PROVE  i = j
  <2>1. k + i \in 1..Len(before) /\ k + j \in 1..Len(before)
    BY LenProperties
  <2>2. k + i = k + j
    BY <1>3, <1>4, <2>1
  <2> QED
    BY <2>2, LenProperties
<1>5. DOMAIN registry' = 1..(Len(before) - k)
  BY <1>3, LenProperties
<1> QED
  BY <1>4, <1>5

\* forget_runs removes the run it was called for and keeps the others in order.
LEMMA ForgetRemovesOne ==
  ASSUME NEW r \in Runs, registry \in Seq(Runs), Forget(r)
  PROVE  /\ \A i \in DOMAIN registry :
              registry[i] # r => \E j \in DOMAIN registry' : registry'[j] = registry[i]
         /\ \A j \in DOMAIN registry' :
              \E i \in DOMAIN registry : registry'[j] = registry[i]
         /\ \A i, j \in DOMAIN registry' : i < j =>
              \E m, n \in DOMAIN registry :
                m < n /\ registry'[i] = registry[m] /\ registry'[j] = registry[n]
<1>1. PICK k \in DOMAIN registry :
        /\ registry[k] = r
        /\ registry' = SubSeq(registry, 1, k - 1) \o SubSeq(registry, k + 1, Len(registry))
  BY DEF Forget
<1> DEFINE front == SubSeq(registry, 1, k - 1)
           back == SubSeq(registry, k + 1, Len(registry))
<1>2. k \in 1..Len(registry) /\ \A i \in 1..Len(registry) : registry[i] \in Runs
  BY ElementOfSeq
<1>3. /\ front \in Seq(Runs) /\ Len(front) = k - 1
      /\ \A i \in 1..(k - 1) : front[i] = registry[i]
  BY <1>2, SubSeqProperties
<1>4. /\ back \in Seq(Runs) /\ Len(back) = Len(registry) - k
      /\ \A i \in 1..(Len(registry) - k) : back[i] = registry[k + i]
  BY <1>2, SubSeqProperties
<1> HIDE DEF front, back
<1>5. registry' = front \o back
  BY <1>1 DEF front, back
<1>6. /\ registry' \in Seq(Runs) /\ Len(registry') = Len(registry) - 1
      /\ \A i \in 1..(Len(registry) - 1) :
           registry'[i] = IF i <= k - 1 THEN front[i] ELSE back[i - (k - 1)]
  <2>1. Len(front) + Len(back) = Len(registry) - 1
    BY <1>2, <1>3, <1>4, LenProperties
  <2>2. /\ registry' \in Seq(Runs) /\ Len(registry') = Len(front) + Len(back)
        /\ \A i \in 1..(Len(front) + Len(back)) :
             registry'[i] = IF i <= Len(front) THEN front[i] ELSE back[i - Len(front)]
    BY <1>3, <1>4, <1>5, ConcatProperties
  <2> QED
    BY <1>3, <2>1, <2>2
<1>0. /\ Len(registry) \in Nat /\ DOMAIN registry = 1..Len(registry)
      /\ DOMAIN registry' = 1..(Len(registry) - 1)
  BY <1>2, <1>6, LenProperties
<1>7. ASSUME NEW i \in 1..(Len(registry) - 1)
      PROVE  registry'[i] = IF i <= k - 1 THEN registry[i] ELSE registry[i + 1]
  <2>1. CASE i <= k - 1
    BY <1>0, <1>2, <1>3, <1>6, <2>1
  <2>2. CASE i > k - 1
    <3>1. i - (k - 1) \in 1..(Len(registry) - k) /\ k + (i - (k - 1)) = i + 1
      BY <1>0, <1>2, <2>2
    <3>2. back[i - (k - 1)] = registry[i + 1]
      BY <1>4, <3>1
    <3>3. QED
      BY <1>0, <1>2, <1>6, <2>2, <3>2
  <2>3. QED
    BY <1>0, <1>2, <2>1, <2>2
<1>8. \A i \in DOMAIN registry : registry[i] # r => \E j \in DOMAIN registry' : registry'[j] = registry[i]
  <2> SUFFICES ASSUME NEW i \in 1..Len(registry), registry[i] # r
               PROVE  \E j \in 1..(Len(registry) - 1) : registry'[j] = registry[i]
    BY <1>0
  <2>1. CASE i < k
    <3>1. i \in 1..(Len(registry) - 1) /\ registry'[i] = registry[i]
      BY <1>0, <1>2, <1>7, <2>1
    <3>2. QED
      BY <3>1
  <2>2. CASE i > k
    <3>1. i - 1 \in 1..(Len(registry) - 1) /\ registry'[i - 1] = registry[i]
      BY <1>0, <1>2, <1>7, <2>2
    <3>2. QED
      BY <3>1
  <2>3. i # k
    BY <1>1
  <2>4. i < k \/ i > k
    BY <1>0, <1>2, <2>3
  <2>5. QED
    BY <2>1, <2>2, <2>4
<1>9. \A j \in DOMAIN registry' : \E i \in DOMAIN registry : registry'[j] = registry[i]
  <2> SUFFICES ASSUME NEW j \in 1..(Len(registry) - 1)
               PROVE  \E i \in 1..Len(registry) : registry'[j] = registry[i]
    BY <1>0
  <2>1. registry'[j] = registry[j] \/ registry'[j] = registry[j + 1]
    BY <1>7
  <2>2. QED
    BY <1>0, <2>1
<1>10. \A i, j \in DOMAIN registry' : i < j =>
         \E m, n \in DOMAIN registry :
           m < n /\ registry'[i] = registry[m] /\ registry'[j] = registry[n]
  <2> SUFFICES ASSUME NEW i \in DOMAIN registry', NEW j \in DOMAIN registry', i < j
               PROVE  \E m, n \in DOMAIN registry :
                        m < n /\ registry'[i] = registry[m] /\ registry'[j] = registry[n]
    OBVIOUS
  <2> DEFINE Old(l) == IF l <= k - 1 THEN l ELSE l + 1
  <2>1. /\ registry'[i] = registry[Old(i)]
        /\ registry'[j] = registry[Old(j)]
    BY <1>0, <1>7
  <2>2. Old(i) \in DOMAIN registry /\ Old(j) \in DOMAIN registry /\ Old(i) < Old(j)
    BY <1>0, <1>2
  <2> QED
    BY <2>1, <2>2
<1>11. QED
  BY <1>8, <1>9, <1>10

\* Only four steps touch the registry: opening a run, forgetting it and the two
\* calls of _prune_runs.
LEMMA RegistryUntouched ==
  ASSUME NEW r \in Runs,
         \/ Create(r) \/ Thread(r) \/ Raise(r)
         \/ Worker(r) \/ ReleaseWhenDone(r)
         \/ Cancel(r) \/ Forget(r) \/ Deadline(r),
         ~ Create(r), ~ PruneRuns(r), ~ ReleaseWhenDone(r), ~ Forget(r)
  PROVE  UNCHANGED registry
<1>1. CASE Raise(r) \/ Cancel(r) \/ Deadline(r) \/ Worker(r)
  BY <1>1 DEF Raise, Cancel, Deadline, Worker, WorkerReturns, WorkerEnds
<1>2. CASE Thread(r)
  BY <1>2 DEF Thread, StoreSession, Admit, Refuse, FailBusy, Plan, CheckActiveRaises,
     Iterate, LaunchModel, ModelFails, AnswerWithoutCalls, AnswerWithForbiddenCalls,
     AnswerWithCalls, NextCall, DecidedAtOnce, AskApproval, ReleaseCapacity,
     ApprovalEnds, ReacquireCapacity, Resume, Refused, Allowed, StartTool,
     ToolReturns, EndBatch, NextRound, BeginVerify, VerifyPasses, Complete,
     Persist, Handle, LeaveCapacity
<1>3. QED
  BY <1>1, <1>2

\* A run keeps its run_id.
LEMMA IdsStay ==
  ASSUME NEW r \in Runs,
         \/ Create(r) \/ Thread(r) \/ Raise(r)
         \/ Worker(r) \/ ReleaseWhenDone(r)
         \/ Cancel(r) \/ Forget(r) \/ Deadline(r)
  PROVE  id' = id
<1>1. CASE Create(r) \/ Raise(r) \/ Cancel(r) \/ Forget(r) \/ Deadline(r)
           \/ Worker(r) \/ ReleaseWhenDone(r)
  BY <1>1 DEF Create, Raise, Cancel, Forget, Deadline, Worker, WorkerReturns, WorkerEnds,
     ReleaseWhenDone
<1>2. CASE Thread(r)
  BY <1>2 DEF Thread, StoreSession, Admit, Refuse, FailBusy, Plan, CheckActiveRaises,
     Iterate, LaunchModel, ModelFails, AnswerWithoutCalls, AnswerWithForbiddenCalls,
     AnswerWithCalls, NextCall, DecidedAtOnce, AskApproval, ReleaseCapacity,
     ApprovalEnds, ReacquireCapacity, Resume, Refused, Allowed, StartTool,
     ToolReturns, EndBatch, NextRound, BeginVerify, VerifyPasses, Complete,
     Persist, Handle, LeaveCapacity, PruneRuns
<1> QED
  BY <1>1, <1>2

\* Only Create opens a run, and no run is ever "idle" again.
LEMMA OpenOnce ==
  ASSUME NEW r \in Runs, TypeOK,
         \/ Create(r) \/ Thread(r) \/ Raise(r)
         \/ Worker(r) \/ ReleaseWhenDone(r)
         \/ Cancel(r) \/ Forget(r) \/ Deadline(r)
  PROVE  \A q \in Runs :
           /\ pc[q] # "idle" => pc'[q] # "idle"
           /\ pc[q] = "idle" /\ pc'[q] # "idle" => q = r /\ Create(r)
<1>1. CASE Create(r)
  BY <1>1 DEF Create, TypeOK
<1>2. CASE Raise(r)
  BY <1>2 DEF Raise, TryBlock, TypeOK
<1>3. CASE Cancel(r) \/ Forget(r) \/ Deadline(r) \/ Worker(r) \/ ReleaseWhenDone(r)
  BY <1>3 DEF Cancel, Forget, Deadline, Worker, WorkerReturns, WorkerEnds, ReleaseWhenDone
<1>4. CASE Thread(r)
  <2>1. pc[r] # "idle" /\ pc'[r] # "idle"
    BY <1>4 DEF TypeOK, CheckPoints, Thread, PruneRuns, StoreSession, Admit, Refuse, FailBusy, Plan, CheckActiveRaises,
     Iterate, LaunchModel, ModelFails, AnswerWithoutCalls, AnswerWithForbiddenCalls,
     AnswerWithCalls, NextCall, DecidedAtOnce, AskApproval, ReleaseCapacity,
     ApprovalEnds, ReacquireCapacity, Resume, Refused, Allowed, StartTool,
     ToolReturns, EndBatch, NextRound, BeginVerify, VerifyPasses, Complete,
     Persist, Handle, LeaveCapacity
  <2>2. \A q \in Runs \ {r} : pc'[q] = pc[q]
    BY <1>4 DEF TypeOK, Thread, PruneRuns, StoreSession, Admit, Refuse, FailBusy, Plan, CheckActiveRaises,
     Iterate, LaunchModel, ModelFails, AnswerWithoutCalls, AnswerWithForbiddenCalls,
     AnswerWithCalls, NextCall, DecidedAtOnce, AskApproval, ReleaseCapacity,
     ApprovalEnds, ReacquireCapacity, Resume, Refused, Allowed, StartTool,
     ToolReturns, EndBatch, NextRound, BeginVerify, VerifyPasses, Complete,
     Persist, Handle, LeaveCapacity
  <2>3. QED
    BY <2>1, <2>2
<1>5. QED
  BY <1>1, <1>2, <1>3, <1>4

\* Every step keeps the runs in progress in the registry.
LEMMA RegistryStep ==
  TypeOK /\ StateAtPlace /\ ActiveInRegistry /\ RegistryOpened /\ [Next]_vars
    => ActiveInRegistry' /\ RegistryOpened'
<1> SUFFICES ASSUME TypeOK, StateAtPlace, ActiveInRegistry, RegistryOpened,
                    [Next]_vars
             PROVE  ActiveInRegistry' /\ RegistryOpened'
  OBVIOUS
<1>1. SoundStep
  BY MovesSound
<1>2. \A q \in Runs : Terminal(q) => Terminal(q)'
  BY <1>1 DEF SoundStep
<1>3. registry \in Seq(Runs)
  BY DEF TypeOK
<1>4. ASSUME NEW r \in Runs,
             \/ Create(r) \/ Thread(r) \/ Raise(r)
             \/ Worker(r) \/ ReleaseWhenDone(r)
             \/ Cancel(r) \/ Forget(r) \/ Deadline(r)
      PROVE ActiveInRegistry' /\ RegistryOpened'
  <2>1. \A q \in Runs :
          /\ pc[q] # "idle" => pc'[q] # "idle"
          /\ pc[q] = "idle" /\ pc'[q] # "idle" => q = r /\ Create(r)
    BY <1>4, OpenOnce
  <2>2. CASE Create(r)
    <3> DEFINE before == Append(registry, r)
    <3>1. /\ before \in Seq(Runs) /\ Len(before) = Len(registry) + 1
          /\ before[Len(registry) + 1] = r
          /\ \A i \in 1..Len(registry) : before[i] = registry[i]
          /\ Len(registry) \in Nat /\ DOMAIN registry = 1..Len(registry)
      BY <1>3, AppendProperties, LenProperties
    <3>2. Prune(before) /\ state' = state /\ pc'[r] = "created"
      BY <2>2 DEF Create, TypeOK
    <3> HIDE DEF before
    <3>3. ASSUME NEW q \in Runs, pc'[q] # "idle", ~ Terminal(q)'
          PROVE  \E j \in DOMAIN registry' : registry'[j] = q
      <4>1. PICK i \in 1..Len(before) : before[i] = q
        BY <1>2, <2>1, <3>1, <3>3 DEF ActiveInRegistry
      <4>2. ~ Terminal(before[i])
        BY <3>2, <3>3, <4>1
      <4>3. QED
        BY <3>1, <3>2, <4>1, <4>2, PruneKeepsActive
    <3>4. ASSUME NEW j \in DOMAIN registry' PROVE pc'[registry'[j]] # "idle"
      <4>1. PICK i \in 1..Len(before) : registry'[j] = before[i]
        BY <3>1, <3>2, PruneAddsNothing
      <4>2. before[i] = r \/ i \in 1..Len(registry)
        BY <3>1
      <4>3. before[i] \in Runs
        BY <3>1, ElementOfSeq
      <4>4. QED
        BY <2>1, <3>1, <3>2, <4>1, <4>2, <4>3 DEF RegistryOpened
    <3>5. QED
      BY <3>3, <3>4 DEF ActiveInRegistry, RegistryOpened
  <2>3. CASE PruneRuns(r) \/ ReleaseWhenDone(r)
    <3>1. Prune(registry) /\ state' = state
      BY <2>3 DEF PruneRuns, ReleaseWhenDone
    <3>2. Len(registry) \in Nat /\ DOMAIN registry = 1..Len(registry)
      BY <1>3, LenProperties
    <3>3. ASSUME NEW q \in Runs, pc'[q] # "idle", ~ Terminal(q)'
          PROVE  \E j \in DOMAIN registry' : registry'[j] = q
      <4>1. pc[q] # "idle"
        BY <2>1, <2>3, <3>3 DEF Create, PruneRuns, ReleaseWhenDone, TypeOK
      <4>2. PICK i \in 1..Len(registry) : registry[i] = q
        BY <1>2, <3>2, <3>3, <4>1 DEF ActiveInRegistry
      <4>3. ~ Terminal(registry[i])
        BY <3>1, <3>3, <4>2
      <4>4. QED
        BY <1>3, <3>1, <4>2, <4>3, PruneKeepsActive
    <3>4. ASSUME NEW j \in DOMAIN registry' PROVE pc'[registry'[j]] # "idle"
      <4>1. PICK i \in 1..Len(registry) : registry'[j] = registry[i]
        BY <1>3, <3>1, PruneAddsNothing
      <4>2. registry[i] \in Runs
        BY <1>3, ElementOfSeq
      <4>3. QED
        BY <2>1, <3>2, <4>1, <4>2 DEF RegistryOpened
    <3>5. QED
      BY <3>3, <3>4 DEF ActiveInRegistry, RegistryOpened
  <2>4. CASE Forget(r)
    <3>1. /\ \A i \in DOMAIN registry :
               registry[i] # r => \E j \in DOMAIN registry' : registry'[j] = registry[i]
          /\ \A j \in DOMAIN registry' :
               \E i \in DOMAIN registry : registry'[j] = registry[i]
      BY <1>3, <2>4, ForgetRemovesOne
    <3>2. Terminal(r) /\ state' = state /\ pc' = pc
      BY <2>4 DEF Forget
    <3>3. QED
      BY <3>1, <3>2 DEF ActiveInRegistry, RegistryOpened
  <2>5. CASE ~ Create(r) /\ ~ PruneRuns(r) /\ ~ ReleaseWhenDone(r) /\ ~ Forget(r)
    <3>1. registry' = registry
      BY <1>4, <2>5, RegistryUntouched
    <3>2. \A i \in DOMAIN registry : registry[i] \in Runs
      BY <1>3, ElementOfSeq, LenProperties
    <3>3. ActiveInRegistry'
      BY <1>2, <2>1, <2>5, <3>1 DEF ActiveInRegistry
    <3>4. RegistryOpened'
      BY <2>1, <3>1, <3>2 DEF RegistryOpened
    <3>5. QED
      BY <3>3, <3>4
  <2>6. QED
    BY <2>2, <2>3, <2>4, <2>5
<1>5. CASE UNCHANGED vars
  BY <1>5 DEF vars, ActiveInRegistry, RegistryOpened
<1>6. QED
  BY <1>4, <1>5 DEF Next

\* Every step keeps the run_ids of the registry apart: create_run refuses one that
\* is there.
LEMMA ApartStep == TypeOK /\ RunIdsApart /\ [Next]_vars => RunIdsApart'
<1> SUFFICES ASSUME TypeOK, RunIdsApart, [Next]_vars PROVE RunIdsApart'
  OBVIOUS
<1>1. registry \in Seq(Runs) /\ Len(registry) \in Nat /\ DOMAIN registry = 1..Len(registry)
  BY LenProperties DEF TypeOK
<1>2. ASSUME NEW r \in Runs,
             \/ Create(r) \/ Thread(r) \/ Raise(r)
             \/ Worker(r) \/ ReleaseWhenDone(r)
             \/ Cancel(r) \/ Forget(r) \/ Deadline(r)
      PROVE RunIdsApart'
  <2>0. id' = id
    BY <1>2, IdsStay
  <2>1. CASE Create(r)
    <3> DEFINE before == Append(registry, r)
    <3>1. /\ before \in Seq(Runs) /\ Len(before) = Len(registry) + 1
          /\ before[Len(registry) + 1] = r
          /\ \A i \in 1..Len(registry) : before[i] = registry[i]
      BY <1>1, AppendProperties
    <3>2. Prune(before) /\ \A i \in 1..Len(registry) : id[registry[i]] # id[r]
      BY <1>1, <2>1 DEF Create, Registered
    <3> HIDE DEF before
    <3>3. ASSUME NEW m \in 1..Len(before), NEW n \in 1..Len(before),
                 id[before[m]] = id[before[n]]
          PROVE  m = n
      <4>1. CASE m \in 1..Len(registry) /\ n \in 1..Len(registry)
        BY <1>1, <3>1, <3>3, <4>1 DEF RunIdsApart
      <4>2. CASE m = Len(registry) + 1 /\ n \in 1..Len(registry)
        BY <3>1, <3>2, <3>3, <4>2
      <4>3. CASE m \in 1..Len(registry) /\ n = Len(registry) + 1
        BY <3>1, <3>2, <3>3, <4>3
      <4> QED
        BY <1>1, <3>1, <4>1, <4>2, <4>3
    <3> QED
      BY <2>0, <3>1, <3>2, <3>3, PruneKeepsApart DEF RunIdsApart
  <2>2. CASE PruneRuns(r) \/ ReleaseWhenDone(r)
    <3>1. Prune(registry)
      BY <2>2 DEF PruneRuns, ReleaseWhenDone
    <3>2. \A m, n \in 1..Len(registry) : id[registry[m]] = id[registry[n]] => m = n
      BY <1>1 DEF RunIdsApart
    <3> QED
      BY <1>1, <2>0, <3>1, <3>2, PruneKeepsApart DEF RunIdsApart
  <2>3. CASE Forget(r)
    <3>1. \A i, j \in DOMAIN registry' : i < j =>
            \E m, n \in DOMAIN registry :
              m < n /\ registry'[i] = registry[m] /\ registry'[j] = registry[n]
      BY <1>1, <2>3, ForgetRemovesOne
    <3>2. registry' \in Seq(Runs)
      BY <1>1, <2>3, ForgetType
    <3>3. DOMAIN registry' \subseteq Nat
      BY <3>2, LenProperties
    <3>4. ASSUME NEW i \in DOMAIN registry', NEW j \in DOMAIN registry', i < j
          PROVE  id[registry'[i]] # id[registry'[j]]
      BY <1>1, <3>1, <3>4 DEF RunIdsApart
    <3> QED
      BY <2>0, <3>3, <3>4 DEF RunIdsApart
  <2>4. CASE ~ Create(r) /\ ~ PruneRuns(r) /\ ~ ReleaseWhenDone(r) /\ ~ Forget(r)
    BY <1>2, <2>0, <2>4, RegistryUntouched DEF RunIdsApart
  <2> QED
    BY <2>1, <2>2, <2>3, <2>4
<1>3. CASE UNCHANGED vars
  BY <1>3 DEF vars, RunIdsApart
<1> QED
  BY <1>2, <1>3 DEF Next
-----------------------------------------------------------------------------
(* The inductive invariant and what follows from it.                       *)

Invariant ==
  /\ TypeOK
  /\ CountersAtPlace
  /\ StateAtPlace
  /\ PermitAtPlace
  /\ ToolsAtPlace
  /\ GateConserved
  /\ CancelledNeverCompletes
  /\ ActiveRunsRegistered
  /\ RegistryOpened

\* The invariant holds when the runtime is built (AgentRuntime.__init__).
LEMMA InvariantInit == Init => Invariant
<1> SUFFICES ASSUME Init PROVE Invariant
  OBVIOUS
<1>1. TypeOK
  <2>1. registry \in Seq(Runs)
    BY EmptySeq DEF Init
  <2>2. QED
    BY <2>1, RuntimeAssumption DEF Init, TypeOK, RunStates, Locations, WorkerStates
<1>2. CountersAtPlace /\ StateAtPlace /\ ToolsAtPlace
  BY DEF Init, CountersAtPlace, StateAtPlace, ToolsAtPlace
<1>3. PermitAtPlace
  BY DEF Init, PermitAtPlace, Owning
<1>4. GateConserved
  <2>1. Owners = {}
    BY DEF Init, Owners
  <2>2. QED
    BY <2>1, FS_EmptySet, RuntimeAssumption DEF Init, GateConserved
<1>5. CancelledNeverCompletes
  BY DEF Init, CancelledNeverCompletes
<1>6. ActiveRunsRegistered /\ RegistryOpened
  BY DEF Init, ActiveRunsRegistered, ActiveInRegistry, RunIdsApart, RegistryOpened
<1>7. QED
  BY <1>1, <1>2, <1>3, <1>4, <1>5, <1>6 DEF Invariant

\* Every step of every thread keeps the invariant.
LEMMA InvariantStep == Invariant /\ [Next]_vars => Invariant'
  BY TypeStep, CountersStep, StateStep, PermitStep, ToolsStep, GateStep,
     CancelStep, RegistryStep, ApartStep DEF Invariant, ActiveRunsRegistered

\* Every reachable state satisfies the inductive invariant.
THEOREM InvariantHolds == Spec => []Invariant
  BY InvariantInit, InvariantStep, PTL DEF Spec

\* Types: the states, places and counters of the code.
THEOREM TypeCorrect == Spec => []TypeOK
<1>1. Invariant => TypeOK
  BY DEF Invariant
<1> QED
  BY <1>1, InvariantHolds, PTL

\* For any number of runs and permits, no permit is lost or returned twice.
THEOREM GateIsConserved == Spec => []GateConserved
<1>1. Invariant => GateConserved
  BY DEF Invariant
<1> QED
  BY <1>1, InvariantHolds, PTL

\* Never more than Concurrency model calls, cancelled and timed-out ones
\* included: a running call has an owner, and owners are bounded.
THEOREM ModelCallsAreBounded == Spec => []ModelCallsBounded
<1>1. Invariant => ModelCallsBounded
  <2> SUFFICES ASSUME Invariant PROVE ModelCallsBounded
    OBVIOUS
  <2> DEFINE running == {r \in Runs : worker[r] = "running"}
  <2>1. running \subseteq Owners
    BY DEF Invariant, PermitAtPlace, Owners
  <2>2. Cardinality(running) <= Cardinality(Owners)
    BY <2>1, OwnersFinite, FS_Subset
  <2>3. Cardinality(Owners) <= Concurrency
    <3>1. Cardinality(Owners) \in Nat
      BY OwnersFinite, FS_CardinalityType
    <3>2. QED
      BY <3>1, RuntimeAssumption DEF Invariant, GateConserved, TypeOK
  <2>4. Cardinality(running) \in Nat
    BY <2>1, OwnersFinite, FS_Subset, FS_CardinalityType
  <2>5. Cardinality(Owners) \in Nat
    BY OwnersFinite, FS_CardinalityType
  <2>6. QED
    BY <2>2, <2>3, <2>4, <2>5, RuntimeAssumption DEF ModelCallsBounded
<1> QED
  BY <1>1, InvariantHolds, PTL

\* An accepted cancellation and the outcome "completed" exclude each other.
THEOREM CancelWins == Spec => []CancelledNeverCompletes
<1>1. Invariant => CancelledNeverCompletes
  BY DEF Invariant
<1> QED
  BY <1>1, InvariantHolds, PTL

\* At most one tool starts after an accepted cancellation.
THEOREM AtMostOneLateTool == Spec => []OneToolAfterCancel
<1>1. Invariant => OneToolAfterCancel
  BY DEF Invariant, ToolsAtPlace, OneToolAfterCancel
<1> QED
  BY <1>1, InvariantHolds, PTL

\* A run in progress can always be looked up by its run_id.
THEOREM ActiveRunsFound == Spec => []ActiveRunsRegistered
<1>1. Invariant => ActiveRunsRegistered
  BY DEF Invariant
<1> QED
  BY <1>1, InvariantHolds, PTL

\* Every change of state is one of TRANSITIONS; outcomes are final.
THEOREM MovesAreLegal == Spec => LegalMoves
<1>1. Invariant /\ [Next]_vars
        => [\A r \in Runs : state'[r] # state[r] => state'[r] \in Transitions[state[r]]]_vars
  BY MovesSound DEF Invariant, SoundStep
<1> QED
  BY <1>1, InvariantHolds, PTL DEF Spec, LegalMoves
-----------------------------------------------------------------------------
(* The runtime implements the abstract service.                            *)

\* A step that opens no run and ends none leaves the phases alone.
LEMMA PhaseUnchanged ==
  ASSUME TypeOK,
         \A q \in Runs : (pc[q] = "idle") <=> (pc'[q] = "idle"),
         \A q \in Runs : state'[q] # state[q] => ~ Terminal(q) /\ ~ Terminal(q)'
  PROVE  Phase' = Phase
<1>1. ASSUME NEW q \in Runs PROVE Phase'[q] = Phase[q]
  BY <1>1 DEF Phase
<1>2. QED
  BY <1>1 DEF Phase

\* A step that ends the active run r with an outcome.
LEMMA PhaseSettles ==
  ASSUME TypeOK, NEW r \in Runs, NEW outcome \in TerminalStates,
         pc[r] # "idle", ~ Terminal(r), state' = [state EXCEPT ![r] = outcome],
         \A q \in Runs : (pc[q] = "idle") <=> (pc'[q] = "idle")
  PROVE  Phase[r] = "active" /\ Phase' = [Phase EXCEPT ![r] = outcome]
<1>1. Phase[r] = "active"
  BY DEF Phase
<1>2. \A q \in Runs : Phase'[q] = IF q = r THEN outcome ELSE Phase[q]
  BY DEF Phase, TypeOK
<1>3. QED
  BY <1>1, <1>2 DEF Phase

\* The runtime starts as an empty service.
LEMMA ServiceInit == Init => Service!Init
<1> SUFFICES ASSUME Init PROVE Service!Init
  OBVIOUS
<1>1. Phase = [r \in Runs |-> "absent"]
  BY DEF Init, Phase
<1>2. Requested = {} /\ Owners = {} /\ Calling = {}
  BY DEF Init, Requested, Owners, Calling
<1>3. QED
  BY <1>1, <1>2 DEF Service!Init

\* Only these steps change what the service shows of a run.
LEMMA ServiceUntouched ==
  ASSUME NEW r \in Runs, TypeOK, StateAtPlace,
         \/ Create(r) \/ Thread(r) \/ Raise(r)
         \/ Worker(r) \/ ReleaseWhenDone(r)
         \/ Cancel(r) \/ Forget(r) \/ Deadline(r),
         ~ Create(r), ~ Cancel(r), ~ FailBusy(r), ~ Handle(r), ~ Complete(r),
         ~ Admit(r), ~ ReacquireCapacity(r), ~ ReleaseCapacity(r),
         ~ LeaveCapacity(r), ~ ReleaseWhenDone(r), ~ LaunchModel(r),
         ~ WorkerReturns(r)
  PROVE  UNCHANGED <<Phase, Requested, Owners, Calling>>
<1>1. Owners' = Owners
  BY GateUntouched DEF Owners
<1>2. /\ UNCHANGED cancel
      /\ \A q \in Runs : (worker[q] = "running") <=> (worker'[q] = "running")
      /\ \A q \in Runs : state'[q] # state[q] => ~ Terminal(q) /\ ~ Terminal(q)'
  <2>1. CASE Raise(r) \/ Forget(r) \/ Deadline(r)
    BY <2>1 DEF Raise, Forget, Deadline
  <2>2. CASE WorkerEnds(r)
    BY <2>2 DEF WorkerEnds, TypeOK
  <2>3. CASE Plan(r) \/ AnswerWithCalls(r) \/ AskApproval(r) \/ Resume(r)
             \/ EndBatch(r) \/ NextRound(r) \/ BeginVerify(r)
    BY <2>3 DEF Plan, AnswerWithCalls, AskApproval, Resume, EndBatch, NextRound,
       BeginVerify, StateAtPlace, TerminalStates, TypeOK
  <2>4. CASE Thread(r) /\ ~ (Plan(r) \/ AnswerWithCalls(r) \/ AskApproval(r)
             \/ Resume(r) \/ EndBatch(r) \/ NextRound(r) \/ BeginVerify(r))
    BY <2>4 DEF Thread, StoreSession, Refuse, CheckActiveRaises, Iterate, ModelFails,
       AnswerWithoutCalls, AnswerWithForbiddenCalls, NextCall, DecidedAtOnce,
       ApprovalEnds, Refused, Allowed, StartTool, ToolReturns, VerifyPasses,
       Persist, PruneRuns
  <2>5. QED
    BY <2>1, <2>2, <2>3, <2>4 DEF Worker
<1>3. \A q \in Runs : (pc[q] = "idle") <=> (pc'[q] = "idle")
  BY OpenOnce
<1>4. Phase' = Phase
  BY <1>2, <1>3, PhaseUnchanged
<1>5. Requested' = Requested /\ Calling' = Calling
  BY <1>2 DEF Requested, Calling
<1>6. QED
  BY <1>1, <1>4, <1>5

\* Every step of a thread is a step of the service or one it does not see.
LEMMA ServiceStep == Invariant /\ [Next]_vars => [Service!Next]_(Service!vars)
<1> SUFFICES ASSUME Invariant, [Next]_vars PROVE [Service!Next]_(Service!vars)
  OBVIOUS
<1> USE DEF Invariant
<1>1. ASSUME NEW r \in Runs,
             \/ Create(r) \/ Thread(r) \/ Raise(r)
             \/ Worker(r) \/ ReleaseWhenDone(r)
             \/ Cancel(r) \/ Forget(r) \/ Deadline(r)
      PROVE [Service!Next]_(Service!vars)
  <2>1. ASSUME ~ Create(r) PROVE \A q \in Runs : (pc[q] = "idle") <=> (pc'[q] = "idle")
    BY <1>1, <2>1, OpenOnce
  <2>2. Cardinality(Owners) \in Nat /\ permits + Cardinality(Owners) = Concurrency
    BY OwnersFinite, FS_CardinalityType DEF GateConserved
  <2>3. CASE Create(r)
    <3>1. UNCHANGED <<state, cancel, held, releaser, worker>>
      BY <2>3 DEF Create
    <3>2. Requested' = Requested /\ Owners' = Owners /\ Calling' = Calling
      BY <3>1 DEF Requested, Owners, Calling
    <3>3. Phase[r] = "absent"
      BY <2>3 DEF Create, Phase
    <3>4. \A q \in Runs : Phase'[q] = IF q = r THEN "active" ELSE Phase[q]
      BY <2>3, <3>1 DEF Create, Phase, TypeOK, StateAtPlace, TerminalStates
    <3>5. Phase' = [Phase EXCEPT ![r] = "active"]
      BY <3>4 DEF Phase
    <3>6. Service!Open(r)
      BY <3>2, <3>3, <3>5 DEF Service!Open
    <3>7. QED
      BY <3>6 DEF Service!Next
  <2>4. CASE Cancel(r)
    <3>1. pc[r] # "idle" /\ ~ Terminal(r) /\ cancel' = [cancel EXCEPT ![r] = TRUE]
      BY <2>4 DEF Cancel, Cancellable, RegistryOpened
    <3>2. UNCHANGED <<state, pc, held, releaser, worker>>
      BY <2>4 DEF Cancel
    <3>3. Phase' = Phase /\ Owners' = Owners /\ Calling' = Calling
      BY <3>2 DEF Phase, Owners, Calling
    <3>4. Phase[r] = "active" /\ Requested' = Requested \cup {r}
      BY <3>1 DEF Phase, Requested, TypeOK
    <3>5. Service!RequestCancel(r)
      BY <3>3, <3>4 DEF Service!RequestCancel
    <3>6. QED
      BY <3>5 DEF Service!Next
  <2>5. CASE FailBusy(r) \/ Handle(r) \/ Complete(r)
    <3>1. UNCHANGED <<cancel, held, releaser, worker>> /\ pc[r] # "idle"
      BY <2>5 DEF FailBusy, Handle, Complete
    <3>2. Requested' = Requested /\ Owners' = Owners /\ Calling' = Calling
      BY <3>1 DEF Requested, Owners, Calling
    <3>3. \A q \in Runs : (pc[q] = "idle") <=> (pc'[q] = "idle")
      BY <2>1, <2>5, <3>1 DEF Create
    <3>4. CASE state' = state
      BY <3>2, <3>3, <3>4, PhaseUnchanged DEF Service!vars
    <3>5. ASSUME NEW outcome \in TerminalStates, ~ Terminal(r),
                 state' = [state EXCEPT ![r] = outcome],
                 outcome = "completed" => ~ cancel[r]
          PROVE  Service!Next
      <4>1. Phase[r] = "active" /\ Phase' = [Phase EXCEPT ![r] = outcome]
        BY <3>1, <3>3, <3>5, PhaseSettles
      <4>2. outcome = "completed" => r \notin Requested
        BY <3>5 DEF Requested
      <4>3. Service!Settle(r, outcome)
        BY <3>2, <4>1, <4>2 DEF Service!Settle
      <4>4. outcome \in Service!Outcomes
        BY DEF Service!Outcomes, TerminalStates
      <4>5. QED
        BY <4>3, <4>4 DEF Service!Next
    <3>6. \/ state' = state
          \/ \E outcome \in TerminalStates :
               /\ ~ Terminal(r)
               /\ state' = [state EXCEPT ![r] = outcome]
               /\ outcome = "completed" => ~ cancel[r]
      BY <2>5 DEF FailBusy, Handle, Complete, Terminate, Active, StateAtPlace, TerminalStates
    <3>7. QED
      BY <3>4, <3>5, <3>6
  <2>6. CASE Admit(r) \/ ReacquireCapacity(r)
    <3>1. ~ held[r] /\ ~ releaser[r] /\ pc[r] # "idle" /\ ~ Terminal(r)
      BY <2>6 DEF Admit, ReacquireCapacity, PermitAtPlace, StateAtPlace, Owning,
         Ending, TerminalStates
    <3>2. Owners' = Owners \cup {r} /\ r \notin Owners
      BY <2>6, <3>1, PermitTaken DEF Admit, ReacquireCapacity
    <3>3. Cardinality(Owners) < Concurrency
      BY <2>2, <2>6, RuntimeAssumption DEF Admit, ReacquireCapacity, TypeOK
    <3>4. UNCHANGED <<state, cancel, worker>>
      BY <2>6 DEF Admit, ReacquireCapacity
    <3>5. \A q \in Runs : (pc[q] = "idle") <=> (pc'[q] = "idle")
      BY <2>1, <2>6, <3>1 DEF Create
    <3>6. Phase' = Phase /\ Requested' = Requested /\ Calling' = Calling
      BY <3>4, <3>5, PhaseUnchanged DEF Requested, Calling
    <3>7. Phase[r] = "active"
      BY <3>1 DEF Phase
    <3>8. r \notin Owners /\ Owners' = Owners \cup {r}
      BY <3>2
    <3>9. UNCHANGED <<Phase, Requested, Calling>>
      BY <3>6
    <3>10. Service!TakeSlot(r)
      BY <3>3, <3>7, <3>8, <3>9 DEF Service!TakeSlot, Service!Cardinality, Cardinality
    <3>11. QED
      BY <3>10 DEF Service!Next
  <2>7. CASE LaunchModel(r)
    <3>1. UNCHANGED <<state, cancel, held, releaser>> /\ pc[r] # "idle"
      BY <2>7 DEF LaunchModel
    <3>2. \A q \in Runs : (pc[q] = "idle") <=> (pc'[q] = "idle")
      BY <2>1, <2>7, <3>1 DEF Create
    <3>3. Phase' = Phase /\ Requested' = Requested /\ Owners' = Owners
      BY <3>1, <3>2, PhaseUnchanged DEF Requested, Owners
    <3>4. r \in Owners \ Calling /\ Phase[r] = "active"
      BY <2>7 DEF LaunchModel, PermitAtPlace, StateAtPlace, Owning, Ending, Owners,
         Calling, Phase, TerminalStates
    <3>5. Calling' = Calling \cup {r}
      BY <2>7 DEF LaunchModel, Calling, TypeOK
    <3>6. Service!BeginCall(r)
      BY <3>3, <3>4, <3>5 DEF Service!BeginCall
    <3>7. QED
      BY <3>6 DEF Service!Next
  <2>8. CASE WorkerReturns(r)
    <3>1. UNCHANGED <<state, cancel, pc, held, releaser>>
      BY <2>8 DEF WorkerReturns
    <3>2. Phase' = Phase /\ Requested' = Requested /\ Owners' = Owners
      BY <3>1 DEF Phase, Requested, Owners
    <3>3. r \in Calling /\ Calling' = Calling \ {r}
      BY <2>8 DEF WorkerReturns, Calling, TypeOK
    <3>4. Service!EndCall(r)
      BY <3>2, <3>3 DEF Service!EndCall
    <3>5. QED
      BY <3>4 DEF Service!Next
  <2>9. CASE ReleaseCapacity(r) \/ LeaveCapacity(r) \/ ReleaseWhenDone(r)
    <3>1. UNCHANGED <<state, cancel, worker>>
      BY <2>9 DEF ReleaseCapacity, LeaveCapacity, ReleaseWhenDone
    <3>2. \A q \in Runs : (pc[q] = "idle") <=> (pc'[q] = "idle")
      BY <2>1, <2>9 DEF Create, ReleaseCapacity, LeaveCapacity, ReleaseWhenDone, TypeOK
    <3>3. Phase' = Phase /\ Requested' = Requested /\ Calling' = Calling
      BY <3>1, <3>2, PhaseUnchanged DEF Requested, Calling
    <3>4. \/ Owners' = Owners
          \/ r \in Owners \ Calling /\ Owners' = Owners \ {r}
      <4>1. CASE ReleaseCapacity(r)
        BY <4>1 DEF ReleaseCapacity, PermitAtPlace, Owning, Ending, Owners, Calling, TypeOK
      <4>2. CASE LeaveCapacity(r) /\ held[r] /\ CallUnderWay(r)
        BY <4>2 DEF LeaveCapacity, Owners, TypeOK
      <4>3. CASE LeaveCapacity(r) /\ held[r] /\ ~ CallUnderWay(r)
        <5>1. ~ releaser[r] /\ worker[r] = "idle"
          BY <4>3 DEF GateConserved, CallUnderWay
        <5>2. held' = [held EXCEPT ![r] = FALSE] /\ releaser' = releaser
          BY <4>3 DEF LeaveCapacity
        <5>3. QED
          BY <4>3, <5>1, <5>2 DEF Owners, Calling, TypeOK
      <4>4. CASE LeaveCapacity(r) /\ ~ held[r]
        BY <4>4 DEF LeaveCapacity, Owners, TypeOK
      <4>5. CASE ReleaseWhenDone(r)
        BY <4>5 DEF ReleaseWhenDone, CallDone, GateConserved, Owners, Calling, TypeOK
      <4>6. QED
        BY <2>9, <4>1, <4>2, <4>3, <4>4, <4>5
    <3>5. CASE Owners' = Owners
      BY <3>3, <3>5 DEF Service!vars
    <3>6. CASE r \in Owners \ Calling /\ Owners' = Owners \ {r}
      <4>1. Service!GiveUpSlot(r)
        BY <3>3, <3>6 DEF Service!GiveUpSlot
      <4>2. QED
        BY <4>1 DEF Service!Next
    <3>7. QED
      BY <3>4, <3>5, <3>6
  <2>10. CASE /\ ~ Create(r) /\ ~ Cancel(r) /\ ~ FailBusy(r) /\ ~ Handle(r)
              /\ ~ Complete(r) /\ ~ Admit(r) /\ ~ ReacquireCapacity(r)
              /\ ~ ReleaseCapacity(r) /\ ~ LeaveCapacity(r)
              /\ ~ ReleaseWhenDone(r) /\ ~ LaunchModel(r) /\ ~ WorkerReturns(r)
    <3>1. UNCHANGED <<Phase, Requested, Owners, Calling>>
      BY <1>1, <2>10, ServiceUntouched
    <3>2. QED
      BY <3>1 DEF Service!vars
  <2>11. QED
    BY <2>3, <2>4, <2>5, <2>6, <2>7, <2>8, <2>9, <2>10
<1>2. CASE UNCHANGED vars
  BY <1>2 DEF vars, Service!vars, Phase, Requested, Owners, Calling
<1>3. QED
  BY <1>1, <1>2 DEF Next

\* Every behaviour of the runtime is one of the abstract service: a run settles
\* once, never as completed after an accepted cancellation, and a slot is kept
\* for as long as the call it was taken for runs.
THEOREM RuntimeImplementsService == Spec => ImplementsService
  BY InvariantHolds, ServiceInit, ServiceStep, PTL
  DEF Spec, ImplementsService, Service!Spec
=============================================================================
