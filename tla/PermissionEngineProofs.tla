------------------------ MODULE PermissionEngineProofs ------------------------
(***************************************************************************)
(* Proofs about PermissionEngine, for any number of runs, owners, tools    *)
(* and calls: one lemma per conjunct of the inductive invariant, then the  *)
(* theorems.                                                               *)
(***************************************************************************)
EXTENDS PermissionEngine, TLAPS

USE DEF Goto, Current, CurrentTool, memory, store, history, Requests

\* The inductive invariant.
Invariant ==
  /\ TypeOK
  /\ CallAtPlace
  /\ StatusAtPlace
  /\ RowAtPlace
  /\ ListedAtPlace
  /\ OpenRows
  /\ DenialsHeld
  /\ DoneForgets
  /\ GrantsAnswered
  /\ DispatchCovered
  /\ StartedWithConsent
  /\ DeniedNeverStarts
-----------------------------------------------------------------------------
\* A row whose status is replaced is a row.
LEMMA StatusReplaced ==
  ASSUME NEW x \in Rows, NEW s \in Statuses
  PROVE  [x EXCEPT !.status = s] \in Rows
  BY DEF Rows

\* A call to come has no row and has not started.
LEMMA CallToCome ==
  ASSUME CallAtPlace, NEW q \in Runs, NEW i \in 1..MaxCalls, i > number[q]
  PROVE  row[<<q, i>>] = NoRow /\ <<q, i>> \notin started
  BY DEF CallAtPlace

\* A run that has not begun has no rows.
LEMMA NewRun ==
  ASSUME CallAtPlace, NEW q \in Runs, NEW i \in 1..MaxCalls, pc[q] = "new"
  PROVE  row[<<q, i>>] = NoRow
<1>1. number[q] = 0
  BY DEF CallAtPlace
<1>2. i > 0
  BY EngineAssumption
<1> QED
  BY <1>1, <1>2, CallToCome

\* Every step keeps the types; a stored grant names the tool of a listed call.
LEMMA TypeStep == TypeOK /\ CallAtPlace /\ ListedAtPlace /\ [Next]_vars => TypeOK'
<1> SUFFICES ASSUME TypeOK, CallAtPlace, ListedAtPlace, [Next]_vars PROVE TypeOK'
  OBVIOUS
<1> USE EngineAssumption
<1>1. ASSUME NEW r \in Runs, Thread(r) \/ Cancel(r) PROVE TypeOK'
  <2>1. CASE Start(r)
    BY <2>1 DEF Start, TypeOK, Locations, Statuses, Answers, Scopes, Rows, NoRow
  <2>2. CASE UseGrant(r)
    BY <2>2 DEF UseGrant, Granted, TypeOK, Locations, Statuses, Answers, Scopes, Rows, NoRow
  <2>3. CASE Register(r)
    <3>1. Current(r) \in Requests
      BY <2>3 DEF Register, CallAtPlace, Asking
    <3> QED
      BY <2>3, <3>1 DEF Register, TypeOK, Locations, Statuses
  <2>4. CASE InsertRow(r)
    BY <2>4 DEF InsertRow, TypeOK, Locations, Statuses, Answers, Scopes, Rows, NoRow
  <2>5. CASE StoreRaises(r)
    BY <2>5 DEF StoreRaises, TypeOK, Locations, Statuses, Answers, Scopes, Rows, NoRow
  <2>6. CASE GiveUp(r)
    BY <2>6 DEF GiveUp, MayGiveUp, TypeOK, Locations, Statuses, Answers, Scopes, Rows, NoRow
  <2>7. CASE RecordOutcome(r)
    <3>1. Current(r) \in Requests /\ status[r] \in Statuses
      BY <2>7 DEF RecordOutcome, CallAtPlace, Asking, TypeOK
    <3>2. row' \in [Requests -> Rows]
      <4>1. [row[Current(r)] EXCEPT !.status = status[r]] \in Rows
        BY <3>1, StatusReplaced DEF TypeOK
      <4>2. CASE row[Current(r)].status = "pending"
        BY <2>7, <3>1, <4>1, <4>2 DEF RecordOutcome, TypeOK
      <4>3. CASE row[Current(r)].status # "pending"
        BY <2>7, <4>3 DEF RecordOutcome, TypeOK
      <4> QED
        BY <4>2, <4>3
    <3>3. pc' \in [Runs -> Locations]
      BY <2>7 DEF RecordOutcome, TypeOK, Locations
    <3> QED
      BY <2>7, <3>2, <3>3 DEF RecordOutcome, TypeOK
  <2>8. CASE RecordFails(r)
    BY <2>8 DEF RecordFails, TypeOK, Locations, Statuses, Answers, Scopes, Rows, NoRow
  <2>9. CASE Resume(r)
    <3>1. CurrentTool(r) \in Tools
      BY <2>9 DEF Resume, CallAtPlace, Asking
    <3>2. DeniedAfter(r) \in SUBSET Tools
      BY <3>1 DEF DeniedAfter, TypeOK
    <3> QED
      BY <2>9, <3>2 DEF Resume, TypeOK, Locations
  <2>10. CASE Settle(r)
    BY <2>10 DEF Settle, Approved, TypeOK, Locations, Statuses, Answers, Scopes, Rows, NoRow
  <2>11. CASE Dispatch(r)
    <3>1. Current(r) \in Requests
      BY <2>11 DEF Dispatch, CallAtPlace, Asking
    <3> QED
      BY <2>11, <3>1 DEF Dispatch, TypeOK, Locations
  <2>12. CASE Finish(r)
    BY <2>12 DEF Finish, ListedAfter, TypeOK, Locations, Statuses, Answers, Scopes, Rows, NoRow
  <2>13. CASE Cancel(r)
    BY <2>13 DEF Cancel, TypeOK, Locations, Statuses, Answers, Scopes, Rows, NoRow
  <2>14. ASSUME NEW t \in Tools, Call(r, t) PROVE TypeOK'
    <3>1. /\ number' \in [Runs -> 0..MaxCalls]
          /\ tool' \in [Requests -> Tools \cup {NoTool}]
          /\ pc' \in [Runs -> Locations]
      BY <2>14 DEF Call, TypeOK, Locations
    <3> QED
      BY <2>14, <3>1 DEF Call, TypeOK
  <2> QED
    BY <1>1, <2>1, <2>2, <2>3, <2>4, <2>5, <2>6, <2>7, <2>8, <2>9, <2>10, <2>11, <2>12, <2>13, <2>14 DEF Thread
<1>2. ASSUME NEW a \in Requests, NEW answer \in Answers, NEW scope \in Scopes,
             Decide(a, answer, scope)
      PROVE TypeOK'
  <2>1. tool[a] \in Tools /\ owner[a[1]] \in Users
    BY <1>2 DEF Decide, Decidable, TypeOK, CallAtPlace, ListedAtPlace, Asking
  <2>2. /\ status' \in [Runs -> Statuses]
        /\ row' \in [Requests -> Rows]
    BY <1>2 DEF Decide, TypeOK, Statuses, Answers, Scopes, Rows
  <2>3. MakesGrant(answer, scope) =>
          Grant(a, scope) \in [scope : Scopes \ {"once"}, owner : Users, tool : Tools,
                               runs : SUBSET Runs]
    BY <2>1 DEF MakesGrant, Grant
  <2> QED
    BY <1>2, <2>2, <2>3 DEF Decide, TypeOK
<1>3. ASSUME NEW g \in grants, Revoke(g) PROVE TypeOK'
  BY <1>3 DEF Revoke, TypeOK, Locations, Statuses, Answers, Scopes, Rows, NoRow
<1>4. CASE Restart
  BY <1>4 DEF Restart, RecoveredRows, TypeOK, Locations, Statuses, Answers, Scopes, Rows, NoRow
<1>5. CASE UNCHANGED vars
  BY <1>5 DEF vars, TypeOK, Locations, Statuses, Answers, Scopes, Rows, NoRow
<1> QED
  BY <1>1, <1>2, <1>3, <1>4, <1>5 DEF Next

\* Every step keeps what is true of calls being decided and of calls to come.
LEMMA CallStep == TypeOK /\ CallAtPlace /\ RowAtPlace /\ ListedAtPlace /\ [Next]_vars => CallAtPlace'
<1> SUFFICES ASSUME TypeOK, CallAtPlace, RowAtPlace, ListedAtPlace, [Next]_vars PROVE CallAtPlace'
  OBVIOUS
<1> USE EngineAssumption
<1>1. ASSUME NEW r \in Runs, Thread(r) \/ Cancel(r) PROVE CallAtPlace'
  <2>1. CASE Start(r)
    BY <2>1 DEF Start, TypeOK, CallAtPlace, ListedAtPlace, Asking, NoRow
  <2>2. CASE UseGrant(r)
    BY <2>2 DEF UseGrant, Granted, TypeOK, CallAtPlace, ListedAtPlace, Asking, NoRow
  <2>3. CASE Register(r)
    BY <2>3 DEF Register, Granted, TypeOK, CallAtPlace, ListedAtPlace, Asking, NoRow
  <2>4. CASE InsertRow(r)
    BY <2>4 DEF InsertRow, TypeOK, CallAtPlace, ListedAtPlace, Asking, NoRow
  <2>5. CASE StoreRaises(r)
    BY <2>5 DEF StoreRaises, TypeOK, CallAtPlace, ListedAtPlace, Asking, NoRow
  <2>6. CASE GiveUp(r)
    BY <2>6 DEF GiveUp, MayGiveUp, TypeOK, CallAtPlace, ListedAtPlace, Asking, NoRow
  <2>7. CASE RecordOutcome(r)
    BY <2>7 DEF RecordOutcome, TypeOK, CallAtPlace, ListedAtPlace, Asking, NoRow
  <2>8. CASE RecordFails(r)
    BY <2>8 DEF RecordFails, TypeOK, CallAtPlace, ListedAtPlace, Asking, NoRow
  <2>9. CASE Resume(r)
    BY <2>9 DEF Resume, DeniedAfter, TypeOK, CallAtPlace, ListedAtPlace, Asking, NoRow
  <2>10. CASE Settle(r)
    BY <2>10 DEF Settle, Approved, TypeOK, CallAtPlace, ListedAtPlace, Asking, NoRow
  <2>11. CASE Dispatch(r)
    BY <2>11 DEF Dispatch, TypeOK, CallAtPlace, ListedAtPlace, Asking, NoRow
  <2>12. CASE Finish(r)
    BY <2>12 DEF Finish, ListedAfter, TypeOK, CallAtPlace, ListedAtPlace, Asking, NoRow
  <2>13. CASE Cancel(r)
    BY <2>13 DEF Cancel, TypeOK, CallAtPlace, ListedAtPlace, Asking, NoRow
  <2>14. ASSUME NEW t \in Tools, Call(r, t) PROVE CallAtPlace'
    <3>1. /\ number[r] \in Nat /\ number[r] + 1 \in 1..MaxCalls
          /\ number'[r] = number[r] + 1
          /\ \A q \in Runs : q # r => number'[q] = number[q]
      BY <2>14 DEF Call, TypeOK
    <3>2. /\ tool'[<<r, number[r] + 1>>] = t
          /\ \A b \in Requests : b # <<r, number[r] + 1>> => tool'[b] = tool[b]
      BY <2>14, <3>1 DEF Call, TypeOK
    <3>3. /\ pc'[r] \in {"ready", "lookup"}
          /\ pc'[r] = "lookup" => t \notin denied[r]
          /\ \A q \in Runs : q # r => pc'[q] = pc[q]
      BY <2>14 DEF Call, TypeOK
    <3>4. ASSUME NEW q \in Runs, pc'[q] \in Asking \cup {"raised"}
          PROVE  <<q, number'[q]>> \in Requests \ started /\ tool'[<<q, number'[q]>>] \in Tools
      <4>1. CASE q = r
        <5>1. <<r, number[r] + 1>> \in Requests \ started
          BY <3>1, CallToCome
        <5> QED
          BY <3>1, <3>2, <4>1, <5>1
      <4>2. CASE q # r
        <5>1. <<q, number[q]>> \in Requests \ started /\ tool[<<q, number[q]>>] \in Tools
          BY <3>3, <3>4, <4>2 DEF CallAtPlace
        <5> QED
          BY <3>1, <3>2, <4>2, <5>1
      <4> QED
        BY <4>1, <4>2
    <3>5. ASSUME NEW q \in Runs, NEW i \in 1..MaxCalls, i > number'[q]
          PROVE  i > number[q]
      BY <3>1, <3>5 DEF TypeOK
    <3>6. UNCHANGED <<row, started>> /\ pc[r] = "ready"
      BY <2>14 DEF Call
    <3> QED
      BY <3>1, <3>3, <3>4, <3>5, <3>6 DEF CallAtPlace
  <2> QED
    BY <1>1, <2>1, <2>2, <2>3, <2>4, <2>5, <2>6, <2>7, <2>8, <2>9, <2>10, <2>11, <2>12, <2>13, <2>14 DEF Thread
<1>2. ASSUME NEW a \in Requests, NEW answer \in Answers, NEW scope \in Scopes,
             Decide(a, answer, scope)
      PROVE CallAtPlace'
  BY <1>2 DEF Decide, Decidable, MakesGrant, Grant, TypeOK, CallAtPlace, ListedAtPlace, Asking, NoRow
<1>3. ASSUME NEW g \in grants, Revoke(g) PROVE CallAtPlace'
  BY <1>3 DEF Revoke, TypeOK, CallAtPlace, ListedAtPlace, Asking, NoRow
<1>4. CASE Restart
  <2>1. /\ \A b \in Requests : row[b] = NoRow => row'[b] = NoRow
        /\ \A q \in Runs : pc'[q] \in {"new", "done"} /\ (pc'[q] = "new" => pc[q] = "new")
        /\ UNCHANGED <<number, started>>
    BY <1>4 DEF Restart, RecoveredRows, NoRow, TypeOK
  <2> QED
    BY <2>1 DEF CallAtPlace, Asking
<1>5. CASE UNCHANGED vars
  BY <1>5 DEF vars, TypeOK, CallAtPlace, ListedAtPlace, Asking, NoRow
<1> QED
  BY <1>1, <1>2, <1>3, <1>4, <1>5 DEF Next

\* Every step keeps the status of the open request of each run.
LEMMA StatusStep == TypeOK /\ StatusAtPlace /\ RowAtPlace /\ ListedAtPlace /\ [Next]_vars => StatusAtPlace'
<1> SUFFICES ASSUME TypeOK, StatusAtPlace, RowAtPlace, ListedAtPlace, [Next]_vars PROVE StatusAtPlace'
  OBVIOUS
<1>1. ASSUME NEW r \in Runs, Thread(r) \/ Cancel(r) PROVE StatusAtPlace'
  <2>1. CASE Start(r)
    BY <2>1 DEF Start, TypeOK, StatusAtPlace, ListedAtPlace, Statuses, Answers
  <2>2. CASE UseGrant(r)
    BY <2>2 DEF UseGrant, Granted, TypeOK, StatusAtPlace, ListedAtPlace, Statuses, Answers
  <2>3. CASE Register(r)
    BY <2>3 DEF Register, Granted, TypeOK, StatusAtPlace, ListedAtPlace, Statuses, Answers
  <2>4. CASE InsertRow(r)
    BY <2>4 DEF InsertRow, TypeOK, StatusAtPlace, ListedAtPlace, Statuses, Answers
  <2>5. CASE StoreRaises(r)
    BY <2>5 DEF StoreRaises, TypeOK, StatusAtPlace, ListedAtPlace, Statuses, Answers
  <2>6. CASE GiveUp(r)
    BY <2>6 DEF GiveUp, MayGiveUp, TypeOK, StatusAtPlace, ListedAtPlace, Statuses, Answers
  <2>7. CASE RecordOutcome(r)
    BY <2>7 DEF RecordOutcome, TypeOK, StatusAtPlace, ListedAtPlace, Statuses, Answers
  <2>8. CASE RecordFails(r)
    BY <2>8 DEF RecordFails, TypeOK, StatusAtPlace, ListedAtPlace, Statuses, Answers
  <2>9. CASE Resume(r)
    BY <2>9 DEF Resume, DeniedAfter, TypeOK, StatusAtPlace, ListedAtPlace, Statuses, Answers
  <2>10. CASE Settle(r)
    BY <2>10 DEF Settle, Approved, TypeOK, StatusAtPlace, ListedAtPlace, Statuses, Answers
  <2>11. CASE Dispatch(r)
    BY <2>11 DEF Dispatch, TypeOK, StatusAtPlace, ListedAtPlace, Statuses, Answers
  <2>12. CASE Finish(r)
    BY <2>12 DEF Finish, ListedAfter, TypeOK, StatusAtPlace, ListedAtPlace, Statuses, Answers
  <2>13. CASE Cancel(r)
    BY <2>13 DEF Cancel, TypeOK, StatusAtPlace, ListedAtPlace, Statuses, Answers
  <2>14. ASSUME NEW t \in Tools, Call(r, t) PROVE StatusAtPlace'
    BY <2>14 DEF Call, TypeOK, StatusAtPlace, ListedAtPlace, Statuses, Answers
  <2> QED
    BY <1>1, <2>1, <2>2, <2>3, <2>4, <2>5, <2>6, <2>7, <2>8, <2>9, <2>10, <2>11, <2>12, <2>13, <2>14 DEF Thread
<1>2. ASSUME NEW a \in Requests, NEW answer \in Answers, NEW scope \in Scopes,
             Decide(a, answer, scope)
      PROVE StatusAtPlace'
  <2>1. a \in listed /\ a = Current(a[1]) /\ a[1] \in Runs
    BY <1>2 DEF Decide, Decidable, ListedAtPlace
  <2>2. pc[a[1]] \in {"waiting", "raised"}
    BY <1>2, <2>1 DEF Decide, Decidable, ListedAtPlace, StatusAtPlace, RowAtPlace, NoRow
  <2> QED
    BY <1>2, <2>2 DEF Decide, TypeOK, StatusAtPlace, Answers
<1>3. ASSUME NEW g \in grants, Revoke(g) PROVE StatusAtPlace'
  BY <1>3 DEF Revoke, TypeOK, StatusAtPlace, ListedAtPlace, Statuses, Answers
<1>4. CASE Restart
  BY <1>4 DEF Restart, RecoveredRows, TypeOK, StatusAtPlace, ListedAtPlace, Statuses, Answers
<1>5. CASE UNCHANGED vars
  BY <1>5 DEF vars, TypeOK, StatusAtPlace, ListedAtPlace, Statuses, Answers
<1> QED
  BY <1>1, <1>2, <1>3, <1>4, <1>5 DEF Next

\* Every step keeps the row of the call being decided.
LEMMA RowStep == TypeOK /\ CallAtPlace /\ StatusAtPlace /\ RowAtPlace /\ ListedAtPlace /\ [Next]_vars
      => RowAtPlace'
<1> SUFFICES ASSUME TypeOK, CallAtPlace, StatusAtPlace, RowAtPlace, ListedAtPlace, [Next]_vars PROVE RowAtPlace'
  OBVIOUS
<1> USE EngineAssumption
<1>1. ASSUME NEW r \in Runs, Thread(r) \/ Cancel(r) PROVE RowAtPlace'
  <2>1. CASE Start(r)
    BY <2>1 DEF Start, TypeOK, CallAtPlace, StatusAtPlace, RowAtPlace, ListedAtPlace, Asking, NoRow, Answers
  <2>2. CASE UseGrant(r)
    BY <2>2 DEF UseGrant, Granted, TypeOK, CallAtPlace, StatusAtPlace, RowAtPlace, ListedAtPlace, Asking, NoRow, Answers
  <2>3. CASE Register(r)
    BY <2>3 DEF Register, Granted, TypeOK, CallAtPlace, StatusAtPlace, RowAtPlace, ListedAtPlace, Asking, NoRow, Answers
  <2>4. CASE InsertRow(r)
    BY <2>4 DEF InsertRow, TypeOK, CallAtPlace, StatusAtPlace, RowAtPlace, ListedAtPlace, Asking, NoRow, Answers
  <2>5. CASE StoreRaises(r)
    BY <2>5 DEF StoreRaises, TypeOK, CallAtPlace, StatusAtPlace, RowAtPlace, ListedAtPlace, Asking, NoRow, Answers
  <2>6. CASE GiveUp(r)
    BY <2>6 DEF GiveUp, MayGiveUp, TypeOK, CallAtPlace, StatusAtPlace, RowAtPlace, ListedAtPlace, Asking, NoRow, Answers
  <2>7. CASE RecordOutcome(r)
    <3>1. /\ row' = [row EXCEPT ![Current(r)].status = status[r]]
          /\ pc' = [pc EXCEPT ![r] = "resume"]
      BY <2>7 DEF RecordOutcome, RowAtPlace
    <3> QED
      BY <2>7, <3>1 DEF RecordOutcome, TypeOK, CallAtPlace, StatusAtPlace, RowAtPlace, Asking, Rows, NoRow, Answers
  <2>8. CASE RecordFails(r)
    BY <2>8 DEF RecordFails, TypeOK, CallAtPlace, StatusAtPlace, RowAtPlace, ListedAtPlace, Asking, NoRow, Answers
  <2>9. CASE Resume(r)
    BY <2>9 DEF Resume, DeniedAfter, TypeOK, CallAtPlace, StatusAtPlace, RowAtPlace, ListedAtPlace, Asking, NoRow, Answers
  <2>10. CASE Settle(r)
    BY <2>10 DEF Settle, Approved, TypeOK, CallAtPlace, StatusAtPlace, RowAtPlace, ListedAtPlace, Asking, NoRow, Answers
  <2>11. CASE Dispatch(r)
    BY <2>11 DEF Dispatch, TypeOK, CallAtPlace, StatusAtPlace, RowAtPlace, ListedAtPlace, Asking, NoRow, Answers
  <2>12. CASE Finish(r)
    BY <2>12 DEF Finish, ListedAfter, TypeOK, CallAtPlace, StatusAtPlace, RowAtPlace, ListedAtPlace, Asking, NoRow, Answers
  <2>13. CASE Cancel(r)
    BY <2>13 DEF Cancel, TypeOK, CallAtPlace, StatusAtPlace, RowAtPlace, ListedAtPlace, Asking, NoRow, Answers
  <2>14. ASSUME NEW t \in Tools, Call(r, t) PROVE RowAtPlace'
    BY <2>14 DEF Call, TypeOK, CallAtPlace, StatusAtPlace, RowAtPlace, ListedAtPlace, Asking, NoRow, Answers
  <2> QED
    BY <1>1, <2>1, <2>2, <2>3, <2>4, <2>5, <2>6, <2>7, <2>8, <2>9, <2>10, <2>11, <2>12, <2>13, <2>14 DEF Thread
<1>2. ASSUME NEW a \in Requests, NEW answer \in Answers, NEW scope \in Scopes,
             Decide(a, answer, scope)
      PROVE RowAtPlace'
  <2>1. a \in listed /\ a = Current(a[1]) /\ a[1] \in Runs
    BY <1>2 DEF Decide, Decidable, ListedAtPlace
  <2>2. pc[a[1]] \in {"waiting", "raised"}
    BY <1>2, <2>1 DEF Decide, Decidable, ListedAtPlace, StatusAtPlace, RowAtPlace, NoRow
  <2>3. /\ row'[a].status = answer /\ status'[a[1]] = answer
        /\ \A b \in Requests : b # a => row'[b] = row[b]
        /\ \A q \in Runs : q # a[1] => status'[q] = status[q]
        /\ UNCHANGED <<pc, number>>
    BY <1>2, <2>1 DEF Decide, TypeOK
  <2>4. ASSUME NEW q \in Runs, q # a[1], pc[q] \in Asking
        PROVE  row'[Current(q)] = row[Current(q)]
    BY <2>1, <2>3, <2>4 DEF CallAtPlace
  <2> QED
    BY <2>1, <2>2, <2>3, <2>4 DEF RowAtPlace, Asking
<1>3. ASSUME NEW g \in grants, Revoke(g) PROVE RowAtPlace'
  BY <1>3 DEF Revoke, TypeOK, CallAtPlace, StatusAtPlace, RowAtPlace, ListedAtPlace, Asking, NoRow, Answers
<1>4. CASE Restart
  BY <1>4 DEF Restart, RecoveredRows, TypeOK, CallAtPlace, StatusAtPlace, RowAtPlace, ListedAtPlace, Asking, NoRow, Answers
<1>5. CASE UNCHANGED vars
  BY <1>5 DEF vars, TypeOK, CallAtPlace, StatusAtPlace, RowAtPlace, ListedAtPlace, Asking, NoRow, Answers
<1> QED
  BY <1>1, <1>2, <1>3, <1>4, <1>5 DEF Next

\* Every step keeps that only the call being decided is listed.
LEMMA ListedStep == TypeOK /\ StatusAtPlace /\ ListedAtPlace /\ [Next]_vars => ListedAtPlace'
<1> SUFFICES ASSUME TypeOK, StatusAtPlace, ListedAtPlace, [Next]_vars PROVE ListedAtPlace'
  OBVIOUS
<1>1. ASSUME NEW r \in Runs, Thread(r) \/ Cancel(r) PROVE ListedAtPlace'
  <2>1. CASE Start(r)
    BY <2>1 DEF Start, TypeOK, StatusAtPlace, ListedAtPlace
  <2>2. CASE UseGrant(r)
    BY <2>2 DEF UseGrant, Granted, TypeOK, StatusAtPlace, ListedAtPlace
  <2>3. CASE Register(r)
    BY <2>3 DEF Register, Granted, TypeOK, StatusAtPlace, ListedAtPlace
  <2>4. CASE InsertRow(r)
    BY <2>4 DEF InsertRow, TypeOK, StatusAtPlace, ListedAtPlace
  <2>5. CASE StoreRaises(r)
    BY <2>5 DEF StoreRaises, TypeOK, StatusAtPlace, ListedAtPlace
  <2>6. CASE GiveUp(r)
    BY <2>6 DEF GiveUp, MayGiveUp, TypeOK, StatusAtPlace, ListedAtPlace
  <2>7. CASE RecordOutcome(r)
    BY <2>7 DEF RecordOutcome, TypeOK, StatusAtPlace, ListedAtPlace
  <2>8. CASE RecordFails(r)
    BY <2>8 DEF RecordFails, TypeOK, StatusAtPlace, ListedAtPlace
  <2>9. CASE Resume(r)
    BY <2>9 DEF Resume, DeniedAfter, TypeOK, StatusAtPlace, ListedAtPlace
  <2>10. CASE Settle(r)
    BY <2>10 DEF Settle, Approved, TypeOK, StatusAtPlace, ListedAtPlace
  <2>11. CASE Dispatch(r)
    BY <2>11 DEF Dispatch, TypeOK, StatusAtPlace, ListedAtPlace
  <2>12. CASE Finish(r)
    BY <2>12 DEF Finish, ListedAfter, TypeOK, StatusAtPlace, ListedAtPlace
  <2>13. CASE Cancel(r)
    BY <2>13 DEF Cancel, TypeOK, StatusAtPlace, ListedAtPlace
  <2>14. ASSUME NEW t \in Tools, Call(r, t) PROVE ListedAtPlace'
    BY <2>14 DEF Call, TypeOK, StatusAtPlace, ListedAtPlace
  <2> QED
    BY <1>1, <2>1, <2>2, <2>3, <2>4, <2>5, <2>6, <2>7, <2>8, <2>9, <2>10, <2>11, <2>12, <2>13, <2>14 DEF Thread
<1>2. ASSUME NEW a \in Requests, NEW answer \in Answers, NEW scope \in Scopes,
             Decide(a, answer, scope)
      PROVE ListedAtPlace'
  BY <1>2 DEF Decide, Decidable, MakesGrant, Grant, TypeOK, StatusAtPlace, ListedAtPlace
<1>3. ASSUME NEW g \in grants, Revoke(g) PROVE ListedAtPlace'
  BY <1>3 DEF Revoke, TypeOK, StatusAtPlace, ListedAtPlace
<1>4. CASE Restart
  BY <1>4 DEF Restart, RecoveredRows, TypeOK, StatusAtPlace, ListedAtPlace
<1>5. CASE UNCHANGED vars
  BY <1>5 DEF vars, TypeOK, StatusAtPlace, ListedAtPlace
<1> QED
  BY <1>1, <1>2, <1>3, <1>4, <1>5 DEF Next

\* Every step keeps that a row is open only while its run waits, or when the
\* store failed.
LEMMA OpenStep == TypeOK /\ CallAtPlace /\ StatusAtPlace /\ RowAtPlace /\ OpenRows /\ [Next]_vars
      => OpenRows'
<1> SUFFICES ASSUME TypeOK, CallAtPlace, StatusAtPlace, RowAtPlace, OpenRows, [Next]_vars PROVE OpenRows'
  OBVIOUS
<1> USE EngineAssumption
<1>1. ASSUME NEW r \in Runs, Thread(r) \/ Cancel(r) PROVE OpenRows'
  <2>1. CASE Start(r)
    BY <2>1 DEF Start, TypeOK, CallAtPlace, StatusAtPlace, RowAtPlace, OpenRows, Asking, Answers, NoRow
  <2>2. CASE UseGrant(r)
    BY <2>2 DEF UseGrant, Granted, TypeOK, CallAtPlace, StatusAtPlace, RowAtPlace, OpenRows, Asking, Answers, NoRow
  <2>3. CASE Register(r)
    BY <2>3 DEF Register, Granted, TypeOK, CallAtPlace, StatusAtPlace, RowAtPlace, OpenRows, Asking, Answers, NoRow
  <2>4. CASE InsertRow(r)
    BY <2>4 DEF InsertRow, TypeOK, CallAtPlace, StatusAtPlace, RowAtPlace, OpenRows, Asking, Answers, NoRow
  <2>5. CASE StoreRaises(r)
    BY <2>5 DEF StoreRaises, TypeOK, CallAtPlace, StatusAtPlace, RowAtPlace, OpenRows, Asking, Answers, NoRow
  <2>6. CASE GiveUp(r)
    BY <2>6 DEF GiveUp, MayGiveUp, TypeOK, CallAtPlace, StatusAtPlace, RowAtPlace, OpenRows, Asking, Answers, NoRow
  <2>7. CASE RecordOutcome(r)
    <3>1. /\ row' = [row EXCEPT ![Current(r)].status = status[r]]
          /\ pc' = [pc EXCEPT ![r] = "resume"]
      BY <2>7 DEF RecordOutcome, RowAtPlace
    <3> QED
      BY <2>7, <3>1 DEF RecordOutcome, TypeOK, CallAtPlace, StatusAtPlace, OpenRows, Asking, Rows, NoRow, Answers
  <2>8. CASE RecordFails(r)
    BY <2>8 DEF RecordFails, TypeOK, CallAtPlace, StatusAtPlace, RowAtPlace, OpenRows, Asking, Answers, NoRow
  <2>9. CASE Resume(r)
    <3>1. pc[r] # "record" /\ row[Current(r)].status # "pending" /\ UNCHANGED <<row, number, unsaved>>
      BY <2>9 DEF Resume, RowAtPlace, StatusAtPlace, Answers
    <3>2. \A q \in Runs : q # r => pc'[q] = pc[q]
      BY <2>9 DEF Resume, TypeOK
    <3> QED
      BY <3>1, <3>2 DEF OpenRows
  <2>10. CASE Settle(r)
    BY <2>10 DEF Settle, Approved, TypeOK, CallAtPlace, StatusAtPlace, RowAtPlace, OpenRows, Asking, Answers, NoRow
  <2>11. CASE Dispatch(r)
    BY <2>11 DEF Dispatch, TypeOK, CallAtPlace, StatusAtPlace, RowAtPlace, OpenRows, Asking, Answers, NoRow
  <2>12. CASE Finish(r)
    BY <2>12 DEF Finish, ListedAfter, TypeOK, CallAtPlace, StatusAtPlace, RowAtPlace, OpenRows, Asking, Answers, NoRow
  <2>13. CASE Cancel(r)
    BY <2>13 DEF Cancel, TypeOK, CallAtPlace, StatusAtPlace, RowAtPlace, OpenRows, Asking, Answers, NoRow
  <2>14. ASSUME NEW t \in Tools, Call(r, t) PROVE OpenRows'
    BY <2>14 DEF Call, TypeOK, CallAtPlace, StatusAtPlace, RowAtPlace, OpenRows, Asking, Answers, NoRow
  <2> QED
    BY <1>1, <2>1, <2>2, <2>3, <2>4, <2>5, <2>6, <2>7, <2>8, <2>9, <2>10, <2>11, <2>12, <2>13, <2>14 DEF Thread
<1>2. ASSUME NEW a \in Requests, NEW answer \in Answers, NEW scope \in Scopes,
             Decide(a, answer, scope)
      PROVE OpenRows'
  BY <1>2 DEF Decide, Decidable, MakesGrant, Grant, TypeOK, CallAtPlace, StatusAtPlace, RowAtPlace, OpenRows, Asking, Answers, NoRow
<1>3. ASSUME NEW g \in grants, Revoke(g) PROVE OpenRows'
  BY <1>3 DEF Revoke, TypeOK, CallAtPlace, StatusAtPlace, RowAtPlace, OpenRows, Asking, Answers, NoRow
<1>4. CASE Restart
  BY <1>4 DEF Restart, RecoveredRows, TypeOK, CallAtPlace, StatusAtPlace, RowAtPlace, OpenRows, Asking, Answers, NoRow
<1>5. CASE UNCHANGED vars
  BY <1>5 DEF vars, TypeOK, CallAtPlace, StatusAtPlace, RowAtPlace, OpenRows, Asking, Answers, NoRow
<1> QED
  BY <1>1, <1>2, <1>3, <1>4, <1>5 DEF Next

\* Every step keeps that denials are remembered and obeyed.
LEMMA DenialsStep == TypeOK /\ CallAtPlace /\ StatusAtPlace /\ RowAtPlace /\ ListedAtPlace /\ DenialsHeld
      /\ [Next]_vars => DenialsHeld'
<1> SUFFICES ASSUME TypeOK, CallAtPlace, StatusAtPlace, RowAtPlace, ListedAtPlace, DenialsHeld, [Next]_vars PROVE DenialsHeld'
  OBVIOUS
<1> USE EngineAssumption
<1>1. ASSUME NEW r \in Runs, Thread(r) \/ Cancel(r) PROVE DenialsHeld'
  <2>1. CASE Start(r)
    BY <2>1 DEF Start, TypeOK, CallAtPlace, StatusAtPlace, RowAtPlace, ListedAtPlace, DenialsHeld, Asking, NoRow, Answers
  <2>2. CASE UseGrant(r)
    BY <2>2 DEF UseGrant, Granted, TypeOK, CallAtPlace, StatusAtPlace, RowAtPlace, ListedAtPlace, DenialsHeld, Asking, NoRow, Answers
  <2>3. CASE Register(r)
    BY <2>3 DEF Register, Granted, TypeOK, CallAtPlace, StatusAtPlace, RowAtPlace, ListedAtPlace, DenialsHeld, Asking, NoRow, Answers
  <2>4. CASE InsertRow(r)
    BY <2>4 DEF InsertRow, TypeOK, CallAtPlace, StatusAtPlace, RowAtPlace, ListedAtPlace, DenialsHeld, Asking, NoRow, Answers
  <2>5. CASE StoreRaises(r)
    BY <2>5 DEF StoreRaises, TypeOK, CallAtPlace, StatusAtPlace, RowAtPlace, ListedAtPlace, DenialsHeld, Asking, NoRow, Answers
  <2>6. CASE GiveUp(r)
    BY <2>6 DEF GiveUp, MayGiveUp, TypeOK, CallAtPlace, StatusAtPlace, RowAtPlace, ListedAtPlace, DenialsHeld, Asking, NoRow, Answers
  <2>7. CASE RecordOutcome(r)
    <3>1. /\ row' = [row EXCEPT ![Current(r)].status = status[r]]
          /\ pc' = [pc EXCEPT ![r] = "resume"]
      BY <2>7 DEF RecordOutcome, RowAtPlace
    <3> QED
      BY <2>7, <3>1 DEF RecordOutcome, TypeOK, CallAtPlace, StatusAtPlace, DenialsHeld, Asking, Rows
  <2>8. CASE RecordFails(r)
    BY <2>8 DEF RecordFails, TypeOK, CallAtPlace, StatusAtPlace, RowAtPlace, ListedAtPlace, DenialsHeld, Asking, NoRow, Answers
  <2>9. CASE Resume(r)
    <3>1. pc'[r] \in {"settle", "raised"} /\ \A q \in Runs : q # r => pc'[q] = pc[q]
      BY <2>9 DEF Resume, TypeOK
    <3>2. /\ denied[r] \subseteq denied'[r]
          /\ status[r] = "denied" => tool[Current(r)] \in denied'[r]
          /\ \A q \in Runs : q # r => denied'[q] = denied[q]
      BY <2>9 DEF Resume, DeniedAfter, TypeOK
    <3>3. pc[r] \in {"waiting", "resume"} /\ row[Current(r)].status = status[r]
      BY <2>9 DEF Resume, RowAtPlace
    <3> QED
      BY <2>9, <3>1, <3>2, <3>3 DEF Resume, DenialsHeld, Asking
  <2>10. CASE Settle(r)
    BY <2>10 DEF Settle, Approved, TypeOK, CallAtPlace, StatusAtPlace, RowAtPlace, ListedAtPlace, DenialsHeld, Asking, NoRow, Answers
  <2>11. CASE Dispatch(r)
    BY <2>11 DEF Dispatch, TypeOK, CallAtPlace, StatusAtPlace, RowAtPlace, ListedAtPlace, DenialsHeld, Asking, NoRow, Answers
  <2>12. CASE Finish(r)
    BY <2>12 DEF Finish, ListedAfter, TypeOK, CallAtPlace, StatusAtPlace, RowAtPlace, ListedAtPlace, DenialsHeld, Asking, NoRow, Answers
  <2>13. CASE Cancel(r)
    BY <2>13 DEF Cancel, TypeOK, CallAtPlace, StatusAtPlace, RowAtPlace, ListedAtPlace, DenialsHeld, Asking, NoRow, Answers
  <2>14. ASSUME NEW t \in Tools, Call(r, t) PROVE DenialsHeld'
    <3>1. /\ number[r] \in Nat /\ number[r] + 1 \in 1..MaxCalls
          /\ number'[r] = number[r] + 1
          /\ \A q \in Runs : q # r => number'[q] = number[q]
      BY <2>14 DEF Call, TypeOK
    <3>2. /\ tool'[<<r, number[r] + 1>>] = t
          /\ \A b \in Requests : b # <<r, number[r] + 1>> => tool'[b] = tool[b]
      BY <2>14, <3>1 DEF Call, TypeOK
    <3>3. /\ pc'[r] \in {"ready", "lookup"}
          /\ pc'[r] = "lookup" => t \notin denied[r]
          /\ \A q \in Runs : q # r => pc'[q] = pc[q]
      BY <2>14 DEF Call, TypeOK
    <3>4. /\ UNCHANGED <<row, denied>>
          /\ pc[r] = "ready"
          /\ row[<<r, number[r] + 1>>] = NoRow
      <4>1. row[<<r, number[r] + 1>>] = NoRow
        BY <3>1, CallToCome
      <4> QED
        BY <2>14, <4>1 DEF Call
    <3>5. ASSUME NEW q \in Runs, NEW i \in 1..MaxCalls, row[<<q, i>>].status = "denied"
          PROVE  /\ tool'[<<q, i>>] = tool[<<q, i>>]
                 /\ q = r => tool[<<q, i>>] \in denied[r]
      <4>1. <<q, i>> \in Requests /\ <<q, i>> # <<r, number[r] + 1>>
        BY <3>4, <3>5 DEF NoRow
      <4>2. q = r => tool[<<q, i>>] \in denied[r]
        BY <3>4, <3>5 DEF DenialsHeld
      <4> QED
        BY <3>2, <4>1, <4>2
    <3> QED
      BY <3>1, <3>2, <3>3, <3>4, <3>5 DEF DenialsHeld, Asking, CallAtPlace
  <2> QED
    BY <1>1, <2>1, <2>2, <2>3, <2>4, <2>5, <2>6, <2>7, <2>8, <2>9, <2>10, <2>11, <2>12, <2>13, <2>14 DEF Thread
<1>2. ASSUME NEW a \in Requests, NEW answer \in Answers, NEW scope \in Scopes,
             Decide(a, answer, scope)
      PROVE DenialsHeld'
  BY <1>2, SMTT(30) DEF Decide, Decidable, MakesGrant, Grant, TypeOK, CallAtPlace, StatusAtPlace,
     RowAtPlace, ListedAtPlace, DenialsHeld, Asking, NoRow, Answers
<1>3. ASSUME NEW g \in grants, Revoke(g) PROVE DenialsHeld'
  BY <1>3 DEF Revoke, TypeOK, CallAtPlace, StatusAtPlace, RowAtPlace, ListedAtPlace, DenialsHeld, Asking, NoRow, Answers
<1>4. CASE Restart
  <2>1. /\ \A b \in Requests : row'[b].status = "denied" => row[b].status = "denied"
        /\ \A q \in Runs : pc'[q] = "done" \/ (pc'[q] = "new" /\ pc[q] = "new")
    BY <1>4 DEF Restart, RecoveredRows, TypeOK, Rows
  <2>2. ASSUME NEW q \in Runs, NEW i \in 1..MaxCalls, pc[q] = "new"
        PROVE  row[<<q, i>>].status = "none"
    BY <2>2, NewRun DEF NoRow
  <2> QED
    BY <2>1, <2>2 DEF DenialsHeld, Asking
<1>5. CASE UNCHANGED vars
  BY <1>5 DEF vars, TypeOK, CallAtPlace, StatusAtPlace, RowAtPlace, ListedAtPlace, DenialsHeld, Asking, NoRow, Answers
<1> QED
  BY <1>1, <1>2, <1>3, <1>4, <1>5 DEF Next

\* Every step keeps that a run that is over has forgotten its denials.
LEMMA DoneStep == TypeOK /\ DoneForgets /\ [Next]_vars => DoneForgets'
<1> SUFFICES ASSUME TypeOK, DoneForgets, [Next]_vars PROVE DoneForgets'
  OBVIOUS
<1>1. ASSUME NEW r \in Runs, Thread(r) \/ Cancel(r) PROVE DoneForgets'
  <2>1. CASE Start(r)
    BY <2>1 DEF Start, TypeOK, DoneForgets
  <2>2. CASE UseGrant(r)
    BY <2>2 DEF UseGrant, Granted, TypeOK, DoneForgets
  <2>3. CASE Register(r)
    BY <2>3 DEF Register, Granted, TypeOK, DoneForgets
  <2>4. CASE InsertRow(r)
    BY <2>4 DEF InsertRow, TypeOK, DoneForgets
  <2>5. CASE StoreRaises(r)
    BY <2>5 DEF StoreRaises, TypeOK, DoneForgets
  <2>6. CASE GiveUp(r)
    BY <2>6 DEF GiveUp, MayGiveUp, TypeOK, DoneForgets
  <2>7. CASE RecordOutcome(r)
    BY <2>7 DEF RecordOutcome, TypeOK, DoneForgets
  <2>8. CASE RecordFails(r)
    BY <2>8 DEF RecordFails, TypeOK, DoneForgets
  <2>9. CASE Resume(r)
    BY <2>9 DEF Resume, DeniedAfter, TypeOK, DoneForgets
  <2>10. CASE Settle(r)
    BY <2>10 DEF Settle, Approved, TypeOK, DoneForgets
  <2>11. CASE Dispatch(r)
    BY <2>11 DEF Dispatch, TypeOK, DoneForgets
  <2>12. CASE Finish(r)
    BY <2>12 DEF Finish, ListedAfter, TypeOK, DoneForgets
  <2>13. CASE Cancel(r)
    BY <2>13 DEF Cancel, TypeOK, DoneForgets
  <2>14. ASSUME NEW t \in Tools, Call(r, t) PROVE DoneForgets'
    BY <2>14 DEF Call, TypeOK, DoneForgets
  <2> QED
    BY <1>1, <2>1, <2>2, <2>3, <2>4, <2>5, <2>6, <2>7, <2>8, <2>9, <2>10, <2>11, <2>12, <2>13, <2>14 DEF Thread
<1>2. ASSUME NEW a \in Requests, NEW answer \in Answers, NEW scope \in Scopes,
             Decide(a, answer, scope)
      PROVE DoneForgets'
  BY <1>2 DEF Decide, Decidable, MakesGrant, Grant, TypeOK, DoneForgets
<1>3. ASSUME NEW g \in grants, Revoke(g) PROVE DoneForgets'
  BY <1>3 DEF Revoke, TypeOK, DoneForgets
<1>4. CASE Restart
  BY <1>4 DEF Restart, RecoveredRows, TypeOK, DoneForgets
<1>5. CASE UNCHANGED vars
  BY <1>5 DEF vars, TypeOK, DoneForgets
<1> QED
  BY <1>1, <1>2, <1>3, <1>4, <1>5 DEF Next

\* What no step changes: owners, the tools of calls made, rows with an answer or
\* an outcome; such rows belong to calls made.
Kept ==
  /\ owner' = owner
  /\ \A r \in Runs, i \in 1..MaxCalls :
       /\ i <= number[r] => tool'[<<r, i>>] = tool[<<r, i>>]
       /\ row[<<r, i>>].status \notin {"none", "pending"} =>
            i <= number[r] /\ row'[<<r, i>>] = row[<<r, i>>]

\* A call with a row has been made.
LEMMA RowMade ==
  ASSUME TypeOK, CallAtPlace, NEW r \in Runs, NEW i \in 1..MaxCalls, row[<<r, i>>].status # "none"
  PROVE  i <= number[r]
<1>1. i \in Nat /\ number[r] \in Nat
  BY EngineAssumption DEF TypeOK
<1> QED
  BY <1>1, CallToCome DEF NoRow

\* No step replaces an owner, the tool of a call made, or an answer.
LEMMA KeptStep == TypeOK /\ CallAtPlace /\ StatusAtPlace /\ RowAtPlace /\ [Next]_vars => Kept
<1> SUFFICES ASSUME TypeOK, CallAtPlace, StatusAtPlace, RowAtPlace, [Next]_vars PROVE Kept
  OBVIOUS
<1> USE RowMade, EngineAssumption
<1>1. ASSUME NEW r \in Runs, Thread(r) \/ Cancel(r) PROVE Kept
  <2>1. CASE Start(r)
    BY <2>1 DEF Start, TypeOK, Kept
  <2>2. CASE UseGrant(r)
    BY <2>2 DEF UseGrant, Granted, TypeOK, Kept
  <2>3. CASE Register(r)
    BY <2>3 DEF Register, Granted, TypeOK, Kept
  <2>4. CASE InsertRow(r)
    <3>1. row[Current(r)].status = "none"
      BY <2>4 DEF InsertRow, RowAtPlace, NoRow
    <3> QED
      BY <2>4, <3>1 DEF InsertRow, Kept, TypeOK
  <2>5. CASE StoreRaises(r)
    BY <2>5 DEF StoreRaises, TypeOK, Kept
  <2>6. CASE GiveUp(r)
    BY <2>6 DEF GiveUp, MayGiveUp, TypeOK, Kept
  <2>7. CASE RecordOutcome(r)
    <3>1. row[Current(r)].status = "pending"
      BY <2>7 DEF RecordOutcome, RowAtPlace
    <3> QED
      <4>1. \A a \in Requests : row[a].status # "pending" => row'[a] = row[a]
        BY <2>7, <3>1 DEF RecordOutcome, TypeOK
      <4> QED
        BY <2>7, <4>1 DEF RecordOutcome, Kept
  <2>8. CASE RecordFails(r)
    BY <2>8 DEF RecordFails, TypeOK, Kept
  <2>9. CASE Resume(r)
    BY <2>9 DEF Resume, DeniedAfter, TypeOK, Kept
  <2>10. CASE Settle(r)
    BY <2>10 DEF Settle, Approved, TypeOK, Kept
  <2>11. CASE Dispatch(r)
    BY <2>11 DEF Dispatch, TypeOK, Kept
  <2>12. CASE Finish(r)
    BY <2>12 DEF Finish, ListedAfter, TypeOK, Kept
  <2>13. CASE Cancel(r)
    BY <2>13 DEF Cancel, TypeOK, Kept
  <2>14. ASSUME NEW t \in Tools, Call(r, t) PROVE Kept
    <3>1. number[r] \in Nat /\ \A b \in Requests : b # <<r, number[r] + 1>> => tool'[b] = tool[b]
      BY <2>14 DEF Call, TypeOK
    <3> QED
      BY <2>14, <3>1 DEF Call, Kept
  <2> QED
    BY <1>1, <2>1, <2>2, <2>3, <2>4, <2>5, <2>6, <2>7, <2>8, <2>9, <2>10, <2>11, <2>12, <2>13, <2>14 DEF Thread
<1>2. ASSUME NEW a \in Requests, NEW answer \in Answers, NEW scope \in Scopes,
             Decide(a, answer, scope)
      PROVE Kept
  BY <1>2 DEF Decide, Decidable, MakesGrant, Grant, TypeOK, Kept
<1>3. ASSUME NEW g \in grants, Revoke(g) PROVE Kept
  BY <1>3 DEF Revoke, TypeOK, Kept
<1>4. CASE Restart
  <2>1. \A b \in Requests : row[b].status # "pending" => row'[b] = row[b]
    BY <1>4 DEF Restart, RecoveredRows
  <2> QED
    BY <1>4, <2>1 DEF Restart, Kept
<1>5. CASE UNCHANGED vars
  BY <1>5 DEF vars, TypeOK, Kept
<1> QED
  BY <1>1, <1>2, <1>3, <1>4, <1>5 DEF Next

\* An answer that covers a call made goes on covering it.
LEMMA CoversKept ==
  ASSUME TypeOK, CallAtPlace, Kept, NEW b \in Requests,
         NEW r \in Runs, NEW i \in 1..MaxCalls, i <= number[r], Covers(b, <<r, i>>)
  PROVE  Covers(b, <<r, i>>)'
<1>1. b = <<b[1], b[2]>> /\ b[1] \in Runs /\ b[2] \in 1..MaxCalls
  OBVIOUS
<1>2. row'[b] = row[b] /\ tool'[b] = tool[b]
  BY <1>1 DEF Covers, Kept
<1>3. tool'[<<r, i>>] = tool[<<r, i>>] /\ owner' = owner
  BY DEF Kept
<1> QED
  BY <1>2, <1>3 DEF Covers

\* The grant of an answer stays what it is.
LEMMA GrantKept ==
  ASSUME Kept, NEW b \in Requests, NEW scope \in Scopes,
         row[b] = [status |-> "allowed", scope |-> scope]
  PROVE  /\ row'[b] = [status |-> "allowed", scope |-> scope]
         /\ Grant(b, scope)' = Grant(b, scope)
<1>1. b = <<b[1], b[2]>> /\ b[1] \in Runs /\ b[2] \in 1..MaxCalls
  OBVIOUS
<1>2. row'[b] = row[b] /\ tool'[b] = tool[b] /\ owner' = owner
  BY <1>1 DEF Kept
<1> QED
  BY <1>2 DEF Grant

\* Every step keeps that a grant stems from an answer of its scope.
LEMMA GrantsStep == TypeOK /\ GrantsAnswered /\ Kept /\ [Next]_vars => GrantsAnswered'
<1> SUFFICES ASSUME TypeOK, GrantsAnswered, Kept, [Next]_vars,
                    NEW g \in grants'
             PROVE  \E b \in Requests :
                      /\ row'[b] = [status |-> "allowed", scope |-> g.scope]
                      /\ g = Grant(b, g.scope)'
  BY DEF GrantsAnswered
<1>1. CASE g \in grants
  <2>1. PICK b \in Requests : /\ row[b] = [status |-> "allowed", scope |-> g.scope]
                              /\ g = Grant(b, g.scope)
    BY <1>1 DEF GrantsAnswered
  <2>2. g.scope \in Scopes
    BY <1>1 DEF TypeOK
  <2> QED
    BY <2>1, <2>2, GrantKept
<1>2. CASE g \notin grants
  <2>1. PICK a \in Requests, answer \in Answers, scope \in Scopes :
          Decide(a, answer, scope) /\ MakesGrant(answer, scope) /\ g = Grant(a, scope)
    BY <1>2 DEF Next, Thread, Start, Call, UseGrant, Register, InsertRow, StoreRaises, GiveUp,
       RecordOutcome, RecordFails, Resume, Settle, Dispatch, Finish, Cancel, Decide, Revoke,
       Restart, vars
  <2>2. row'[a] = [status |-> "allowed", scope |-> scope] /\ UNCHANGED <<owner, tool>>
    BY <2>1 DEF Decide, MakesGrant, TypeOK
  <2>3. g.scope = scope /\ Grant(a, scope)' = Grant(a, scope)
    BY <2>1, <2>2 DEF Grant
  <2> QED
    BY <2>1, <2>2, <2>3
<1> QED
  BY <1>1, <1>2

\* A call with a grant has an answer that covers it.
LEMMA GrantedCovered ==
  ASSUME TypeOK, GrantsAnswered, NEW r \in Runs, Granted(r)
  PROVE  \E b \in Requests : Covers(b, Current(r))
<1>1. PICK g \in grants : g.owner = owner[r] /\ g.tool = CurrentTool(r) /\ r \in g.runs
  BY DEF Granted
<1>2. PICK b \in Requests : /\ row[b] = [status |-> "allowed", scope |-> g.scope]
                            /\ g = Grant(b, g.scope)
  BY <1>1 DEF GrantsAnswered
<1>3. /\ g.scope \in {"session", "always_tool"}
      /\ g.owner = owner[b[1]] /\ g.tool = tool[b]
      /\ g.scope = "session" => g.runs = {b[1]}
  BY <1>1, <1>2 DEF TypeOK, Grant, Scopes
<1>4. row[b].status = "allowed" /\ row[b].scope = g.scope
  BY <1>2
<1> QED
  BY <1>1, <1>3, <1>4 DEF Covers

\* How a run gets on its way to the tool registry.
NewDispatch ==
  \A r \in Runs :
    pc'[r] = "dispatch" =>
      /\ number'[r] = number[r]
      /\ \/ pc[r] = "dispatch"
         \/ /\ UNCHANGED <<owner, tool, row>>
            /\ \/ pc[r] = "lookup" /\ Granted(r)
               \/ pc[r] = "settle" /\ Approved(r)

\* A run gets to the tool registry with a grant or with an answer; every other
\* run that is on its way there has not moved.
LEMMA PlaceStep == TypeOK /\ [Next]_vars => NewDispatch
<1> SUFFICES ASSUME TypeOK, [Next]_vars PROVE NewDispatch
  OBVIOUS
<1> USE EngineAssumption
<1>1. ASSUME NEW r \in Runs, Thread(r) \/ Cancel(r) PROVE NewDispatch
  <2>1. CASE Start(r)
    BY <2>1 DEF Start, TypeOK, NewDispatch
  <2>2. CASE UseGrant(r)
    BY <2>2 DEF UseGrant, Granted, TypeOK, NewDispatch
  <2>3. CASE Register(r)
    BY <2>3 DEF Register, Granted, TypeOK, NewDispatch
  <2>4. CASE InsertRow(r)
    BY <2>4 DEF InsertRow, TypeOK, NewDispatch
  <2>5. CASE StoreRaises(r)
    BY <2>5 DEF StoreRaises, TypeOK, NewDispatch
  <2>6. CASE GiveUp(r)
    BY <2>6 DEF GiveUp, MayGiveUp, TypeOK, NewDispatch
  <2>7. CASE RecordOutcome(r)
    BY <2>7 DEF RecordOutcome, TypeOK, NewDispatch
  <2>8. CASE RecordFails(r)
    BY <2>8 DEF RecordFails, TypeOK, NewDispatch
  <2>9. CASE Resume(r)
    BY <2>9 DEF Resume, DeniedAfter, TypeOK, NewDispatch
  <2>10. CASE Settle(r)
    BY <2>10 DEF Settle, Approved, TypeOK, NewDispatch
  <2>11. CASE Dispatch(r)
    BY <2>11 DEF Dispatch, TypeOK, NewDispatch
  <2>12. CASE Finish(r)
    BY <2>12 DEF Finish, ListedAfter, TypeOK, NewDispatch
  <2>13. CASE Cancel(r)
    BY <2>13 DEF Cancel, TypeOK, NewDispatch
  <2>14. ASSUME NEW t \in Tools, Call(r, t) PROVE NewDispatch
    BY <2>14 DEF Call, TypeOK, NewDispatch
  <2> QED
    BY <1>1, <2>1, <2>2, <2>3, <2>4, <2>5, <2>6, <2>7, <2>8, <2>9, <2>10, <2>11, <2>12, <2>13, <2>14 DEF Thread
<1>2. ASSUME NEW a \in Requests, NEW answer \in Answers, NEW scope \in Scopes,
             Decide(a, answer, scope)
      PROVE NewDispatch
  BY <1>2 DEF Decide, Decidable, MakesGrant, Grant, TypeOK, NewDispatch
<1>3. ASSUME NEW g \in grants, Revoke(g) PROVE NewDispatch
  BY <1>3 DEF Revoke, TypeOK, NewDispatch
<1>4. CASE Restart
  BY <1>4 DEF Restart, RecoveredRows, TypeOK, NewDispatch
<1>5. CASE UNCHANGED vars
  BY <1>5 DEF vars, TypeOK, NewDispatch
<1> QED
  BY <1>1, <1>2, <1>3, <1>4, <1>5 DEF Next

\* Every step keeps that a call on its way to the tool registry has its answer.
LEMMA DispatchStep ==
  TypeOK /\ CallAtPlace /\ RowAtPlace /\ GrantsAnswered /\ DispatchCovered /\ Kept /\ NewDispatch
    => DispatchCovered'
<1> SUFFICES ASSUME TypeOK, CallAtPlace, RowAtPlace, GrantsAnswered, DispatchCovered, Kept,
                    NewDispatch, NEW r \in Runs, pc'[r] = "dispatch"
             PROVE  \E b \in Requests : Covers(b, Current(r))'
  BY DEF DispatchCovered
<1>1. number'[r] = number[r] /\ pc[r] \in Asking
  BY DEF NewDispatch, Asking
<1>2. number[r] \in 1..MaxCalls /\ Current(r) \in Requests
  BY <1>1 DEF CallAtPlace
<1>3. \E b \in Requests : Covers(b, Current(r))
  <2>1. CASE pc[r] = "dispatch"
    BY <2>1 DEF DispatchCovered
  <2>2. CASE Granted(r)
    BY <2>2, GrantedCovered
  <2>3. CASE pc[r] = "settle" /\ Approved(r)
    BY <1>2, <2>3 DEF RowAtPlace, Approved, Covers
  <2> QED
    BY <2>1, <2>2, <2>3 DEF NewDispatch
<1>4. PICK i \in 1..MaxCalls : i = number[r]
  BY <1>2
<1>5. PICK b \in Requests : Covers(b, <<r, i>>)
  BY <1>3, <1>4
<1>6. i <= number[r]
  BY <1>4, EngineAssumption
<1>7. Covers(b, <<r, i>>)'
  BY <1>5, <1>6, CoversKept
<1>8. Current(r)' = <<r, i>>
  BY <1>1, <1>4
<1> QED
  BY <1>7, <1>8 DEF Covers

\* How a call gets started: only from its way to the tool registry, by a step
\* that changes neither rows nor calls.
NewStart ==
  \/ started' = started
  \/ \E r \in Runs :
       /\ pc[r] = "dispatch"
       /\ started' = started \cup {Current(r)}
       /\ UNCHANGED <<owner, number, tool, row>>

\* No other step starts a call.
LEMMA StartedStep == [Next]_vars => NewStart
  BY DEF Next, Thread, Start, Call, UseGrant, Register, InsertRow, StoreRaises, GiveUp,
     RecordOutcome, RecordFails, Resume, Settle, Dispatch, Finish, Cancel, Decide, Revoke,
     Restart, vars, NewStart

\* A call that has started was made.
LEMMA StartedMade ==
  ASSUME TypeOK, CallAtPlace, NEW a \in started
  PROVE  a = <<a[1], a[2]>> /\ a[1] \in Runs /\ a[2] \in 1..MaxCalls /\ a[2] <= number[a[1]]
<1>1. a \in Requests
  BY DEF TypeOK
<1>2. a = <<a[1], a[2]>> /\ a[1] \in Runs /\ a[2] \in 1..MaxCalls
  BY <1>1
<1>3. a[2] \in Nat /\ number[a[1]] \in Nat
  BY <1>2, EngineAssumption DEF TypeOK
<1> QED
  BY <1>2, <1>3, CallToCome

\* Every step keeps that a started call has an answer that covers it.
LEMMA ConsentStep ==
  TypeOK /\ CallAtPlace /\ DispatchCovered /\ StartedWithConsent /\ Kept /\ NewStart
    => StartedWithConsent'
<1> SUFFICES ASSUME TypeOK, CallAtPlace, DispatchCovered, StartedWithConsent, Kept, NewStart,
                    NEW a \in started'
             PROVE  \E b \in Requests : Covers(b, a)'
  BY DEF StartedWithConsent
<1>1. /\ a = <<a[1], a[2]>> /\ a[1] \in Runs /\ a[2] \in 1..MaxCalls /\ a[2] <= number[a[1]]
      /\ \E b \in Requests : Covers(b, a)
  <2>1. CASE a \in started
    BY <2>1, StartedMade DEF StartedWithConsent
  <2>2. ASSUME NEW r \in Runs, pc[r] = "dispatch", a = Current(r)
        PROVE  /\ a = <<a[1], a[2]>> /\ a[1] \in Runs /\ a[2] \in 1..MaxCalls
               /\ a[2] <= number[a[1]]
               /\ \E b \in Requests : Covers(b, a)
    <3>1. number[r] \in 1..MaxCalls
      BY <2>2 DEF CallAtPlace, Asking
    <3>2. number[r] <= number[r]
      BY <3>1, EngineAssumption
    <3> QED
      BY <2>2, <3>1, <3>2 DEF DispatchCovered
  <2> QED
    BY <2>1, <2>2 DEF NewStart
<1>2. PICK r \in Runs, i \in 1..MaxCalls : a = <<r, i>> /\ i <= number[r]
  BY <1>1
<1>3. PICK b \in Requests : Covers(b, <<r, i>>)
  BY <1>1, <1>2
<1>4. Covers(b, <<r, i>>)'
  BY <1>2, <1>3, CoversKept
<1> QED
  BY <1>2, <1>4 DEF Covers

\* How a row gets denied: only as a listed, open request.
NewDenial ==
  \A a \in Requests :
    row'[a].status = "denied" =>
      \/ row[a].status = "denied"
      \/ a \in listed

\* Only an answer denies; the outcome of a wait is no denial.
LEMMA DeniedStep == TypeOK /\ CallAtPlace /\ StatusAtPlace /\ [Next]_vars => NewDenial
<1> SUFFICES ASSUME TypeOK, CallAtPlace, StatusAtPlace, [Next]_vars PROVE NewDenial
  OBVIOUS
<1>1. CASE UNCHANGED row
  BY <1>1 DEF NewDenial
<1>2. ASSUME NEW r \in Runs, InsertRow(r) PROVE NewDenial
  BY <1>2 DEF InsertRow, TypeOK, NewDenial
<1>3. ASSUME NEW r \in Runs, RecordOutcome(r) PROVE NewDenial
  <2>1. status[r] # "denied"
    BY <1>3 DEF RecordOutcome, StatusAtPlace
  <2>2. \A x \in Rows, s \in Statuses : [x EXCEPT !.status = s].status = s
    BY DEF Rows
  <2>3. row[Current(r)] \in Rows /\ status[r] \in Statuses
    BY <1>3 DEF RecordOutcome, CallAtPlace, Asking, TypeOK
  <2>4. CASE row[Current(r)].status = "pending"
    <3> DEFINE x == row[Current(r)]
    <3>1. /\ row' = [row EXCEPT ![Current(r)] = [x EXCEPT !.status = status[r]]]
          /\ [x EXCEPT !.status = status[r]].status # "denied"
      BY <1>3, <2>1, <2>2, <2>3, <2>4 DEF RecordOutcome
    <3> HIDE DEF x
    <3> QED
      BY <3>1 DEF TypeOK, NewDenial
  <2> QED
    BY <1>1, <1>3, <2>4 DEF RecordOutcome
<1>4. ASSUME NEW a \in Requests, NEW answer \in Answers, NEW scope \in Scopes,
             Decide(a, answer, scope)
      PROVE NewDenial
  BY <1>4 DEF Decide, Decidable, TypeOK, NewDenial
<1>5. CASE Restart
  <2>1. \A b \in Requests : row'[b].status = "denied" => row[b].status = "denied"
    <3>1. \A x \in Rows : [x EXCEPT !.status = "cancelled"].status = "cancelled"
      BY DEF Rows
    <3> QED
      BY <1>5, <3>1 DEF Restart, RecoveredRows, TypeOK
  <2> QED
    BY <2>1 DEF NewDenial
<1> QED
  BY <1>1, <1>2, <1>3, <1>4, <1>5 DEF Next, Thread, Start, Call, UseGrant, Register,
     StoreRaises, GiveUp, RecordFails, Resume, Settle, Dispatch, Finish, Cancel, Revoke, vars

\* Every step keeps that a denied tool does not start in its run.
LEMMA NeverStep ==
  TypeOK /\ CallAtPlace /\ RowAtPlace /\ ListedAtPlace /\ DenialsHeld /\ DeniedNeverStarts
    /\ Kept /\ NewStart /\ NewDenial => DeniedNeverStarts'
<1> SUFFICES ASSUME TypeOK, CallAtPlace, RowAtPlace, ListedAtPlace, DenialsHeld,
                    DeniedNeverStarts, Kept, NewStart, NewDenial,
                    NEW a \in Requests, NEW b \in Requests,
                    row'[a].status = "denied", a[1] = b[1], a[2] <= b[2],
                    tool'[a] = tool'[b], b \in started'
             PROVE  FALSE
  BY DEF DeniedNeverStarts
<1> PICK q \in Runs, i \in 1..MaxCalls, j \in 1..MaxCalls : a = <<q, i>> /\ b = <<q, j>>
  OBVIOUS
<1> i <= j
  OBVIOUS
<1>1. i \in Nat /\ j \in Nat /\ number[q] \in Nat
  BY EngineAssumption DEF TypeOK
<1>2. CASE <<q, j>> \in started
  <2>1. j <= number[q] /\ i <= number[q]
    BY <1>1, <1>2, CallToCome
  <2>2. tool[<<q, i>>] = tool[<<q, j>>]
    BY <2>1 DEF Kept
  <2>3. row[<<q, i>>].status # "denied"
    BY <1>2, <2>2 DEF DeniedNeverStarts
  <2>4. <<q, i>> \in listed
    BY <2>3 DEF NewDenial
  <2>5. i = number[q] /\ pc[q] \in Asking \cup {"raised"}
    BY <2>4 DEF ListedAtPlace, Asking
  <2>6. j = number[q]
    BY <1>1, <2>1, <2>5
  <2> QED
    BY <1>2, <2>5, <2>6 DEF CallAtPlace
<1>3. CASE <<q, j>> \notin started
  <2>1. /\ pc[q] = "dispatch" /\ j = number[q]
        /\ UNCHANGED <<tool, row>>
    BY <1>3 DEF NewStart
  <2>2. i = number[q]
    BY <2>1 DEF DenialsHeld, Asking
  <2> QED
    BY <2>1, <2>2 DEF RowAtPlace
<1> QED
  BY <1>2, <1>3
-----------------------------------------------------------------------------
\* The invariant holds at first.
LEMMA InvariantInit == Init => Invariant
<1> SUFFICES ASSUME Init PROVE Invariant
  OBVIOUS
<1> USE EngineAssumption
<1>1. TypeOK
  BY DEF Init, TypeOK, Locations, Statuses, Rows, NoRow
<1>2. CallAtPlace /\ StatusAtPlace /\ RowAtPlace /\ ListedAtPlace
  BY DEF Init, CallAtPlace, StatusAtPlace, RowAtPlace, ListedAtPlace, Asking
<1>3. OpenRows /\ DenialsHeld /\ DoneForgets
  BY DEF Init, OpenRows, DenialsHeld, DoneForgets, NoRow
<1>4. GrantsAnswered /\ DispatchCovered /\ StartedWithConsent /\ DeniedNeverStarts
  BY DEF Init, GrantsAnswered, DispatchCovered, StartedWithConsent, DeniedNeverStarts
<1> QED
  BY <1>1, <1>2, <1>3, <1>4 DEF Invariant

\* Every step keeps the invariant.
LEMMA InvariantStep == Invariant /\ [Next]_vars => Invariant'
<1> SUFFICES ASSUME Invariant, [Next]_vars PROVE Invariant'
  OBVIOUS
<1> USE DEF Invariant
<1>1. Kept /\ NewDispatch /\ NewStart /\ NewDenial
  BY KeptStep, PlaceStep, StartedStep, DeniedStep
<1>2. TypeOK' /\ CallAtPlace' /\ StatusAtPlace' /\ RowAtPlace' /\ ListedAtPlace'
  BY TypeStep, CallStep, StatusStep, RowStep, ListedStep
<1>3. OpenRows' /\ DenialsHeld' /\ DoneForgets'
  BY OpenStep, DenialsStep, DoneStep
<1>4. GrantsAnswered' /\ DispatchCovered'
  BY <1>1, GrantsStep, DispatchStep
<1>5. StartedWithConsent' /\ DeniedNeverStarts'
  BY <1>1, ConsentStep, NeverStep
<1> QED
  BY <1>2, <1>3, <1>4, <1>5
-----------------------------------------------------------------------------
\* The inductive invariant holds in every reachable state.
THEOREM InvariantHolds == Spec => []Invariant
  BY InvariantInit, InvariantStep, PTL DEF Spec

\* The types hold: among them, no grant is ever stored for a scope of one call.
THEOREM TypeCorrect == Spec => []TypeOK
<1>1. Invariant => TypeOK
  BY DEF Invariant
<1> QED
  BY <1>1, InvariantHolds, PTL

\* No call of permissions.py's callers reaches the tool registry without an
\* answer that covers it, however answers, revocations, cancellations, deadlines,
\* failures of the store and restarts interleave.
THEOREM ConsentGiven == Spec => []StartedWithConsent
<1>1. Invariant => StartedWithConsent
  BY DEF Invariant
<1> QED
  BY <1>1, InvariantHolds, PTL

\* Once a tool is denied in a run, no call of that tool starts in that run.
THEOREM DenialHolds == Spec => []DeniedNeverStarts
<1>1. Invariant => DeniedNeverStarts
  BY DEF Invariant
<1> QED
  BY <1>1, InvariantHolds, PTL

\* The status in memory and the row in the store never disagree on an answer.
THEOREM AnswersAgreeAlways == Spec => []AnswersAgree
<1>1. Invariant => AnswersAgree
  BY DEF Invariant, StatusAtPlace, RowAtPlace, AnswersAgree, Answers
<1> QED
  BY <1>1, InvariantHolds, PTL

\* A run that has ended leaves nothing in memory and no open request.
THEOREM NothingStays == Spec => []NothingLeftBehind
<1>1. Invariant => NothingLeftBehind
  BY DEF Invariant, DoneForgets, ListedAtPlace, OpenRows, NothingLeftBehind
<1> QED
  BY <1>1, InvariantHolds, PTL

\* No step replaces a stored answer or outcome.
THEOREM AnswersAreFinal == Spec => AnswersFinal
<1>1. Invariant /\ [Next]_vars =>
        [\A a \in Requests : row[a].status \in Statuses \ {"none", "pending"}
                               => row'[a] = row[a]]_vars
  <2> SUFFICES ASSUME Invariant, [Next]_vars, NEW a \in Requests,
                      row[a].status \in Statuses \ {"none", "pending"}
               PROVE  row'[a] = row[a]
    OBVIOUS
  <2>1. Kept
    BY KeptStep DEF Invariant
  <2>2. a = <<a[1], a[2]>> /\ a[1] \in Runs /\ a[2] \in 1..MaxCalls
    OBVIOUS
  <2> QED
    BY <2>1, <2>2 DEF Kept
<1> QED
  BY <1>1, InvariantHolds, PTL DEF Spec, AnswersFinal
-----------------------------------------------------------------------------
(* The refinement.                                                         *)

\* A call to come names no tool.
Unmade == \A r \in Runs, i \in 1..MaxCalls : i > number[r] => tool[<<r, i>>] = NoTool

\* Every step keeps that: a tool is named with the next number.
LEMMA UnmadeStep == TypeOK /\ Unmade /\ [Next]_vars => Unmade'
<1> SUFFICES ASSUME TypeOK, Unmade, [Next]_vars PROVE Unmade'
  OBVIOUS
<1>1. CASE UNCHANGED <<number, tool>>
  BY <1>1 DEF Unmade
<1>2. ASSUME NEW r \in Runs, NEW t \in Tools, Call(r, t) PROVE Unmade'
  <2> SUFFICES ASSUME NEW q \in Runs, NEW i \in 1..MaxCalls, i > number'[q]
               PROVE  tool'[<<q, i>>] = NoTool
    BY DEF Unmade
  <2>1. i \in Nat /\ number[q] \in Nat /\ number[r] \in Nat
    BY EngineAssumption DEF TypeOK
  <2>2. number'[q] = IF q = r THEN number[q] + 1 ELSE number[q]
    BY <1>2 DEF Call, TypeOK
  <2>3. i > number[q] /\ (q = r => i # number[r] + 1)
    BY <2>1, <2>2
  <2>4. tool'[<<q, i>>] = tool[<<q, i>>]
    BY <1>2, <2>3 DEF Call, TypeOK
  <2> QED
    BY <2>3, <2>4 DEF Unmade
<1> QED
  BY <1>1, <1>2 DEF Next, Thread, Start, UseGrant, Register, InsertRow, StoreRaises, GiveUp,
     RecordOutcome, RecordFails, Resume, Settle, Dispatch, Finish, Cancel, Decide, Revoke,
     Restart, vars

\* An allowed request has a scope.
Scoped == \A a \in Requests : row[a].status = "allowed" => row[a].scope \in Scopes

\* Every step keeps that.
LEMMA ScopedStep == TypeOK /\ StatusAtPlace /\ Scoped /\ [Next]_vars => Scoped'
<1> SUFFICES ASSUME TypeOK, StatusAtPlace, Scoped, [Next]_vars PROVE Scoped'
  OBVIOUS
<1>1. CASE UNCHANGED row
  BY <1>1 DEF Scoped
<1>2. ASSUME NEW r \in Runs, InsertRow(r) PROVE Scoped'
  BY <1>2 DEF InsertRow, Scoped, TypeOK
<1>3. ASSUME NEW r \in Runs, RecordOutcome(r) PROVE Scoped'
  <2>1. CASE row[Current(r)].status = "pending"
    <3> DEFINE x == [row[Current(r)] EXCEPT !.status = status[r]]
    <3>1. row' = [row EXCEPT ![Current(r)] = x]
      BY <1>3, <2>1 DEF RecordOutcome
    <3>2. Current(r) \in Requests => x.status # "allowed"
      <4>1. status[r] \in {"expired", "cancelled"}
        BY <1>3 DEF RecordOutcome, StatusAtPlace
      <4>2. Current(r) \in Requests => row[Current(r)] \in Rows
        BY DEF TypeOK
      <4>3. Current(r) \in Requests => x.status = status[r]
        BY <4>2 DEF Rows
      <4> QED
        BY <4>1, <4>3
    <3> HIDE DEF x
    <3> QED
      BY <3>1, <3>2 DEF Scoped, TypeOK
  <2> QED
    BY <1>1, <1>3, <2>1 DEF RecordOutcome
<1>4. ASSUME NEW a \in Requests, NEW answer \in Answers, NEW scope \in Scopes,
             Decide(a, answer, scope)
      PROVE  Scoped'
  BY <1>4 DEF Decide, Scoped, TypeOK
<1>5. CASE Restart
  <2>1. \A x \in Rows : [x EXCEPT !.status = "cancelled"].status = "cancelled"
    BY DEF Rows
  <2> QED
    BY <1>5, <2>1 DEF RecoveredRows, Restart, Scoped, TypeOK
<1> QED
  BY <1>1, <1>2, <1>3, <1>4, <1>5 DEF Next, Thread, Start, Call, UseGrant, Register,
     StoreRaises, GiveUp, RecordFails, Resume, Settle, Dispatch, Finish, Cancel, Revoke, vars

\* No call of another run, and no other call of the run, becomes or ceases to be
\* cleared.
ClearedSame ==
  \A q \in Runs : /\ pc'[q] = "dispatch" <=> pc[q] = "dispatch"
                  /\ pc[q] = "dispatch" => number'[q] = number[q]

\* A step that takes no run to the tool registry or away from it clears nothing.
LEMMA ClearedKept == ClearedSame => Cleared' = Cleared
  BY DEF Cleared, ClearedSame

\* A run gets to the registry.
LEMMA ClearedMore ==
  ASSUME TypeOK, NEW r \in Runs, pc[r] # "dispatch", pc' = [pc EXCEPT ![r] = "dispatch"],
         number' = number
  PROVE  Current(r) \notin Cleared /\ Cleared' = Cleared \cup {Current(r)}
  BY DEF Cleared, TypeOK

\* A run leaves the registry.
LEMMA ClearedLess ==
  ASSUME TypeOK, NEW r \in Runs, NEW place, place # "dispatch", pc[r] = "dispatch",
         pc' = [pc EXCEPT ![r] = place], number' = number
  PROVE  Current(r) \in Cleared /\ Cleared' = Cleared \ {Current(r)}
  BY DEF Cleared, TypeOK

\* One row is replaced.
LEMMA VerdictSet ==
  ASSUME TypeOK, NEW a \in Requests, NEW x \in Rows, row' = [row EXCEPT ![a] = x]
  PROVE  Verdict' = [Verdict EXCEPT ![a] = Outcome(x)]
  BY DEF Verdict, TypeOK

\* A consent is that of a grant.
Consenting(g) == [tool |-> g.tool, runs |-> {r \in g.runs : owner[r] = g.owner}]

\* The engine begins as the service does.
LEMMA ConsentInit == Init => Consent!Init /\ Unmade /\ Scoped
<1> SUFFICES ASSUME Init PROVE Consent!Init /\ Unmade /\ Scoped
  OBVIOUS
<1>1. Verdict = [a \in Requests |-> "none"]
  BY DEF Init, NoRow, Outcome, Verdict
<1>2. Standing = {} /\ Cleared = {}
  BY DEF Cleared, Init, Standing
<1> QED
  BY <1>1, <1>2 DEF Consent!Init, Init, NoRow, Scoped, Unmade

\* Every step of the engine is one of the service or changes nothing in it.
LEMMA ConsentStepMapped ==
  Invariant /\ Unmade /\ Scoped /\ [Next]_vars => [Consent!Next]_(Consent!vars)
<1> SUFFICES ASSUME Invariant, Unmade, Scoped, [Next]_vars
             PROVE  Consent!Next \/ UNCHANGED Consent!vars
  BY DEF Consent!vars
<1>t. TypeOK /\ CallAtPlace /\ StatusAtPlace /\ RowAtPlace /\ ListedAtPlace /\ DenialsHeld
  BY DEF Invariant
<1>k. ASSUME UNCHANGED <<owner, tool, row, grants, started>>, ClearedSame
      PROVE  UNCHANGED Consent!vars
  BY <1>k, ClearedKept DEF Consent!vars, Standing, Verdict
<1>s. UNCHANGED <<owner, grants>> => Standing' = Standing
  BY DEF Standing
<1>1. ASSUME NEW r \in Runs,
             \/ Start(r) \/ Register(r) \/ StoreRaises(r) \/ GiveUp(r)
             \/ RecordFails(r) \/ Resume(r) \/ Finish(r) \/ Cancel(r)
      PROVE  UNCHANGED Consent!vars
  <2>1. ClearedSame
    BY <1>t, <1>1 DEF Start, Register, StoreRaises, GiveUp, RecordFails, Resume, Finish,
       Cancel, ClearedSame, TypeOK
  <2> QED
    BY <1>1, <1>k, <2>1 DEF Start, Register, StoreRaises, GiveUp, RecordFails, Resume, Finish,
       Cancel
<1>2. ASSUME NEW r \in Runs, NEW t \in Tools, Call(r, t) PROVE Consent!Next
  <2> DEFINE a == <<r, number[r] + 1>>
  <2>1. number[r] \in Nat /\ number[r] + 1 \in 1..MaxCalls /\ number[r] + 1 > number[r]
    BY <1>t, <1>2, EngineAssumption DEF Call, TypeOK
  <2>2. a \in Requests /\ tool[a] = NoTool
    BY <2>1 DEF Unmade
  <2>3. ClearedSame
    BY <1>t, <1>2 DEF Call, ClearedSame, TypeOK
  <2>4. Consent!Make(a, t)
    BY <1>2, <1>s, <2>2, <2>3, ClearedKept DEF Call, Consent!Make, Verdict
  <2> QED
    BY <2>2, <2>4 DEF Consent!Next
<1>3. ASSUME NEW r \in Runs, InsertRow(r) PROVE Consent!Next
  <2>1. /\ Current(r) \in Requests \ started /\ CurrentTool(r) \in Tools
        /\ row[Current(r)] = NoRow
    BY <1>t, <1>3 DEF Asking, CallAtPlace, InsertRow, RowAtPlace
  <2>2. Current(r) \notin Cleared
    BY <1>3 DEF Cleared, InsertRow
  <2>3. ClearedSame
    BY <1>t, <1>3 DEF ClearedSame, InsertRow, TypeOK
  <2>4. Verdict' = [Verdict EXCEPT ![Current(r)] = "pending"]
    <3> DEFINE x == [status |-> "pending", scope |-> "none"]
    <3>1. x \in Rows /\ Outcome(x) = "pending"
      BY DEF Outcome, Rows, Statuses
    <3>2. row' = [row EXCEPT ![Current(r)] = x]
      BY <1>3 DEF InsertRow
    <3> HIDE DEF x
    <3> QED
      BY <1>t, <2>1, <3>1, <3>2, VerdictSet
  <2>5. Verdict[Current(r)] = "none"
    BY <2>1 DEF NoRow, Outcome, Verdict
  <2>6. Consent!Ask(Current(r))
    BY <1>3, <1>s, <2>1, <2>2, <2>3, <2>4, <2>5, ClearedKept DEF Consent!Ask, InsertRow
  <2> QED
    BY <2>1, <2>6 DEF Consent!Next
<1>4. ASSUME NEW r \in Runs, RecordOutcome(r) PROVE Consent!Next
  <2>1. Current(r) \in Requests /\ row[Current(r)].status = "pending"
    BY <1>t, <1>4 DEF Asking, CallAtPlace, RecordOutcome, RowAtPlace
  <2>2. ClearedSame
    BY <1>t, <1>4 DEF ClearedSame, RecordOutcome, TypeOK
  <2>3. Verdict' = [Verdict EXCEPT ![Current(r)] = "lapsed"]
    <3> DEFINE x == [row[Current(r)] EXCEPT !.status = status[r]]
    <3>1. row[Current(r)] \in Rows /\ status[r] \in {"expired", "cancelled"}
      BY <1>t, <1>4, <2>1 DEF RecordOutcome, StatusAtPlace, TypeOK
    <3>2. x \in Rows /\ x.status = status[r]
      BY <3>1 DEF Rows, Statuses
    <3>3. Outcome(x) = "lapsed"
      BY <3>1, <3>2 DEF Outcome
    <3>4. row' = [row EXCEPT ![Current(r)] = x]
      BY <1>4, <2>1 DEF RecordOutcome
    <3> HIDE DEF x
    <3> QED
      <4>1. Verdict' = [Verdict EXCEPT ![Current(r)] = Outcome(x)]
        BY <1>t, <2>1, <3>2, <3>4, VerdictSet
      <4> QED
        BY <3>3, <4>1
  <2>4. Verdict[Current(r)] = "pending"
    BY <2>1 DEF Outcome, Verdict
  <2>5. Consent!Lapse(Current(r))
    BY <1>4, <1>s, <2>2, <2>3, <2>4, ClearedKept DEF Consent!Lapse, RecordOutcome
  <2> QED
    BY <2>1, <2>5 DEF Consent!Next
<1>5. ASSUME NEW r \in Runs, UseGrant(r) PROVE Consent!Next
  <2>1. Current(r) \in Requests \ started
    BY <1>t, <1>5 DEF Asking, CallAtPlace, UseGrant
  <2>2. Current(r) \notin Cleared /\ Cleared' = Cleared \cup {Current(r)}
    BY <1>t, <1>5, ClearedMore DEF UseGrant
  <2>3. Consent!Permitted(Current(r))
    <3>1. PICK g \in grants : g.owner = owner[r] /\ g.tool = CurrentTool(r) /\ r \in g.runs
      BY <1>5 DEF Granted, UseGrant
    <3>2. /\ Consenting(g) \in Standing
          /\ Consenting(g).tool = CurrentTool(r) /\ r \in Consenting(g).runs
      BY <3>1 DEF Consenting, Standing
    <3>3. Current(r)[1] = r
      OBVIOUS
    <3> QED
      BY <3>2, <3>3 DEF Consent!Permitted
  <2>4. Consent!Clear(Current(r))
    BY <1>5, <1>s, <2>1, <2>2, <2>3 DEF Consent!Clear, UseGrant, Verdict
  <2> QED
    BY <2>1, <2>4 DEF Consent!Next
<1>6. ASSUME NEW r \in Runs, Settle(r) PROVE Consent!Next \/ UNCHANGED Consent!vars
  <2>1. CASE Goto(r, "dispatch") /\ Approved(r)
    <3>1. Current(r) \in Requests \ started
      BY <1>t, <1>6 DEF Asking, CallAtPlace, Settle
    <3>2. Current(r) \notin Cleared /\ Cleared' = Cleared \cup {Current(r)}
      BY <1>t, <1>6, <2>1, ClearedMore DEF Settle
    <3>3. Verdict[Current(r)] \in Consent!Scopes
      BY <1>t, <1>6, <2>1, <3>1 DEF Approved, Consent!Scopes, Outcome, RowAtPlace, Scoped,
         Scopes, Settle, Verdict
    <3>4. Consent!Clear(Current(r))
      BY <1>6, <1>s, <3>1, <3>2, <3>3 DEF Consent!Clear, Consent!Permitted, Settle, Verdict
    <3> QED
      BY <3>1, <3>4 DEF Consent!Next
  <2>2. CASE Goto(r, "raised") \/ Goto(r, "ready")
    <3>1. ClearedSame
      BY <1>t, <1>6, <2>2 DEF ClearedSame, Settle, TypeOK
    <3> QED
      BY <1>6, <1>k, <3>1 DEF Settle
  <2> QED
    BY <1>6, <2>1, <2>2 DEF Settle
<1>7. ASSUME NEW r \in Runs, Dispatch(r) PROVE Consent!Next
  <2>1. Current(r) \in Requests
    BY <1>t, <1>7 DEF Asking, CallAtPlace, Dispatch
  <2>2. CASE cancel[r]
    <3>1. Current(r) \in Cleared /\ Cleared' = Cleared \ {Current(r)}
      BY <1>t, <1>7, <2>2, ClearedLess DEF Dispatch
    <3>2. Consent!Drop(Current(r))
      BY <1>7, <1>s, <2>2, <3>1 DEF Consent!Drop, Dispatch, Verdict
    <3> QED
      BY <2>1, <3>2 DEF Consent!Next
  <2>3. CASE ~ cancel[r]
    <3>1. Current(r) \in Cleared /\ Cleared' = Cleared \ {Current(r)}
      BY <1>t, <1>7, <2>3, ClearedLess DEF Dispatch
    <3>2. ASSUME NEW b \in Requests, b[1] = r, tool[b] = CurrentTool(r),
                 Verdict[b] = "denied"
          PROVE  FALSE
      <4>1. PICK i \in 1..MaxCalls : b = <<r, i>>
        BY <3>2
      <4>2. row[<<r, i>>].status = "denied"
        BY <3>2, <4>1 DEF Outcome, Scoped, Scopes, Verdict
      <4>3. i = number[r]
        BY <1>t, <1>7, <3>2, <4>1, <4>2 DEF Asking, DenialsHeld, Dispatch
      <4> QED
        BY <1>t, <1>7, <4>2, <4>3 DEF Dispatch, RowAtPlace
    <3>3. ~ Consent!Denied(Current(r))
      BY <3>2 DEF Consent!Denied
    <3>4. Consent!Start(Current(r))
      BY <1>7, <1>s, <2>3, <3>1, <3>3 DEF Consent!Start, Dispatch, Verdict
    <3> QED
      BY <2>1, <3>4 DEF Consent!Next
  <2> QED
    BY <2>2, <2>3
<1>8. ASSUME NEW a \in Requests, NEW answer \in Answers, NEW scope \in Scopes,
             Decide(a, answer, scope)
      PROVE  Consent!Next
  <2> DEFINE x == [status |-> answer, scope |-> IF answer = "allowed" THEN scope ELSE "none"]
  <2>1. x \in Rows /\ Outcome(x) = IF answer = "allowed" THEN scope ELSE answer
    BY DEF Answers, Outcome, Rows, Statuses
  <2>2. row' = [row EXCEPT ![a] = x]
    BY <1>8 DEF Decide
  <2> HIDE DEF x
  <2>3. Verdict' = [Verdict EXCEPT ![a] = IF answer = "allowed" THEN scope ELSE answer]
    BY <1>t, <2>1, <2>2, VerdictSet
  <2>4. Verdict[a] = "pending"
    BY <1>8 DEF Decidable, Decide, Outcome, Verdict
  <2>5. Cleared' = Cleared
    BY <1>8 DEF Cleared, Decide
  <2>6. CASE answer = "denied"
    <3>1. Standing' = Standing
      BY <1>8, <2>6, <1>s DEF Decide, MakesGrant
    <3>2. Consent!Deny(a)
      BY <1>8, <2>3, <2>4, <2>5, <2>6, <3>1 DEF Consent!Deny, Decide
    <3> QED
      BY <3>2 DEF Consent!Next
  <2>7. CASE answer = "allowed"
    <3>1. Standing' = Standing \cup Consent!Consents(a, scope)
      <4>1. CASE scope = "once"
        BY <1>8, <4>1, <1>s DEF Consent!Consents, Decide, MakesGrant
      <4>2. CASE scope # "once"
        <5>1. /\ grants' = grants \cup {Grant(a, scope)} /\ owner' = owner
          BY <1>8, <2>7, <4>2 DEF Decide, MakesGrant
        <5>2. Consent!Consents(a, scope) = {Consenting(Grant(a, scope))}
          <6>1. a[1] \in Runs
            OBVIOUS
          <6> QED
            BY <4>2, <6>1 DEF Consent!Consents, Consenting, Grant
        <5>3. Standing' = Standing \cup {Consenting(Grant(a, scope))}
          BY <5>1 DEF Consenting, Standing
        <5> QED
          BY <5>2, <5>3
      <4> QED
        BY <4>1, <4>2
    <3>2. Consent!Allow(a, scope)
      BY <1>8, <2>3, <2>4, <2>5, <2>7, <3>1 DEF Consent!Allow, Decide
    <3> QED
      BY <3>2 DEF Consent!Next, Consent!Scopes, Scopes
  <2> QED
    BY <2>6, <2>7 DEF Answers
<1>9. ASSUME NEW g \in grants, Revoke(g) PROVE Consent!Next \/ UNCHANGED Consent!vars
  <2>1. /\ UNCHANGED <<owner, tool, row, started>> /\ Verdict' = Verdict /\ Cleared' = Cleared
        /\ Consenting(g) \in Standing
    BY <1>9 DEF Cleared, Consenting, Revoke, Standing, Verdict
  <2>2. \/ Standing' = Standing
        \/ Standing' = Standing \ {Consenting(g)}
    <3>1. Standing = {Consenting(h) : h \in grants}
      BY DEF Consenting, Standing
    <3>2. Standing' = {Consenting(h) : h \in grants \ {g}}
      BY <1>9 DEF Consenting, Revoke, Standing
    <3> QED
      BY <3>1, <3>2
  <2>3. CASE Standing' = Standing
    BY <2>1, <2>3 DEF Consent!vars
  <2>4. CASE Standing' = Standing \ {Consenting(g)}
    BY <2>1, <2>4 DEF Consent!Next, Consent!Revoke
  <2> QED
    BY <2>2, <2>3, <2>4
<1>10. CASE Restart
  <2>1. Cleared' = {}
    BY <1>t, <1>10 DEF Cleared, Restart, TypeOK
  <2>2. Verdict' = [a \in Requests |-> IF Verdict[a] = "pending" THEN "lapsed" ELSE Verdict[a]]
    <3>1. ASSUME NEW a \in Requests
          PROVE  Verdict'[a] = IF Verdict[a] = "pending" THEN "lapsed" ELSE Verdict[a]
      <4>1. row[a] \in Rows
        BY <1>t DEF TypeOK
      <4>2. [row[a] EXCEPT !.status = "cancelled"].status = "cancelled"
        BY <4>1 DEF Rows
      <4>3. row'[a].status = IF row[a].status = "pending" THEN "cancelled" ELSE row[a].status
        BY <1>10, <4>2 DEF RecoveredRows, Restart
      <4> QED
        BY <1>10, <4>3 DEF Outcome, RecoveredRows, Restart, Scoped, Scopes, Verdict
    <3> QED
      BY <3>1 DEF Verdict
  <2>3. Consent!Stop
    BY <1>10, <1>s, <2>1, <2>2 DEF Consent!Stop, Restart
  <2> QED
    BY <2>3 DEF Consent!Next
<1>11. CASE UNCHANGED vars
  BY <1>k, <1>11 DEF ClearedSame, vars
<1> QED
  BY <1>1, <1>2, <1>3, <1>4, <1>5, <1>6, <1>7, <1>8, <1>9, <1>10, <1>11 DEF Next, Thread

\* What the engine does is what the service promises: each request has one verdict, a call
\* is cleared by its own or by a consent that is in force when it is looked up, and
\* none of a tool denied in its run starts.
THEOREM EngineImplementsConsent == Spec => ImplementsConsent
<1>1. Init => Unmade /\ Scoped
  BY ConsentInit
<1>2. Unmade /\ Scoped /\ Invariant /\ [Next]_vars => Unmade' /\ Scoped'
  BY ScopedStep, UnmadeStep DEF Invariant
<1>3. Spec => [](Unmade /\ Scoped)
  BY <1>1, <1>2, InvariantHolds, PTL DEF Spec
<1>4. Init => Consent!Init
  BY ConsentInit
<1> QED
  BY <1>3, <1>4, ConsentStepMapped, InvariantHolds, PTL DEF Consent!Spec, ImplementsConsent, Spec
=============================================================================
