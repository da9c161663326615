--------------------------- MODULE McpManagerProofs ---------------------------
(***************************************************************************)
(* Proofs about McpManager, for any number of requests and servers: one    *)
(* lemma per conjunct of the inductive invariant, then the theorems.       *)
(***************************************************************************)
EXTENDS McpManager, TLAPS

USE DEF Goto, connections, thread, history

\* The inductive invariant.
Invariant ==
  /\ TypeOK
  /\ InHand
  /\ LockHeld
  /\ UnbornUnknown
  /\ ExpiredEnded
  /\ ProcessesReachable
  /\ TimedOutUnused
  /\ DeletionRaced
  /\ DeletedDisconnected
-----------------------------------------------------------------------------
\* The client in the hand of a thread that talks to one.
LEMMA HandClient ==
  ASSUME TypeOK, InHand, NEW r \in Requests,
         pc[r] \in {"start", "initialize", "request", "reading"}
  PROVE  using[r] \in Clients
<1>1. CASE pc[r] \in {"start", "initialize"}
  <2>1. using[r] = <<r, server[r]>> /\ server[r] \in Servers
    BY <1>1 DEF InHand, TypeOK
  <2> QED
    BY <2>1 DEF Clients
<1>2. CASE pc[r] \in {"request", "reading"}
  BY <1>2 DEF InHand, TypeOK
<1> QED
  BY <1>1, <1>2

\* A client under construction bears the name of its maker and its server.
LEMMA NewClient ==
  ASSUME InHand, NEW r \in Requests, pc[r] \in {"start", "initialize"}
  PROVE  /\ using[r][1] = r /\ using[r][2] = server[r]
         /\ Unborn(using[r])
  BY DEF InHand, Unborn

\* Every step keeps the types.
LEMMA TypeStep ==
  TypeOK /\ InHand /\ [Next]_vars => TypeOK'
<1> SUFFICES ASSUME TypeOK, InHand, [Next]_vars PROVE TypeOK'
  OBVIOUS
<1>1. ASSUME NEW r \in Requests,
             Use(r) \/ List(r) \/ Remove(r) \/ Put(r) \/ Thread(r) \/ Chatter(r)
      PROVE TypeOK'
  <2>1. CASE Use(r)
    BY <2>1 DEF Begin, Locations, Operations, TypeOK, Use
  <2>2. CASE List(r)
    BY <2>2 DEF Begin, List, Locations, Operations, TypeOK
  <2>3. CASE Remove(r)
    BY <2>3 DEF Begin, Locations, Operations, Remove, TypeOK
  <2>4. CASE Put(r)
    BY <2>4 DEF Begin, Locations, Operations, Put, TypeOK
  <2>5. CASE Status(r)
    BY <2>5 DEF Locations, Status, TypeOK
  <2>6. CASE Start(r)
    BY <2>6 DEF Locations, Start, TypeOK
  <2>7. CASE StartFails(r)
    BY <2>7 DEF Locations, Proceed, Released, StartFails, TypeOK
  <2>8. CASE Initialized(r)
    BY <2>8 DEF Initialized, Locations, TypeOK
  <2>9. CASE InitializeFails(r)
    <3>1. using[r] \in Clients
      BY <2>9, HandClient DEF InitializeFails
    <3>2. pc' \in [Requests -> Locations]
      BY <2>9 DEF InitializeFails, Locations, Proceed, TypeOK
    <3>3. refused' \subseteq Clients
      BY <2>9, <3>1 DEF InitializeFails, TypeOK
    <3> QED
      BY <2>9, <3>2, <3>3 DEF InitializeFails, Released, TypeOK
  <2>10. CASE InitializeTimesOut(r)
    <3>1. using[r] \in Clients
      BY <2>10, HandClient DEF InitializeTimesOut
    <3>2. pc' \in [Requests -> Locations]
      BY <2>10 DEF InitializeTimesOut, Locations, Proceed, TypeOK
    <3>3. process' \in [Clients -> {"none", "alive", "ended"}]
      BY <2>10, <3>1 DEF Closed, InitializeTimesOut, TypeOK
    <3> QED
      BY <2>10, <3>1, <3>2, <3>3 DEF InitializeTimesOut, Released, TypeOK
  <2>11. CASE Send(r)
    BY <2>11 DEF Locations, Send, TypeOK
  <2>12. CASE SendFails(r)
    BY <2>12 DEF Locations, Proceed, SendFails, TypeOK
  <2>13. CASE Answered(r)
    BY <2>13 DEF Answered, Locations, Proceed, TypeOK
  <2>14. CASE TimesOut(r)
    BY <2>14 DEF Closed, InHand, Locations, Proceed, TimesOut, TypeOK
  <2>15. CASE ReadOn(r)
    BY <2>15 DEF ReadOn, TypeOK
  <2>16. CASE Pop(r)
    BY <2>16 DEF Locations, Pop, TypeOK
  <2>17. CASE Close(r)
    BY <2>17 DEF Close, Closed, Locations, TypeOK
  <2>18. CASE DeleteRow(r)
    BY <2>18 DEF DeleteRow, Locations, TypeOK
  <2>19. CASE Chatter(r)
    BY <2>19 DEF Chatter, TypeOK
  <2>20. ASSUME NEW n \in Servers, Reuse(r, n) PROVE TypeOK'
    BY <2>20 DEF Locations, Look, Reuse, TypeOK
  <2>21. ASSUME NEW n \in Servers, Unknown(r, n) PROVE TypeOK'
    BY <2>21 DEF Locations, Look, TypeOK, Unknown
  <2>22. ASSUME NEW n \in Servers, Prepare(r, n) PROVE TypeOK'
    BY <2>22 DEF Clients, Locations, Look, Prepare, TypeOK
  <2> QED
    BY <1>1, <2>1, <2>2, <2>3, <2>4, <2>5, <2>6, <2>7, <2>8, <2>9, <2>10, <2>11,
       <2>12, <2>13, <2>14, <2>15, <2>16, <2>17, <2>18, <2>19, <2>20, <2>21,
       <2>22 DEF Thread
<1>2. ASSUME NEW c \in Clients, Exit(c) PROVE TypeOK'
  BY <1>2 DEF Exit, TypeOK
<1>3. CASE UNCHANGED vars
  BY <1>3 DEF TypeOK, vars
<1> QED
  BY <1>1, <1>2, <1>3 DEF Next

\* Every step keeps what threads have in hand.
LEMMA HandStep ==
  TypeOK /\ InHand /\ [Next]_vars => InHand'
<1> SUFFICES ASSUME TypeOK, InHand, [Next]_vars PROVE InHand'
  OBVIOUS
<1> USE ManagerAssumption
<1>1. ASSUME NEW r \in Requests,
             Use(r) \/ List(r) \/ Remove(r) \/ Put(r) \/ Thread(r) \/ Chatter(r)
      PROVE InHand'
  <2>1. CASE Use(r)
    BY <2>1 DEF Begin, InHand, Use
  <2>2. CASE List(r)
    BY <2>2 DEF Begin, InHand, List
  <2>3. CASE Remove(r)
    BY <2>3 DEF Begin, InHand, Remove, TypeOK
  <2>4. CASE Put(r)
    BY <2>4 DEF Begin, InHand, Put
  <2>5. CASE Status(r)
    BY <2>5 DEF InHand, Status
  <2>6. CASE Start(r)
    BY <2>6 DEF InHand, Start
  <2>7. CASE StartFails(r)
    BY <2>7 DEF InHand, Proceed, StartFails
  <2>8. CASE Initialized(r)
    <3>1. using[r] # None
      BY <2>8, HandClient DEF Initialized
    <3> QED
      BY <2>8, <3>1 DEF InHand, Initialized
  <2>9. CASE InitializeFails(r)
    BY <2>9 DEF InHand, InitializeFails, Proceed
  <2>10. CASE InitializeTimesOut(r)
    BY <2>10 DEF InHand, InitializeTimesOut, Proceed
  <2>11. CASE Send(r)
    <3>1. using[r] \in Clients
      BY <2>11, HandClient DEF Send
    <3>2. ASSUME NEW q \in Requests, pc[q] = "reading" PROVE using[q] # using[r]
      BY <2>11, <3>2 DEF InHand, Send
    <3>3. ASSUME NEW q \in Requests, pc'[q] = "reading" PROVE busy'[using'[q]] = q
      <4>1. CASE q = r
        BY <2>11, <3>1, <4>1 DEF Send, TypeOK
      <4>2. CASE q # r
        <5>1. pc[q] = "reading"
          BY <2>11, <3>3, <4>2 DEF Send
        <5> QED
          BY <2>11, <3>2, <5>1 DEF InHand, Send
      <4> QED
        BY <4>1, <4>2
    <3> QED
      BY <2>11, <3>1, <3>3 DEF InHand, Send
  <2>12. CASE SendFails(r)
    BY <2>12 DEF InHand, Proceed, SendFails
  <2>13. CASE Answered(r)
    BY <2>13 DEF Answered, InHand, Proceed, TypeOK
  <2>14. CASE TimesOut(r)
    BY <2>14 DEF InHand, Proceed, TimesOut, TypeOK
  <2>15. CASE ReadOn(r)
    BY <2>15 DEF InHand, ReadOn
  <2>16. CASE Pop(r)
    BY <2>16 DEF InHand, Pop
  <2>17. CASE Close(r)
    BY <2>17 DEF Close, InHand
  <2>18. CASE DeleteRow(r)
    BY <2>18 DEF DeleteRow, InHand
  <2>19. CASE Chatter(r)
    BY <2>19 DEF Chatter, InHand
  <2>20. ASSUME NEW n \in Servers, Reuse(r, n) PROVE InHand'
    BY <2>20 DEF Connected, InHand, Look, Reuse, TypeOK
  <2>21. ASSUME NEW n \in Servers, Unknown(r, n) PROVE InHand'
    BY <2>21 DEF InHand, Look, Unknown
  <2>22. ASSUME NEW n \in Servers, Prepare(r, n) PROVE InHand'
    BY <2>22 DEF InHand, Look, Prepare, TypeOK
  <2> QED
    BY <1>1, <2>1, <2>2, <2>3, <2>4, <2>5, <2>6, <2>7, <2>8, <2>9, <2>10, <2>11,
       <2>12, <2>13, <2>14, <2>15, <2>16, <2>17, <2>18, <2>19, <2>20, <2>21,
       <2>22 DEF Thread
<1>2. ASSUME NEW c \in Clients, Exit(c) PROVE InHand'
  BY <1>2 DEF Exit, InHand
<1>3. CASE UNCHANGED vars
  BY <1>3 DEF InHand, vars
<1> QED
  BY <1>1, <1>2, <1>3 DEF Next

\* Every step keeps the lock where a connection is made.
LEMMA LockStep ==
  TypeOK /\ LockHeld /\ [Next]_vars => LockHeld'
<1> SUFFICES ASSUME TypeOK, LockHeld, [Next]_vars PROVE LockHeld'
  OBVIOUS
<1> USE ManagerAssumption
<1>1. ASSUME NEW r \in Requests,
             Use(r) \/ List(r) \/ Remove(r) \/ Put(r) \/ Thread(r) \/ Chatter(r)
      PROVE LockHeld'
  <2>1. CASE Use(r)
    BY <2>1 DEF Begin, LockHeld, Use
  <2>2. CASE List(r)
    BY <2>2 DEF Begin, List, LockHeld
  <2>3. CASE Remove(r)
    BY <2>3 DEF Begin, LockHeld, Remove, TypeOK
  <2>4. CASE Put(r)
    BY <2>4 DEF Begin, LockHeld, Put
  <2>5. CASE Status(r)
    BY <2>5 DEF LockHeld, Status
  <2>6. CASE Start(r)
    BY <2>6 DEF LockHeld, Start
  <2>7. CASE StartFails(r)
    BY <2>7 DEF LockHeld, Proceed, StartFails, TypeOK
  <2>8. CASE Initialized(r)
    BY <2>8 DEF Initialized, LockHeld, TypeOK
  <2>9. CASE InitializeFails(r)
    BY <2>9 DEF InitializeFails, LockHeld, Proceed, TypeOK
  <2>10. CASE InitializeTimesOut(r)
    BY <2>10 DEF InitializeTimesOut, LockHeld, Proceed, TypeOK
  <2>11. CASE Send(r)
    BY <2>11 DEF LockHeld, Send
  <2>12. CASE SendFails(r)
    BY <2>12 DEF LockHeld, Proceed, SendFails
  <2>13. CASE Answered(r)
    BY <2>13 DEF Answered, LockHeld, Proceed
  <2>14. CASE TimesOut(r)
    BY <2>14 DEF LockHeld, Proceed, TimesOut
  <2>15. CASE ReadOn(r)
    BY <2>15 DEF LockHeld, ReadOn
  <2>16. CASE Pop(r)
    BY <2>16 DEF LockHeld, Pop
  <2>17. CASE Close(r)
    BY <2>17 DEF Close, LockHeld
  <2>18. CASE DeleteRow(r)
    BY <2>18 DEF DeleteRow, LockHeld
  <2>19. CASE Chatter(r)
    BY <2>19 DEF Chatter, LockHeld
  <2>20. ASSUME NEW n \in Servers, Reuse(r, n) PROVE LockHeld'
    BY <2>20 DEF LockHeld, Look, Reuse
  <2>21. ASSUME NEW n \in Servers, Unknown(r, n) PROVE LockHeld'
    BY <2>21 DEF LockHeld, Look, Unknown
  <2>22. ASSUME NEW n \in Servers, Prepare(r, n) PROVE LockHeld'
    BY <2>22 DEF LockHeld, Look, Prepare, TypeOK
  <2> QED
    BY <1>1, <2>1, <2>2, <2>3, <2>4, <2>5, <2>6, <2>7, <2>8, <2>9, <2>10, <2>11,
       <2>12, <2>13, <2>14, <2>15, <2>16, <2>17, <2>18, <2>19, <2>20, <2>21,
       <2>22 DEF Thread
<1>2. ASSUME NEW c \in Clients, Exit(c) PROVE LockHeld'
  BY <1>2 DEF Exit, LockHeld
<1>3. CASE UNCHANGED vars
  BY <1>3 DEF LockHeld, vars
<1> QED
  BY <1>1, <1>2, <1>3 DEF Next

\* A timed-out connection stays closed: a process is started for new clients only.
LEMMA ExpiredStep ==
  TypeOK /\ InHand /\ UnbornUnknown /\ ExpiredEnded /\ [Next]_vars => ExpiredEnded'
<1> SUFFICES ASSUME TypeOK, InHand, UnbornUnknown, ExpiredEnded,
   [Next]_vars PROVE ExpiredEnded'
  OBVIOUS
<1>1. ASSUME NEW r \in Requests,
             Use(r) \/ List(r) \/ Remove(r) \/ Put(r) \/ Thread(r) \/ Chatter(r)
      PROVE ExpiredEnded'
  <2>1. CASE Use(r)
    BY <2>1 DEF ExpiredEnded, Use
  <2>2. CASE List(r)
    BY <2>2 DEF ExpiredEnded, List
  <2>3. CASE Remove(r)
    BY <2>3 DEF ExpiredEnded, Remove
  <2>4. CASE Put(r)
    BY <2>4 DEF ExpiredEnded, Put
  <2>5. CASE Status(r)
    BY <2>5 DEF ExpiredEnded, Status
  <2>6. CASE Start(r)
    <3>1. using[r] \in Clients /\ using[r][1] = r /\ Unborn(using[r])
      BY <2>6, HandClient, NewClient DEF Start
    <3>2. process[using[r]] = "none"
      BY <2>6, <3>1 DEF Start, UnbornUnknown
    <3>3. using[r] \notin expired
      BY <3>2 DEF ExpiredEnded
    <3> QED
      BY <2>6, <3>3 DEF ExpiredEnded, Start
  <2>7. CASE StartFails(r)
    BY <2>7 DEF ExpiredEnded, StartFails
  <2>8. CASE Initialized(r)
    BY <2>8 DEF ExpiredEnded, Initialized
  <2>9. CASE InitializeFails(r)
    BY <2>9 DEF ExpiredEnded, InitializeFails
  <2>10. CASE InitializeTimesOut(r)
    <3>1. using[r] \in Clients
      BY <2>10, HandClient DEF InitializeTimesOut
    <3> QED
      BY <2>10, <3>1 DEF Closed, ExpiredEnded, InitializeTimesOut, TypeOK
  <2>11. CASE Send(r)
    BY <2>11 DEF ExpiredEnded, Send
  <2>12. CASE SendFails(r)
    BY <2>12 DEF ExpiredEnded, SendFails
  <2>13. CASE Answered(r)
    BY <2>13 DEF Answered, ExpiredEnded
  <2>14. CASE TimesOut(r)
    <3>1. using[r] \in Clients
      BY <2>14, HandClient DEF TimesOut
    <3> QED
      BY <2>14, <3>1 DEF Closed, ExpiredEnded, TimesOut, TypeOK
  <2>15. CASE ReadOn(r)
    BY <2>15 DEF ExpiredEnded, ReadOn
  <2>16. CASE Pop(r)
    BY <2>16 DEF ExpiredEnded, Pop
  <2>17. CASE Close(r)
    BY <2>17 DEF Close, Closed, ExpiredEnded
  <2>18. CASE DeleteRow(r)
    BY <2>18 DEF DeleteRow, ExpiredEnded
  <2>19. CASE Chatter(r)
    BY <2>19 DEF Chatter, ExpiredEnded
  <2>20. ASSUME NEW n \in Servers, Reuse(r, n) PROVE ExpiredEnded'
    BY <2>20 DEF ExpiredEnded, Reuse
  <2>21. ASSUME NEW n \in Servers, Unknown(r, n) PROVE ExpiredEnded'
    BY <2>21 DEF ExpiredEnded, Unknown
  <2>22. ASSUME NEW n \in Servers, Prepare(r, n) PROVE ExpiredEnded'
    BY <2>22 DEF ExpiredEnded, Prepare
  <2> QED
    BY <1>1, <2>1, <2>2, <2>3, <2>4, <2>5, <2>6, <2>7, <2>8, <2>9, <2>10, <2>11,
       <2>12, <2>13, <2>14, <2>15, <2>16, <2>17, <2>18, <2>19, <2>20, <2>21,
       <2>22 DEF Thread
<1>2. ASSUME NEW c \in Clients, Exit(c) PROVE ExpiredEnded'
  BY <1>2 DEF Exit, ExpiredEnded
<1>3. CASE UNCHANGED vars
  BY <1>3 DEF ExpiredEnded, vars
<1> QED
  BY <1>1, <1>2, <1>3 DEF Next

\* Every step keeps running processes in reach.
LEMMA ReachStep ==
  TypeOK /\ InHand /\ LockHeld /\ ProcessesReachable /\ [Next]_vars => ProcessesReachable'
<1> SUFFICES ASSUME TypeOK, InHand, LockHeld, ProcessesReachable,
   [Next]_vars PROVE ProcessesReachable'
  OBVIOUS
<1>1. ASSUME NEW r \in Requests,
             Use(r) \/ List(r) \/ Remove(r) \/ Put(r) \/ Thread(r) \/ Chatter(r)
      PROVE ProcessesReachable'
  <2>1. CASE Use(r)
    BY <2>1 DEF Begin, ProcessesReachable, Use
  <2>2. CASE List(r)
    BY <2>2 DEF Begin, List, ProcessesReachable
  <2>3. CASE Remove(r)
    BY <2>3 DEF Begin, ProcessesReachable, Remove, TypeOK
  <2>4. CASE Put(r)
    BY <2>4 DEF Begin, ProcessesReachable, Put
  <2>5. CASE Status(r)
    BY <2>5 DEF ProcessesReachable, Status
  <2>6. CASE Start(r)
    BY <2>6 DEF ProcessesReachable, Start, TypeOK
  <2>7. CASE StartFails(r)
    BY <2>7 DEF Proceed, ProcessesReachable, StartFails
  <2>8. CASE Initialized(r)
    <3>1. using[r] \in Clients /\ using[r][2] = server[r] /\ clients[server[r]] = None
      BY <2>8, HandClient, NewClient DEF Initialized, LockHeld
    <3> SUFFICES ASSUME NEW c \in Clients, process'[c] = "alive"
                 PROVE  \/ clients'[c[2]] = c
                        \/ c \in refused'
                        \/ \E q \in Requests :
                             using'[q] = c /\ pc'[q] \in {"initialize", "close"}
      BY DEF ProcessesReachable
    <3>2. c[2] \in Servers
      BY DEF Clients
    <3>3. CASE c = using[r]
      BY <2>8, <3>1, <3>3 DEF Initialized, TypeOK
    <3>4. CASE clients[c[2]] = c
      BY <2>8, <3>1, <3>2, <3>4, ManagerAssumption DEF Initialized
    <3>5. CASE c \in refused
      BY <2>8, <3>5 DEF Initialized
    <3>6. ASSUME NEW q \in Requests, using[q] = c, pc[q] \in {"initialize", "close"},
                 c # using[r]
          PROVE  using'[q] = c /\ pc'[q] \in {"initialize", "close"}
      BY <2>8, <3>6 DEF Initialized
    <3> QED
      BY <2>8, <3>3, <3>4, <3>5, <3>6 DEF Initialized, ProcessesReachable
  <2>9. CASE InitializeFails(r)
    BY <2>9 DEF InitializeFails, Proceed, ProcessesReachable
  <2>10. CASE InitializeTimesOut(r)
    BY <2>10 DEF Closed, InitializeTimesOut, Proceed, ProcessesReachable, TypeOK
  <2>11. CASE Send(r)
    BY <2>11 DEF ProcessesReachable, Send
  <2>12. CASE SendFails(r)
    BY <2>12 DEF Proceed, ProcessesReachable, SendFails
  <2>13. CASE Answered(r)
    BY <2>13 DEF Answered, Proceed, ProcessesReachable
  <2>14. CASE TimesOut(r)
    BY <2>14 DEF Closed, Proceed, ProcessesReachable, TimesOut
  <2>15. CASE ReadOn(r)
    BY <2>15 DEF ProcessesReachable, ReadOn
  <2>16. CASE Pop(r)
    BY <2>16 DEF Pop, ProcessesReachable, TypeOK
  <2>17. CASE Close(r)
    <3> SUFFICES ASSUME NEW c \in Clients, process'[c] = "alive"
                 PROVE  \/ clients'[c[2]] = c
                        \/ c \in refused'
                        \/ \E q \in Requests :
                             using'[q] = c /\ pc'[q] \in {"initialize", "close"}
      BY DEF ProcessesReachable
    <3>1. process[c] = "alive" /\ c # using[r]
      BY <2>17, ManagerAssumption DEF Close, Closed, TypeOK
    <3>2. ASSUME NEW q \in Requests, using[q] = c, pc[q] \in {"initialize", "close"}
          PROVE  using'[q] = c /\ pc'[q] \in {"initialize", "close"}
      BY <2>17, <3>1, <3>2 DEF Close
    <3> QED
      BY <2>17, <3>1, <3>2 DEF Close, ProcessesReachable
  <2>18. CASE DeleteRow(r)
    BY <2>18 DEF DeleteRow, ProcessesReachable
  <2>19. CASE Chatter(r)
    BY <2>19 DEF Chatter, ProcessesReachable
  <2>20. ASSUME NEW n \in Servers, Reuse(r, n) PROVE ProcessesReachable'
    BY <2>20 DEF Look, ProcessesReachable, Reuse
  <2>21. ASSUME NEW n \in Servers, Unknown(r, n) PROVE ProcessesReachable'
    BY <2>21 DEF Connected, Look, ProcessesReachable, Unknown
  <2>22. ASSUME NEW n \in Servers, Prepare(r, n) PROVE ProcessesReachable'
    BY <2>22 DEF Connected, Look, Prepare, ProcessesReachable
  <2> QED
    BY <1>1, <2>1, <2>2, <2>3, <2>4, <2>5, <2>6, <2>7, <2>8, <2>9, <2>10, <2>11,
       <2>12, <2>13, <2>14, <2>15, <2>16, <2>17, <2>18, <2>19, <2>20, <2>21,
       <2>22 DEF Thread
<1>2. ASSUME NEW c \in Clients, Exit(c) PROVE ProcessesReachable'
  BY <1>2 DEF Exit, ProcessesReachable
<1>3. CASE UNCHANGED vars
  BY <1>3 DEF ProcessesReachable, vars
<1> QED
  BY <1>1, <1>2, <1>3 DEF Next

\* Every step keeps clients to be made apart from those known.
LEMMA UnbornStep ==
  TypeOK /\ InHand /\ LockHeld /\ UnbornUnknown /\ [Next]_vars => UnbornUnknown'
<1> SUFFICES ASSUME TypeOK, InHand, LockHeld, UnbornUnknown,
   [Next]_vars PROVE UnbornUnknown'
  OBVIOUS
<1>1. ASSUME NEW r \in Requests,
             Use(r) \/ List(r) \/ Remove(r) \/ Put(r) \/ Thread(r) \/ Chatter(r)
      PROVE UnbornUnknown'
  <2>1. CASE Use(r)
    BY <2>1 DEF Begin, Unborn, UnbornUnknown, Use
  <2>2. CASE List(r)
    BY <2>2 DEF Begin, List, Unborn, UnbornUnknown
  <2>3. CASE Remove(r)
    <3>1. pc[r] = "idle" /\ pc' = [pc EXCEPT ![r] = "pop"]
      BY <2>3 DEF Begin, Remove
    <3>2. \A c \in Clients : Unborn(c)' => Unborn(c)
      BY <2>3, <3>1 DEF Remove, Unborn
    <3>3. \A c \in Clients : pc[c[1]] = "initialize" => pc'[c[1]] = "initialize"
      BY <3>1
    <3> QED
      BY <2>3, <3>1, <3>2, <3>3 DEF Remove, TypeOK, UnbornUnknown
  <2>4. CASE Put(r)
    BY <2>4 DEF Begin, Put, Unborn, UnbornUnknown
  <2>5. CASE Status(r)
    BY <2>5 DEF Status, Unborn, UnbornUnknown
  <2>6. CASE Start(r)
    <3>1. using[r] \in Clients /\ using[r][1] = r /\ using[r][2] = server[r]
          /\ Unborn(using[r])
      BY <2>6, HandClient, NewClient DEF Start
    <3> QED
      BY <2>6, <3>1 DEF Start, TypeOK, Unborn, UnbornUnknown
  <2>7. CASE StartFails(r)
    BY <2>7 DEF Proceed, StartFails, Unborn, UnbornUnknown
  <2>8. CASE Initialized(r)
    <3>1. using[r] \in Clients /\ using[r][1] = r /\ using[r][2] = server[r]
          /\ Unborn(using[r])
      BY <2>8, HandClient, NewClient DEF Initialized
    <3> QED
      BY <2>8, <3>1 DEF InHand, Initialized, TypeOK, Unborn, UnbornUnknown
  <2>9. CASE InitializeFails(r)
    <3>1. using[r] \in Clients /\ using[r][1] = r /\ using[r][2] = server[r]
          /\ Unborn(using[r])
      BY <2>9, HandClient, NewClient DEF InitializeFails
    <3> QED
      BY <2>9, <3>1 DEF InHand, InitializeFails, Proceed, Unborn, UnbornUnknown
  <2>10. CASE InitializeTimesOut(r)
    <3>1. using[r] \in Clients /\ using[r][1] = r /\ using[r][2] = server[r]
          /\ Unborn(using[r])
      BY <2>10, HandClient, NewClient DEF InitializeTimesOut
    <3> QED
      BY <2>10, <3>1 DEF Closed, InHand, InitializeTimesOut, Proceed, Unborn,
         UnbornUnknown
  <2>11. CASE Send(r)
    BY <2>11 DEF Send, Unborn, UnbornUnknown
  <2>12. CASE SendFails(r)
    BY <2>12 DEF Proceed, SendFails, Unborn, UnbornUnknown
  <2>13. CASE Answered(r)
    BY <2>13 DEF Answered, Proceed, Unborn, UnbornUnknown
  <2>14. CASE TimesOut(r)
    <3>1. using[r] \in Clients /\ ~ Unborn(using[r])
      BY <2>14, HandClient DEF InHand, TimesOut, UnbornUnknown
    <3> QED
      BY <2>14, <3>1 DEF Closed, Proceed, TimesOut, Unborn, UnbornUnknown
  <2>15. CASE ReadOn(r)
    BY <2>15 DEF ReadOn, Unborn, UnbornUnknown
  <2>16. CASE Pop(r)
    BY <2>16 DEF Pop, TypeOK, Unborn, UnbornUnknown
  <2>17. CASE Close(r)
    BY <2>17 DEF Close, Closed, Unborn, UnbornUnknown
  <2>18. CASE DeleteRow(r)
    BY <2>18 DEF DeleteRow, Unborn, UnbornUnknown
  <2>19. CASE Chatter(r)
    BY <2>19 DEF Chatter, Unborn, UnbornUnknown
  <2>20. ASSUME NEW n \in Servers, Reuse(r, n) PROVE UnbornUnknown'
    BY <2>20 DEF Look, Reuse, TypeOK, Unborn, UnbornUnknown
  <2>21. ASSUME NEW n \in Servers, Unknown(r, n) PROVE UnbornUnknown'
    BY <2>21 DEF Look, Unborn, UnbornUnknown, Unknown
  <2>22. ASSUME NEW n \in Servers, Prepare(r, n) PROVE UnbornUnknown'
    BY <2>22 DEF Look, Prepare, TypeOK, Unborn, UnbornUnknown
  <2> QED
    BY <1>1, <2>1, <2>2, <2>3, <2>4, <2>5, <2>6, <2>7, <2>8, <2>9, <2>10, <2>11,
       <2>12, <2>13, <2>14, <2>15, <2>16, <2>17, <2>18, <2>19, <2>20, <2>21,
       <2>22 DEF Thread
<1>2. ASSUME NEW c \in Clients, Exit(c) PROVE UnbornUnknown'
  BY <1>2 DEF Exit, Unborn, UnbornUnknown
<1>3. CASE UNCHANGED vars
  BY <1>3 DEF Unborn, UnbornUnknown, vars
<1> QED
  BY <1>1, <1>2, <1>3 DEF Next

\* No step makes a thread read from a timed-out connection.
LEMMA UnusedStep ==
  TypeOK /\ InHand /\ UnbornUnknown /\ ExpiredEnded /\ TimedOutUnused /\ [Next]_vars
    => TimedOutUnused'
<1> SUFFICES ASSUME TypeOK, InHand, UnbornUnknown, ExpiredEnded, TimedOutUnused,
   [Next]_vars PROVE TimedOutUnused'
  OBVIOUS
<1>1. ASSUME NEW r \in Requests,
             Use(r) \/ List(r) \/ Remove(r) \/ Put(r) \/ Thread(r) \/ Chatter(r)
      PROVE TimedOutUnused'
  <2>1. CASE Use(r)
    BY <2>1 DEF Begin, TimedOutUnused, Use
  <2>2. CASE List(r)
    BY <2>2 DEF Begin, List, TimedOutUnused
  <2>3. CASE Remove(r)
    BY <2>3 DEF Begin, Remove, TimedOutUnused, TypeOK
  <2>4. CASE Put(r)
    BY <2>4 DEF Begin, Put, TimedOutUnused
  <2>5. CASE Status(r)
    BY <2>5 DEF Status, TimedOutUnused
  <2>6. CASE Start(r)
    BY <2>6 DEF Start, TimedOutUnused
  <2>7. CASE StartFails(r)
    BY <2>7 DEF Proceed, StartFails, TimedOutUnused
  <2>8. CASE Initialized(r)
    BY <2>8 DEF Initialized, TimedOutUnused
  <2>9. CASE InitializeFails(r)
    BY <2>9 DEF InitializeFails, Proceed, TimedOutUnused
  <2>10. CASE InitializeTimesOut(r)
    <3>1. Unborn(using[r])
      BY <2>10, NewClient DEF InitializeTimesOut
    <3>2. ASSUME NEW q \in Requests, pc[q] = "reading" PROVE using[q] # using[r]
      BY <2>10, <3>1, <3>2 DEF InHand, UnbornUnknown
    <3> QED
      BY <2>10, <3>2 DEF InitializeTimesOut, Proceed, TimedOutUnused
  <2>11. CASE Send(r)
    <3>1. using[r] \notin expired
      BY <2>11 DEF ExpiredEnded, Send
    <3> QED
      BY <2>11, <3>1 DEF Send, TimedOutUnused
  <2>12. CASE SendFails(r)
    BY <2>12 DEF Proceed, SendFails, TimedOutUnused
  <2>13. CASE Answered(r)
    BY <2>13 DEF Answered, Proceed, TimedOutUnused
  <2>14. CASE TimesOut(r)
    <3>1. ASSUME NEW q \in Requests, pc[q] = "reading", using[q] = using[r] PROVE q = r
      BY <2>14, <3>1 DEF InHand, TimesOut
    <3> QED
      BY <2>14, <3>1 DEF Proceed, TimedOutUnused, TimesOut, TypeOK
  <2>15. CASE ReadOn(r)
    BY <2>15 DEF ReadOn, TimedOutUnused
  <2>16. CASE Pop(r)
    BY <2>16 DEF Pop, TimedOutUnused
  <2>17. CASE Close(r)
    BY <2>17 DEF Close, TimedOutUnused
  <2>18. CASE DeleteRow(r)
    BY <2>18 DEF DeleteRow, TimedOutUnused
  <2>19. CASE Chatter(r)
    BY <2>19 DEF Chatter, TimedOutUnused
  <2>20. ASSUME NEW n \in Servers, Reuse(r, n) PROVE TimedOutUnused'
    BY <2>20 DEF Reuse, TimedOutUnused, TypeOK
  <2>21. ASSUME NEW n \in Servers, Unknown(r, n) PROVE TimedOutUnused'
    BY <2>21 DEF TimedOutUnused, Unknown
  <2>22. ASSUME NEW n \in Servers, Prepare(r, n) PROVE TimedOutUnused'
    BY <2>22 DEF Prepare, TimedOutUnused, TypeOK
  <2> QED
    BY <1>1, <2>1, <2>2, <2>3, <2>4, <2>5, <2>6, <2>7, <2>8, <2>9, <2>10, <2>11,
       <2>12, <2>13, <2>14, <2>15, <2>16, <2>17, <2>18, <2>19, <2>20, <2>21,
       <2>22 DEF Thread
<1>2. ASSUME NEW c \in Clients, Exit(c) PROVE TimedOutUnused'
  BY <1>2 DEF Exit, TimedOutUnused
<1>3. CASE UNCHANGED vars
  BY <1>3 DEF TimedOutUnused, vars
<1> QED
  BY <1>1, <1>2, <1>3 DEF Next

\* Every step keeps account of what races a deletion.
LEMMA RacedStep ==
  TypeOK /\ InHand /\ LockHeld /\ DeletionRaced /\ [Next]_vars => DeletionRaced'
<1> SUFFICES ASSUME TypeOK, InHand, LockHeld, DeletionRaced,
   [Next]_vars PROVE DeletionRaced'
  OBVIOUS
<1> USE ManagerAssumption
<1>1. ASSUME NEW r \in Requests,
             Use(r) \/ List(r) \/ Remove(r) \/ Put(r) \/ Thread(r) \/ Chatter(r)
      PROVE DeletionRaced'
  <2>1. CASE Use(r)
    BY <2>1 DEF Begin, BeingDeleted, DeletionRaced, Use
  <2>2. CASE List(r)
    BY <2>2 DEF Begin, BeingDeleted, DeletionRaced, List
  <2>3. CASE Remove(r)
    BY <2>3 DEF Begin, BeingDeleted, DeletionRaced, Remove, TypeOK
  <2>4. CASE Put(r)
    BY <2>4 DEF Begin, BeingDeleted, DeletionRaced, Put
  <2>5. CASE Status(r)
    BY <2>5 DEF BeingDeleted, DeletionRaced, Status
  <2>6. CASE Start(r)
    BY <2>6 DEF BeingDeleted, DeletionRaced, Start
  <2>7. CASE StartFails(r)
    BY <2>7 DEF BeingDeleted, DeletionRaced, Proceed, StartFails
  <2>8. CASE Initialized(r)
    BY <2>8 DEF BeingDeleted, DeletionRaced, Initialized
  <2>9. CASE InitializeFails(r)
    BY <2>9 DEF BeingDeleted, DeletionRaced, InitializeFails, Proceed
  <2>10. CASE InitializeTimesOut(r)
    BY <2>10 DEF BeingDeleted, DeletionRaced, InitializeTimesOut, Proceed
  <2>11. CASE Send(r)
    BY <2>11 DEF BeingDeleted, DeletionRaced, Send
  <2>12. CASE SendFails(r)
    BY <2>12 DEF BeingDeleted, DeletionRaced, Proceed, SendFails
  <2>13. CASE Answered(r)
    BY <2>13 DEF Answered, BeingDeleted, DeletionRaced, Proceed
  <2>14. CASE TimesOut(r)
    BY <2>14 DEF BeingDeleted, DeletionRaced, Proceed, TimesOut
  <2>15. CASE ReadOn(r)
    BY <2>15 DEF BeingDeleted, DeletionRaced, ReadOn
  <2>16. CASE Pop(r)
    <3>1. \A q \in Requests : pc[q] \notin {"start", "initialize"}
      BY <2>16 DEF LockHeld, ManagerFree, Pop
    <3>2. \A n \in Servers : BeingDeleted(n)' => BeingDeleted(n) \/ n = server[r]
      BY <2>16 DEF BeingDeleted, Pop
    <3> QED
      BY <2>16, <3>1, <3>2 DEF DeletionRaced, Pop, TypeOK
  <2>17. CASE Close(r)
    BY <2>17 DEF BeingDeleted, Close, DeletionRaced
  <2>18. CASE DeleteRow(r)
    <3>1. BeingDeleted(server[r])
      BY <2>18 DEF BeingDeleted, DeleteRow, InHand
    <3>2. \A n \in Servers : BeingDeleted(n)' => BeingDeleted(n)
      BY <2>18 DEF BeingDeleted, DeleteRow
    <3> QED
      BY <2>18, <3>1, <3>2 DEF DeleteRow, DeletionRaced, TypeOK
  <2>19. CASE Chatter(r)
    BY <2>19 DEF BeingDeleted, Chatter, DeletionRaced
  <2>20. ASSUME NEW n \in Servers, Reuse(r, n) PROVE DeletionRaced'
    BY <2>20 DEF BeingDeleted, DeletionRaced, Look, Reuse
  <2>21. ASSUME NEW n \in Servers, Unknown(r, n) PROVE DeletionRaced'
    BY <2>21 DEF BeingDeleted, DeletionRaced, Look, Unknown
  <2>22. ASSUME NEW n \in Servers, Prepare(r, n) PROVE DeletionRaced'
    BY <2>22 DEF BeingDeleted, DeletionRaced, Look, Prepare, TypeOK
  <2> QED
    BY <1>1, <2>1, <2>2, <2>3, <2>4, <2>5, <2>6, <2>7, <2>8, <2>9, <2>10, <2>11,
       <2>12, <2>13, <2>14, <2>15, <2>16, <2>17, <2>18, <2>19, <2>20, <2>21,
       <2>22 DEF Thread
<1>2. ASSUME NEW c \in Clients, Exit(c) PROVE DeletionRaced'
  BY <1>2 DEF BeingDeleted, DeletionRaced, Exit
<1>3. CASE UNCHANGED vars
  BY <1>3 DEF BeingDeleted, DeletionRaced, vars
<1> QED
  BY <1>1, <1>2, <1>3 DEF Next

\* Every step keeps deleted servers without clients but those that raced.
LEMMA DeletedStep ==
  TypeOK /\ InHand /\ DeletionRaced /\ DeletedDisconnected /\ [Next]_vars
    => DeletedDisconnected'
<1> SUFFICES ASSUME TypeOK, InHand, DeletionRaced, DeletedDisconnected,
   [Next]_vars PROVE DeletedDisconnected'
  OBVIOUS
<1>1. ASSUME NEW r \in Requests,
             Use(r) \/ List(r) \/ Remove(r) \/ Put(r) \/ Thread(r) \/ Chatter(r)
      PROVE DeletedDisconnected'
  <2>1. CASE Use(r)
    BY <2>1 DEF DeletedDisconnected, Use
  <2>2. CASE List(r)
    BY <2>2 DEF DeletedDisconnected, List
  <2>3. CASE Remove(r)
    BY <2>3 DEF DeletedDisconnected, Remove
  <2>4. CASE Put(r)
    BY <2>4 DEF DeletedDisconnected, Put
  <2>5. CASE Status(r)
    BY <2>5 DEF DeletedDisconnected, Status
  <2>6. CASE Start(r)
    BY <2>6 DEF DeletedDisconnected, Start
  <2>7. CASE StartFails(r)
    BY <2>7 DEF DeletedDisconnected, StartFails
  <2>8. CASE Initialized(r)
    BY <2>8 DEF DeletedDisconnected, DeletionRaced, Initialized
  <2>9. CASE InitializeFails(r)
    BY <2>9 DEF DeletedDisconnected, InitializeFails
  <2>10. CASE InitializeTimesOut(r)
    BY <2>10 DEF DeletedDisconnected, InitializeTimesOut
  <2>11. CASE Send(r)
    BY <2>11 DEF DeletedDisconnected, Send
  <2>12. CASE SendFails(r)
    BY <2>12 DEF DeletedDisconnected, SendFails
  <2>13. CASE Answered(r)
    BY <2>13 DEF Answered, DeletedDisconnected
  <2>14. CASE TimesOut(r)
    BY <2>14 DEF DeletedDisconnected, TimesOut
  <2>15. CASE ReadOn(r)
    BY <2>15 DEF DeletedDisconnected, ReadOn
  <2>16. CASE Pop(r)
    BY <2>16 DEF DeletedDisconnected, Pop
  <2>17. CASE Close(r)
    BY <2>17 DEF Close, DeletedDisconnected
  <2>18. CASE DeleteRow(r)
    <3>1. BeingDeleted(server[r])
      BY <2>18 DEF BeingDeleted, DeleteRow, InHand
    <3> QED
      BY <2>18, <3>1 DEF DeleteRow, DeletedDisconnected, DeletionRaced
  <2>19. CASE Chatter(r)
    BY <2>19 DEF Chatter, DeletedDisconnected
  <2>20. ASSUME NEW n \in Servers, Reuse(r, n) PROVE DeletedDisconnected'
    BY <2>20 DEF DeletedDisconnected, Reuse
  <2>21. ASSUME NEW n \in Servers, Unknown(r, n) PROVE DeletedDisconnected'
    BY <2>21 DEF DeletedDisconnected, Unknown
  <2>22. ASSUME NEW n \in Servers, Prepare(r, n) PROVE DeletedDisconnected'
    BY <2>22 DEF DeletedDisconnected, Prepare
  <2> QED
    BY <1>1, <2>1, <2>2, <2>3, <2>4, <2>5, <2>6, <2>7, <2>8, <2>9, <2>10, <2>11,
       <2>12, <2>13, <2>14, <2>15, <2>16, <2>17, <2>18, <2>19, <2>20, <2>21,
       <2>22 DEF Thread
<1>2. ASSUME NEW c \in Clients, Exit(c) PROVE DeletedDisconnected'
  BY <1>2 DEF DeletedDisconnected, Exit
<1>3. CASE UNCHANGED vars
  BY <1>3 DEF DeletedDisconnected, vars
<1> QED
  BY <1>1, <1>2, <1>3 DEF Next
-----------------------------------------------------------------------------
\* The invariant holds at first.
LEMMA InvariantInit == Init => Invariant
<1> SUFFICES ASSUME Init PROVE Invariant
  OBVIOUS
<1>1. TypeOK
  BY DEF Init, Locations, Operations, TypeOK
<1>2. InHand /\ LockHeld
  BY DEF InHand, Init, LockHeld
<1>3. UnbornUnknown /\ ExpiredEnded
  BY DEF ExpiredEnded, Init, UnbornUnknown
<1>4. ProcessesReachable /\ TimedOutUnused
  BY DEF Init, ProcessesReachable, TimedOutUnused
<1>5. DeletionRaced /\ DeletedDisconnected
  BY DEF DeletedDisconnected, DeletionRaced, Init
<1> QED
  BY <1>1, <1>2, <1>3, <1>4, <1>5 DEF Invariant

\* Every step keeps the invariant.
LEMMA InvariantStep == Invariant /\ [Next]_vars => Invariant'
  BY TypeStep, HandStep, LockStep, UnbornStep, ExpiredStep, ReachStep, UnusedStep,
     RacedStep, DeletedStep DEF Invariant
-----------------------------------------------------------------------------
\* The inductive invariant holds in every reachable state.
THEOREM InvariantHolds == Spec => []Invariant
  BY InvariantInit, InvariantStep, PTL DEF Spec

\* The variables of the manager keep their types.
THEOREM TypeCorrect == Spec => []TypeOK
<1>1. Invariant => TypeOK
  BY DEF Invariant
<1> QED
  BY <1>1, InvariantHolds, PTL

\* A process of an MCP server that runs is known to the manager or in the hands
\* of a thread that initializes or closes it, unless its server refused to
\* initialize.
THEOREM NoProcessLost == Spec => []ProcessesReachable
<1>1. Invariant => ProcessesReachable
  BY DEF Invariant
<1> QED
  BY <1>1, InvariantHolds, PTL

\* A connection of which a request has timed out is not read from again.
THEOREM NoLateAnswer == Spec => []TimedOutUnused
<1>1. Invariant => TimedOutUnused
  BY DEF Invariant
<1> QED
  BY <1>1, InvariantHolds, PTL

\* A deleted server has no client but one looked up between the disconnection
\* and the deletion.
THEOREM DeletionDisconnects == Spec => []DeletedDisconnected
<1>1. Invariant => DeletedDisconnected
  BY DEF Invariant
<1> QED
  BY <1>1, InvariantHolds, PTL
=============================================================================
