------------------------------ MODULE McpManager ------------------------------
(***************************************************************************)
(* The connections to MCP servers (agent/mcp.py, tools/mcp.py) with the    *)
(* table mcp_servers and the requests that use them.                       *)
(*                                                                         *)
(* A request is a tool call or a handler of the web server, in a thread of *)
(* its own.  connect holds the lock of the manager while it starts and     *)
(* initializes a process; a request to a server holds the lock of the      *)
(* client.  close does not take the lock of the client, and it clears the  *)
(* client's process before it ends it: a process counts as ended then.     *)
(* What is sent and answered is left out but for its arrival; lines that   *)
(* are no answer only make the reader start to wait anew.                  *)
(***************************************************************************)
EXTENDS FiniteSets

CONSTANTS
  Requests,  \* calls of the handlers and tools, each made once
  Servers,   \* names of MCP servers
  None       \* no client, no holder of a lock

\* A client is known by the request that made it and by its server.
Clients == Requests \X Servers

ASSUME ManagerAssumption == None \notin Requests /\ None \notin Clients

VARIABLES
  row,       \* row[n]: mcp_servers, "enabled", "disabled" or "none"
  clients,   \* clients[n]: _clients
  manager,   \* holder of the manager's lock over several steps
  process,   \* process[c]: MCPClient.process
  busy,      \* busy[c]: holder of the client's lock
  op,        \* op[r]: what r does
  pc,        \* pc[r]: where it is
  todo,      \* todo[r]: servers it has yet to look at
  server,    \* server[r]: the server it looks at
  using,     \* using[r]: the client it has in hand
  skipping,  \* requests that have read a line which is no answer
  expired,   \* history: clients of which a request has timed out
  refused,   \* history: clients whose server answered initialize with an error
  raced      \* history: clients looked up while their server was being deleted

connections == <<clients, manager, process, busy>>
thread == <<op, todo, server, using>>
history == <<expired, refused, raced>>
vars == <<row, connections, pc, thread, skipping, history>>

Locations ==
  {"idle", "status", "lookup", "start", "initialize", "request", "reading",
   "pop", "close", "delete", "done"}
Operations == {"use", "list", "disconnect", "delete", "put"}

Goto(r, place) == pc' = [pc EXCEPT ![r] = place]

Init ==
  /\ row \in [Servers -> {"none", "disabled", "enabled"}]
  /\ clients = [n \in Servers |-> None]
  /\ manager = None
  /\ process = [c \in Clients |-> "none"]
  /\ busy = [c \in Clients |-> None]
  /\ op = [r \in Requests |-> "put"]
  /\ pc = [r \in Requests |-> "idle"]
  /\ todo = [r \in Requests |-> {}]
  /\ server \in [Requests -> Servers]
  /\ using = [r \in Requests |-> None]
  /\ skipping = {}
  /\ expired = {}
  /\ refused = {}
  /\ raced = {}

AnyKnown(n) == FALSE  \* mutant of Connected
\* The manager has a client of the server and its process is there.
Connected(n) == clients[n] # None /\ process[clients[n]] = "alive"

\* The thread is through with a server: mcp_list goes on to the next.
Proceed(r) == Goto(r, IF todo[r] = {} THEN "done" ELSE "lookup")
-----------------------------------------------------------------------------
(* The operations.                                                         *)

Begin(r, operation, place) ==
  /\ pc[r] = "idle"
  /\ op' = [op EXCEPT ![r] = operation]
  /\ Goto(r, place)

\* mcp_call, or the connect handler, which asks for the tools as well.
Use(r) ==
  /\ Begin(r, "use", "lookup")
  /\ todo' = [todo EXCEPT ![r] = {server[r]}]
  /\ UNCHANGED <<row, connections, server, using, skipping, history>>

\* mcp_list reads the rows, then the clients, and looks at those connected; the
\* look at the clients may fail as it goes without the lock.
List(r) ==
  /\ Begin(r, "list", "status")
  /\ todo' = [todo EXCEPT ![r] = {n \in Servers : row[n] # "none"}]
  /\ UNCHANGED <<row, connections, server, using, skipping, history>>

Status(r) ==
  /\ pc[r] = "status"
  /\ \E seen \in {{}, {n \in todo[r] : Connected(n)}} :
       /\ todo' = [todo EXCEPT ![r] = seen]
       /\ Goto(r, IF seen = {} THEN "done" ELSE "lookup")
  /\ UNCHANGED <<row, connections, op, server, using, skipping, history>>

Remove(r) ==
  /\ Begin(r, "disconnect", "pop") \/ Begin(r, "delete", "pop")
  /\ UNCHANGED <<row, connections, todo, server, using, skipping, history>>

\* add: a server is configured anew, its client stays.
Put(r) ==
  /\ Begin(r, "put", "done")
  /\ \E setting \in {"disabled", "enabled"} : row' = [row EXCEPT ![server[r]] = setting]
  /\ UNCHANGED <<connections, todo, server, using, skipping, history>>
-----------------------------------------------------------------------------
(* connect.                                                                *)

Look(r, n) ==
  /\ pc[r] = "lookup"
  /\ manager = None
  /\ n \in todo[r]
  /\ todo' = [todo EXCEPT ![r] = @ \ {n}]
  /\ server' = [server EXCEPT ![r] = n]

Reuse(r, n) ==
  /\ Look(r, n)
  /\ Connected(n)
  /\ using' = [using EXCEPT ![r] = clients[n]]
  /\ Goto(r, "request")
  /\ UNCHANGED <<row, connections, op, skipping, history>>

\* A client that is not connected is dropped, then the server's row is read.
Unknown(r, n) ==
  /\ Look(r, n)
  /\ ~ Connected(n) /\ row[n] # "enabled"
  /\ clients' = [clients EXCEPT ![n] = None]
  /\ Goto(r, IF todo'[r] = {} THEN "done" ELSE "lookup")
  /\ UNCHANGED <<row, manager, process, busy, op, using, skipping, history>>

BeingDeleted(n) ==
  \E q \in Requests : op[q] = "delete" /\ pc[q] \in {"close", "delete"} /\ server[q] = n

Prepare(r, n) ==
  /\ Look(r, n)
  /\ ~ Connected(n) /\ row[n] = "enabled"
  /\ clients' = [clients EXCEPT ![n] = None]
  /\ manager' = r
  /\ using' = [using EXCEPT ![r] = <<r, n>>]
  /\ raced' = IF BeingDeleted(n) THEN raced \cup {<<r, n>>} ELSE raced
  /\ Goto(r, "start")
  /\ UNCHANGED <<row, process, busy, op, skipping, expired, refused>>

Start(r) ==
  /\ pc[r] = "start"
  /\ process' = [process EXCEPT ![using[r]] = "alive"]
  /\ Goto(r, "initialize")
  /\ UNCHANGED <<row, clients, manager, busy, thread, skipping, history>>

KeepsLock == manager  \* mutant of Released
\* An exception leaves the with statement of the manager's lock.
Released == None

StartFails(r) ==
  /\ pc[r] = "start"
  /\ manager' = Released
  /\ Proceed(r)
  /\ UNCHANGED <<row, clients, process, busy, thread, skipping, history>>

Initialized(r) ==
  /\ pc[r] = "initialize" /\ r \notin skipping
  /\ process[using[r]] = "alive"
  /\ clients' = [clients EXCEPT ![server[r]] = using[r]]
  /\ manager' = None
  /\ Goto(r, "request")
  /\ UNCHANGED <<row, process, busy, thread, skipping, history>>

\* An error instead of a result leaves the process to itself.
InitializeFails(r) ==
  /\ pc[r] = "initialize" /\ r \notin skipping
  /\ refused' = IF process[using[r]] = "alive" THEN refused \cup {using[r]} ELSE refused
  /\ manager' = Released
  /\ Proceed(r)
  /\ UNCHANGED <<row, clients, process, busy, thread, skipping, expired, raced>>

LeftOpen(c) == process  \* mutant of Closed
\* close.
Closed(c) == [process EXCEPT ![c] = "ended"]

InitializeTimesOut(r) ==
  /\ pc[r] = "initialize" /\ r \notin skipping
  /\ process' = Closed(using[r])
  /\ expired' = expired \cup {using[r]}
  /\ manager' = Released
  /\ Proceed(r)
  /\ UNCHANGED <<row, clients, busy, thread, skipping, refused, raced>>
-----------------------------------------------------------------------------
(* A request to a server, under the lock of its client.                    *)

Send(r) ==
  /\ pc[r] = "request"
  /\ busy[using[r]] = None
  /\ process[using[r]] = "alive"
  /\ busy' = [busy EXCEPT ![using[r]] = r]
  /\ Goto(r, "reading")
  /\ UNCHANGED <<row, clients, manager, process, thread, skipping, history>>

SendFails(r) ==
  /\ pc[r] = "request"
  /\ busy[using[r]] = None
  /\ process[using[r]] # "alive"
  /\ Proceed(r)
  /\ UNCHANGED <<row, connections, thread, skipping, history>>

\* A result, an error, or the end of the stream.
Answered(r) ==
  /\ pc[r] = "reading" /\ r \notin skipping
  /\ busy' = [busy EXCEPT ![using[r]] = None]
  /\ Proceed(r)
  /\ UNCHANGED <<row, clients, manager, process, thread, skipping, history>>

TimesOut(r) ==
  /\ pc[r] = "reading" /\ r \notin skipping
  /\ process' = Closed(using[r])
  /\ expired' = expired \cup {using[r]}
  /\ busy' = [busy EXCEPT ![using[r]] = None]
  /\ Proceed(r)
  /\ UNCHANGED <<row, clients, manager, thread, skipping, refused, raced>>

\* A line that is not the answer; the next one has the whole timeout again.
Chatter(r) ==
  /\ pc[r] \in {"initialize", "reading"} /\ r \notin skipping
  /\ process[using[r]] = "alive"
  /\ skipping' = skipping \cup {r}
  /\ UNCHANGED <<row, connections, pc, thread, history>>

ReadOn(r) ==
  /\ r \in skipping
  /\ skipping' = skipping \ {r}
  /\ UNCHANGED <<row, connections, pc, thread, history>>
-----------------------------------------------------------------------------
(* disconnect, the delete handler, and processes that end by themselves.   *)

IgnoresLock == TRUE  \* mutant of ManagerFree
ManagerFree == manager = None

Pop(r) ==
  /\ pc[r] = "pop"
  /\ ManagerFree
  /\ using' = [using EXCEPT ![r] = clients[server[r]]]
  /\ clients' = [clients EXCEPT ![server[r]] = None]
  /\ Goto(r, "close")
  /\ UNCHANGED <<row, manager, process, busy, op, todo, server, skipping, history>>

Close(r) ==
  /\ pc[r] = "close"
  /\ process' = IF using[r] = None THEN process ELSE Closed(using[r])
  /\ Goto(r, IF op[r] = "delete" THEN "delete" ELSE "done")
  /\ UNCHANGED <<row, clients, manager, busy, thread, skipping, history>>

DeleteRow(r) ==
  /\ pc[r] = "delete"
  /\ row' = [row EXCEPT ![server[r]] = "none"]
  /\ Goto(r, "done")
  /\ UNCHANGED <<connections, thread, skipping, history>>

Exit(c) ==
  /\ process[c] = "alive"
  /\ process' = [process EXCEPT ![c] = "ended"]
  /\ UNCHANGED <<row, clients, manager, busy, pc, thread, skipping, history>>
-----------------------------------------------------------------------------
\* The steps of a request that has begun.
Thread(r) ==
  \/ Status(r)
  \/ \E n \in Servers : Reuse(r, n) \/ Unknown(r, n) \/ Prepare(r, n)
  \/ Start(r) \/ StartFails(r)
  \/ Initialized(r) \/ InitializeFails(r) \/ InitializeTimesOut(r)
  \/ Send(r) \/ SendFails(r) \/ Answered(r) \/ TimesOut(r) \/ ReadOn(r)
  \/ Pop(r) \/ Close(r) \/ DeleteRow(r)

Next ==
  \/ \E r \in Requests :
       Use(r) \/ List(r) \/ Remove(r) \/ Put(r) \/ Thread(r) \/ Chatter(r)
  \/ \E c \in Clients : Exit(c)

Spec == Init /\ [][Next]_vars

\* Threads are run, and a silent server runs into the timeout of the reader.
FairSpec == Spec /\ \A r \in Requests : WF_vars(Thread(r))
-----------------------------------------------------------------------------
(* What is true at each place; the safety properties follow from it.       *)

\* The client a thread has in hand.
InHand ==
  \A r \in Requests :
    /\ pc[r] \in {"start", "initialize"} =>
         using[r] = <<r, server[r]>> /\ server[r] \notin todo[r]
    /\ pc[r] \in {"request", "reading"} => using[r] # None
    /\ pc[r] = "reading" => busy[using[r]] = r
    /\ pc[r] = "delete" => op[r] = "delete"

\* The lock is held where a connection is made, and no other client is there.
LockHeld ==
  \A r \in Requests :
    pc[r] \in {"start", "initialize"} => manager = r /\ clients[server[r]] = None

\* A client that is still to be made, or is being made, is nobody else's.
Unborn(c) ==
  \/ pc[c[1]] = "idle"
  \/ c[2] \in todo[c[1]]
  \/ pc[c[1]] \in {"start", "initialize"} /\ using[c[1]] = c

UnbornUnknown ==
  /\ \A c \in Clients :
       Unborn(c) => \/ process[c] = "none"
                    \/ pc[c[1]] = "initialize" /\ using[c[1]] = c
  /\ \A n \in Servers : clients[n] # None => ~ Unborn(clients[n])
  /\ \A r \in Requests :
       pc[r] \in {"request", "reading", "close"} /\ using[r] # None => ~ Unborn(using[r])

ExpiredEnded == \A c \in expired : process[c] = "ended"

\* What races a deletion is known.
DeletionRaced ==
  /\ \A r \in Requests :
       /\ pc[r] \in {"start", "initialize"}
       /\ row[server[r]] = "none" \/ BeingDeleted(server[r])
       => using[r] \in raced
  /\ \A n \in Servers : BeingDeleted(n) /\ clients[n] # None => clients[n] \in raced
-----------------------------------------------------------------------------
(* Properties.                                                             *)

\* Types.
TypeOK ==
  /\ row \in [Servers -> {"none", "disabled", "enabled"}]
  /\ clients \in [Servers -> Clients \cup {None}]
  /\ manager \in Requests \cup {None}
  /\ process \in [Clients -> {"none", "alive", "ended"}]
  /\ busy \in [Clients -> Requests \cup {None}]
  /\ op \in [Requests -> Operations]
  /\ pc \in [Requests -> Locations]
  /\ todo \in [Requests -> SUBSET Servers]
  /\ server \in [Requests -> Servers]
  /\ using \in [Requests -> Clients \cup {None}]
  /\ skipping \subseteq Requests
  /\ expired \subseteq Clients /\ refused \subseteq Clients /\ raced \subseteq Clients

\* No process is lost: one that runs is the manager's, or in the hands of a
\* thread that initializes or closes it.  One whose server refused to initialize
\* is excepted, for the code leaves it alive and unregistered.
ProcessesReachable ==
  \A c \in Clients :
    process[c] = "alive" =>
      \/ clients[c[2]] = c
      \/ c \in refused
      \/ \E r \in Requests : using[r] = c /\ pc[r] \in {"initialize", "close"}

\* A connection of which a request has timed out is not used again, so a late
\* answer reaches nobody, also when other requests already wait for its lock.
TimedOutUnused == \A r \in Requests : pc[r] = "reading" => using[r] \notin expired

\* When a server has been deleted its client is gone: a connection under way is
\* waited for.  Excepted is one that looked the server up between the disconnection
\* and the deletion, which the code lets stay.
DeletedDisconnected ==
  \A n \in Servers : row[n] = "none" /\ clients[n] # None => clients[n] \in raced

\* Every operation ends when servers do not send other lines for ever: neither
\* a slow server nor a failed connection blocks the manager or a client.
OperationsEnd ==
  (\A r \in Requests : <>[](r \notin skipping)) =>
    \A r \in Requests : pc[r] # "idle" ~> pc[r] = "done"

\* README: "mcp_list never starts a disconnected server".
ListNeverStarts == \A c \in Clients : process[c] # "none" => op[c[1]] # "list"
=============================================================================
