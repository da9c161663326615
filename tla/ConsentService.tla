--------------------------- MODULE ConsentService ---------------------------
(***************************************************************************)
(* What the permission engine promises the owners of runs, without its     *)
(* threads, its condition and the two places it keeps requests in.         *)
(*                                                                         *)
(* A call that needs consent is asked about at most once and gets at most  *)
(* one verdict.  An answer may leave a standing consent, for a tool in     *)
(* some runs, until it is revoked.  A call is cleared at one moment, by    *)
(* its own verdict or by a consent that stands at that moment; only a      *)
(* cleared call starts, and none of a tool that was denied in its run.     *)
(***************************************************************************)

CONSTANTS
  Runs,    \* the runs
  Users,   \* owners of runs
  Tools,   \* tools that need consent
  NoTool,  \* the tool of a call that has not been made
  Calls    \* pairs of a run and the number of a call

VARIABLES
  owner,     \* owner[r]: who runs r
  tool,      \* tool[a]: the tool of the call a
  verdict,   \* verdict[a]: none, pending, denied, lapsed, or the scope of an allowance
  standing,  \* the consents in force
  cleared,   \* calls that may start
  started    \* calls that have started

vars == <<owner, tool, verdict, standing, cleared, started>>

Scopes == {"once", "session", "always_tool"}

Init ==
  /\ owner \in [Runs -> Users]
  /\ tool = [a \in Calls |-> NoTool]
  /\ verdict = [a \in Calls |-> "none"]
  /\ standing = {}
  /\ cleared = {}
  /\ started = {}

\* What an allowed call leaves behind: nothing, or consent for its tool in its run,
\* or in all runs of its owner.
Consents(a, scope) ==
  IF scope = "once" THEN {}
  ELSE {[tool |-> tool[a],
         runs |-> IF scope = "session" THEN {a[1]}
                  ELSE {r \in Runs : owner[r] = owner[a[1]]}]}

Permitted(a) ==
  \/ verdict[a] \in Scopes
  \/ \E c \in standing : c.tool = tool[a] /\ a[1] \in c.runs

Denied(a) ==
  \E b \in Calls : b[1] = a[1] /\ tool[b] = tool[a] /\ verdict[b] = "denied"

Make(a, t) ==
  /\ tool[a] = NoTool
  /\ tool' = [tool EXCEPT ![a] = t]
  /\ UNCHANGED <<owner, verdict, standing, cleared, started>>

Ask(a) ==
  /\ tool[a] \in Tools
  /\ verdict[a] = "none"
  /\ a \notin cleared \cup started
  /\ verdict' = [verdict EXCEPT ![a] = "pending"]
  /\ UNCHANGED <<owner, tool, standing, cleared, started>>

Allow(a, scope) ==
  /\ verdict[a] = "pending"
  /\ verdict' = [verdict EXCEPT ![a] = scope]
  /\ standing' = standing \cup Consents(a, scope)
  /\ UNCHANGED <<owner, tool, cleared, started>>

Deny(a) ==
  /\ verdict[a] = "pending"
  /\ verdict' = [verdict EXCEPT ![a] = "denied"]
  /\ UNCHANGED <<owner, tool, standing, cleared, started>>

Lapse(a) ==
  /\ verdict[a] = "pending"
  /\ verdict' = [verdict EXCEPT ![a] = "lapsed"]
  /\ UNCHANGED <<owner, tool, standing, cleared, started>>

Revoke(c) ==
  /\ c \in standing
  /\ standing' = standing \ {c}
  /\ UNCHANGED <<owner, tool, verdict, cleared, started>>

Clear(a) ==
  /\ a \notin cleared \cup started
  /\ Permitted(a)
  /\ cleared' = cleared \cup {a}
  /\ UNCHANGED <<owner, tool, verdict, standing, started>>

\* A cleared call is not made after all, because its run ends.
Drop(a) ==
  /\ a \in cleared
  /\ cleared' = cleared \ {a}
  /\ UNCHANGED <<owner, tool, verdict, standing, started>>

Start(a) ==
  /\ a \in cleared
  /\ ~ Denied(a)
  /\ cleared' = cleared \ {a}
  /\ started' = started \cup {a}
  /\ UNCHANGED <<owner, tool, verdict, standing>>

\* The process stops: what is open lapses, and what was cleared is not made.
Stop ==
  /\ verdict' = [a \in Calls |-> IF verdict[a] = "pending" THEN "lapsed" ELSE verdict[a]]
  /\ cleared' = {}
  /\ UNCHANGED <<owner, tool, standing, started>>

Next ==
  \/ \E a \in Calls :
       \/ \E t \in Tools : Make(a, t)
       \/ Ask(a) \/ Deny(a) \/ Lapse(a) \/ Clear(a) \/ Drop(a) \/ Start(a)
       \/ \E scope \in Scopes : Allow(a, scope)
  \/ \E c \in standing : Revoke(c)
  \/ Stop

Spec == Init /\ [][Next]_vars
=============================================================================
