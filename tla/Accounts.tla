------------------------------ MODULE Accounts ------------------------------
(***************************************************************************)
(* The accounts of the web server (agent/auth.py), the table users, the    *)
(* login and account handlers and LoginRateLimiter of server.py.           *)
(*                                                                         *)
(* A password is right or not; hashes and signatures are left out.  Every  *)
(* use of the clock sees a later time than the last, as with time.time():  *)
(* a time identifies the write of a row or the failure of a login.  The    *)
(* logins are those of one address.                                        *)
(***************************************************************************)
EXTENDS Naturals, FiniteSets

CONSTANTS
  Users,        \* names
  Environment,  \* those the environment configures
  Logins,       \* threads of the login handler
  MaxFailures,  \* failures that close the window
  Window,       \* window_seconds
  Lifetime,     \* ttl_seconds of a token
  MaxTokens,    \* bound: tokens issued
  MaxClock      \* bound of the clock

VARIABLES
  clock,     \* the time
  updated,   \* updated[u]: updated_at of the row of u; 0 without a row
  tokens,    \* tokens that were issued
  failures,  \* times of the failed logins of the address
  login      \* login[h]: where a handler is; whose password it has verified

vars == <<clock, updated, tokens, failures, login>>

Tokens == [sub : Users, ver : Nat, exp : Nat]
Places == {"idle", "admitted"} \cup Users

Init ==
  /\ clock = 1
  /\ updated = [u \in Users |-> 0]
  /\ tokens = {}
  /\ failures = {}
  /\ login = [h \in Logins |-> "idle"]

Later == clock < MaxClock /\ clock' = clock + 1

Exists(u) == updated[u] # 0 \/ u \in Environment

\* verify_token; the version of an account without a row is 0.
Valid(t) == Exists(t.sub) /\ t.ver = updated[t.sub] /\ t.exp >= clock

Recent == {time \in failures : time + Window > clock}
-----------------------------------------------------------------------------
(* The login handler.                                                      *)

OneMore == Cardinality(Recent) <= MaxFailures  \* mutant of Open
\* retry_after is 0.
Open == Cardinality(Recent) < MaxFailures

Admit(h) ==
  /\ login[h] = "idle"
  /\ failures' = Recent
  /\ Open
  /\ login' = [login EXCEPT ![h] = "admitted"]
  /\ UNCHANGED <<clock, updated, tokens>>

Reject(h) ==
  /\ login[h] = "idle"
  /\ ~ Open
  /\ failures' = Recent
  /\ UNCHANGED <<clock, updated, tokens, login>>

\* The password of an account that is there.
Verify(h, u) ==
  /\ login[h] = "admitted"
  /\ Exists(u)
  /\ login' = [login EXCEPT ![h] = u]
  /\ UNCHANGED <<clock, updated, tokens, failures>>

Fail(h) ==
  /\ login[h] = "admitted"
  /\ Later
  /\ failures' = Recent \cup {clock}
  /\ login' = [login EXCEPT ![h] = "idle"]
  /\ UNCHANGED <<updated, tokens>>

\* A body that is no JSON object is answered without being counted.
BadBody(h) ==
  /\ login[h] = "admitted"
  /\ login' = [login EXCEPT ![h] = "idle"]
  /\ UNCHANGED <<clock, updated, tokens, failures>>

\* issue reads the version after verify has read the password.
Issue(h, u) ==
  /\ login[h] = u
  /\ Cardinality(tokens) < MaxTokens
  /\ tokens' = tokens \cup {[sub |-> u, ver |-> updated[u], exp |-> clock + Lifetime]}
  /\ login' = [login EXCEPT ![h] = "idle"]
  /\ UNCHANGED <<clock, updated, failures>>
-----------------------------------------------------------------------------
(* The account handlers of administrators, and time.                       *)

\* save_user inserts only where there is no row.
Create(u) ==
  /\ ~ Exists(u)
  /\ Later
  /\ updated' = [updated EXCEPT ![u] = clock]
  /\ UNCHANGED <<tokens, failures, login>>

\* An account of the environment gets a row with its first change.
ChangePassword(u) ==
  /\ Exists(u)
  /\ Later
  /\ updated' = [updated EXCEPT ![u] = clock]
  /\ UNCHANGED <<tokens, failures, login>>

AnyRow(u) == updated[u] # 0  \* mutant of Deletable
Deletable(u) == updated[u] # 0 /\ u \notin Environment

Delete(u) ==
  /\ Deletable(u)
  /\ updated' = [updated EXCEPT ![u] = 0]
  /\ UNCHANGED <<clock, tokens, failures, login>>

TimePasses ==
  /\ Later
  /\ UNCHANGED <<updated, tokens, failures, login>>

Next ==
  \/ \E h \in Logins :
       \/ Admit(h) \/ Reject(h) \/ Fail(h) \/ BadBody(h)
       \/ \E u \in Users : Verify(h, u) \/ Issue(h, u)
  \/ \E u \in Users : Create(u) \/ ChangePassword(u) \/ Delete(u)
  \/ TimePasses

Spec == Init /\ [][Next]_vars
-----------------------------------------------------------------------------
(* Properties.                                                             *)

\* Types.
TypeOK ==
  /\ clock \in Nat \ {0}
  /\ updated \in [Users -> Nat]
  /\ tokens \subseteq Tokens
  /\ failures \subseteq Nat /\ IsFiniteSet(failures)
  /\ login \in [Logins -> Places]

\* Versions are times that have passed.
Past ==
  /\ \A u \in Users : updated[u] < clock
  /\ \A t \in tokens : t.ver < clock

\* The logins that may still fail.
Admitted == {h \in Logins : login[h] = "admitted"}

\* What Admitted adds to the failures stays within the bound.
FailuresFit ==
  Cardinality(failures) + Cardinality(Admitted) < MaxFailures + Cardinality(Logins)

\* A token that a changed password, a deletion or time has made invalid is never
\* valid again, also not when the account is created anew.
RevokedStaysRevoked == [][\A t \in tokens : ~ Valid(t) => ~ Valid(t)']_vars

\* The handlers that pass the limiter together exceed its limit by less than their
\* number, and no more failures are kept.
FailuresBounded == Cardinality(failures) < MaxFailures + Cardinality(Logins)
=============================================================================
