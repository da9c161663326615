---------------------------- MODULE AccountsProofs ----------------------------
(***************************************************************************)
(* Proofs about Accounts, for any users, logins and limits.                *)
(***************************************************************************)
EXTENDS Accounts, FiniteSetTheorems, TLAPS

\* Finitely many threads, and limits that are natural numbers.
Finite ==
  /\ IsFiniteSet(Logins)
  /\ MaxFailures \in Nat \ {0} /\ Lifetime \in Nat

\* The inductive invariant.
Invariant == TypeOK /\ Past /\ FailuresFit
-----------------------------------------------------------------------------
\* Nobody is admitted at first.
LEMMA InitInvariant ==
  ASSUME Finite, Init
  PROVE  Invariant
<1>1. TypeOK
  BY FS_EmptySet DEF Init, Places, TypeOK
<1>2. Past
  BY DEF Init, Past
<1>3. failures = {} /\ Admitted = {}
  BY DEF Admitted, Init
<1>4. Cardinality(Logins) \in Nat
  BY FS_CardinalityType DEF Finite
<1>5. FailuresFit
  BY <1>3, <1>4, FS_EmptySet DEF FailuresFit, Finite
<1> QED
  BY <1>1, <1>2, <1>5 DEF Invariant

\* What is kept of the failures is finite and no more than there was.
LEMMA RecentFewer ==
  ASSUME TypeOK
  PROVE  /\ Recent \subseteq failures /\ IsFiniteSet(Recent)
         /\ Cardinality(Recent) \in Nat /\ Cardinality(failures) \in Nat
         /\ Cardinality(Recent) <= Cardinality(failures)
<1>1. Recent \subseteq failures
  BY DEF Recent
<1>2. IsFiniteSet(Recent) /\ Cardinality(Recent) <= Cardinality(failures)
  BY <1>1, FS_Subset DEF TypeOK
<1> QED
  BY <1>1, <1>2, FS_CardinalityType DEF TypeOK

\* The logins that were admitted are finitely many.
LEMMA AdmittedFew ==
  ASSUME Finite
  PROVE  /\ IsFiniteSet(Admitted) /\ Cardinality(Admitted) \in Nat
         /\ Cardinality(Logins) \in Nat
         /\ Cardinality(Admitted) <= Cardinality(Logins)
<1>1. Admitted \subseteq Logins
  BY DEF Admitted
<1> QED
  BY <1>1, FS_Subset, FS_CardinalityType DEF Finite

\* Every step keeps the types.
LEMMA TypeStep ==
  Finite /\ TypeOK /\ [Next]_vars => TypeOK'
<1> SUFFICES ASSUME Finite, TypeOK, [Next]_vars PROVE TypeOK'
  OBVIOUS
<1> USE DEF TypeOK
<1>1. IsFiniteSet(Recent) /\ Recent \subseteq Nat
  BY RecentFewer
<1>2. ASSUME NEW h \in Logins, Admit(h) \/ Reject(h) \/ BadBody(h) PROVE TypeOK'
  BY <1>1, <1>2 DEF Admit, BadBody, Places, Reject
<1>3. ASSUME NEW h \in Logins, Fail(h) PROVE TypeOK'
  <2>1. IsFiniteSet(Recent \cup {clock})
    BY <1>1, FS_AddElement
  <2> QED
    BY <1>1, <1>3, <2>1 DEF Fail, Later, Places
<1>4. ASSUME NEW h \in Logins, NEW u \in Users, Verify(h, u) PROVE TypeOK'
  BY <1>4 DEF Places, Verify
<1>5. ASSUME NEW h \in Logins, NEW u \in Users, Issue(h, u) PROVE TypeOK'
  <2>1. [sub |-> u, ver |-> updated[u], exp |-> clock + Lifetime] \in Tokens
    BY DEF Finite, Tokens
  <2> QED
    BY <1>5, <2>1 DEF Issue, Places
<1>6. ASSUME NEW u \in Users, Create(u) \/ ChangePassword(u) \/ Delete(u) PROVE TypeOK'
  <2>1. updated' \in [Users -> Nat] /\ clock' \in Nat \ {0}
    BY <1>6 DEF ChangePassword, Create, Delete, Later
  <2>2. UNCHANGED <<tokens, failures, login>>
    BY <1>6 DEF ChangePassword, Create, Delete
  <2> QED
    BY <2>1, <2>2
<1>7. CASE TimePasses
  BY <1>7 DEF Later, TimePasses
<1>8. CASE UNCHANGED vars
  BY <1>8 DEF vars
<1> QED
  BY <1>2, <1>3, <1>4, <1>5, <1>6, <1>7, <1>8 DEF Next

\* Every step keeps versions in the past: a new one is the time before the step.
LEMMA PastStep ==
  TypeOK /\ Past /\ [Next]_vars => Past'
<1> SUFFICES ASSUME TypeOK, Past, [Next]_vars PROVE Past'
  OBVIOUS
<1> USE DEF Past, Tokens, TypeOK
<1>1. ASSUME NEW h \in Logins, Admit(h) \/ Reject(h) \/ BadBody(h) \/ Fail(h) PROVE Past'
  BY <1>1 DEF Admit, BadBody, Fail, Later, Reject
<1>2. ASSUME NEW h \in Logins, NEW u \in Users, Verify(h, u) \/ Issue(h, u) PROVE Past'
  BY <1>2 DEF Issue, Verify
<1>3. ASSUME NEW u \in Users, Create(u) \/ ChangePassword(u) \/ Delete(u) PROVE Past'
  BY <1>3 DEF ChangePassword, Create, Delete, Later
<1>4. CASE TimePasses
  BY <1>4 DEF Later, TimePasses
<1>5. CASE UNCHANGED vars
  BY <1>5 DEF vars
<1> QED
  BY <1>1, <1>2, <1>3, <1>4, <1>5 DEF Next

\* Every step keeps room for the failures of those admitted: who is admitted finds
\* fewer failures than the limit, and who fails is no longer among the admitted.
LEMMA FitStep ==
  Finite /\ TypeOK /\ FailuresFit /\ [Next]_vars => FailuresFit'
<1> SUFFICES ASSUME Finite, TypeOK, FailuresFit, [Next]_vars PROVE FailuresFit'
  OBVIOUS
<1>1. /\ IsFiniteSet(Admitted) /\ Cardinality(Admitted) \in Nat
      /\ Cardinality(Logins) \in Nat
      /\ Cardinality(Recent) \in Nat /\ Cardinality(failures) \in Nat
      /\ Cardinality(Recent) <= Cardinality(failures)
      /\ MaxFailures \in Nat
  BY AdmittedFew, RecentFewer DEF Finite
<1>2. ASSUME Admitted' \subseteq Admitted, failures' \in {failures, Recent}
      PROVE  FailuresFit'
  <2>1. Cardinality(Admitted') \in Nat /\ Cardinality(Admitted') <= Cardinality(Admitted)
    BY <1>1, <1>2, FS_Subset, FS_CardinalityType
  <2>2. Cardinality(failures') \in Nat /\ Cardinality(failures') <= Cardinality(failures)
    BY <1>1, <1>2
  <2> QED
    BY <1>1, <2>1, <2>2 DEF FailuresFit
<1>3. ASSUME NEW h \in Logins, Admit(h) PROVE FailuresFit'
  <2>1. Cardinality(failures') < MaxFailures /\ Cardinality(failures') \in Nat
    BY <1>1, <1>3 DEF Admit, Open
  <2>2. Admitted' \subseteq Logins
    BY DEF Admitted
  <2>3. Cardinality(Admitted') \in Nat /\ Cardinality(Admitted') <= Cardinality(Logins)
    BY <2>2, FS_Subset, FS_CardinalityType DEF Finite
  <2> QED
    BY <1>1, <2>1, <2>3 DEF FailuresFit
<1>4. ASSUME NEW h \in Logins, Fail(h) PROVE FailuresFit'
  <2>1. h \in Admitted /\ Admitted' = Admitted \ {h}
    BY <1>4 DEF Admitted, Fail, TypeOK
  <2>2. Cardinality(Admitted') = Cardinality(Admitted) - 1
    BY <1>1, <2>1, FS_RemoveElement
  <2>3. IsFiniteSet(Recent)
    BY RecentFewer
  <2>4. /\ Cardinality(Recent \cup {clock}) \in Nat
        /\ Cardinality(Recent \cup {clock}) <= Cardinality(Recent) + 1
    BY <1>1, <2>3, FS_AddElement
  <2>5. failures' = Recent \cup {clock}
    BY <1>4 DEF Fail
  <2> QED
    BY <1>1, <2>2, <2>4, <2>5 DEF FailuresFit
<1>5. ASSUME NEW h \in Logins, Reject(h) \/ BadBody(h) PROVE FailuresFit'
  <2>1. Admitted' \subseteq Admitted /\ failures' \in {failures, Recent}
    BY <1>5 DEF Admitted, BadBody, Reject, TypeOK
  <2> QED
    BY <1>2, <2>1
<1>6. ASSUME NEW h \in Logins, NEW u \in Users, Verify(h, u) \/ Issue(h, u)
      PROVE  FailuresFit'
  <2>1. Admitted' \subseteq Admitted /\ failures' = failures
    BY <1>6 DEF Admitted, Issue, TypeOK, Verify
  <2> QED
    BY <1>2, <2>1
<1>7. ASSUME login' = login, failures' = failures PROVE FailuresFit'
  BY <1>2, <1>7 DEF Admitted
<1> QED
  BY <1>3, <1>4, <1>5, <1>6, <1>7 DEF ChangePassword, Create, Delete, Next, TimePasses,
     vars

\* The invariant always holds.
THEOREM InvariantHolds ==
  ASSUME Finite
  PROVE  Spec => []Invariant
<1>1. Invariant /\ [Next]_vars => Invariant'
  BY TypeStep, PastStep, FitStep DEF Invariant
<1> QED
  BY <1>1, InitInvariant, PTL DEF Spec

\* The failures of an address stay within its limit and the logins at a time.
THEOREM FailuresAreBounded ==
  ASSUME Finite
  PROVE  Spec => []FailuresBounded
<1>1. Invariant => FailuresBounded
  BY AdmittedFew, RecentFewer DEF FailuresBounded, FailuresFit, Finite, Invariant
<1> QED
  BY <1>1, InvariantHolds, PTL
-----------------------------------------------------------------------------
\* A step does not make a token valid again: a version that is set is later than
\* that of every token, and an account that loses its row is then no account.
LEMMA RevokedStep ==
  ASSUME Invariant, [Next]_vars, NEW t \in tokens, ~ Valid(t)
  PROVE  ~ Valid(t)'
<1> USE DEF Exists, Invariant, Past, Tokens, TypeOK, Valid
<1>1. ASSUME updated' = updated, clock' = clock \/ Later PROVE ~ Valid(t)'
  BY <1>1 DEF Later
<1>2. ASSUME NEW u \in Users, Create(u) \/ ChangePassword(u) PROVE ~ Valid(t)'
  BY <1>2 DEF ChangePassword, Create, Later
<1>3. ASSUME NEW u \in Users, Delete(u) PROVE ~ Valid(t)'
  BY <1>3 DEF Deletable, Delete
<1>4. ASSUME NEW h \in Logins, Admit(h) \/ Reject(h) \/ Fail(h) \/ BadBody(h)
      PROVE  ~ Valid(t)'
  <2>1. updated' = updated /\ (clock' = clock \/ Later)
    BY <1>4 DEF Admit, BadBody, Fail, Reject
  <2> QED
    BY <1>1, <2>1
<1>5. ASSUME NEW h \in Logins, NEW u \in Users, Verify(h, u) \/ Issue(h, u)
      PROVE  ~ Valid(t)'
  <2>1. updated' = updated /\ clock' = clock
    BY <1>5 DEF Issue, Verify
  <2> QED
    BY <1>1, <2>1
<1>6. CASE TimePasses \/ UNCHANGED vars
  <2>1. updated' = updated /\ (clock' = clock \/ Later)
    BY <1>6 DEF TimePasses, vars
  <2> QED
    BY <1>1, <2>1
<1> QED
  BY <1>2, <1>3, <1>4, <1>5, <1>6 DEF Next

\* A token that is no longer valid stays so.
THEOREM RevokedForGood ==
  ASSUME Finite
  PROVE  Spec => RevokedStaysRevoked
<1>1. Invariant /\ [Next]_vars => [\A t \in tokens : ~ Valid(t) => ~ Valid(t)']_vars
  BY RevokedStep
<1> QED
  BY <1>1, InvariantHolds, PTL DEF RevokedStaysRevoked, Spec
=============================================================================
