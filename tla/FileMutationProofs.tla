-------------------------- MODULE FileMutationProofs --------------------------
(***************************************************************************)
(* Proofs about FileMutation, for any calls and paths.                     *)
(***************************************************************************)
EXTENDS FileMutation, TLAPS

\* Nobody is no call, and no call writes what an editor leaves.
Distinct == Nobody \notin Calls /\ Calls \cap Outside = {}

USE DEF Goto, git

\* Only the holder of the lock is at a place under it, with a task of its kind.
LockHeld ==
  \A c \in Calls :
    /\ call[c] \in Locked => mutation = c
    /\ call[c] \in {"recheck", "replace"} => task[c].kind = "write"
    /\ call[c] \in {"add", "hash"} => task[c].kind = "stage"
    /\ call[c] = "commit" => task[c].kind = "commit"

\* What a call has checked holds until somebody without the lock changes it.
Checked ==
  \A c \in Calls :
    /\ call[c] = "replace" => SameContent(c) \/ c \in touched
    /\ call[c] = "commit" => index = task[c].expected \/ c \in touched

\* The inductive invariant.
Invariant == TypeOK /\ LockHeld /\ Checked
-----------------------------------------------------------------------------
\* The first state.
LEMMA InitInvariant == Init => Invariant
  BY DEF Checked, Contents, Init, Invariant, LockHeld, Locked, Outside, Places, Tasks,
     Trees, TypeOK

\* A task has a path unless it is a commit, whose hash is of a tree.
LEMMA TaskShape ==
  ASSUME TypeOK, NEW c \in Calls
  PROVE  /\ task[c].kind \in {"write", "stage"} => task[c].path \in Paths
         /\ task[c].kind = "commit" => task[c].expected \in Trees
         /\ task[c].kind \in {"write", "stage", "commit"}
  BY DEF Tasks, TypeOK

\* Every step keeps the types.
LEMMA TypeStep ==
  TypeOK /\ LockHeld /\ [Next]_vars => TypeOK'
<1> SUFFICES ASSUME TypeOK, LockHeld, [Next]_vars PROVE TypeOK'
  OBVIOUS
<1>1. ASSUME NEW c \in Calls, Begin(c) PROVE TypeOK'
  BY <1>1 DEF Begin, Places, Tasks, TypeOK
<1>2. ASSUME NEW c \in Calls, Check(c) PROVE TypeOK'
  BY <1>2 DEF Check, Places, TypeOK
<1>3. ASSUME NEW c \in Calls, Refuse(c) \/ Recheck(c) \/ Abort(c) PROVE TypeOK'
  BY <1>3 DEF Abort, Places, Recheck, Refuse, TypeOK
<1>4. ASSUME NEW c \in Calls, Replace(c) PROVE TypeOK'
  <2>1. task[c].path \in Paths
    BY <1>4, TaskShape DEF LockHeld, Replace
  <2>2. file' \in Trees
    BY <1>4, <2>1 DEF Contents, Replace, Trees, TypeOK
  <2> QED
    BY <1>4, <2>2 DEF Places, Replace, TypeOK
<1>5. ASSUME NEW c \in Calls, Add(c) PROVE TypeOK'
  <2>1. task[c].path \in Paths
    BY <1>5, TaskShape DEF Add, LockHeld
  <2>2. index' \in Trees
    BY <1>5, <2>1 DEF Add, Trees, TypeOK
  <2> QED
    BY <1>5, <2>2 DEF Add, Places, TypeOK
<1>6. ASSUME NEW c \in Calls, Hash(c) \/ Commit(c) PROVE TypeOK'
  BY <1>6 DEF Commit, Hash, Places, TypeOK
<1>7. ASSUME NEW p \in Paths, NEW content \in Outside, Edit(p, content) PROVE TypeOK'
  <2>1. file' \in Trees
    BY <1>7 DEF Contents, Edit, Trees, TypeOK
  <2> QED
    BY <1>7, <2>1 DEF Edit, TypeOK
<1>8. CASE GitOutside
  <2>1. index' \in Trees /\ head' \in Trees
    BY <1>8 DEF GitOutside, Trees, TypeOK
  <2> QED
    BY <1>8, <2>1 DEF GitOutside, TypeOK
<1>9. CASE UNCHANGED vars
  BY <1>9 DEF TypeOK, vars
<1> QED
  BY <1>1, <1>2, <1>3, <1>4, <1>5, <1>6, <1>7, <1>8, <1>9 DEF Next

\* Every step keeps the lock with those who need it: a call takes it only when it
\* is free, and leaves it with its last place under it.
LEMMA LockStep ==
  Distinct /\ TypeOK /\ LockHeld /\ [Next]_vars => LockHeld'
<1> SUFFICES ASSUME Distinct, TypeOK, LockHeld, [Next]_vars PROVE LockHeld'
  OBVIOUS
<1> USE DEF Distinct, Locked, LockHeld, TypeOK
<1>1. ASSUME NEW c \in Calls, Begin(c) PROVE LockHeld'
  BY <1>1 DEF Begin
<1>2. ASSUME NEW c \in Calls, Check(c) PROVE LockHeld'
  BY <1>2 DEF Check, Unlocked
<1>3. ASSUME NEW c \in Calls, Refuse(c) \/ Recheck(c) \/ Abort(c) PROVE LockHeld'
  BY <1>3 DEF Abort, Recheck, Refuse
<1>4. ASSUME NEW c \in Calls, Replace(c) \/ Add(c) \/ Hash(c) \/ Commit(c) PROVE LockHeld'
  BY <1>4 DEF Add, Commit, Hash, Replace
<1>5. ASSUME NEW p \in Paths, NEW content \in Outside, Edit(p, content) PROVE LockHeld'
  BY <1>5 DEF Edit
<1>6. CASE GitOutside
  BY <1>6 DEF GitOutside
<1>7. CASE UNCHANGED vars
  BY <1>7 DEF vars
<1> QED
  BY <1>1, <1>2, <1>3, <1>4, <1>5, <1>6, <1>7 DEF Next

\* Every step keeps what was checked: the lock keeps the other calls out, and
\* whoever does without it is remembered.
LEMMA CheckedStep ==
  TypeOK /\ LockHeld /\ Checked /\ [Next]_vars => Checked'
<1> SUFFICES ASSUME TypeOK, LockHeld, Checked, [Next]_vars,
                    NEW d \in Calls
             PROVE  /\ call'[d] = "replace" => SameContent(d)' \/ d \in touched'
                    /\ call'[d] = "commit" => index' = task'[d].expected \/ d \in touched'
  BY DEF Checked
<1> USE DEF SameContent
<1>1. ASSUME NEW c \in Calls, Begin(c) \/ Refuse(c) \/ Recheck(c) \/ Abort(c)
      PROVE  /\ call'[d] = "replace" => SameContent(d)' \/ d \in touched'
             /\ call'[d] = "commit" => index' = task'[d].expected \/ d \in touched'
  BY <1>1 DEF Abort, Begin, Checked, Recheck, Refuse, TypeOK
<1>2. ASSUME NEW c \in Calls, Check(c)
      PROVE  /\ call'[d] = "replace" => SameContent(d)' \/ d \in touched'
             /\ call'[d] = "commit" => index' = task'[d].expected \/ d \in touched'
  BY <1>2 DEF Check, Checked, SameIndex, TypeOK
<1>3. ASSUME NEW c \in Calls, Replace(c) \/ Add(c) \/ Hash(c) \/ Commit(c)
      PROVE  /\ call'[d] = "replace" => SameContent(d)' \/ d \in touched'
             /\ call'[d] = "commit" => index' = task'[d].expected \/ d \in touched'
  <2>1. call[d] \in {"replace", "commit"} => d = c
    BY <1>3 DEF Add, Commit, Hash, LockHeld, Locked, Replace
  <2>2. call'[c] \in {"hash", "done"} /\ \A q \in Calls : q # c => call'[q] = call[q]
    BY <1>3 DEF Add, Commit, Hash, Replace, TypeOK
  <2> QED
    BY <2>1, <2>2
<1>4. ASSUME NEW p \in Paths, NEW content \in Outside, Edit(p, content)
      PROVE  /\ call'[d] = "replace" => SameContent(d)' \/ d \in touched'
             /\ call'[d] = "commit" => index' = task'[d].expected \/ d \in touched'
  <2>1. CASE call[d] = "replace" /\ task[d].path = p
    BY <1>4, <2>1 DEF Edit
  <2>2. CASE ~ (call[d] = "replace" /\ task[d].path = p)
    BY <1>4, <2>2 DEF Checked, Edit
  <2> QED
    BY <2>1, <2>2
<1>5. CASE GitOutside
  BY <1>5 DEF Checked, GitOutside
<1>6. CASE UNCHANGED vars
  BY <1>6 DEF Checked, vars
<1> QED
  BY <1>1, <1>2, <1>3, <1>4, <1>5, <1>6 DEF Next

\* The invariant always holds.
THEOREM InvariantHolds ==
  ASSUME Distinct
  PROVE  Spec => []Invariant
<1>1. Invariant /\ [Next]_vars => Invariant'
  BY TypeStep, LockStep, CheckedStep DEF Invariant
<1> QED
  BY <1>1, InitInvariant, PTL DEF Spec
-----------------------------------------------------------------------------
\* A step that puts the content of a call into a file is its replacement, and finds
\* what the call had read, or somebody without the lock came between.
LEMMA ReplacedStep ==
  ASSUME Distinct, Invariant, [Next]_vars,
         NEW c \in Calls, NEW p \in Paths, file'[p] = c, file[p] # c
  PROVE  file[p] = task[c].expected \/ c \in touched
<1>1. ASSUME NEW q \in Calls, Replace(q)
      PROVE  file[p] = task[c].expected \/ c \in touched
  <2>1. q = c /\ p = task[c].path
    BY <1>1 DEF Replace
  <2> QED
    BY <1>1, <2>1 DEF Checked, Invariant, Replace, SameContent
<1>2. ASSUME NEW q \in Paths, NEW content \in Outside, Edit(q, content) PROVE FALSE
  BY <1>2 DEF Distinct, Edit
<1>3. ASSUME file' = file PROVE FALSE
  BY <1>3
<1> QED
  BY <1>1, <1>2, <1>3 DEF Abort, Add, Begin, Check, Commit, GitOutside, Hash, Next,
     Recheck, Refuse, vars

\* No call overwrites a content that it was not given the hash of.
THEOREM NothingLost ==
  ASSUME Distinct
  PROVE  Spec => NoChangeLost
<1>1. Invariant /\ [Next]_vars =>
        [\A c \in Calls, p \in Paths :
           file'[p] = c /\ file[p] # c => file[p] = task[c].expected \/ c \in touched]_vars
  BY ReplacedStep
<1> QED
  BY <1>1, InvariantHolds, PTL DEF NoChangeLost, Spec

\* A step of a commit that moves the head makes the approved tree the head.
LEMMA CommittedStep ==
  ASSUME Invariant, [Next]_vars,
         NEW c \in Calls, call[c] = "commit", head' # head, call'[c] # "commit"
  PROVE  head' = task[c].expected \/ c \in touched
<1>1. ASSUME NEW q \in Calls, Commit(q)
      PROVE  head' = task[c].expected \/ c \in touched
  <2>1. q = c
    BY <1>1 DEF Commit
  <2> QED
    BY <1>1, <2>1 DEF Checked, Commit, Invariant
<1>2. ASSUME head' = head \/ call' = call PROVE FALSE
  BY <1>2
<1> QED
  BY <1>1, <1>2 DEF Abort, Add, Begin, Check, Edit, GitOutside, Hash, Next, Recheck,
     Refuse, Replace, vars

\* What is committed was staged and approved.
THEOREM CommitsAreApproved ==
  ASSUME Distinct
  PROVE  Spec => CommitsApproved
<1>1. Invariant /\ [Next]_vars =>
        [\A c \in Calls :
           call[c] = "commit" /\ head' # head /\ call'[c] # "commit" =>
             head' = task[c].expected \/ c \in touched]_vars
  BY CommittedStep
<1> QED
  BY <1>1, InvariantHolds, PTL DEF CommitsApproved, Spec
=============================================================================
