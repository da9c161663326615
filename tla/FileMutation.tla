---------------------------- MODULE FileMutation ----------------------------
(***************************************************************************)
(* The tools that change a workspace (tools/coding.py): file_write and     *)
(* file_patch, git_stage and git_commit, each against a hash that was read *)
(* or shown before its approval.  A call takes the lock of the root, but   *)
(* editors, shell_execute and the users' git do not.                       *)
(*                                                                         *)
(* A hash stands for what it is the hash of: the content of a file or the  *)
(* tree of the index.  The content a call writes is its name.  A call that *)
(* its caller has given up is a thread that goes on, so nothing here says  *)
(* whether somebody still waits for it.                                    *)
(***************************************************************************)
CONSTANTS
  Calls,   \* calls of the tools, each made once
  Paths,   \* files of the workspace
  Nobody   \* no holder of the lock

Missing == "missing"
Outside == {"original", Missing}  \* what editors leave in a file
Contents == Calls \cup Outside
Trees == [Paths -> Contents]

VARIABLES
  file,      \* file[p]: content in the working tree
  index,     \* the tree staged for the next commit
  head,      \* the tree of the last commit
  mutation,  \* holder of the mutation lock
  call,      \* call[c]: where the thread of c is
  task,      \* task[c]: kind, path and what its hash stands for
  staged,    \* trees whose hash git_stage has returned
  touched    \* history: calls whose ground changed after their last check

git == <<index, head>>
vars == <<file, git, mutation, call, task, staged, touched>>

Places == {"idle", "lock", "recheck", "replace", "add", "hash", "commit", "done"}
Locked == {"recheck", "replace", "add", "hash", "commit"}
Tasks ==
  [kind : {"write", "stage"}, path : Paths, expected : Contents]
    \cup [kind : {"commit"}, expected : Trees]

Goto(c, place) == call' = [call EXCEPT ![c] = place]

Init ==
  /\ file = [p \in Paths |-> "original"]
  /\ index = file /\ head = file
  /\ mutation = Nobody
  /\ call = [c \in Calls |-> "idle"]
  /\ task = [c \in Calls |-> [kind |-> "commit", expected |-> file]]
  /\ staged = {}
  /\ touched = {}

Unlocked == mutation = Nobody

Unhashed(c) == task[c].expected # Missing  \* mutant of SameContent
\* The file has the expected hash; for a new file, there is none.
SameContent(c) == file[task[c].path] = task[c].expected

AnythingStaged(c) == index # head  \* mutant of SameIndex
\* The index has the expected hash and something to commit.
SameIndex(c) == index = task[c].expected /\ index # head
-----------------------------------------------------------------------------
(* A call.                                                                 *)

\* Its arguments: a hash that somebody has read, or that git_stage returned.
Begin(c) ==
  /\ call[c] = "idle"
  /\ \/ \E kind \in {"write", "stage"}, p \in Paths, seen \in Contents :
          task' = [task EXCEPT ![c] = [kind |-> kind, path |-> p, expected |-> seen]]
     \/ \E tree \in staged :
          task' = [task EXCEPT ![c] = [kind |-> "commit", expected |-> tree]]
  /\ Goto(c, "lock")
  /\ UNCHANGED <<file, git, mutation, staged, touched>>

\* The checks under the lock, and what comes next when they pass.
Check(c) ==
  /\ call[c] = "lock" /\ Unlocked
  /\ \/ task[c].kind = "write" /\ SameContent(c) /\ Goto(c, "recheck")
     \/ task[c].kind = "stage" /\ SameContent(c) /\ Goto(c, "add")
     \/ task[c].kind = "commit" /\ SameIndex(c) /\ Goto(c, "commit")
  /\ mutation' = c
  /\ UNCHANGED <<file, git, task, staged, touched>>

\* A preview, another hash, a text to patch that is not there exactly once, a
\* path that is protected, too large or no text; nothing is staged.
Refuse(c) ==
  /\ call[c] = "lock" /\ Unlocked
  /\ Goto(c, "done")
  /\ UNCHANGED <<file, git, mutation, task, staged, touched>>

\* The new content is in a temporary file; the old one is read once more.
Recheck(c) ==
  /\ call[c] = "recheck"
  /\ SameContent(c)
  /\ Goto(c, "replace")
  /\ UNCHANGED <<file, git, mutation, task, staged, touched>>

Replace(c) ==
  /\ call[c] = "replace"
  /\ file' = [file EXCEPT ![task[c].path] = c]
  /\ mutation' = Nobody
  /\ Goto(c, "done")
  /\ UNCHANGED <<git, task, staged, touched>>

\* git add; it fails for a file that is neither there nor in the index.
Add(c) ==
  /\ call[c] = "add"
  /\ LET p == task[c].path IN
       /\ file[p] # Missing \/ index[p] # Missing
       /\ index' = [index EXCEPT ![p] = file[p]]
  /\ Goto(c, "hash")
  /\ UNCHANGED <<file, head, mutation, task, staged, touched>>

\* git write-tree, whose result the approval of a commit names.
Hash(c) ==
  /\ call[c] = "hash"
  /\ staged' = staged \cup {index}
  /\ mutation' = Nobody
  /\ Goto(c, "done")
  /\ UNCHANGED <<file, git, task, touched>>

Commit(c) ==
  /\ call[c] = "commit"
  /\ index # head
  /\ head' = index
  /\ mutation' = Nobody
  /\ Goto(c, "done")
  /\ UNCHANGED <<file, index, task, staged, touched>>

\* The second check fails, or a system call or git does; with the exception
\* the lock is left and a temporary file is removed.
Abort(c) ==
  /\ call[c] \in Locked
  /\ mutation' = Nobody
  /\ Goto(c, "done")
  /\ UNCHANGED <<file, git, task, staged, touched>>
-----------------------------------------------------------------------------
(* What does not take the lock.                                            *)

\* An editor, or a command of shell_execute.
Edit(p, content) ==
  /\ content # file[p]
  /\ file' = [file EXCEPT ![p] = content]
  /\ touched' = touched \cup
       {c \in Calls : call[c] \in {"replace", "add"} /\ task[c].path = p}
  /\ UNCHANGED <<git, mutation, call, task, staged>>

\* Somebody else's git add or git commit.
GitOutside ==
  /\ \/ \E p \in Paths : index' = [index EXCEPT ![p] = file[p]] /\ UNCHANGED head
     \/ head' = index /\ UNCHANGED index
  /\ git' # git
  /\ touched' = touched \cup {c \in Calls : call[c] = "commit"}
  /\ UNCHANGED <<file, mutation, call, task, staged>>

Next ==
  \/ \E c \in Calls :
       \/ Begin(c) \/ Check(c) \/ Refuse(c) \/ Recheck(c) \/ Replace(c)
       \/ Add(c) \/ Hash(c) \/ Commit(c) \/ Abort(c)
  \/ \E p \in Paths, content \in Outside : Edit(p, content)
  \/ GitOutside

Spec == Init /\ [][Next]_vars
-----------------------------------------------------------------------------
(* Properties.                                                             *)

\* Types.
TypeOK ==
  /\ file \in Trees /\ index \in Trees /\ head \in Trees
  /\ mutation \in Calls \cup {Nobody}
  /\ call \in [Calls -> Places]
  /\ task \in [Calls -> Tasks]
  /\ staged \subseteq Trees
  /\ touched \subseteq Calls

\* A call replaces the content its hash was taken of, or one that came between
\* its second check and the replacement and that no check could have seen: what an
\* editor saves in that window is lost, and is excepted here.
NoChangeLost ==
  [][\A c \in Calls, p \in Paths :
       file'[p] = c /\ file[p] # c => file[p] = task[c].expected \/ c \in touched]_vars

\* Among the calls of the tools, a commit is the tree that was staged and approved.
\* Git used by others between the check and the commit is excepted: the code does
\* not see it.
CommitsApproved ==
  [][\A c \in Calls :
       call[c] = "commit" /\ head' # head /\ call'[c] # "commit" =>
         head' = task[c].expected \/ c \in touched]_vars
=============================================================================
