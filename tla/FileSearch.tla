----------------------------- MODULE FileSearch -----------------------------
(***************************************************************************)
(* file_search of tools/workspace.py: ripgrep writes lines into a pipe, a  *)
(* reader thread moves them into a queue, the caller takes them out and    *)
(* stops at the end, at a hit too many or after fifteen seconds.  Without  *)
(* ripgrep the caller searches the files itself.                           *)
(*                                                                         *)
(* A line is a hit, "other" (an ignored file, no file name), or "odd": a   *)
(* colon in the name of the file or, without a name, in the text leaves no *)
(* number where the code expects one.                                      *)
(***************************************************************************)
EXTENDS Naturals, FiniteSets, Sequences, SequencesExt

CONSTANTS
  MaxResults,  \* max_results
  MaxLines     \* bound: lines of output

VARIABLES
  single,     \* the path is a file: rg then writes no file names
  output,     \* kinds of the lines that rg finds
  read,       \* lines the reader has read
  rg,         \* the process: "none", "running", or how it ended
  reader,     \* the reader thread
  queued,     \* the queue of lines, with "end" for the marker of the end
  quit,       \* the event stop
  search,     \* the caller
  matches,    \* number of matches collected
  truncated

pipe == <<single, output>>
answer == <<matches, truncated>>
vars == <<pipe, read, rg, reader, queued, quit, search, answer>>

Kinds == {"hit", "other", "odd"}
Finished == {"returned", "timedout", "raised"}
Capacity == MaxResults + 2

\* Every line that matches and is of a file that may be shown.
Wanted == Cardinality({i \in DOMAIN output : output[i] # "other"})

Init ==
  /\ single = FALSE /\ output = <<>>
  /\ read = 0
  /\ rg = "none" /\ reader = "none"
  /\ queued = <<>> /\ quit = FALSE
  /\ search = "idle"
  /\ matches = 0 /\ truncated = FALSE

NoRoom == matches > MaxResults  \* mutant of Enough
Enough == matches >= MaxResults
-----------------------------------------------------------------------------
Start ==
  /\ search = "idle"
  /\ single' \in BOOLEAN
  /\ output' \in SeqOf(Kinds, MaxLines)
  /\ rg' = "running" /\ reader' = "reading"
  /\ search' = "getting"
  /\ UNCHANGED <<read, queued, quit, answer>>

\* _python_search, where rg is not installed.
Fallback ==
  /\ search = "idle"
  /\ single' \in BOOLEAN
  /\ output' \in SeqOf(Kinds, MaxLines)
  /\ matches' = IF Wanted' > MaxResults THEN MaxResults ELSE Wanted'
  /\ truncated' = (Wanted' > MaxResults)
  /\ search' = "returned"
  /\ UNCHANGED <<read, rg, reader, queued, quit>>
-----------------------------------------------------------------------------
(* rg and the reader.                                                      *)

\* rg ends by itself, with or without an error.
RgEnds ==
  /\ rg = "running"
  /\ rg' \in {"ended", "failed"}
  /\ UNCHANGED <<pipe, read, reader, queued, quit, search, answer>>

ReadLine ==
  /\ reader = "reading" /\ read < Len(output)
  /\ read' = read + 1
  /\ reader' = "putting"
  /\ UNCHANGED <<pipe, rg, queued, quit, search, answer>>

\* The event is seen before the next line, or after this one was put.
Put ==
  /\ reader = "putting" /\ Len(queued) < Capacity
  /\ queued' = Append(queued, output[read])
  /\ reader' = IF quit THEN "ending" ELSE "reading"
  /\ UNCHANGED <<pipe, read, rg, quit, search, answer>>

GiveUp ==
  /\ reader = "putting" /\ quit
  /\ reader' = "ending"
  /\ UNCHANGED <<pipe, read, rg, queued, quit, search, answer>>

EndOfOutput ==
  /\ reader = "reading" /\ read = Len(output) /\ rg # "running"
  /\ reader' = "ending"
  /\ UNCHANGED <<pipe, read, rg, queued, quit, search, answer>>

\* The marker is dropped when the queue is full.
PutEnd ==
  /\ reader = "ending"
  /\ queued' = IF Len(queued) < Capacity THEN Append(queued, "end") ELSE queued
  /\ reader' = "done"
  /\ UNCHANGED <<pipe, read, rg, quit, search, answer>>
-----------------------------------------------------------------------------
(* The caller.                                                             *)

Take ==
  /\ search = "getting" /\ queued # <<>>
  /\ queued' = Tail(queued)
  /\ LET line == Head(queued) IN
       \/ line = "end" /\ search' = "closing" /\ UNCHANGED answer
       \/ \* no file name and three colons, or a file that is not shown
          /\ line = "other" \/ (line = "hit" /\ single)
          /\ UNCHANGED <<search, answer>>
       \/ /\ line = "odd" \/ (line = "hit" /\ ~ single)
          /\ IF Enough THEN /\ truncated' = TRUE /\ search' = "closing"
                            /\ UNCHANGED matches
             ELSE IF line = "odd" THEN search' = "raised" /\ UNCHANGED answer
             ELSE matches' = matches + 1 /\ UNCHANGED <<search, truncated>>
  /\ UNCHANGED <<pipe, read, rg, reader, quit>>

Unstopped == quit  \* mutant of Stopped
Stopped == TRUE

Deadline ==
  /\ search = "getting"
  /\ quit' = Stopped
  /\ rg' = IF rg = "running" THEN "killed" ELSE rg
  /\ search' = "timedout"
  /\ UNCHANGED <<pipe, read, reader, queued, answer>>

\* rg is told to end, and killed two seconds later; it may end by itself first.
\* An error of rg matters only if fewer matches were found than wanted.
Close ==
  /\ search = "closing"
  /\ quit' = Stopped
  /\ rg' \in IF rg = "running" THEN {"terminated", "killed", "ended", "failed"} ELSE {rg}
  /\ search' = IF rg' \in {"failed", "killed"} /\ ~ Enough THEN "raised" ELSE "returned"
  /\ UNCHANGED <<pipe, read, reader, queued, answer>>
-----------------------------------------------------------------------------
Reader == (rg # "running" /\ ReadLine) \/ Put \/ GiveUp \/ EndOfOutput \/ PutEnd
Caller == Take \/ Deadline \/ Close
Next == Start \/ Fallback \/ RgEnds \/ ReadLine \/ Put \/ GiveUp \/ EndOfOutput
          \/ PutEnd \/ Caller

Spec == Init /\ [][Next]_vars
\* Threads are run; rg need not write or end as long as it is not told to.
Fairness == WF_vars(Reader) /\ WF_vars(Caller)
-----------------------------------------------------------------------------
(* Properties.                                                             *)

\* Every search ends, and unless it fails it leaves neither rg nor its reader behind,
\* which may be waiting for room in a queue that nobody empties any more.
SearchEnds ==
  search = "getting" ~>
    \/ search \in {"returned", "timedout"} /\ reader = "done" /\ rg # "running"
    \/ search = "raised"

\* A search that returns has found every line up to the limit, and says that it was
\* cut off if and only if there were more: neither the end of the queue nor an
\* error or the early end of rg loses one.  A search of a single file by rg is
\* excepted, for the code drops its hits.
ResultComplete ==
  search = "returned" /\ (~ single \/ rg = "none") =>
    /\ matches = IF Wanted > MaxResults THEN MaxResults ELSE Wanted
    /\ truncated = (Wanted > MaxResults)
=============================================================================
