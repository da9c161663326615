---------------------------- MODULE StreamFilter ----------------------------
(***************************************************************************)
(* What the user sees of an answer while the model writes it: edge_chat of *)
(* agent/models.py reads the parts of the answer from its stream,          *)
(* _call_model of agent/runtime.py holds back what may be a tool call and  *)
(* stream_chat of server.py sends the rest on.                             *)
(*                                                                         *)
(* A text is a sequence of characters in lower case, as the filter         *)
(* compares them.                                                          *)
(***************************************************************************)
EXTENDS Naturals, Sequences, SequencesExt, FiniteSetsExt

CONSTANTS
  Characters,
  Markers,  \* texts with which a tool call may begin
  MaxPart,  \* bound: length of a part of the stream
  MaxText   \* bound: length of an answer

VARIABLES
  answered,   \* the answer as far as it was read from the stream
  parts,      \* parts in the queue between the threads
  pending,    \* text held back
  blocked,    \* a marker was found
  delivered,  \* number of characters delivered
  shown,      \* what was sent to the user
  stream,     \* the stream: "idle", "open", "whole" or "broken"
  caller      \* the run: "idle", "waiting", "called", "returned" or "raised"

vars == <<answered, parts, pending, blocked, delivered, shown, stream, caller>>

Init ==
  /\ answered = <<>> /\ parts = <<>> /\ pending = <<>> /\ shown = <<>>
  /\ blocked = FALSE /\ delivered = 0
  /\ stream = "idle" /\ caller = "idle"

\* No marker lies within another one, after its start and before its end.
MarkersApart ==
  \A a, b \in Markers : \A d \in 1..Len(a) :
    d + Len(b) < Len(a) => \E k \in 1..Len(b) : b[k] # a[d + k]

\* Places of a text where a marker begins.
Found(text) ==
  {i \in DOMAIN text : \E marker \in Markers : IsPrefix(marker, SubSeq(text, i, Len(text)))}

Begins(text) == \E marker \in Markers : IsPrefix(text, marker)
HeldOne(text) == IF Begins(<<Last(text)>>) THEN 1 ELSE 0  \* mutant of Held
\* Length of the longest end of a text with which a marker may begin.
Held(text) ==
  Max({0} \cup {size \in 1..Len(text) : Begins(SubSeq(text, Len(text) - size + 1, Len(text)))})
-----------------------------------------------------------------------------
\* Any answer; also one that is returned without a stream.
Call ==
  /\ caller = "idle"
  /\ caller' = "waiting"
  /\ \/ stream' = "open" /\ UNCHANGED answered
     \/ stream' = "whole" /\ answered' \in SeqOf(Characters, MaxPart)
  /\ UNCHANGED <<parts, pending, blocked, delivered, shown>>

Receive ==
  /\ stream = "open"
  /\ \E part \in SeqOf(Characters, MaxPart) \ {<<>>} :
       /\ Len(answered) + Len(part) <= MaxText
       /\ answered' = answered \o part
       /\ parts' = Append(parts, part)
  /\ UNCHANGED <<pending, blocked, delivered, shown, stream, caller>>

\* [DONE], or an error, no JSON, an end without [DONE], nothing at all.
StreamEnds ==
  /\ stream = "open"
  /\ stream' \in {"whole", "broken"}
  /\ UNCHANGED <<answered, parts, pending, blocked, delivered, shown, caller>>
-----------------------------------------------------------------------------
Show(text) ==
  /\ shown' = shown \o text
  /\ delivered' = delivered + Len(text)

Skip ==
  /\ caller = "waiting" /\ parts # <<>> /\ blocked
  /\ parts' = Tail(parts)
  /\ UNCHANGED <<answered, pending, blocked, delivered, shown, stream, caller>>

Block ==
  /\ caller = "waiting" /\ parts # <<>> /\ ~ blocked
  /\ LET text == pending \o Head(parts) IN
       /\ Found(text) # {}
       /\ Show(SubSeq(text, 1, Min(Found(text)) - 1))
  /\ parts' = Tail(parts)
  /\ pending' = <<>> /\ blocked' = TRUE
  /\ UNCHANGED <<answered, stream, caller>>

Pass ==
  /\ caller = "waiting" /\ parts # <<>> /\ ~ blocked
  /\ LET text == pending \o Head(parts)
         safe == Len(text) - Held(text)
     IN  /\ Found(text) = {}
         /\ Show(SubSeq(text, 1, safe))
         /\ pending' = SubSeq(text, safe + 1, Len(text))
  /\ parts' = Tail(parts)
  /\ UNCHANGED <<answered, blocked, stream, caller>>

\* The end of a whole answer; what was held back is shown if there are no calls.
Return ==
  /\ caller = "waiting" /\ stream = "whole" /\ parts = <<>>
  /\ \E calls \in BOOLEAN :
       /\ caller' = IF calls THEN "called" ELSE "returned"
       /\ IF calls THEN UNCHANGED <<shown, delivered>>
          ELSE Show(SubSeq(answered, delivered + 1, Len(answered)))
  /\ UNCHANGED <<answered, parts, pending, blocked, stream>>

\* The model fails, the user's connection breaks, or the run is cancelled.
Raise ==
  /\ caller = "waiting"
  /\ caller' = "raised"
  /\ UNCHANGED <<answered, parts, pending, blocked, delivered, shown, stream>>

Next == Call \/ Receive \/ StreamEnds \/ Skip \/ Block \/ Pass \/ Return \/ Raise
Spec == Init /\ [][Next]_vars
-----------------------------------------------------------------------------
(* Properties.                                                             *)

\* The user sees the answer from its start, each character once, in whatever parts
\* it arrives: all of it when it holds no calls, and otherwise, or as long as that
\* is not known, nothing of what comes with or after a marker.
ShownIsAnswer ==
  /\ IsPrefix(shown, answered)
  /\ IF caller = "returned" THEN shown = answered
     ELSE \A i \in Found(answered) : Len(shown) < i
=============================================================================
