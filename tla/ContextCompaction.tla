-------------------------- MODULE ContextCompaction --------------------------
(***************************************************************************)
(* What the model is sent of a conversation that has grown too long:       *)
(* compact_messages of agent/context.py as _call_model uses it.  Only the  *)
(* number of characters of a message matters; runs of blanks, which the    *)
(* summary makes one blank, are left out.                                  *)
(***************************************************************************)
EXTENDS Integers, Sequences, SequencesExt, FiniteSetsExt

CONSTANTS
  MaxCharacters,  \* context_limit, which the runtime makes at least 10000
  KeepRecent,     \* keep_recent
  Sizes,          \* lengths of messages
  MaxMessages     \* bound of the conversation

VARIABLES
  conversation,  \* messages: role and size
  sent           \* sizes of what the model was sent last; <<>> before

vars == <<conversation, sent>>

RoleLength == [system |-> 6, user |-> 4, assistant |-> 9]
Header == 56  \* characters of the summary's first line

Larger(m, n) == Max({m, n})
Smaller(m, n) == Min({m, n})
Total(messages) == FoldLeft(LAMBDA sum, m : sum + m.size, 0, messages)

\* _run begins with the instructions.
Init ==
  /\ \E size \in Sizes : conversation = <<[role |-> "system", size |-> size]>>
  /\ sent = <<>>
-----------------------------------------------------------------------------
IsSystem(m) == m.role = "system"
System == SelectSeq(conversation, IsSystem)
Conversational == SelectSeq(conversation, LAMBDA m : ~ IsSystem(m))
Keep == Larger(1, Smaller(KeepRecent, Len(Conversational)))
Older == SubSeq(Conversational, 1, Len(Conversational) - Keep)

\* content[-allowed:]; with nothing allowed that is the whole content.
Cut(size, allowed) ==
  IF size > allowed /\ allowed # 0 THEN allowed ELSE size

\* The recent messages from the last to the first, with what remains for the next.
Recent ==
  FoldRight(
    LAMBDA m, done :
      LET allowed == Larger(0, done.remaining) IN
        [remaining |-> done.remaining - Smaller(m.size, allowed),
         sizes |-> <<Cut(m.size, allowed)>> \o done.sizes],
    SubSeq(Conversational, Len(Older) + 1, Len(Conversational)),
    [remaining |-> Larger(2000, MaxCharacters - Total(System) - 1000), sizes |-> <<>>]).sizes

Budget ==
  Larger(1000, MaxCharacters - Total(System) - FoldLeft(+, 0, Recent) - 500)

\* A line for each older message until one does not fit.
Summary ==
  FoldLeft(
    LAMBDA done, m :
      LET excerpt == Smaller(m.size, Smaller(600, Larger(0, Budget - done.used)))
          line == RoleLength[m.role] + 2 + excerpt
      IN  IF done.full \/ done.used + line > Budget
            THEN [done EXCEPT !.full = TRUE]
            ELSE [done EXCEPT !.used = @ + line + 1],
    [used |-> 0, full |-> FALSE], Older).used

Compacted ==
  [i \in DOMAIN System |-> System[i].size]
    \o <<Header + Larger(0, Summary - 1)>> \o Recent
-----------------------------------------------------------------------------
\* A message of the user, the model or a tool.
Add ==
  /\ Len(conversation) < MaxMessages
  /\ \E role \in {"user", "assistant"}, size \in Sizes :
       conversation' = Append(conversation, [role |-> role, size |-> size])
  /\ UNCHANGED sent

CallModel ==
  /\ Len(conversation) > 1
  /\ sent' = IF Total(conversation) <= MaxCharacters
               THEN [i \in DOMAIN conversation |-> conversation[i].size]
               ELSE Compacted
  /\ UNCHANGED conversation

Next == Add \/ CallModel
Spec == Init /\ [][Next]_vars
-----------------------------------------------------------------------------
\* agent/context.py: "Bounded conversation context": where the instructions leave
\* room, what the model is sent is no longer than max_characters.
CompactedFits ==
  Total(System) + 4000 <= MaxCharacters => FoldLeft(+, 0, sent) <= MaxCharacters
=============================================================================
