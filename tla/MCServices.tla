------------------------------ MODULE MCServices ------------------------------
(***************************************************************************)
(* Instances of Services for TLC.  As the parts share no state, their      *)
(* interleavings add nothing to what each of them does: one part, chosen   *)
(* at the start, moves, and the others stay as they are in the beginning,  *)
(* where no fair action is enabled.                                        *)
(***************************************************************************)
EXTENDS Services

VARIABLE part  \* the part that moves

Parts == {"mcp", "mutation", "search", "schedule", "account", "image", "stream"}

MCInit ==
  /\ part \in Parts
  /\ ServicesInit
  /\ part # "mcp" =>
       /\ row = [n \in Servers |-> "none"]
       /\ server = [r \in Requests |-> CHOOSE n \in Servers : TRUE]

Moves(p, step) == part = p /\ step /\ UNCHANGED part

MCNext ==
  \/ Moves("mcp", McpStep) \/ Moves("mutation", MutationStep)
  \/ Moves("search", SearchStep) \/ Moves("schedule", ScheduleStep)
  \/ Moves("account", AccountStep) \/ Moves("image", ImageStep)
  \/ Moves("stream", StreamStep)

MCSpec == MCInit /\ [][MCNext]_<<allVars, part>> /\ ServicesFairness

\* The beginnings of three markers: one inside another's, one that repeats.
Tags == {<<"<", "t", "i">>, <<"<", "i">>, <<"b", "b">>}
=============================================================================
