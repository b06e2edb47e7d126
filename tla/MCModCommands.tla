--------------------------- MODULE MCModCommands ---------------------------
(* A small instance of ModCommands for TLC.                                *)
EXTENDS ModCommands, FiniteSets, TLC

CONSTANTS c1, c2

\* Bound: once a turn has begun there is one command and one connection in use,
\* two events are under way at most, and by the second turn the mod has been
\* reloaded, or has registered again, but not both.
OneWithTurns ==
  turns > 0 => /\ accepted <= 1
               /\ Cardinality({c \in Conns : legs[c] # Free}) <= 1
               /\ Len(events) + Cardinality(stray) <= 2
               /\ turns > 1 => gen <= 1 \/ ev = 1

Interchangeable == Permutations({c1, c2})
=============================================================================
