------------------------------- MODULE MCGloves -------------------------------
(* An instance of Gloves for TLC.                                          *)
EXTENDS Gloves

\* One team has gloves, the other none.
OneTeam ==
  [t \in Teams |-> [look |-> IF t = "ct" THEN CHOOSE k \in Looks : TRUE ELSE None,
                    wear |-> CHOOSE w \in Wears : TRUE]]

\* Two changes by the user; three events of the game: enough for a death, another
\* life and one intervention of the engine, in any order.
Few == [game |-> 3, menu |-> 2]
=============================================================================
