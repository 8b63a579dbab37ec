--------------------------- MODULE MCWeaponTracker ---------------------------
(* Instances of WeaponTracker for TLC: how often the environment acts.      *)
EXTENDS WeaponTracker, TLC

Indexes == Permutations(Slots)

\* Everything is configured for one team, nothing for the other.
OneTeam ==
  [t \in Teams |-> [x \in Dressed |->
     IF t = "ct" THEN (IF x = "knife" THEN Default ELSE CHOOSE k \in Kits : TRUE) ELSE None]]

Budget(inHand, menu, key, kill) ==
  [hand |-> inHand, menu |-> menu, key |-> key, kill |-> kill]

\* Any number of entities, levels, teams and lives, and requests for random
\* skins by key and by kill.
WorldBound == Budget(1, 0, 2, 1)
\* The same, with a hand that changes once more.
AimBound == Budget(2, 0, 2, 0)
\* The user changes the configuration.
DressBound == Budget(0, 2, 0, 0)
=============================================================================
