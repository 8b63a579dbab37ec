---------------------------- MODULE WeaponRegistry ----------------------------
(***************************************************************************)
(* What the weapon tracker promises, whatever its vector looks like: a set *)
(* of indexes, each of an entity that is in the world, from which only an  *)
(* entity's end removes what is owed to the player.                        *)
(***************************************************************************)
CONSTANT Slots  \* entity indexes

VARIABLES
  present,  \* the indexes that are in use
  owed,     \* those of the player's guns, which must be found in every frame
  tracked   \* those the frames look at

Init == present = {} /\ owed = {} /\ tracked = {}

\* A new entity is tracked or not; what is owed is tracked.
Announce(i) ==
  /\ i \notin present
  /\ present' = present \union {i}
  /\ \/ UNCHANGED <<owed, tracked>>
     \/ /\ tracked' = tracked \union {i}
        /\ owed' \in {owed, owed \union {i}}

\* The end of an entity is the end of its entry, so that the index can be used
\* for another entity that owes nothing to this one.
Withdraw(i) ==
  /\ i \in present
  /\ present' = present \ {i}
  /\ owed' = owed \ {i}
  /\ tracked' = tracked \ {i}

\* The frames may forget what is not owed.
Forget(S) ==
  /\ S \intersect owed = {}
  /\ tracked' = tracked \ S
  /\ UNCHANGED <<present, owed>>

Clear == present' = {} /\ owed' = {} /\ tracked' = {}

Next ==
  \/ \E i \in Slots : Announce(i) \/ Withdraw(i)
  \/ \E S \in SUBSET tracked : Forget(S)
  \/ Clear

Spec == Init /\ [][Next]_<<present, owed, tracked>>
=============================================================================
