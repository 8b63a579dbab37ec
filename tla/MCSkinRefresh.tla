---------------------------- MODULE MCSkinRefresh ----------------------------
(* An instance of SkinRefresh for TLC.                                      *)
EXTENDS SkinRefresh

\* Two paint kits: one with two seeds and a name, the other without a name.
TwoKits ==
  {[kit |-> "k1", detail |-> "d1", name |-> "n"], [kit |-> "k1", detail |-> "d2", name |-> "n"],
   [kit |-> "k2", detail |-> "d1", name |-> ""]}
\* No gun's skin yet; the default knife, or one with a skin.
First ==
  [gun : {Bare},
   knife : {[model |-> "default", skin |-> None]}
           \union [model : Models, skin : {CHOOSE e \in TwoKits : e.kit = "k2"}]]
=============================================================================
