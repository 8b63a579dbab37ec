----------------------------- MODULE SkinRefresh -----------------------------
(***************************************************************************)
(* How a change of the configuration reaches what the player sees: a gun   *)
(* and a knife of his, the entries configured for them, the frame handler  *)
(* that compares and refreshes (ChangeWeapon, ChangeKnife, resetSkin), and *)
(* the full update the menu asks the server for.                           *)
(*                                                                         *)
(* A weapon has fields the server sends (fallback paint kit, seed, wear,   *)
(* custom name) and a material the engine composes once, when it has none, *)
(* from all of them but the name.  The handler writes the fields only when *)
(* the paint kit differs, a name only if the entry has one, and must then  *)
(* throw the old material away.  A full update makes every entity anew.    *)
(* The menu is drawn by another thread, between any two frames.            *)
(*                                                                         *)
(* Stickers and the StatTrak counter, which every frame compares and sets  *)
(* by itself, are left out; which weapons are walked is WeaponTracker.     *)
(***************************************************************************)
EXTENDS Naturals

CONSTANTS
  Entries,     \* records [kit, detail, name]: a paint kit, its seed and wear, a name
  Models,      \* the models of knives one may choose
  None,        \* no skin is chosen (nullptr); no material is composed
  FirstConfs,  \* what the configuration files say
  MaxChanges   \* how often the configuration changes (bound)

\* Paint kit 0: of an entry, to leave the weapon as it is; of a weapon, what
\* the server sends.  The empty name: of an entry, none of its own.
Bare == [kit |-> "0", detail |-> "0", name |-> ""]

Skins  == Entries \union {Bare}
\* What a weapon may carry: a name may be left from another entry.
Fields == [kit    : {e.kit : e \in Skins},
           detail : {e.detail : e \in Skins},
           name   : {e.name : e \in Skins}]
\* What a material is composed of.
Paint(f) == [kit |-> f.kit, detail |-> f.detail]
Looks  == {Paint(f) : f \in Fields} \union {None}
Gun    == [fields : Fields, look : Looks]
Shapes == Models \union {"default", "server"}
Knife  == [model : Shapes, fields : Fields, look : Looks, tracked : BOOLEAN]
KnifeEntry == [model : Models \union {"default"}, skin : Skins \union {None}]
Confs == [gun : Skins, knife : KnifeEntry]

ASSUME RefreshAssumption ==
  /\ Entries \subseteq [kit : STRING \ {Bare.kit}, detail : STRING, name : STRING]
  /\ None \notin Skins /\ \A f \in Fields : None # Paint(f)
  /\ {"default", "server"} \intersect Models = {}
  /\ FirstConfs \subseteq Confs
  /\ MaxChanges \in Nat

VARIABLES
  gun,      \* a gun of the player's: the fields, and what its material was composed of
  knife,    \* his knife; `tracked`: the listener's vector has it
  conf,     \* the entries of his team: [gun, knife |-> [model, skin]]
  alive,
  asked,    \* the delta tick is -1: a full update is requested
  due,      \* ticks to the planned refresh of a knife; 0: none, or its tick is past
  drawing,  \* the part of the menu that has changed an entry and is still being drawn
  need,     \* need_forceupdate_for_knife
  changes,  \* how often the configuration was changed (bounded)
  \* What no code reads: the history the properties are about.
  missed,   \* weapons whose refresh was passed over: the owner dead, the tick skipped
  silent    \* weapons whose entry changed without a full update, past what frames compare

vars == <<gun, knife, conf, alive, asked, due, drawing, need, changes, missed, silent>>

FreshGun   == [fields |-> Bare, look |-> None]
FreshKnife == [model |-> "server", fields |-> Bare, look |-> None, tracked |-> TRUE]

\* The fields when an entry is copied: the name only if it has one.
Written(fields, e) ==
  [kit |-> e.kit, detail |-> e.detail,
   name |-> IF e.name = Bare.name THEN fields.name ELSE e.name]

\* The fields after a frame: it copies an entry when the kit differs.
Dressed(fields, e) ==
  IF e # Bare /\ fields.kit # e.kit THEN Written(fields, e) ELSE fields

\* The frames alone will not bring c to the gun: they look at the kit only, and
\* take no name away.
GunBehind(g, c) == Dressed(g.fields, c) # c

\* Nor c to the knife: it is out of the vector, or will be, for its model is of
\* no weapon's class; or the kit is the same.
Custom(c) == c.model \in Models /\ c.skin # None
KnifeBehind(k, c) ==
  \/ Custom(c) /\ (~k.tracked \/ k.model = "default")
  \/ c.skin # None /\ GunBehind(k, c.skin)

Behind(g, k, c) ==
  {w \in {"gun", "knife"} : IF w = "gun" THEN GunBehind(g, c.gun) ELSE KnifeBehind(k, c.knife)}

Init ==
  /\ gun = FreshGun /\ knife = FreshKnife
  /\ conf \in FirstConfs
  /\ alive = FALSE /\ asked = FALSE
  /\ due = 0
  /\ drawing = "nothing" /\ need = FALSE
  /\ changes = 0
  /\ missed = {} /\ silent = {}

Change == changes < MaxChanges /\ changes' = changes + 1

-----------------------------------------------------------------------------
(* The menu.  A part of it changes an entry at once, and asks for the full *)
(* update at the end of its drawing, for a slider when it is let go.       *)

PickGun(e) ==
  /\ drawing = "nothing" /\ Change
  /\ conf.gun # e
  /\ conf' = [conf EXCEPT !.gun = e]
  /\ drawing' = "gun"
  /\ UNCHANGED <<gun, knife, alive, asked, due, need, missed, silent>>

\* Mutant of FinishGun: seed and wear are thought to need no full update.
FinishGunLazy ==
  /\ drawing = "gun"
  /\ drawing' = "nothing"
  /\ asked' = (asked \/ gun.fields.kit # conf.gun.kit)
  /\ UNCHANGED <<gun, knife, conf, alive, due, need, changes, missed, silent>>

FinishGun ==
  /\ drawing = "gun"
  /\ drawing' = "nothing"
  /\ asked' = TRUE
  /\ UNCHANGED <<gun, knife, conf, alive, due, need, changes, missed, silent>>

\* The model, of which "default" has no skins ...
PickKnife(m) ==
  /\ drawing = "nothing" /\ Change
  /\ conf.knife.model # m
  /\ conf' = [conf EXCEPT !.knife.model = m]
  /\ drawing' = "knife" /\ need' = TRUE
  /\ UNCHANGED <<gun, knife, alive, asked, due, missed, silent>>

\* ... and the skin, or a detail of it.
PickKnifeSkin(e) ==
  /\ drawing = "nothing" /\ Change
  /\ conf.knife.model # "default" /\ conf.knife.skin # e
  /\ conf' = [conf EXCEPT !.knife.skin = e]
  /\ drawing' = "knife" /\ need' = TRUE
  /\ UNCHANGED <<gun, knife, alive, asked, due, missed, silent>>

\* Mutant of FinishKnife: no full update for a knife the frames have dropped.
FinishKnifeForgets ==
  /\ drawing = "knife" \/ (drawing = "nothing" /\ need)
  /\ drawing' = "nothing"
  /\ need' = FALSE
  /\ conf' = IF conf.knife.model = "default" THEN [conf EXCEPT !.knife.skin = None] ELSE conf
  /\ asked' = (asked \/ (need /\ knife.tracked))
  /\ UNCHANGED <<gun, knife, alive, due, changes, missed, silent>>

\* The knives have been drawn, also when nothing was picked.  The default knife
\* loses its skin, with no full update: the need stays.
FinishKnife ==
  /\ drawing # "gun"
  /\ drawing' = "nothing"
  /\ IF conf.knife.model = "default"
     THEN conf' = [conf EXCEPT !.knife.skin = None] /\ UNCHANGED <<asked, need>>
     ELSE asked' = (asked \/ need) /\ need' = FALSE /\ UNCHANGED conf
  /\ UNCHANGED <<gun, knife, alive, due, changes, missed, silent>>

\* The entries are replaced and no full update is asked for.
Replace(c) ==
  /\ Change
  /\ conf' = c
  /\ silent' = silent \union Behind(gun, knife, c)

\* read_thread loads the files: an entry at a time.
Load(c) ==
  /\ conf # c /\ (conf.gun = c.gun \/ conf.knife = c.knife)
  /\ Replace(c)
  /\ UNCHANGED <<gun, knife, alive, asked, due, drawing, need, missed>>

-----------------------------------------------------------------------------
(* The frame handler.                                                      *)

\* Mutant of resetSkin: the test of m_bCustomMaterialInitialized is inverted.
resetSkinInverted(look) == IF asked \/ look # None THEN look ELSE None

\* The material is thrown away, unless a full update will make it anew.
resetSkin(look) == IF asked THEN look ELSE None

\* Mutant of Planned: a tick that was skipped is not noticed.
PlannedForEver(knife_set, d) == IF knife_set THEN 2 ELSE IF due = 0 THEN 0 ELSE due - d

\* A refresh of the knife is planned two ticks after its kit was set, for that
\* tick alone.
Planned(knife_set, d) == IF knife_set THEN 2 ELSE IF d < due THEN due - d ELSE 0

\* The walk of the vector, over a gun g and a knife k, d ticks after the last
\* one; c is the configuration when a required random skin has been drawn.
Walk(g, k, d, c) ==
  LET gun_set   == c.gun # Bare /\ g.fields.kit # c.gun.kit
      met       == k.tracked /\ alive /\ k.model # "default" /\ c.knife.skin # None
      knife_set == met /\ c.knife.skin # Bare /\ k.fields.kit # c.knife.skin.kit
      now       == met /\ ~knife_set /\ due # 0 /\ d = due /\ c.knife.skin # Bare
  IN
  /\ gun' = [fields |-> Dressed(g.fields, c.gun),
             look   |-> IF gun_set /\ alive THEN resetSkin(g.look) ELSE g.look]
  /\ knife' = IF met
              THEN [model   |-> c.knife.model,
                    fields  |-> Dressed(k.fields, c.knife.skin),
                    look    |-> IF now THEN resetSkin(k.look) ELSE k.look,
                    tracked |-> TRUE]
              ELSE [k EXCEPT !.tracked = FALSE]
  /\ due' = Planned(knife_set, d)
  /\ missed' = {w \in missed \union (IF gun_set /\ ~alive THEN {"gun"} ELSE {})
                             \union (IF due # 0 /\ due' = 0 /\ ~now THEN {"knife"} ELSE {}) :
                  IF w = "gun" THEN gun'.look # None ELSE knife'.look # None}

\* RandomSkin draws a kit and a seed; an entry with a skin keeps its name.
Redrawn(e) == {r \in Entries : e \in {None, Bare} \/ r.name = e.name}

\* What it may leave, for the weapon in hand.
Drawn(k) ==
  {[conf EXCEPT !.gun = e] : e \in Redrawn(conf.gun)}
  \union (IF k.tracked /\ k.model # "default"
          THEN {[conf EXCEPT !.knife = [model |-> m, skin |-> e]] :
                  m \in Models, e \in Redrawn(conf.knife.skin)}
          ELSE {})

\* A frame of the net update, with a random skin for the weapon in hand if one
\* is required; only the living have one.  Ticks may be skipped, or seen twice.
Frame(d) ==
  /\ \/ Walk(gun, knife, d, conf) /\ UNCHANGED <<conf, changes, silent>>
     \/ /\ alive
        /\ \E c \in Drawn(knife) : Replace(c) /\ Walk(gun, knife, d, c)
  /\ UNCHANGED <<alive, asked, drawing, need>>

\* The full update: the engine makes the entities anew and the handler walks
\* them.  The delta tick is -1 until that is over.
FullFrame(d) ==
  /\ asked /\ asked' = FALSE
  /\ Walk(FreshGun, FreshKnife, d, conf)
  /\ silent' = {}
  /\ UNCHANGED <<conf, alive, drawing, need, changes>>

-----------------------------------------------------------------------------
(* The engine.                                                             *)

\* It composes the materials that are missing.
ComposeGun ==
  /\ gun.look = None /\ gun.fields # Bare
  /\ gun' = [gun EXCEPT !.look = Paint(gun.fields)]
  /\ UNCHANGED <<knife, conf, alive, asked, due, drawing, need, changes, missed, silent>>

ComposeKnife ==
  /\ knife.look = None /\ knife.fields # Bare
  /\ knife' = [knife EXCEPT !.look = Paint(knife.fields)]
  /\ UNCHANGED <<gun, conf, alive, asked, due, drawing, need, changes, missed, silent>>

\* Every life has a knife of its own.
Spawn ==
  /\ ~alive /\ alive' = TRUE
  /\ knife' = FreshKnife
  /\ missed' = missed \ {"knife"} /\ silent' = silent \ {"knife"}
  /\ UNCHANGED <<gun, conf, asked, due, drawing, need, changes>>

Die ==
  /\ alive /\ alive' = FALSE
  /\ UNCHANGED <<gun, knife, conf, asked, due, drawing, need, changes, missed, silent>>

\* The other team has entries of its own.  player_team asks for a full update
\* if enable_fix_viewmodel is on.
SwitchTeam(c, enable_fix_viewmodel) ==
  /\ conf # c /\ Replace(c)
  /\ alive' = FALSE
  /\ asked' = (asked \/ enable_fix_viewmodel)
  /\ UNCHANGED <<gun, knife, due, drawing, need, missed>>

Next ==
  \/ \E e \in Skins : PickGun(e) \/ PickKnifeSkin(e)
  \/ \E m \in Models \union {"default"} : PickKnife(m)
  \/ FinishGun \/ FinishKnife
  \/ \E c \in Confs : Load(c) \/ (\E fix \in BOOLEAN : SwitchTeam(c, fix))
  \/ \E d \in 0 .. due + 1 : Frame(d) \/ FullFrame(d)
  \/ ComposeGun \/ ComposeKnife \/ Spawn \/ Die

\* The drawing of the menu ends, the server answers a request for a full
\* update, and the engine composes what it shows.
Fairness ==
  /\ WF_vars(FinishGun) /\ WF_vars(drawing = "knife" /\ FinishKnife)
  /\ WF_vars(\E d \in 0 .. due + 1 : FullFrame(d))
  /\ WF_vars(ComposeGun) /\ WF_vars(ComposeKnife)

Spec     == Init /\ [][Next]_vars
FairSpec == Spec /\ Fairness

-----------------------------------------------------------------------------
(* Properties.                                                             *)

\* Every variable has its type.
TypeOK ==
  /\ gun \in Gun /\ knife \in Knife
  /\ conf \in Confs
  /\ alive \in BOOLEAN /\ asked \in BOOLEAN /\ need \in BOOLEAN
  /\ due \in 0 .. 2
  /\ drawing \in {"nothing", "gun", "knife"}
  /\ changes \in Nat
  /\ missed \subseteq {"gun", "knife"} /\ silent \subseteq {"gun", "knife"}

\* A material is of the fields the weapon has now: what an earlier kit left is
\* shown only until a refresh that is planned or asked for, or if the refresh
\* was passed over, the owner being dead or the planned tick skipped.
MaterialsAreFresh ==
  /\ gun.look \notin {None, Paint(gun.fields)} => asked \/ "gun" \in missed
  /\ knife.look \notin {None, Paint(knife.fields)} => asked \/ due # 0 \/ "knife" \in missed

\* The frames compare paint kits only, and copy no empty name.  A gun that has
\* the right kit with an older seed, wear or name, or a kit where none is
\* configured any more, or whose name the frames would leave with another kit,
\* waits for a full update that is asked for or about to be; only a load, a
\* change of team or a random skin leave it like that.
DetailsAreAskedFor ==
  GunBehind(gun, conf.gun) => asked \/ drawing = "gun" \/ "gun" \in silent

\* A knife the frames dropped, because none was configured or because the menu
\* had already chosen the default model and not yet taken its skin away, is
\* brought back by the full update of the choice that follows.
KnifeIsBroughtBack ==
  alive /\ Custom(conf.knife) /\ ~knife.tracked =>
    asked \/ need \/ "knife" \in silent

\* What the user picks in the menu is seen, unless the entry changes again or,
\* for a knife, its owner dies.
Shows(w, e) == w.fields = e /\ w.look = IF e = Bare THEN None ELSE Paint(e)
PickedGunIsShown ==
  \A e \in Skins :
    (drawing = "gun" /\ conf.gun = e) ~> (conf.gun # e \/ Shows(gun, e))
PickedKnifeIsShown ==
  \A m \in Models, e \in Entries :
    (drawing = "knife" /\ conf.knife = [model |-> m, skin |-> e])
      ~> \/ conf.knife # [model |-> m, skin |-> e]
         \/ ~alive
         \/ knife.model = m /\ Shows(knife, e)
=============================================================================
