---------------------------- MODULE WeaponTracker ----------------------------
(***************************************************************************)
(* Which weapons of the world the changer dresses, and in what.            *)
(*                                                                         *)
(* The engine tells EconEntityListener of every entity it creates and      *)
(* deletes; the listener keeps a vector of the entity indexes of weapons,  *)
(* in which -1 stands for a dropped one.  FrameStageNotify walks the       *)
(* vector in every frame: it drops what is not the local player's own, and *)
(* gives the rest the skin configured for the player's team.  A key, or a  *)
(* counted kill, requests a random skin for the weapon in hand.            *)
(*                                                                         *)
(* The engine itself (entities, teams, lives, levels) is the environment.  *)
(* The walk is one step: the engine calls everything here but the drawing  *)
(* of the menu on its main thread.  The refresh of materials and the       *)
(* gloves, which the same handler does, are not in this module.            *)
(***************************************************************************)
EXTENDS Naturals, FiniteSets

CONSTANTS
  Slots,   \* entity indexes of 65 and above
  Guns,    \* item definitions whose GetEconClass is weapon
  Kits,    \* paint kits other than 0
  Default, \* paint kit 0
  None,    \* nothing
  FirstConfig, FirstOptions, \* what the configuration files say
  Bound    \* bounds of the environment's actions, by kind

Kinds == {"hand", "menu", "key", "kill"}
Teams == {"ct", "t"}
Skins == Kits \union {Default}

\* What an entity may be: a gun, a knife, an item of a weapon's class that is
\* neither, or something that has not the class of a weapon.
Dressed == Guns \union {"knife"}
Items   == Dressed \union {"none", "prop"}

\* An entity.  `known`: its static item data is there.  `skin`: its fallback
\* paint kit; of a knife, which of the configured knives it shows.  `heard` is
\* history: it was created when the class identifiers were known.
Entity == [item : Items, mine : BOOLEAN, known : BOOLEAN,
           skin : Skins \union {None}, heard : BOOLEAN]

ASSUME TrackerAssumption ==
  /\ IsFiniteSet(Slots)
  /\ None \notin Slots \union Skins \union Entity
  /\ Default \notin Kits
  /\ {"knife", "none", "prop"} \intersect Guns = {}
  /\ FirstConfig \in [Teams -> [Dressed -> Skins \union {None}]]
  /\ FirstOptions \subseteq {"random", "super"}
  /\ Bound \in [Kinds -> Nat]

VARIABLES
  world,     \* [Slots -> Entity or None], the engine's entities
  hand,      \* the active weapon of the local player
  team, alive,
  level,     \* "none", "loading" or "full": the level the client is in
  weapons,   \* [Slots -> how often the vector has this index]
  size,      \* the length of the vector, the dropped (-1) ones included
  class_ids, \* the class identifiers were looked up (~is_need_get_classIDs)
  player,    \* local_player_index and player_info are set
  config,    \* [Teams -> [Dressed -> skin, or None: not configured]]
  options,   \* the options that are on
  pressed, down, required,  \* is_pressed_random, is_down_random, required_random_skin
  kills,     \* kills counted by StatTrak, in all
  used,      \* [Kinds -> how many environment actions were taken] (bounded)
  asked      \* history: the weapon in hand when a random skin was requested

worldVars  == <<world, hand, team, alive, level>>
listVars   == <<weapons, size>>
randomVars == <<pressed, down, required, asked>>
vars == <<world, hand, team, alive, level, weapons, size, class_ids, player, config,
          options, pressed, down, required, kills, used, asked>>

Init ==
  /\ world = [i \in Slots |-> None] /\ hand = None
  /\ team = None /\ alive = FALSE /\ level = "none"
  /\ weapons = [i \in Slots |-> 0] /\ size = 0
  /\ class_ids = FALSE /\ player = FALSE
  /\ config = FirstConfig
  /\ options = FirstOptions
  /\ pressed = FALSE /\ down = FALSE /\ required = FALSE
  /\ kills = 0
  /\ used = [k \in Kinds |-> 0]
  /\ asked = None

Spend(k) == used[k] < Bound[k] /\ used' = [used EXCEPT ![k] = @ + 1]

-----------------------------------------------------------------------------
(* EconEntityListener, called by the engine.                               *)

\* Before the identifiers are looked up, all are 0 and no class is a weapon's.
IsWeaponByClass(e, ids) == ids /\ e.item # "prop"

\* The elements of the vector that are not -1.
Live(w) == UNION {{i} \X (1 .. w[i]) : i \in Slots}

\* Mutants of on_entity_created: the dropped elements are not erased; an entity
\* created while the level loads is ignored.
on_entity_created_keeps(e, i) ==
  IF IsWeaponByClass(e, class_ids)
  THEN /\ weapons' = [weapons EXCEPT ![i] = @ + 1]
       /\ size' = size + 1
  ELSE UNCHANGED listVars
on_entity_created_late(e, i) ==
  IF IsWeaponByClass(e, class_ids) /\ level = "full"
  THEN /\ weapons' = [weapons EXCEPT ![i] = @ + 1]
       /\ size' = Cardinality(Live(weapons)) + 1
  ELSE UNCHANGED listVars

\* The dropped elements are erased and the new weapon is appended.
on_entity_created(e, i) ==
  IF IsWeaponByClass(e, class_ids)
  THEN /\ weapons' = [weapons EXCEPT ![i] = @ + 1]
       /\ size' = Cardinality(Live(weapons)) + 1
  ELSE UNCHANGED listVars

\* Mutants of on_entity_deleted: nothing is dropped; the element is taken out
\* although it may not be there.
on_entity_deleted_not(i) == UNCHANGED listVars
on_entity_deleted_blind(i) ==
  /\ weapons' = [weapons EXCEPT ![i] = IF @ = 0 THEN None ELSE @ - 1]
  /\ UNCHANGED size

\* The first element with this index is dropped.
on_entity_deleted(i) ==
  /\ weapons' = IF weapons[i] > 0 THEN [weapons EXCEPT ![i] = @ - 1] ELSE weapons
  /\ UNCHANGED size

\* The engine creates an entity.  Its item, and who owned it first, never change.
Create(i, item, mine, known) ==
  /\ level # "none"
  /\ world[i] = None
  /\ LET e == [item |-> item, mine |-> mine, known |-> known,
               skin |-> IF item \in Guns THEN Default ELSE None, heard |-> class_ids]
     IN /\ world' = [world EXCEPT ![i] = e]
        /\ on_entity_created(e, i)
  /\ UNCHANGED <<hand, team, alive, level, class_ids, player, config, options,
                 randomVars, kills, used>>

Delete(i) ==
  /\ world[i] # None
  /\ world' = [world EXCEPT ![i] = None]
  /\ hand' = IF hand = i THEN None ELSE hand
  /\ on_entity_deleted(i)
  /\ UNCHANGED <<team, alive, level, class_ids, player, config, options, randomVars, kills, used>>

\* The engine gets the static data of an item.
Describe(i) ==
  /\ world[i] # None /\ ~world[i].known
  /\ world' = [world EXCEPT ![i].known = TRUE]
  /\ UNCHANGED <<hand, team, alive, level, listVars, class_ids, player, config, options,
                 randomVars, kills, used>>

-----------------------------------------------------------------------------
(* Levels.                                                                 *)

StartLevel ==
  /\ level = "none"
  /\ level' = "loading"
  /\ UNCHANGED <<world, hand, team, alive, listVars, class_ids, player, config, options,
                 randomVars, kills, used>>

LevelInitPostEntity ==
  /\ level = "loading"
  /\ level' = "full"
  /\ player' = TRUE
  /\ UNCHANGED <<world, hand, team, alive, listVars, class_ids, config, options,
                 randomVars, kills, used>>

\* Mutant of LevelShutdown: the listener is not told.
LevelShutdownQuiet ==
  /\ level # "none"
  /\ level' = "none"
  /\ world' = [i \in Slots |-> None] /\ hand' = None /\ team' = None /\ alive' = FALSE
  /\ player' = FALSE
  /\ UNCHANGED <<listVars, class_ids, config, options, randomVars, kills, used>>

\* The engine's own part deletes every entity; then the handler forgets the
\* player and on_level_shutdown clears the vector.
LevelShutdown ==
  /\ level # "none"
  /\ level' = "none"
  /\ world' = [i \in Slots |-> None] /\ hand' = None /\ team' = None /\ alive' = FALSE
  /\ player' = FALSE
  /\ weapons' = [i \in Slots |-> 0] /\ size' = 0
  /\ UNCHANGED <<class_ids, config, options, randomVars, kills, used>>

-----------------------------------------------------------------------------
(* The player, the keyboard and the menu.                                  *)

Join(t) ==
  /\ level = "full" /\ t # team
  /\ team' = t /\ alive' = FALSE
  /\ UNCHANGED <<world, hand, level, listVars, class_ids, player, config, options,
                 randomVars, kills, used>>

SpawnOrDie ==
  /\ team \in Teams
  /\ alive' = ~alive
  /\ UNCHANGED <<world, hand, team, level, listVars, class_ids, player, config, options,
                 randomVars, kills, used>>

Take(i) ==
  /\ team \in Teams /\ hand # i /\ Spend("hand")
  /\ world[i] # None /\ world[i].item # "prop"
  /\ hand' = i
  /\ UNCHANGED <<world, team, alive, level, listVars, class_ids, player, config, options,
                 randomVars, kills>>

\* Hooked_Present reads the key, whatever the options are.
Key ==
  /\ Spend("key")
  /\ pressed' = ~pressed
  /\ UNCHANGED <<worldVars, listVars, class_ids, player, config, options, down, required,
                 asked, kills>>

\* The user chooses a skin, or the default knife, or copies a configuration
\* that has none.
Configure(t, x, k) ==
  /\ Spend("menu") /\ config[t][x] # k
  /\ config' = [config EXCEPT ![t][x] = k]
  /\ UNCHANGED <<worldVars, listVars, class_ids, player, options, randomVars, kills>>

Toggle(o) ==
  /\ Spend("menu")
  /\ options' = IF o \in options THEN options \ {o} ELSE options \union {o}
  /\ UNCHANGED <<worldVars, listVars, class_ids, player, config, randomVars, kills>>

-----------------------------------------------------------------------------
(* player_death: the local player killed somebody who is not a bot.        *)

\* Whether the entry counts kills (bStatTrack), and whether a knife's model is
\* the one configured last, is left open; a knife never dressed does not count.
Kill(counts) ==
  /\ player /\ team \in Teams /\ hand # None /\ Spend("kill")
  /\ LET x == world[hand].item
         counted == /\ counts
                    /\ x \in Dressed
                    /\ IF x = "knife" THEN world[hand].skin # None
                                     ELSE config[team][x] # None
         asks == /\ counted
                 /\ "super" \in options
                 /\ x = "knife" => "random" \in options
     IN /\ kills' = IF counted THEN kills + 1 ELSE kills
        /\ required' = (required \/ asks)
        /\ asked' = IF asks THEN hand ELSE asked
  /\ UNCHANGED <<worldVars, listVars, class_ids, player, config, options, pressed, down>>

-----------------------------------------------------------------------------
(* FrameStageNotify.                                                       *)

Watched == {i \in Slots : weapons[i] > 0}

\* The walk goes on with these: they exist, are weapons, and their data is known.
Seen == {i \in Watched : world[i] # None /\ world[i].item # "prop" /\ world[i].known}

\* Mutant of Own: who owns the weapon is not looked at.
OwnAnyone == Seen

\* original_owner_xuid_low and _high are the player's.
Own == {i \in Seen : world[i].mine}

\* Mutant of Dropped: a gun is dropped as a knife is.
DroppedLikeKnives(c) ==
  {i \in Watched : world[i] = None \/ world[i].item = "prop"}
  \union (Seen \ Own)
  \union {i \in Own : world[i].item = "none" \/ ~alive \/ c[i][world[i].item] = None}

\* The indexes the walk drops, when it sees configuration c[i] at index i: no
\* weapon any more, not the player's, no class to dress, or a knife that is
\* not configured or whose owner is dead.
Dropped(c) ==
  {i \in Watched : world[i] = None \/ world[i].item = "prop"}
  \union (Seen \ Own)
  \union {i \in Own : world[i].item = "none"}
  \union {i \in Own : world[i].item = "knife" /\ ~(alive /\ c[i]["knife"] # None)}

\* Mutant of Dress: only a living player's guns.
DressAlive(e, c) ==
  IF alive /\ (c[e.item] \in Kits \/ (e.item = "knife" /\ c[e.item] # None))
  THEN [e EXCEPT !.skin = c[e.item]] ELSE e

\* ChangeWeapon and ChangeKnife.  Kit 0 leaves a gun as it is.
Dress(e, c) ==
  IF \/ e.item \in Guns /\ c[e.item] \in Kits
     \/ e.item = "knife" /\ alive /\ c[e.item] # None
  THEN [e EXCEPT !.skin = c[e.item]] ELSE e

\* Mutant of StillRequired: the request survives the change it made.
StillRequiredAfter(wanted, hit) == wanted

\* A request is dropped by the change it makes, and by nothing else.
StillRequired(wanted, hit) == wanted /\ ~hit

\* A frame of the net update, in a level.  A random skin that is required goes
\* to the weapon in hand when the walk meets it, if it is a gun and some gun is
\* configured, or a knife; so the elements of the vector before it are dressed
\* from the configuration as it was.
Frame ==
  /\ level = "full" /\ player
  /\ class_ids' = TRUE
  /\ IF team \notin Teams
     THEN UNCHANGED <<world, weapons, config, down, required, asked>>
     ELSE
     LET on      == "random" \in options
         clicked == on /\ ~pressed /\ down
         wanted  == required \/ clicked
         x       == world[hand].item
         hit     == /\ wanted /\ hand \in Own
                    /\ \/ x \in Guns /\ \E g \in Guns : config[team][g] # None
                       \/ x = "knife"
     IN
     /\ down' = IF on THEN pressed ELSE down
     /\ asked' = IF clicked THEN hand ELSE asked
     /\ required' = StillRequired(wanted, hit)
     /\ \E k \in IF hit THEN Kits ELSE {Default}, before \in SUBSET (Own \ {hand}) :
          /\ config' = IF hit THEN [config EXCEPT ![team][x] = k] ELSE config
          /\ LET c == [i \in Slots |-> IF i \in before THEN config[team] ELSE config'[team]]
             IN /\ weapons' = [i \in Slots |-> IF i \in Dropped(c) THEN 0 ELSE weapons[i]]
                /\ world' = [i \in Slots |-> IF i \in Own \ Dropped(c) THEN Dress(world[i], c[i])
                                             ELSE world[i]]
  /\ UNCHANGED <<hand, team, alive, level, size, player, options, pressed, kills, used>>

Next ==
  \/ \E i \in Slots, x \in Items, mine, known \in BOOLEAN : Create(i, x, mine, known)
  \/ \E i \in Slots : Delete(i) \/ Describe(i) \/ Take(i)
  \/ StartLevel \/ LevelInitPostEntity \/ LevelShutdown
  \/ \E t \in Teams \union {None} : Join(t)
  \/ SpawnOrDie \/ Key
  \/ \E t \in Teams, x \in Dressed, k \in Skins \union {None} : Configure(t, x, k)
  \/ \E o \in {"random", "super"} : Toggle(o)
  \/ \E counts \in BOOLEAN : Kill(counts)
  \/ Frame

\* The engine notifies of every frame while a level runs, and gets an item's
\* data some day.
Fairness == WF_vars(Frame) /\ \A i \in Slots : WF_vars(Describe(i))

Spec     == Init /\ [][Next]_vars
FairSpec == Spec /\ Fairness

-----------------------------------------------------------------------------
(* Properties.                                                             *)

\* Every variable has its type.
TypeOK ==
  /\ world \in [Slots -> Entity \union {None}]
  /\ hand \in Slots \union {None} /\ asked \in Slots \union {None}
  /\ team \in Teams \union {None} /\ alive \in BOOLEAN
  /\ level \in {"none", "loading", "full"}
  /\ weapons \in [Slots -> Nat] /\ size \in Nat
  /\ class_ids \in BOOLEAN /\ player \in BOOLEAN
  /\ config \in [Teams -> [Dressed -> Skins \union {None}]]
  /\ options \subseteq {"random", "super"}
  /\ pressed \in BOOLEAN /\ down \in BOOLEAN /\ required \in BOOLEAN
  /\ kills \in Nat
  /\ used \in [Kinds -> Nat]

\* No index is in the vector twice, although the engine reuses indexes: a
\* deletion drops one element only, so a second one would outlive its weapon.
EachOnce == \A i \in Slots : weapons[i] <= 1

\* The vector never outgrows the entity table: creation is what erases the
\* elements the frames drop.
FitsTable == Cardinality(Live(weapons)) <= size /\ size <= Cardinality(Slots)

\* An own gun created once the class identifiers are known is in the vector as
\* long as it exists, whatever the player's team, life and configuration: a gun
\* the frames once dropped would never be dressed again.
OwnGunsTracked ==
  \A i \in Slots :
    world[i] # None /\ world[i].item \in Guns /\ world[i].mine /\ world[i].heard
      => weapons[i] > 0

\* Nobody else's weapon is dressed, although its index may be one the vector
\* had for a weapon of the player.
OnlyOwnDressed ==
  \A i \in Slots :
    world[i] # None /\ ~world[i].mine
      => world[i].skin = IF world[i].item \in Guns THEN Default ELSE None

\* The vector with its -1 elements, erased by creations, cleared by levels and
\* walked by frames, behaves as the set of a WeaponRegistry: every entity that
\* ends takes its index with it, at once, and nothing else ends what is owed.
Present == {i \in Slots : world[i] # None}
Owed    == {i \in Present : world[i].item \in Guns /\ world[i].mine /\ world[i].heard}
Registry ==
  INSTANCE WeaponRegistry WITH present <- Present, owed <- Owed, tracked <- Watched
VectorIsARegistry == Registry!Spec

\* A request is used up by the change it makes: a frame changes one entry, that
\* of the weapon in hand for the player's team, and then no request is left.
OneChangePerRequest ==
  [][Frame /\ config' # config =>
       /\ ~required'
       /\ \A t \in Teams, x \in Dressed :
            config'[t][x] # config[t][x] => t = team /\ x = world[hand].item]_vars

\* An own gun the listener heard of has the skin that is configured for it in
\* the player's team some day, unless one of these changes first.
Wants(i, k) ==
  /\ level = "full" /\ player /\ team \in Teams
  /\ world[i] # None /\ world[i].item \in Guns /\ world[i].mine /\ world[i].heard
  /\ config[team][world[i].item] = k
OwnGunsGetTheirSkin ==
  \A i \in Slots, k \in Kits :
    Wants(i, k) ~> (~Wants(i, k) \/ world[i].skin = k)

\* "This function will change skin on current weapon to random weapon on key
\* pressing" (Hooks.cpp): the entry a request changes is that of the weapon that
\* was in hand, if one was, when it was made.
RandomIsForTheWeaponInHand ==
  [][Frame /\ config' # config => asked' \in {hand, None}]_vars
=============================================================================
