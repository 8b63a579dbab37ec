-------------------------------- MODULE Gloves --------------------------------
(***************************************************************************)
(* The gloves of the local player, as FrameStageNotify shows them.         *)
(*                                                                         *)
(* Gloves are an entity of their own, a "wearable", whose handle the       *)
(* player keeps.  The engine's server seldom gives one, so the frame       *)
(* creates it, gives it the configured look (first phase) and, two ticks   *)
(* later, has the player put it on (second phase).  It releases the        *)
(* wearable when the player is dead or has no gloves configured.  The      *)
(* handle the player keeps is the engine's and may be overwritten; the     *)
(* frame therefore remembers in created_wearables what it created.         *)
(*                                                                         *)
(* The menu runs on another thread.  It changes the configuration and asks *)
(* for a refresh by need_forceupdate_for_wearable, the only way in which a *)
(* change of the wear or the seed, which the frame does not compare, is    *)
(* noticed.  One drawing of the menu and one frame are one step each.      *)
(***************************************************************************)
EXTENDS Naturals

CONSTANTS
  Handles, \* handles of wearables
  Looks,   \* gloves with a paint kit
  Wears,   \* wear and seed
  None,    \* nothing
  FirstConf, \* what the configuration files say
  Late,    \* bound: ticks that a planned second phase lies ahead in a new level
  Bound    \* bounds of the environment's actions, by kind

Kinds == {"game", "menu"}
Teams == {"ct", "t"}
Delay == 2 \* ticks from the first phase to the second

Choice  == [look : Looks \union {None}, wear : Wears]
\* What a wearable looks like that was given no look.
Bare == [look |-> None, wear |-> None]
Dressed == [look : Looks, wear : Wears] \union {Bare}

\* `own`: created by the frame, not by the server.  `attr`: the look it was
\* given.  `worn`: the look with which the player put it on.  `left` is history:
\* another wearable has taken its place in the player's handle.
Wearable == [own : BOOLEAN, attr : Dressed, worn : Dressed \union {None}, left : BOOLEAN]

ASSUME GlovesAssumption ==
  /\ None \notin Handles \union Looks \union Dressed \union Wearable \union Teams
  /\ FirstConf \in [Teams -> Choice]
  /\ Late \in Nat
  /\ Bound \in [Kinds -> Nat]

VARIABLES
  entity,  \* [Handles -> Wearable or None], the engine's list of entities
  slot,    \* GetMyWearables()[0]
  created, \* created_wearables
  conf,    \* [Teams -> Choice], the gloves configured
  team, alive, \* of the local player; alive and not controlling a bot
  force,   \* need_forceupdate_for_wearable
  flag,    \* wearable_random_model_not_setted
  wait,    \* ticks until wearable_set_random_model_tick, 0 when it is not ahead
  behind,  \* history: a change of the wear may go unnoticed
  used     \* [Kinds -> how many environment actions were taken] (bounded)

phaseVars  == <<force, flag, wait, behind>>
playerVars == <<team, alive>>
vars == <<entity, slot, created, conf, team, alive, force, flag, wait, behind, used>>

\* The library may be loaded in the middle of a game.
Init ==
  /\ entity = [h \in Handles |-> None] /\ slot = None /\ created = None
  /\ conf = FirstConf
  /\ team \in Teams \union {None}
  /\ alive \in BOOLEAN /\ (alive => team \in Teams)
  /\ force = FALSE /\ flag = FALSE /\ wait = 0
  /\ behind = FALSE
  /\ used = [k \in Kinds |-> 0]

Spend(k) == used[k] < Bound[k] /\ used' = [used EXCEPT ![k] = @ + 1]

\* GetClientEntityFromHandle finds something.
Exists(h) == h \in Handles /\ entity[h] # None

-----------------------------------------------------------------------------
(* The frame.                                                              *)

\* Mutant of Restored: what was created is not remembered.
RestoredNot == slot

\* The player's handle after the frame has put back what it once created.
Restored == IF ~Exists(slot) /\ Exists(created) THEN created ELSE slot

\* Mutant of Wanted: it does not matter whether gloves are configured.
WantedAlive == alive

\* He lives and has gloves configured.
Wanted == alive /\ conf[team].look # None

\* Dead, or no gloves: the wearable is taken off and released.
Hide ==
  /\ ~Wanted
  /\ entity' = [h \in Handles |-> IF h = Restored THEN None ELSE entity[h]]
  /\ slot' = None /\ created' = None
  /\ UNCHANGED phaseVars

\* The wearable e must be refreshed: it has not the look configured, or the
\* menu asks for it.
Outdated(e) == e.attr.look # conf[team].look \/ force

\* Mutant of FirstPhase: the second phase is planned but not asked for.
FirstPhaseForgets(h, e) ==
  /\ Outdated(e) /\ ~flag
  /\ entity' = [entity EXCEPT ![h] = [e EXCEPT !.attr = conf[team]]]
  /\ flag' = TRUE /\ wait' = Delay
  /\ behind' = FALSE
  /\ UNCHANGED force

\* The look is written into the wearable, and the second phase is planned.
FirstPhase(h, e) ==
  /\ Outdated(e) /\ ~flag
  /\ entity' = [entity EXCEPT ![h] = [e EXCEPT !.attr = conf[team]]]
  /\ flag' = TRUE /\ force' = TRUE /\ wait' = Delay
  /\ behind' = FALSE

\* Mutant of SecondPhase: a wearable that has not the look configured is not put on.
SecondPhaseOfTheRight(h, e) ==
  /\ Outdated(e) /\ flag /\ wait = 0 /\ e.attr.look = conf[team].look
  /\ entity' = [entity EXCEPT ![h] = [e EXCEPT !.worn = e.attr]]
  /\ flag' = FALSE /\ force' = FALSE
  /\ UNCHANGED <<wait, behind>>

\* The player puts it on, as it looks now; the material is made anew.
SecondPhase(h, e) ==
  /\ Outdated(e) /\ flag /\ wait = 0
  /\ entity' = [entity EXCEPT ![h] = [e EXCEPT !.worn = e.attr]]
  /\ flag' = FALSE /\ force' = FALSE
  /\ UNCHANGED <<wait, behind>>

Nothing(h, e) ==
  /\ ~Outdated(e) \/ (flag /\ wait > 0)
  /\ entity' = [entity EXCEPT ![h] = e]
  /\ UNCHANGED phaseVars

Refresh(h, e) == FirstPhase(h, e) \/ SecondPhase(h, e) \/ Nothing(h, e)

\* The wearable is there.
Show ==
  /\ Wanted /\ Exists(Restored)
  /\ slot' = Restored
  /\ Refresh(Restored, entity[Restored])
  /\ UNCHANGED created

\* Mutant of Make: what was created is not remembered.
MakeForgets(h) ==
  /\ Wanted /\ ~Exists(Restored) /\ ~Exists(h)
  /\ slot' = h
  /\ Refresh(h, [own |-> TRUE, attr |-> Bare, worn |-> None, left |-> FALSE])
  /\ UNCHANGED created

\* There is none: one is created and goes through the phases at once.
Make(h) ==
  /\ Wanted /\ ~Exists(Restored) /\ ~Exists(h)
  /\ slot' = h /\ created' = h
  /\ Refresh(h, [own |-> TRUE, attr |-> Bare, worn |-> None, left |-> FALSE])

\* There is none, and the engine does not create one.
MakeFails ==
  /\ Wanted /\ ~Exists(Restored) /\ Spend("game")
  /\ UNCHANGED <<entity, slot, created, phaseVars>>

\* A frame of a player who is in a team.
Frame ==
  /\ team \in Teams
  /\ \/ (Hide \/ Show \/ \E h \in Handles : Make(h)) /\ UNCHANGED used
     \/ MakeFails
  /\ UNCHANGED <<conf, playerVars>>

-----------------------------------------------------------------------------
(* The menu and the configuration.                                         *)

\* A refresh asked for while none is under way copies every setting; one that
\* is under way may have copied them already.
Ask == force' = TRUE /\ behind' = (behind /\ flag)

\* The user chooses gloves or a paint kit, or the default gloves.
Choose(t, k) ==
  /\ Spend("menu")
  /\ conf' = [conf EXCEPT ![t].look = k]
  /\ Ask
  /\ UNCHANGED <<entity, slot, created, playerVars, flag, wait>>

\* The slider is moved: no refresh is asked for.
Drag(t, w) ==
  /\ Spend("menu") /\ w # conf[t].wear
  /\ conf' = [conf EXCEPT ![t].wear = w]
  /\ behind' = (behind \/ t = team)
  /\ UNCHANGED <<entity, slot, created, playerVars, force, flag, wait>>

\* The slider is let go.
LetGo ==
  /\ Spend("menu")
  /\ Ask
  /\ UNCHANGED <<entity, slot, created, conf, playerVars, flag, wait>>

\* The configuration is loaded, copied from the other team or randomized: no
\* refresh is asked for.
Load(t, c) ==
  /\ Spend("menu")
  /\ conf' = [conf EXCEPT ![t] = c]
  /\ behind' = (behind \/ (t = team /\ c.wear # conf[t].wear))
  /\ UNCHANGED <<entity, slot, created, playerVars, force, flag, wait>>

-----------------------------------------------------------------------------
(* The engine.                                                             *)

\* Another team, or none: the player dies.  Its configuration has a wear of its own.
Join(t) ==
  /\ Spend("game") /\ t # team
  /\ team' = t /\ alive' = FALSE
  /\ behind' = TRUE
  /\ UNCHANGED <<entity, slot, created, conf, force, flag, wait>>

SpawnOrDie ==
  /\ team \in Teams /\ Spend("game")
  /\ alive' = ~alive
  /\ UNCHANGED <<entity, slot, created, conf, team, phaseVars>>

\* The server gives the player gloves, in place of the ones it gave before.
Give(h) ==
  /\ team \in Teams /\ ~Exists(h) /\ Spend("game")
  /\ entity' = [g \in Handles |->
       IF g = h THEN [own |-> FALSE, attr |-> Bare, worn |-> Bare, left |-> FALSE]
       ELSE IF entity[g] = None THEN None
       ELSE IF entity[g].own THEN [entity[g] EXCEPT !.left = TRUE]
       ELSE None]
  /\ slot' = h
  /\ UNCHANGED <<created, conf, playerVars, phaseVars>>

\* A wearable disappears: the server takes it back, or a new entity gets its index.
Vanish(h) ==
  /\ Exists(h) /\ Spend("game")
  /\ entity' = [entity EXCEPT ![h] = None]
  /\ UNCHANGED <<slot, created, conf, playerVars, phaseVars>>

\* An update of the player overwrites the handle with what the server knows.
Overwrite ==
  /\ slot # None /\ Spend("game")
  /\ Exists(slot) => entity[slot].own
  /\ slot' = None
  /\ UNCHANGED <<entity, created, conf, playerVars, phaseVars>>

\* Another level: new entities, a new player, a tick count that starts again.
ChangeLevel(w) ==
  /\ Spend("game")
  /\ entity' = [h \in Handles |-> None] /\ slot' = None
  /\ team' = None /\ alive' = FALSE
  /\ wait' = IF flag THEN w ELSE wait
  /\ UNCHANGED <<created, conf, force, flag, behind>>

Tick ==
  /\ wait > 0 /\ wait' = wait - 1
  /\ UNCHANGED <<entity, slot, created, conf, playerVars, force, flag, behind, used>>

Next ==
  \/ Frame \/ Tick
  \/ \E t \in Teams, k \in Looks \union {None} : Choose(t, k)
  \/ \E t \in Teams, w \in Wears : Drag(t, w)
  \/ LetGo
  \/ \E t \in Teams, c \in Choice : Load(t, c)
  \/ \E t \in Teams \union {None} : Join(t)
  \/ SpawnOrDie
  \/ \E h \in Handles : Give(h) \/ Vanish(h)
  \/ Overwrite
  \/ \E w \in 0 .. Late : ChangeLevel(w)

Spec == Init /\ [][Next]_vars

\* Frames and ticks go on; the rest may stop.
FairSpec == Spec /\ WF_vars(Frame) /\ WF_vars(Tick)

-----------------------------------------------------------------------------
(* Properties.                                                             *)

TypeOK ==
  /\ entity \in [Handles -> Wearable \union {None}]
  /\ slot \in Handles \union {None} /\ created \in Handles \union {None}
  /\ conf \in [Teams -> Choice]
  /\ team \in Teams \union {None} /\ alive \in BOOLEAN
  /\ force \in BOOLEAN /\ flag \in BOOLEAN /\ behind \in BOOLEAN
  /\ wait \in Nat
  /\ used \in [Kinds -> Nat]

\* The frame has nothing to do for the wearable in the player's handle.
Settled == team \in Teams /\ Wanted /\ Exists(slot) /\ ~Outdated(entity[slot])

\* Whenever the frame thinks it is done, the gloves are on the player's hands
\* as they were given their look, and this has the wear configured unless the
\* change of it was never asked for, or asked for in the middle of a refresh.
\* (FrameStageNotifyHook.cpp:466-537: one flag and one tick serve every
\* wearable, and both outlive the wearable they were set for.)
ShownIsConfigured ==
  Settled /\ ~entity[slot].left =>
    /\ entity[slot].worn = entity[slot].attr
    /\ behind \/ entity[slot].attr.wear = conf[team].wear

\* A wearable of the changer's in the player's handle is the one remembered in
\* created_wearables: there are never two that the frame works on in turn.
OwnIsRemembered == Exists(slot) /\ entity[slot].own => created = slot

\* A wearable that was created, lives, and that nothing refers to.
Lost == {h \in Handles : entity[h] # None /\ entity[h].own /\ h \notin {slot, created}}

\* The changer never loses a wearable it created, so that it can release it,
\* unless the server's own gloves were in its place
\* (FrameStageNotifyHook.cpp:417-438 forgets both handles and releases one).
LosesNoneOfItsOwn ==
  [][Lost' \subseteq Lost \/ (Exists(slot) /\ ~entity[slot].own)]_vars

Shown ==
  /\ team \in Teams /\ Exists(slot)
  /\ ~entity[slot].left =>
       \E d \in Dressed : entity[slot].worn = d /\ d.look = conf[team].look

\* When a living player keeps gloves configured, they are worn with the look
\* configured in the end, after deaths between the phases, wearables that
\* vanish, levels whose tick count starts again; all but a wearable that was
\* pushed out of the player's handle in the middle and came back (left).
\* (FrameStageNotifyHook.cpp:397-541, under fair frames and ticks.)
GlovesAreShown == <>[](team \in Teams /\ Wanted) => <>[]Shown
=============================================================================
