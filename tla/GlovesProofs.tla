---------------------------- MODULE GlovesProofs ----------------------------
(***************************************************************************)
(* Proofs about Gloves, for every set of handles, looks and wears and      *)
(* every bound on the environment.                                         *)
(*                                                                         *)
(* One flag serves all wearables, so the argument is that only one of them *)
(* counts: a wearable that was never pushed out of the player's handle     *)
(* (~left) is the one the next frame works on (OneInPlace).  For that one, *)
(* a look that is given but not worn means that the second phase is still  *)
(* to come (RefreshGoesOn), and another wear means that the first one is,  *)
(* or that the change went unnoticed (WearIsKnown).                        *)
(***************************************************************************)
EXTENDS Gloves, TLAPS

\* The wearables that exist and were never pushed out of the player's handle.
Current == {h \in Handles : entity[h] # None /\ ~entity[h].left}

\* The next frame works on these, so there is at most one.
OneInPlace == \A h \in Current : Restored = h

RefreshGoesOn ==
  \A h \in Current :
    entity[h].attr # Bare /\ entity[h].worn # entity[h].attr => force /\ flag

WearIsKnown ==
  \A h \in Current :
    team \in Teams /\ entity[h].attr # Bare /\ entity[h].attr.wear # conf[team].wear
      => behind \/ (force /\ ~flag)

IInv == TypeOK /\ OwnIsRemembered /\ OneInPlace /\ RefreshGoesOn /\ WearIsKnown

-----------------------------------------------------------------------------
(* The phases.                                                             *)

\* What RefreshGoesOn and WearIsKnown say of one wearable, before and after a step.
Phase(e, frc, flg) == ~e.left /\ e.attr # Bare /\ e.worn # e.attr => frc /\ flg
Wear(e, c, frc, flg, bhd) ==
  ~e.left /\ e.attr # Bare /\ e.attr.wear # c.wear => bhd \/ (frc /\ ~flg)

\* The parts of a wearable.
LEMMA WearableParts ==
  ASSUME NEW e \in Wearable
  PROVE  /\ e.own \in BOOLEAN /\ e.left \in BOOLEAN
         /\ e.attr \in Dressed /\ e.worn \in Dressed \union {None}
         /\ \A d \in Dressed : [e EXCEPT !.attr = d] \in Wearable
         /\ \A d \in Dressed : [e EXCEPT !.worn = d] \in Wearable
  BY DEF Wearable

\* Whatever phase a wearable is in, a frame leaves it in a phase that goes on.
LEMMA RefreshKeeps ==
  ASSUME TypeOK, team \in Teams, conf[team].look # None,
         NEW h \in Handles, NEW e \in Wearable, Refresh(h, e),
         Phase(e, force, flag), Wear(e, conf[team], force, flag, behind)
  PROVE  /\ force' \in BOOLEAN /\ flag' \in BOOLEAN /\ behind' \in BOOLEAN /\ wait' \in Nat
         /\ \E d \in Wearable :
              /\ entity' = [entity EXCEPT ![h] = d]
              /\ d.own = e.own /\ d.left = e.left
              /\ Phase(d, force', flag')
              /\ Wear(d, conf[team], force', flag', behind')
  <1>1. conf[team] \in Dressed /\ conf[team] \in [look : Looks, wear : Wears]
    BY DEF TypeOK, Choice, Dressed
  <1>2. CASE FirstPhase(h, e)
    <2> DEFINE d == [e EXCEPT !.attr = conf[team]]
    <2>1. d \in Wearable
      BY <1>1, WearableParts
    <2>2. /\ entity' = [entity EXCEPT ![h] = d]
          /\ flag' = TRUE /\ force' = TRUE /\ wait' = 2 /\ behind' = FALSE
      BY <1>2 DEF FirstPhase, Delay
    <2>3. d.own = e.own /\ d.left = e.left /\ d.attr = conf[team]
      BY DEF Wearable
    <2>4. Phase(d, force', flag') /\ Wear(d, conf[team], force', flag', behind')
      BY <2>2, <2>3 DEF Phase, Wear
    <2>5. QED
      BY <2>1, <2>2, <2>3, <2>4
  <1>3. CASE SecondPhase(h, e)
    <2> DEFINE d == [e EXCEPT !.worn = e.attr]
    <2>1. d \in Wearable
      BY WearableParts
    <2>2. /\ entity' = [entity EXCEPT ![h] = d]
          /\ flag /\ flag' = FALSE /\ force' = FALSE /\ wait' = wait /\ behind' = behind
      BY <1>3 DEF SecondPhase
    <2>3. d.own = e.own /\ d.left = e.left /\ d.attr = e.attr /\ d.worn = e.attr
      BY DEF Wearable
    <2>4. Phase(d, force', flag') /\ Wear(d, conf[team], force', flag', behind')
      BY <2>2, <2>3 DEF Phase, Wear
    <2>5. QED
      BY <2>1, <2>2, <2>3, <2>4 DEF TypeOK
  <1>4. CASE Nothing(h, e)
    BY <1>4 DEF Nothing, phaseVars, TypeOK
  <1>5. QED
    BY <1>2, <1>3, <1>4 DEF Refresh

\* The invariant in terms of one wearable at a time.
LEMMA InvOfOne ==
  ASSUME IInv, NEW h \in Handles, entity[h] # None
  PROVE  /\ entity[h] \in Wearable
         /\ Phase(entity[h], force, flag)
         /\ team \in Teams => Wear(entity[h], conf[team], force, flag, behind)
         /\ ~entity[h].left => Restored = h
  BY DEF IInv, TypeOK, OneInPlace, RefreshGoesOn, WearIsKnown, Current, Phase, Wear

-----------------------------------------------------------------------------
(* The steps.                                                              *)

LEMMA SpendKeepsType ==
  ASSUME TypeOK, NEW k \in Kinds, Spend(k)
  PROVE  used' \in [Kinds -> Nat]
  BY DEF TypeOK, Spend

LEMMA HideKeepsInv ==
  ASSUME IInv, team \in Teams, Hide, UNCHANGED <<conf, playerVars, used>>
  PROVE  IInv'
  <1>1. Current' = {}
    BY DEF IInv, OneInPlace, Current, Hide
  <1>2. TypeOK'
    BY DEF IInv, TypeOK, Hide, phaseVars, playerVars
  <1>3. OwnIsRemembered'
    BY GlovesAssumption DEF Hide, OwnIsRemembered, Exists
  <1>4. QED
    BY <1>1, <1>2, <1>3 DEF IInv, OneInPlace, RefreshGoesOn, WearIsKnown

\* The frame works on h, which is the only current wearable after it.
LEMMA RefreshKeepsInv ==
  ASSUME IInv, team \in Teams, Wanted, UNCHANGED <<conf, playerVars, used>>,
         NEW h \in Handles, NEW e \in Wearable, Refresh(h, e),
         Phase(e, force, flag), Wear(e, conf[team], force, flag, behind),
         slot' = h, created' \in Handles \union {None}, e.own => created' = h,
         Current \subseteq {h}
  PROVE  IInv'
  <1>1. TypeOK
    BY DEF IInv
  <1>2. /\ force' \in BOOLEAN /\ flag' \in BOOLEAN /\ behind' \in BOOLEAN /\ wait' \in Nat
        /\ \E d \in Wearable :
              /\ entity' = [entity EXCEPT ![h] = d]
              /\ d.own = e.own /\ d.left = e.left
              /\ Phase(d, force', flag')
              /\ Wear(d, conf[team], force', flag', behind')
    BY <1>1, RefreshKeeps DEF Wanted
  <1>3. PICK d \in Wearable :
              /\ entity' = [entity EXCEPT ![h] = d]
              /\ d.own = e.own /\ d.left = e.left
              /\ Phase(d, force', flag')
              /\ Wear(d, conf[team], force', flag', behind')
    BY <1>2
  <1>4. /\ entity' \in [Handles -> Wearable \union {None}]
        /\ entity'[h] = d /\ \A g \in Handles \ {h} : entity'[g] = entity[g]
    BY <1>1, <1>3 DEF TypeOK
  <1>5. TypeOK'
    BY <1>1, <1>2, <1>4 DEF TypeOK, playerVars
  <1>6. d # None
    BY GlovesAssumption
  <1>7. Current' \subseteq {h} /\ (h \in Current' => ~d.left)
    BY <1>4 DEF Current
  <1>8. OwnIsRemembered'
    BY <1>3, <1>4 DEF OwnIsRemembered
  <1>9. OneInPlace'
    BY <1>4, <1>6, <1>7 DEF OneInPlace, Restored, Exists
  <1>10. RefreshGoesOn'
    BY <1>3, <1>4, <1>7 DEF RefreshGoesOn, Phase
  <1>11. WearIsKnown'
    BY <1>3, <1>4, <1>7 DEF WearIsKnown, Wear, playerVars
  <1>12. QED
    BY <1>5, <1>8, <1>9, <1>10, <1>11 DEF IInv

LEMMA ShowKeepsInv ==
  ASSUME IInv, team \in Teams, Show, UNCHANGED <<conf, playerVars, used>>
  PROVE  IInv'
  <1> DEFINE h == Restored
  <1>1. h \in Handles /\ entity[h] # None
    BY DEF Show, Exists
  <1>2. /\ entity[h] \in Wearable
        /\ Phase(entity[h], force, flag)
        /\ Wear(entity[h], conf[team], force, flag, behind)
    BY <1>1, InvOfOne
  <1>3. entity[h].own => created = h
    BY <1>1 DEF IInv, OwnIsRemembered, Restored, Exists
  <1>4. Current \subseteq {h}
    BY DEF IInv, OneInPlace
  <1>5. /\ slot' = h /\ created' = created /\ created \in Handles \union {None}
        /\ Wanted /\ Refresh(h, entity[h])
    BY DEF Show, IInv, TypeOK
  <1> HIDE DEF h
  <1>6. QED
    BY <1>1, <1>2, <1>3, <1>4, <1>5, RefreshKeepsInv

LEMMA MakeKeepsInv ==
  ASSUME IInv, team \in Teams, NEW h \in Handles, Make(h), UNCHANGED <<conf, playerVars, used>>
  PROVE  IInv'
  <1> DEFINE e == [own |-> TRUE, attr |-> Bare, worn |-> None, left |-> FALSE]
  <1>1. e \in Wearable
    BY DEF Wearable, Dressed
  <1>2. Phase(e, force, flag) /\ Wear(e, conf[team], force, flag, behind)
    BY DEF Phase, Wear
  <1>3. Current \subseteq {h}
    BY DEF IInv, OneInPlace, Current, Make, Exists
  <1>4. Wanted /\ Refresh(h, e) /\ slot' = h /\ created' = h
    BY DEF Make
  <1> HIDE DEF e
  <1>5. QED
    BY <1>1, <1>2, <1>3, <1>4, RefreshKeepsInv

LEMMA FrameKeepsInv ==
  ASSUME IInv, Frame
  PROVE  IInv'
  <1>1. team \in Teams /\ UNCHANGED <<conf, playerVars>>
    BY DEF Frame
  <1>2. CASE Hide /\ UNCHANGED used
    BY <1>1, <1>2, HideKeepsInv
  <1>3. CASE Show /\ UNCHANGED used
    BY <1>1, <1>3, ShowKeepsInv
  <1>4. ASSUME NEW h \in Handles, Make(h), UNCHANGED used
        PROVE  IInv'
    BY <1>1, <1>4, MakeKeepsInv
  <1>5. CASE MakeFails
    <2>1. TypeOK'
      BY <1>1, <1>5 DEF IInv, TypeOK, MakeFails, Spend, phaseVars, playerVars, Kinds
    <2>2. UNCHANGED <<entity, slot, created, conf, team, force, flag, behind>>
      BY <1>1, <1>5 DEF MakeFails, phaseVars, playerVars
    <2>3. QED
      BY <2>1, <2>2 DEF IInv, OwnIsRemembered, OneInPlace, RefreshGoesOn, WearIsKnown,
                        Current, Restored, Exists
  <1>6. QED
    BY <1>2, <1>3, <1>4, <1>5 DEF Frame

\* The menu changes no wearable; what it changes it asks for or is behind.
LEMMA MenuKeepsInv ==
  ASSUME IInv,
         \/ \E t \in Teams, k \in Looks \union {None} : Choose(t, k)
         \/ \E t \in Teams, w \in Wears : Drag(t, w)
         \/ LetGo
         \/ \E t \in Teams, c \in Choice : Load(t, c)
  PROVE  IInv'
  <1> USE DEF IInv
  <1>0. Spend("menu") /\ UNCHANGED <<entity, slot, created, team, alive, flag, wait>>
    BY DEF Choose, Drag, LetGo, Load, playerVars
  <1>1. used' \in [Kinds -> Nat]
    BY <1>0, SpendKeepsType DEF Kinds
  <1>2. conf' \in [Teams -> Choice]
    BY DEF TypeOK, Choose, Drag, LetGo, Load, Choice
  <1>2a. force' \in BOOLEAN /\ behind' \in BOOLEAN
    BY DEF TypeOK, Choose, Drag, LetGo, Load, Ask
  <1>3. TypeOK'
    BY <1>0, <1>1, <1>2, <1>2a DEF TypeOK
  <1>4. OwnIsRemembered' /\ OneInPlace'
    BY <1>0 DEF OwnIsRemembered, OneInPlace, Current, Restored, Exists
  <1>5. force => force'
    BY DEF Choose, Drag, LetGo, Load, Ask
  <1>6. RefreshGoesOn'
    BY <1>0, <1>5 DEF RefreshGoesOn, Current
  <1>7. ASSUME team \in Teams
        PROVE  \/ force' /\ ~flag
               \/ behind'
               \/ conf'[team].wear = conf[team].wear /\ behind' = behind
    <2>1. ASSUME NEW t \in Teams, NEW k \in Looks \union {None}, Choose(t, k)
          PROVE  force' /\ (~flag \/ (conf'[team].wear = conf[team].wear /\ behind' = behind))
      BY <1>7, <2>1 DEF TypeOK, Choice, Choose, Ask
    <2>2. ASSUME NEW t \in Teams, NEW w \in Wears, Drag(t, w)
          PROVE  behind' \/ (conf'[team].wear = conf[team].wear /\ behind' = behind)
      BY <1>7, <2>2 DEF TypeOK, Drag
    <2>3. CASE LetGo
      BY <2>3 DEF TypeOK, LetGo, Ask
    <2>4. ASSUME NEW t \in Teams, NEW c \in Choice, Load(t, c)
          PROVE  behind' \/ (conf'[team].wear = conf[team].wear /\ behind' = behind)
      BY <1>7, <2>4 DEF TypeOK, Load
    <2>5. QED
      BY <2>1, <2>2, <2>3, <2>4
  <1>8. WearIsKnown'
    BY <1>0, <1>5, <1>7 DEF WearIsKnown, Current
  <1>9. QED
    BY <1>3, <1>4, <1>6, <1>8

LEMMA GameKeepsInv ==
  ASSUME IInv,
         \/ \E t \in Teams \union {None} : Join(t)
         \/ SpawnOrDie
         \/ Tick
  PROVE  IInv'
  <1>1. /\ UNCHANGED <<entity, slot, created, conf, force, flag>>
        /\ (team' = team /\ behind' = behind) \/ behind'
    BY DEF Join, SpawnOrDie, Tick, phaseVars, playerVars
  <1>2. TypeOK'
    <2>1. used' \in [Kinds -> Nat]
      BY SpendKeepsType DEF IInv, TypeOK, Join, SpawnOrDie, Tick, Kinds
    <2>2. wait' \in Nat
      BY DEF IInv, TypeOK, Join, SpawnOrDie, Tick, phaseVars
    <2>3. team' \in Teams \union {None} /\ alive' \in BOOLEAN /\ behind' \in BOOLEAN
      BY DEF IInv, TypeOK, Join, SpawnOrDie, Tick, phaseVars, playerVars
    <2>4. QED
      BY <1>1, <2>1, <2>2, <2>3 DEF IInv, TypeOK
  <1>3. QED
    BY <1>1, <1>2 DEF IInv, OwnIsRemembered, OneInPlace, RefreshGoesOn, WearIsKnown,
                      Current, Restored, Exists

LEMMA GiveKeepsInv ==
  ASSUME IInv, NEW h \in Handles, Give(h)
  PROVE  IInv'
  <1> DEFINE e == [own |-> FALSE, attr |-> Bare, worn |-> Bare, left |-> FALSE]
  <1>1. /\ entity' = [g \in Handles |->
             IF g = h THEN e
             ELSE IF entity[g] = None THEN None
             ELSE IF entity[g].own THEN [entity[g] EXCEPT !.left = TRUE]
             ELSE None]
        /\ slot' = h
        /\ UNCHANGED <<created, conf, team, alive, force, flag, wait, behind>>
    BY DEF Give, phaseVars, playerVars
  <1>2. e \in Wearable /\ e # None
    <2>1. e \in Wearable
      BY DEF Wearable, Dressed
    <2> HIDE DEF e
    <2>2. QED
      BY <2>1, GlovesAssumption
  <1>3. \A x \in Wearable : [x EXCEPT !.left = TRUE] \in Wearable /\ [x EXCEPT !.left = TRUE].left
    BY DEF Wearable
  <1>4. entity' \in [Handles -> Wearable \union {None}]
    BY <1>1, <1>2, <1>3 DEF IInv, TypeOK
  <1>5. TypeOK'
    <2>1. used' \in [Kinds -> Nat]
      BY SpendKeepsType DEF IInv, Give, Kinds
    <2>2. QED
      BY <1>1, <1>4, <2>1 DEF IInv, TypeOK
  <1>6. Current' \subseteq {h} /\ entity'[h] = e
    BY <1>1, <1>3 DEF Current, IInv, TypeOK
  <1>7. OwnIsRemembered'
    BY <1>1, <1>6 DEF OwnIsRemembered
  <1>8. OneInPlace'
    BY <1>1, <1>2, <1>6 DEF OneInPlace, Restored, Exists
  <1>9. RefreshGoesOn' /\ WearIsKnown'
    BY <1>6 DEF RefreshGoesOn, WearIsKnown
  <1>10. QED
    BY <1>5, <1>7, <1>8, <1>9 DEF IInv

LEMMA VanishKeepsInv ==
  ASSUME IInv, NEW h \in Handles, Vanish(h)
  PROVE  IInv'
  <1>1. /\ entity' = [entity EXCEPT ![h] = None]
        /\ UNCHANGED <<slot, created, conf, team, alive, force, flag, wait, behind>>
    BY DEF Vanish, phaseVars, playerVars
  <1>2. TypeOK'
    BY <1>1 DEF IInv, TypeOK, Vanish, Spend, Kinds
  <1>3. \A g \in Handles : entity'[g] # None => entity[g] # None /\ entity'[g] = entity[g]
    BY <1>1 DEF IInv, TypeOK
  <1>4. Current' \subseteq Current
    BY <1>3 DEF Current
  <1>5. OwnIsRemembered'
    BY <1>1, <1>3 DEF IInv, OwnIsRemembered, Exists
  <1>6. OneInPlace'
    BY <1>1, <1>3, <1>4 DEF IInv, OneInPlace, Restored, Exists, Current
  <1>7. RefreshGoesOn' /\ WearIsKnown'
    BY <1>1, <1>3, <1>4 DEF IInv, RefreshGoesOn, WearIsKnown, Current
  <1>8. QED
    BY <1>2, <1>5, <1>6, <1>7 DEF IInv

LEMMA OverwriteKeepsInv ==
  ASSUME IInv, Overwrite
  PROVE  IInv'
  <1>1. /\ slot' = None
        /\ UNCHANGED <<entity, created, conf, team, alive, force, flag, wait, behind>>
    BY DEF Overwrite, phaseVars, playerVars
  <1>2. TypeOK'
    BY <1>1 DEF IInv, TypeOK, Overwrite, Spend, Kinds
  <1>3. OwnIsRemembered'
    BY <1>1, GlovesAssumption DEF OwnIsRemembered, Exists
  <1>4. OneInPlace'
    BY <1>1, GlovesAssumption
    DEF IInv, OneInPlace, OwnIsRemembered, Overwrite, Restored, Exists, Current
  <1>5. RefreshGoesOn' /\ WearIsKnown'
    BY <1>1 DEF IInv, RefreshGoesOn, WearIsKnown, Current
  <1>6. QED
    BY <1>2, <1>3, <1>4, <1>5 DEF IInv

LEMMA ChangeLevelKeepsInv ==
  ASSUME IInv, NEW w \in 0 .. Late, ChangeLevel(w)
  PROVE  IInv'
  <1>1. Current' = {} /\ \A h : ~Exists(h)'
    BY DEF ChangeLevel, Current, Exists
  <1>2. w \in Nat
    BY GlovesAssumption
  <1>3. TypeOK'
    <2>1. used' \in [Kinds -> Nat]
      BY SpendKeepsType DEF IInv, ChangeLevel, Kinds
    <2>2. QED
      BY <1>2, <2>1 DEF IInv, TypeOK, ChangeLevel
  <1>4. QED
    BY <1>1, <1>3 DEF IInv, OwnIsRemembered, OneInPlace, RefreshGoesOn, WearIsKnown

-----------------------------------------------------------------------------
(* The theorems.                                                           *)

LEMMA InitInv == Init => IInv
  <1> SUFFICES ASSUME Init PROVE IInv
    OBVIOUS
  <1>1. TypeOK
    BY GlovesAssumption DEF Init, TypeOK
  <1>2. Current = {} /\ \A h : ~Exists(h)
    BY DEF Init, Current, Exists
  <1>3. QED
    BY <1>1, <1>2 DEF IInv, OwnIsRemembered, OneInPlace, RefreshGoesOn, WearIsKnown

LEMMA StepKeepsInv == IInv /\ [Next]_vars => IInv'
  <1> SUFFICES ASSUME IInv, [Next]_vars PROVE IInv'
    OBVIOUS
  <1>1. CASE Frame
    BY <1>1, FrameKeepsInv
  <1>2. ASSUME NEW h \in Handles, Give(h) PROVE IInv'
    BY <1>2, GiveKeepsInv
  <1>3. ASSUME NEW h \in Handles, Vanish(h) PROVE IInv'
    BY <1>3, VanishKeepsInv
  <1>4. CASE Overwrite
    BY <1>4, OverwriteKeepsInv
  <1>5. ASSUME NEW w \in 0 .. Late, ChangeLevel(w) PROVE IInv'
    BY <1>5, ChangeLevelKeepsInv
  <1>6. CASE UNCHANGED vars
    BY <1>6 DEF vars, IInv, TypeOK, OwnIsRemembered, OneInPlace, RefreshGoesOn, WearIsKnown,
                Current, Restored, Exists
  <1>7. QED
    BY <1>1, <1>2, <1>3, <1>4, <1>5, <1>6, MenuKeepsInv, GameKeepsInv DEF Next

THEOREM Invariance == Spec => []IInv
  BY InitInv, StepKeepsInv, PTL DEF Spec

\* Every variable keeps its type; a wearable is given no look that is not there.
THEOREM TypeCorrect == Spec => []TypeOK
  <1>1. IInv => TypeOK
    BY DEF IInv
  <1>2. QED
    BY Invariance, <1>1, PTL

\* A wearable of the changer's in the player's handle is the remembered one.
THEOREM OwnStaysRemembered == Spec => []OwnIsRemembered
  <1>1. IInv => OwnIsRemembered
    BY DEF IInv
  <1>2. QED
    BY Invariance, <1>1, PTL

\* A frame that has nothing to do leaves gloves that are worn as configured.
THEOREM SettledIsShown == Spec => []ShownIsConfigured
  <1>1. ASSUME IInv, Settled, ~entity[slot].left
        PROVE  /\ entity[slot].worn = entity[slot].attr
               /\ behind \/ entity[slot].attr.wear = conf[team].wear
    <2>1. /\ team \in Teams /\ slot \in Current /\ ~force
          /\ entity[slot].attr.look = conf[team].look /\ conf[team].look # None
      BY <1>1 DEF Settled, Wanted, Exists, Outdated, Current
    <2>2. entity[slot].attr # Bare
      BY <2>1 DEF Bare
    <2>3. QED
      BY <1>1, <2>1, <2>2 DEF IInv, RefreshGoesOn, WearIsKnown
  <1>2. IInv => ShownIsConfigured
    BY <1>1 DEF ShownIsConfigured
  <1>3. QED
    BY Invariance, <1>2, PTL

\* What a frame does to the wearables the changer created.
LEMMA FrameLosesNone ==
  ASSUME IInv, Frame, ~(Exists(slot) /\ ~entity[slot].own)
  PROVE  Lost' \subseteq Lost
  <1>1. CASE Hide
    BY <1>1 DEF Hide, Lost, IInv, OwnIsRemembered, Restored, Exists
  <1>2. ASSUME NEW h \in Handles, NEW e, Refresh(h, e)
        PROVE  \A g \in Handles \ {h} : entity'[g] = entity[g]
    BY <1>2 DEF Refresh, FirstPhase, SecondPhase, Nothing, IInv, TypeOK
  <1>3. CASE Show
    <2>1. Restored \in Handles /\ \A g \in Handles \ {Restored} : entity'[g] = entity[g]
      BY <1>2, <1>3 DEF Show, Exists
    <2>2. slot' = Restored /\ created' = created
      BY <1>3 DEF Show
    <2>3. \A g \in Lost' : g # Restored /\ g # created /\ entity[g] # None /\ entity[g].own
      BY <2>1, <2>2 DEF Lost
    <2>4. \A g \in Lost' : g # slot
      BY <2>3 DEF Restored, Exists, IInv, OwnIsRemembered, Lost
    <2>5. QED
      BY <2>3, <2>4 DEF Lost
  <1>4. ASSUME NEW h \in Handles, Make(h)
        PROVE  Lost' \subseteq Lost
    <2>1. \A g \in Handles \ {h} : entity'[g] = entity[g]
      BY <1>2, <1>4 DEF Make
    <2>2. ~Exists(slot) /\ ~Exists(created) /\ slot' = h
      BY <1>4 DEF Make, Restored
    <2>3. QED
      BY <2>1, <2>2 DEF Lost, Exists
  <1>5. CASE MakeFails
    BY <1>5 DEF MakeFails, Lost
  <1>6. QED
    BY <1>1, <1>3, <1>4, <1>5 DEF Frame

\* Nothing but the server's gloves makes the changer lose a wearable it created.
THEOREM NoneIsLost == Spec => LosesNoneOfItsOwn
  <1> DEFINE P == Lost' \subseteq Lost \/ (Exists(slot) /\ ~entity[slot].own)
  <1>1. ASSUME IInv, [Next]_vars
        PROVE  P
    <2>1. CASE Frame
      BY <1>1, <2>1, FrameLosesNone
    <2>2. ASSUME NEW h \in Handles, Vanish(h)
          PROVE  P
      BY <1>1, <2>2 DEF Vanish, Lost, IInv, TypeOK
    <2>3. CASE Overwrite
      BY <1>1, <2>3 DEF Overwrite, Lost, IInv, OwnIsRemembered, Exists
    <2>4. CASE UNCHANGED <<entity, slot, created>>
      BY <2>4 DEF Lost
    <2>5. ASSUME NEW h \in Handles, Give(h)
          PROVE  P
      BY <1>1, <2>5 DEF Give, Lost, IInv, TypeOK, OwnIsRemembered, Exists
    <2>6. ASSUME NEW w \in 0 .. Late, ChangeLevel(w)
          PROVE  P
      BY <2>6 DEF ChangeLevel, Lost
    <2>7. QED
      BY <1>1, <2>1, <2>2, <2>3, <2>4, <2>5, <2>6
      DEF Next, vars, Tick, Choose, Drag, LetGo, Load, Join, SpawnOrDie
  <1>2. QED
    BY <1>1, Invariance, PTL DEF Spec, LosesNoneOfItsOwn
=============================================================================
