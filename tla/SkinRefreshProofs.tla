--------------------------- MODULE SkinRefreshProofs ---------------------------
(***************************************************************************)
(* Proofs about SkinRefresh, for all entries, models and first             *)
(* configurations and any number of changes.                               *)
(*                                                                         *)
(* The invariant is the properties themselves and two facts they rest on:  *)
(* a picked knife needs its full update while it is drawn, and a knife     *)
(* about to be dropped for its model has the same excuses as a dropped one.*)
(***************************************************************************)
EXTENDS SkinRefresh, TLAPS

\* While the knives are drawn after a pick, the need is there.
NeedWhileDrawing == drawing = "knife" => need

\* A knife that is dropped, or will be for its model, although one is
\* configured: a full update is on its way, or nothing asked for one.
KnifeExcused ==
  alive /\ Custom(conf.knife) /\ (~knife.tracked \/ knife.model = "default") =>
    asked \/ need \/ "knife" \in silent

IInv ==
  /\ TypeOK
  /\ NeedWhileDrawing
  /\ KnifeExcused
  /\ MaterialsAreFresh
  /\ DetailsAreAskedFor

LEMMA BareFacts ==
  /\ Bare \in Skins /\ None # Bare /\ None \notin Entries
  /\ \A e \in Entries : e # Bare /\ e.kit # Bare.kit
  BY RefreshAssumption DEF Skins, Bare

\* An entry is its kit, its detail and its name, and may be carried as it is.
LEMMA SkinParts ==
  ASSUME NEW e \in Skins
  PROVE  /\ e = [kit |-> e.kit, detail |-> e.detail, name |-> e.name]
         /\ e \in Fields
  <1>1. e = [kit |-> e.kit, detail |-> e.detail, name |-> e.name]
    <2>1. CASE e = Bare
      BY <2>1 DEF Bare
    <2>2. CASE e \in Entries
      BY <2>2, RefreshAssumption
    <2>3. QED
      BY <2>1, <2>2 DEF Skins
  <1>2. QED
    BY <1>1 DEF Fields

\* A frame writes what a weapon may carry; it has nothing to do the second time,
\* nor to a weapon as it was created once that is dressed.
LEMMA DressedFacts ==
  ASSUME NEW f \in Fields, NEW e \in Skins
  PROVE  /\ Dressed(f, e) \in Fields
         /\ Dressed(Dressed(f, e), e) = Dressed(f, e)
         /\ Dressed(Bare, e) = e
  <1>1. Written(f, e) \in Fields /\ Written(f, e).kit = e.kit
    BY DEF Written, Fields
  <1>2. Dressed(f, e) \in Fields
    BY <1>1 DEF Dressed
  <1>3. Dressed(Dressed(f, e), e) = Dressed(f, e)
    BY <1>1 DEF Dressed
  <1>4. Dressed(Bare, e) = e
    <2>1. CASE e = Bare
      BY <2>1 DEF Dressed
    <2>2. CASE e # Bare
      <3>1. Bare.kit # e.kit
        BY <2>2, BareFacts DEF Skins
      <3>2. Written(Bare, e) = e
        BY SkinParts DEF Written
      <3>3. QED
        BY <2>2, <3>1, <3>2 DEF Dressed
    <2>3. QED
      BY <2>1, <2>2
  <1>5. QED
    BY <1>2, <1>3, <1>4

LEMMA PaintType == ASSUME NEW f \in Fields PROVE Paint(f) \in Looks
  BY DEF Looks

LEMMA FreshTypes ==
  /\ FreshGun \in Gun /\ FreshKnife \in Knife
  /\ FreshGun.fields = Bare /\ FreshGun.look = None
  /\ FreshKnife.look = None /\ FreshKnife.tracked /\ FreshKnife.model = "server"
  /\ FreshKnife.fields = Bare
  BY BareFacts, SkinParts DEF FreshGun, FreshKnife, Gun, Knife, Shapes, Looks

-----------------------------------------------------------------------------
(* What a walk does.                                                       *)

\* The types of what a walk writes.
LEMMA WalkTypes ==
  ASSUME due \in 0 .. 2, missed \subseteq {"gun", "knife"},
         NEW g \in Gun, NEW k \in Knife, NEW d \in Nat, NEW c \in Confs, Walk(g, k, d, c)
  PROVE  /\ gun' \in Gun /\ knife' \in Knife /\ due' \in 0 .. 2
         /\ missed' \subseteq {"gun", "knife"}
  <1>1. /\ c.gun \in Skins /\ c.knife.skin \in Skins \union {None}
        /\ c.knife.model \in Shapes
    BY DEF Confs, KnifeEntry, Shapes
  <1>2. gun' \in Gun
    <2>1. Dressed(g.fields, c.gun) \in Fields
      BY <1>1, DressedFacts DEF Gun
    <2>2. QED
      BY <2>1 DEF Walk, Gun, resetSkin, Looks
  <1>3. knife' \in Knife
    <2> DEFINE met == k.tracked /\ alive /\ k.model # "default" /\ c.knife.skin # None
               knife_set == met /\ c.knife.skin # Bare /\ k.fields.kit # c.knife.skin.kit
               now == met /\ ~knife_set /\ due # 0 /\ d = due /\ c.knife.skin # Bare
    <2>1. knife' = IF met
              THEN [model   |-> c.knife.model,
                    fields  |-> Dressed(k.fields, c.knife.skin),
                    look    |-> IF now THEN resetSkin(k.look) ELSE k.look,
                    tracked |-> TRUE]
              ELSE [k EXCEPT !.tracked = FALSE]
      BY DEF Walk
    <2>2. met => Dressed(k.fields, c.knife.skin) \in Fields
      BY <1>1, DressedFacts DEF Knife
    <2>3. resetSkin(k.look) \in Looks
      BY DEF resetSkin, Knife, Looks
    <2> HIDE DEF knife_set, now
    <2>4. CASE met
      BY <2>1, <2>2, <2>3, <2>4, <1>1 DEF Knife
    <2>5. CASE ~met
      BY <2>1, <2>5 DEF Knife
    <2>6. QED
      BY <2>4, <2>5
  <1>4. due' \in 0 .. 2 /\ missed' \subseteq {"gun", "knife"}
    BY DEF Walk, Planned
  <1>5. QED
    BY <1>2, <1>3, <1>4

\* After a walk the gun is not behind its entry, unless it was.
LEMMA WalkGun ==
  ASSUME NEW g \in Gun, NEW k, NEW d, NEW c \in Confs, Walk(g, k, d, c)
  PROVE  GunBehind(gun', c.gun) => GunBehind(g, c.gun)
  <1>1. c.gun \in Skins
    BY DEF Confs
  <1>2. gun'.fields = Dressed(g.fields, c.gun)
    BY DEF Walk
  <1>3. QED
    BY <1>1, <1>2, DressedFacts DEF GunBehind, Gun

\* After a walk a living player's knife is in the vector with a model of a
\* weapon's class, if one is configured, unless it was not before.
LEMMA WalkKnife ==
  ASSUME NEW g, NEW k \in Knife, NEW d, NEW c \in Confs, Walk(g, k, d, c),
         alive, Custom(c.knife), k.tracked, k.model # "default"
  PROVE  knife'.tracked /\ knife'.model # "default"
  <1>1. c.knife.model # "default" /\ c.knife.skin # None
    BY RefreshAssumption DEF Custom
  <1>2. QED
    BY <1>1 DEF Walk

\* A material that is not of the fields: it was so before and nobody saw to it,
\* or the walk was asked not to, or it planned a refresh or passed one over.
LEMMA WalkMaterials ==
  ASSUME NEW g \in Gun, NEW k \in Knife, NEW d, NEW c \in Confs, Walk(g, k, d, c), due \in 0 .. 2
  PROVE  /\ gun'.look \notin {None, Paint(gun'.fields)} =>
              \/ asked
              \/ "gun" \in missed'
              \/ g.look \notin {None, Paint(g.fields)} /\ "gun" \notin missed
         /\ knife'.look \notin {None, Paint(knife'.fields)} =>
              \/ asked \/ due' # 0
              \/ "knife" \in missed'
              \/ k.look \notin {None, Paint(k.fields)} /\ due = 0 /\ "knife" \notin missed
  <1> DEFINE gun_set   == c.gun # Bare /\ g.fields.kit # c.gun.kit
             met       == k.tracked /\ alive /\ k.model # "default" /\ c.knife.skin # None
             knife_set == met /\ c.knife.skin # Bare /\ k.fields.kit # c.knife.skin.kit
             now       == met /\ ~knife_set /\ due # 0 /\ d = due /\ c.knife.skin # Bare
  <1>1. /\ ~gun_set => gun'.fields = g.fields
        /\ gun'.look = IF gun_set /\ alive THEN resetSkin(g.look) ELSE g.look
    BY DEF Walk, Dressed
  <1>2. /\ ~knife_set => knife'.fields = k.fields
        /\ knife'.look = IF now THEN resetSkin(k.look) ELSE k.look
    BY DEF Walk, Knife, Dressed
  <1>3. /\ gun'.look # None /\ ("gun" \in missed \/ (gun_set /\ ~alive)) => "gun" \in missed'
        /\ knife'.look # None /\ ("knife" \in missed \/ (due # 0 /\ due' = 0 /\ ~now))
             => "knife" \in missed'
    BY DEF Walk
  <1>4. due' = Planned(knife_set, d)
    BY DEF Walk
  <1> HIDE DEF gun_set, met, now
  <1>5. ASSUME gun'.look \notin {None, Paint(gun'.fields)}, ~asked, "gun" \notin missed'
        PROVE  g.look \notin {None, Paint(g.fields)} /\ "gun" \notin missed
    BY <1>1, <1>3, <1>5 DEF resetSkin
  <1>6. ASSUME knife'.look \notin {None, Paint(knife'.fields)}, ~asked, due' = 0, "knife" \notin missed'
        PROVE  k.look \notin {None, Paint(k.fields)} /\ due = 0 /\ "knife" \notin missed
    <2>1. ~knife_set
      BY <1>4, <1>6 DEF Planned
    <2>2. ~now
      BY <1>2, <1>6 DEF resetSkin
    <2>3. QED
      BY <1>2, <1>3, <1>6, <2>1, <2>2
  <1>7. QED
    BY <1>5, <1>6

-----------------------------------------------------------------------------
(* The invariant is kept.                                                  *)

LEMMA InitInv == Init => IInv
  <1> SUFFICES ASSUME Init PROVE IInv
    OBVIOUS
  <1>1. TypeOK
    <2>1. conf \in Confs /\ gun \in Gun /\ knife \in Knife
      BY RefreshAssumption, FreshTypes DEF Init
    <2>2. due \in 0 .. 2 /\ changes \in Nat
      BY DEF Init
    <2>3. QED
      BY <2>1, <2>2 DEF Init, TypeOK
  <1>2. ~GunBehind(gun, conf.gun)
    <2>1. conf.gun \in Skins
      BY <1>1 DEF TypeOK, Confs
    <2>2. QED
      BY <2>1, FreshTypes, BareFacts, SkinParts, DressedFacts DEF Init, GunBehind
  <1>3. QED
    BY <1>1, <1>2, FreshTypes
       DEF Init, IInv, NeedWhileDrawing, KnifeExcused, MaterialsAreFresh, DetailsAreAskedFor

LEMMA ChangeType == ASSUME changes \in Nat, Change PROVE changes' \in Nat
  BY DEF Change

LEMMA BehindType ==
  ASSUME NEW g, NEW k, NEW c
  PROVE  Behind(g, k, c) \subseteq {"gun", "knife"}
  BY DEF Behind

\* The menu.
LEMMA MenuKeepsInv ==
  ASSUME IInv,
         \/ \E e \in Skins : PickGun(e) \/ PickKnifeSkin(e)
         \/ \E m \in Models \union {"default"} : PickKnife(m)
         \/ FinishGun \/ FinishKnife
  PROVE  IInv'
  <1> USE DEF IInv
  <1>1. ASSUME NEW e \in Skins, PickGun(e) PROVE IInv'
    <2>1. /\ conf' \in Confs /\ conf'.knife = conf.knife
          /\ drawing' = "gun"
          /\ UNCHANGED <<gun, knife, alive, asked, due, need, missed, silent>>
      BY <1>1 DEF PickGun, TypeOK, Confs
    <2>2. TypeOK'
      BY <1>1, <2>1, ChangeType DEF PickGun, TypeOK
    <2>3. QED
      BY <2>1, <2>2 DEF NeedWhileDrawing, KnifeExcused, MaterialsAreFresh, DetailsAreAskedFor
  <1>2. ASSUME NEW e \in Skins, PickKnifeSkin(e) PROVE IInv'
    <2>1. /\ conf' \in Confs /\ conf'.gun = conf.gun
          /\ need' /\ drawing = "nothing" /\ drawing' = "knife"
          /\ UNCHANGED <<gun, knife, alive, asked, due, missed, silent>>
      BY <1>2 DEF PickKnifeSkin, TypeOK, Confs, KnifeEntry
    <2>2. TypeOK'
      BY <1>2, <2>1, ChangeType DEF PickKnifeSkin, TypeOK
    <2>3. QED
      BY <2>1, <2>2 DEF NeedWhileDrawing, KnifeExcused, MaterialsAreFresh, DetailsAreAskedFor
  <1>3. ASSUME NEW m \in Models \union {"default"}, PickKnife(m) PROVE IInv'
    <2>1. /\ conf' \in Confs /\ conf'.gun = conf.gun
          /\ need' /\ drawing = "nothing" /\ drawing' = "knife"
          /\ UNCHANGED <<gun, knife, alive, asked, due, missed, silent>>
      BY <1>3 DEF PickKnife, TypeOK, Confs, KnifeEntry
    <2>2. TypeOK'
      BY <1>3, <2>1, ChangeType DEF PickKnife, TypeOK
    <2>3. QED
      BY <2>1, <2>2 DEF NeedWhileDrawing, KnifeExcused, MaterialsAreFresh, DetailsAreAskedFor
  <1>4. CASE FinishGun
    <2>1. TypeOK'
      BY <1>4 DEF FinishGun, TypeOK
    <2>2. QED
      BY <1>4, <2>1
         DEF FinishGun, NeedWhileDrawing, KnifeExcused, MaterialsAreFresh, DetailsAreAskedFor
  <1>5. CASE FinishKnife
    <2>1. CASE conf.knife.model = "default"
      <3>1. /\ conf' \in Confs /\ conf'.gun = conf.gun
            /\ conf'.knife.skin = None
            /\ drawing # "gun" /\ drawing' = "nothing"
            /\ UNCHANGED <<gun, knife, alive, asked, due, need, missed, silent, changes>>
        BY <1>5, <2>1 DEF FinishKnife, TypeOK, Confs, KnifeEntry
      <3>2. TypeOK'
        BY <3>1 DEF TypeOK
      <3>3. QED
        BY <3>1, <3>2
           DEF NeedWhileDrawing, KnifeExcused, MaterialsAreFresh, DetailsAreAskedFor, Custom
    <2>2. CASE conf.knife.model # "default"
      <3>1. /\ asked' = (asked \/ need) /\ need' = FALSE
            /\ drawing # "gun" /\ drawing' = "nothing"
            /\ UNCHANGED <<conf, gun, knife, alive, due, missed, silent, changes>>
        BY <1>5, <2>2 DEF FinishKnife
      <3>2. TypeOK'
        BY <3>1 DEF TypeOK
      <3>3. QED
        BY <3>1, <3>2
           DEF NeedWhileDrawing, KnifeExcused, MaterialsAreFresh, DetailsAreAskedFor
    <2>3. QED
      BY <2>1, <2>2
  <1>6. QED
    BY <1>1, <1>2, <1>3, <1>4, <1>5

\* Entries that are replaced, by read_thread or by a change of team.
LEMMA ReplaceKeepsInv ==
  ASSUME IInv, NEW c \in Confs,
         Load(c) \/ (\E fix \in BOOLEAN : SwitchTeam(c, fix))
  PROVE  IInv'
  <1>1. /\ conf' = c /\ silent' = silent \union Behind(gun, knife, c)
        /\ changes' \in Nat
        /\ alive' \in BOOLEAN /\ asked' \in BOOLEAN
        /\ alive' => alive
        /\ asked => asked'
        /\ UNCHANGED <<gun, knife, due, drawing, need, missed>>
    <2>1. alive \in BOOLEAN /\ asked \in BOOLEAN /\ changes \in Nat
      BY DEF IInv, TypeOK
    <2>2. CASE Load(c)
      <3>1. Replace(c) /\ UNCHANGED <<gun, knife, alive, asked, due, drawing, need, missed>>
        BY <2>2 DEF Load
      <3>2. Change /\ conf' = c /\ silent' = silent \union Behind(gun, knife, c)
        BY <3>1 DEF Replace
      <3>3. changes' \in Nat
        BY <2>1, <3>2, ChangeType
      <3>4. QED
        BY <2>1, <3>1, <3>2, <3>3
    <2>3. CASE \E fix \in BOOLEAN : SwitchTeam(c, fix)
      <3>1. PICK fix \in BOOLEAN : SwitchTeam(c, fix)
        BY <2>3
      <3>2. /\ Replace(c) /\ alive' = FALSE /\ asked' = (asked \/ fix)
            /\ UNCHANGED <<gun, knife, due, drawing, need, missed>>
        BY <3>1 DEF SwitchTeam
      <3>3. Change /\ conf' = c /\ silent' = silent \union Behind(gun, knife, c)
        BY <3>2 DEF Replace
      <3>4. changes' \in Nat
        BY <2>1, <3>3, ChangeType
      <3>5. QED
        BY <2>1, <3>2, <3>3, <3>4
    <2>4. QED
      BY <2>2, <2>3
  <1>2. TypeOK'
    BY <1>1, BehindType DEF IInv, TypeOK
  <1>3. DetailsAreAskedFor'
    BY <1>1 DEF DetailsAreAskedFor, Behind
  <1>4. KnifeExcused'
    BY <1>1 DEF KnifeExcused, Behind, KnifeBehind
  <1>5. MaterialsAreFresh'
    BY <1>1 DEF IInv, MaterialsAreFresh
  <1>6. NeedWhileDrawing'
    BY <1>1 DEF IInv, NeedWhileDrawing
  <1>7. QED
    BY <1>2, <1>3, <1>4, <1>5, <1>6 DEF IInv

\* A frame in which configuration c is used.
LEMMA WalkKeepsInv ==
  ASSUME IInv, NEW d \in Nat, NEW c \in Confs,
         Walk(gun, knife, d, c), conf' = c, changes' \in Nat,
         silent' \subseteq {"gun", "knife"}, silent \subseteq silent',
         c # conf => Behind(gun, knife, c) \subseteq silent',
         UNCHANGED <<alive, asked, drawing, need>>
  PROVE  IInv'
  <1>1. TypeOK'
    BY WalkTypes DEF IInv, TypeOK
  <1>2. NeedWhileDrawing'
    BY DEF IInv, NeedWhileDrawing
  <1>3. DetailsAreAskedFor'
    <2>1. GunBehind(gun', c.gun) => GunBehind(gun, c.gun)
      BY WalkGun DEF IInv, TypeOK
    <2>2. c # conf /\ GunBehind(gun, c.gun) => "gun" \in silent'
      BY DEF Behind
    <2>3. QED
      BY <2>1, <2>2 DEF IInv, DetailsAreAskedFor
  <1>4. KnifeExcused'
    <2>1. alive /\ Custom(c.knife) /\ knife.tracked /\ knife.model # "default"
            => knife'.tracked /\ knife'.model # "default"
      BY WalkKnife DEF IInv, TypeOK
    <2>2. c # conf /\ Custom(c.knife) /\ (~knife.tracked \/ knife.model = "default")
            => "knife" \in silent'
      BY DEF Behind, KnifeBehind
    <2>3. QED
      BY <2>1, <2>2 DEF IInv, KnifeExcused
  <1>5. MaterialsAreFresh'
    BY WalkMaterials DEF IInv, TypeOK, MaterialsAreFresh
  <1>6. QED
    BY <1>1, <1>2, <1>3, <1>4, <1>5 DEF IInv

LEMMA FrameKeepsInv ==
  ASSUME IInv, NEW d \in Nat, Frame(d)
  PROVE  IInv'
  <1>1. CASE Walk(gun, knife, d, conf) /\ UNCHANGED <<conf, changes, silent>>
    <2>1. UNCHANGED <<alive, asked, drawing, need>> /\ conf \in Confs
      BY DEF Frame, IInv, TypeOK
    <2>2. QED
      BY <1>1, <2>1, WalkKeepsInv DEF IInv, TypeOK
  <1>2. ASSUME NEW c \in Drawn(knife), Replace(c), Walk(gun, knife, d, c)
        PROVE  IInv'
    <2>1. c \in Confs
      BY DEF Drawn, Redrawn, IInv, TypeOK, Confs, Skins, KnifeEntry
    <2>2. /\ conf' = c /\ changes' \in Nat
          /\ silent' = silent \union Behind(gun, knife, c)
          /\ UNCHANGED <<alive, asked, drawing, need>>
      BY <1>2, ChangeType DEF Frame, Replace, IInv, TypeOK
    <2>3. silent' \subseteq {"gun", "knife"}
      BY <2>2, BehindType DEF IInv, TypeOK
    <2>4. QED
      BY <1>2, <2>1, <2>2, <2>3, WalkKeepsInv
  <1>3. QED
    BY <1>1, <1>2 DEF Frame

\* A full update leaves no weapon behind its entry.
LEMMA FullFrameKeepsInv ==
  ASSUME IInv, NEW d \in Nat, FullFrame(d)
  PROVE  IInv'
  <1>1. /\ Walk(FreshGun, FreshKnife, d, conf)
        /\ asked' = FALSE /\ silent' = {}
        /\ UNCHANGED <<conf, alive, drawing, need, changes>>
    BY DEF FullFrame
  <1>2. conf \in Confs /\ conf.gun \in Skins /\ due \in 0 .. 2 /\ missed \subseteq {"gun", "knife"}
    BY DEF IInv, TypeOK, Confs
  <1>3. /\ gun' \in Gun /\ knife' \in Knife /\ due' \in 0 .. 2
        /\ missed' \subseteq {"gun", "knife"}
    BY <1>1, <1>2, FreshTypes, WalkTypes
  <1>4. TypeOK'
    BY <1>1, <1>3 DEF IInv, TypeOK
  <1>5. ~GunBehind(FreshGun, conf.gun)
    BY <1>2, FreshTypes, BareFacts, SkinParts, DressedFacts DEF GunBehind
  <1>6. DetailsAreAskedFor'
    BY <1>1, <1>2, <1>5, FreshTypes, WalkGun DEF DetailsAreAskedFor
  <1>7. KnifeExcused'
    BY <1>1, <1>2, FreshTypes, WalkKnife DEF KnifeExcused
  <1>8. MaterialsAreFresh'
    <2>1. gun'.look = None
      BY <1>1, FreshTypes DEF Walk, resetSkin
    <2>2. knife'.look = None
      BY <1>1, FreshTypes DEF Walk, resetSkin
    <2>3. QED
      BY <2>1, <2>2 DEF MaterialsAreFresh
  <1>9. NeedWhileDrawing'
    BY <1>1 DEF IInv, NeedWhileDrawing
  <1>10. QED
    BY <1>4, <1>6, <1>7, <1>8, <1>9 DEF IInv

LEMMA EngineKeepsInv ==
  ASSUME IInv, ComposeGun \/ ComposeKnife \/ Spawn \/ Die \/ UNCHANGED vars
  PROVE  IInv'
  <1> USE DEF IInv
  <1>1. CASE ComposeGun
    <2>1. /\ gun' \in Gun /\ gun'.fields = gun.fields /\ gun'.look = Paint(gun.fields)
          /\ UNCHANGED <<knife, conf, alive, asked, due, drawing, need, changes, missed, silent>>
      BY <1>1, PaintType DEF ComposeGun, TypeOK, Gun
    <2>2. QED
      BY <2>1 DEF TypeOK, NeedWhileDrawing, KnifeExcused, MaterialsAreFresh,
                  DetailsAreAskedFor, GunBehind
  <1>2. CASE ComposeKnife
    <2>1. /\ knife' \in Knife /\ knife'.fields = knife.fields /\ knife'.look = Paint(knife.fields)
          /\ knife'.tracked = knife.tracked /\ knife'.model = knife.model
          /\ UNCHANGED <<gun, conf, alive, asked, due, drawing, need, changes, missed, silent>>
      BY <1>2, PaintType DEF ComposeKnife, TypeOK, Knife
    <2>2. QED
      BY <2>1 DEF TypeOK, NeedWhileDrawing, KnifeExcused, MaterialsAreFresh, DetailsAreAskedFor
  <1>3. CASE Spawn
    BY <1>3, FreshTypes DEF Spawn, TypeOK, NeedWhileDrawing, KnifeExcused, MaterialsAreFresh,
                            DetailsAreAskedFor
  <1>4. CASE Die
    BY <1>4 DEF Die, TypeOK, NeedWhileDrawing, KnifeExcused, MaterialsAreFresh,
                DetailsAreAskedFor
  <1>5. CASE UNCHANGED vars
    BY <1>5 DEF vars, TypeOK, NeedWhileDrawing, KnifeExcused, MaterialsAreFresh,
                DetailsAreAskedFor
  <1>6. QED
    BY <1>1, <1>2, <1>3, <1>4, <1>5

LEMMA StepKeepsInv == IInv /\ [Next]_vars => IInv'
  <1> SUFFICES ASSUME IInv, [Next]_vars PROVE IInv'
    OBVIOUS
  <1>1. ASSUME NEW d \in 0 .. due + 1, Frame(d) \/ FullFrame(d) PROVE IInv'
    <2>1. d \in Nat
      BY DEF IInv, TypeOK
    <2>2. QED
      BY <1>1, <2>1, FrameKeepsInv, FullFrameKeepsInv
  <1>2. QED
    BY <1>1, MenuKeepsInv, ReplaceKeepsInv, EngineKeepsInv DEF Next

-----------------------------------------------------------------------------
(* The theorems.                                                           *)

THEOREM Invariance == Spec => []IInv
  BY InitInv, StepKeepsInv, PTL DEF Spec

\* The fields, looks and entries keep their types.
THEOREM TypeCorrect == Spec => []TypeOK
  <1>1. IInv => TypeOK
    BY DEF IInv
  <1>2. QED
    BY Invariance, <1>1, PTL

\* What an earlier paint kit left is thrown away, or known to be left.
THEOREM MaterialsStayFresh == Spec => []MaterialsAreFresh
  <1>1. IInv => MaterialsAreFresh
    BY DEF IInv
  <1>2. QED
    BY Invariance, <1>1, PTL

\* What the frames will not bring to a gun, a seed, a wear, a name or none, or
\* no skin at all, has its full update, if the menu changed it.
THEOREM DetailsReachTheServer == Spec => []DetailsAreAskedFor
  <1>1. IInv => DetailsAreAskedFor
    BY DEF IInv
  <1>2. QED
    BY Invariance, <1>1, PTL

\* A dropped knife the menu configures is brought back.
THEOREM KnifeComesBack == Spec => []KnifeIsBroughtBack
  <1>1. IInv => KnifeIsBroughtBack
    BY DEF IInv, KnifeExcused, KnifeIsBroughtBack
  <1>2. QED
    BY Invariance, <1>1, PTL
=============================================================================
