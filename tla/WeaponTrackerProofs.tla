------------------------- MODULE WeaponTrackerProofs -------------------------
(***************************************************************************)
(* Proofs about WeaponTracker, for every entity table, every set of guns   *)
(* and kits and every bound on the environment.                            *)
(*                                                                         *)
(* What the vector says is only about entities that exist (TrackedExist):  *)
(* a new entity finds its index absent, so that it is there once and a     *)
(* creation makes the vector one longer than its live elements.            *)
(***************************************************************************)
EXTENDS WeaponTracker, FiniteSetTheorems, TLAPS

\* The vector has no index of an entity that is gone.
TrackedExist == \A i \in Slots : weapons[i] > 0 => world[i] # None

IInv ==
  /\ TypeOK
  /\ TrackedExist
  /\ EachOnce
  /\ FitsTable
  /\ OwnGunsTracked
  /\ OnlyOwnDressed

-----------------------------------------------------------------------------
(* The length of the vector.                                               *)

\* A vector that has no index twice has no more live elements than indexes.
LEMMA LiveIsFinite ==
  ASSUME NEW w \in [Slots -> Nat], \A i \in Slots : w[i] <= 1
  PROVE  /\ Live(w) \subseteq Slots \X {1}
         /\ IsFiniteSet(Live(w))
         /\ Cardinality(Live(w)) \in Nat
         /\ Cardinality(Live(w)) <= Cardinality(Slots)
  <1>1. Live(w) \subseteq Slots \X {1}
    <2>1. \A i \in Slots : 1 .. w[i] \subseteq {1}
      OBVIOUS
    <2>2. QED
      BY <2>1 DEF Live
  <1>2. IsFiniteSet(Slots \X {1}) /\ Cardinality(Slots \X {1}) = Cardinality(Slots)
    <2> DEFINE f == [i \in Slots |-> <<i, 1>>]
    <2>1. f \in [Slots -> Slots \X {1}] /\ \A i \in Slots : f[i] = <<i, 1>>
      OBVIOUS
    <2> HIDE DEF f
    <2>2. \A p \in Slots \X {1} : \E i \in Slots : f[i] = p
      BY <2>1
    <2>3. f \in Bijection(Slots, Slots \X {1})
      BY <2>1, <2>2 DEF Bijection, Injection, Surjection, IsInjective
    <2>4. QED
      BY <2>3, FS_Bijection, TrackerAssumption DEF ExistsBijection
  <1>3. QED
    BY <1>1, <1>2, FS_Subset, FS_CardinalityType

\* One more index, one more live element.
LEMMA LiveGrows ==
  ASSUME NEW w \in [Slots -> Nat], \A j \in Slots : w[j] <= 1,
         NEW i \in Slots, w[i] = 0
  PROVE  Cardinality(Live([w EXCEPT ![i] = @ + 1])) = Cardinality(Live(w)) + 1
  <1> DEFINE v == [w EXCEPT ![i] = @ + 1]
  <1>1. Live(v) = Live(w) \union {<<i, 1>>}
    <2>1. v[i] = 1 /\ \A j \in Slots \ {i} : v[j] = w[j]
      OBVIOUS
    <2>2. 1 .. w[i] = {} /\ 1 .. v[i] = {1}
      BY <2>1
    <2> HIDE DEF v
    <2>3. QED
      BY <2>1, <2>2 DEF Live
  <1>2. <<i, 1>> \notin Live(w)
    BY DEF Live
  <1>3. QED
    BY <1>1, <1>2, LiveIsFinite, FS_AddElement

\* Fewer indexes, no more live elements.
LEMMA LiveShrinks ==
  ASSUME NEW w \in [Slots -> Nat], \A j \in Slots : w[j] <= 1,
         NEW v \in [Slots -> Nat], \A j \in Slots : v[j] <= w[j]
  PROVE  Cardinality(Live(v)) <= Cardinality(Live(w))
  <1>1. Live(v) \subseteq Live(w)
    <2>1. \A j \in Slots : 1 .. v[j] \subseteq 1 .. w[j]
      OBVIOUS
    <2>2. QED
      BY <2>1 DEF Live
  <1>2. QED
    BY <1>1, LiveIsFinite, FS_Subset

-----------------------------------------------------------------------------
(* What a frame does.                                                      *)

\* Only the skin of an item changes when it is dressed.
LEMMA DressType ==
  ASSUME NEW e \in Entity, NEW c \in [Dressed -> Skins \union {None}]
  PROVE  /\ Dress(e, c) \in Entity
         /\ Dress(e, c).item = e.item /\ Dress(e, c).mine = e.mine
         /\ Dress(e, c).heard = e.heard
  BY DEF Dress, Entity, Dressed

LEMMA NoneIsNoEntity == None \notin Entity
  BY TrackerAssumption

\* A frame drops indexes but never an own gun's, and dresses the player's own
\* weapons alone.
LEMMA FrameEffect ==
  ASSUME TypeOK, Frame
  PROVE  /\ weapons' \in [Slots -> Nat]
         /\ world' \in [Slots -> Entity \union {None}]
         /\ config' \in [Teams -> [Dressed -> Skins \union {None}]]
         /\ down' \in BOOLEAN /\ required' \in BOOLEAN /\ asked' \in Slots \union {None}
         /\ \A i \in Slots :
              /\ weapons'[i] = 0 \/ weapons'[i] = weapons[i]
              /\ world[i] # None /\ world[i].item \in Guns /\ world[i].mine
                   => weapons'[i] = weapons[i]
              /\ world[i] = None => world'[i] = None
              /\ world[i] # None =>
                   /\ world'[i] # None
                   /\ world'[i].item = world[i].item /\ world'[i].mine = world[i].mine
                   /\ world'[i].heard = world[i].heard
                   /\ ~world[i].mine => world'[i] = world[i]
  <1>1. CASE team \notin Teams
    BY <1>1 DEF Frame, TypeOK
  <1>2. CASE team \in Teams
    <2> DEFINE on      == "random" \in options
               clicked == on /\ ~pressed /\ down
               wanted  == required \/ clicked
               x       == world[hand].item
               hit     == /\ wanted /\ hand \in Own
                          /\ \/ x \in Guns /\ \E g \in Guns : config[team][g] # None
                             \/ x = "knife"
    <2>1. PICK k \in IF hit THEN Kits ELSE {Default}, before \in SUBSET (Own \ {hand}) :
            /\ config' = IF hit THEN [config EXCEPT ![team][x] = k] ELSE config
            /\ LET c == [i \in Slots |-> IF i \in before THEN config[team] ELSE config'[team]]
               IN /\ weapons' = [i \in Slots |-> IF i \in Dropped(c) THEN 0 ELSE weapons[i]]
                  /\ world' = [i \in Slots |-> IF i \in Own \ Dropped(c)
                                               THEN Dress(world[i], c[i]) ELSE world[i]]
      BY <1>2 DEF Frame
    <2> DEFINE c == [i \in Slots |-> IF i \in before THEN config[team] ELSE config'[team]]
    <2>2. config' \in [Teams -> [Dressed -> Skins \union {None}]]
      <3>1. hit => x \in Dressed /\ k \in Skins
        BY DEF Dressed, Skins
      <3>2. QED
        BY <2>1, <3>1, <1>2 DEF TypeOK
    <2>3. \A i \in Slots : c[i] \in [Dressed -> Skins \union {None}]
      BY <2>2, <1>2 DEF TypeOK
    <2>4. weapons' = [i \in Slots |-> IF i \in Dropped(c) THEN 0 ELSE weapons[i]]
      BY <2>1
    <2>5. world' = [i \in Slots |-> IF i \in Own \ Dropped(c)
                                    THEN Dress(world[i], c[i]) ELSE world[i]]
      BY <2>1
    <2>6. down' \in BOOLEAN /\ required' \in BOOLEAN /\ asked' \in Slots \union {None}
      BY <1>2 DEF Frame, TypeOK, StillRequired
    <2> HIDE DEF c
    <2>7. weapons' \in [Slots -> Nat]
      BY <2>4 DEF TypeOK
    <2>8. ASSUME NEW i \in Own
          PROVE  /\ world[i] \in Entity /\ world[i].mine
                 /\ Dress(world[i], c[i]) \in Entity
                 /\ Dress(world[i], c[i]).item = world[i].item
                 /\ Dress(world[i], c[i]).mine = world[i].mine
                 /\ Dress(world[i], c[i]).heard = world[i].heard
      <3>1. i \in Slots /\ world[i] \in Entity /\ world[i].mine
        BY DEF Own, Seen, Watched, TypeOK
      <3>2. QED
        BY <3>1, <2>3, DressType
    <2>9. ASSUME NEW i \in Slots, world[i] # None, world[i].item \in Guns, world[i].mine
          PROVE  i \notin Dropped(c)
      <3>1. world[i].item \notin {"knife", "none", "prop"}
        BY <2>9, TrackerAssumption
      <3>2. i \in Seen => i \in Own
        BY <2>9 DEF Own
      <3>3. QED
        BY <2>9, <3>1, <3>2 DEF Dropped
    <2>10. Own \subseteq Slots
      BY DEF Own, Seen, Watched
    <2>11. world' \in [Slots -> Entity \union {None}]
      BY <2>5, <2>8, <2>10 DEF TypeOK
    <2>12. ASSUME NEW i \in Slots
           PROVE  /\ weapons'[i] = 0 \/ weapons'[i] = weapons[i]
                  /\ world[i] # None /\ world[i].item \in Guns /\ world[i].mine
                       => weapons'[i] = weapons[i]
      BY <2>4, <2>9
    <2>13. ASSUME NEW i \in Slots
           PROVE  /\ world[i] = None => world'[i] = None
                  /\ world[i] # None =>
                       /\ world'[i] # None
                       /\ world'[i].item = world[i].item /\ world'[i].mine = world[i].mine
                       /\ world'[i].heard = world[i].heard
                       /\ ~world[i].mine => world'[i] = world[i]
      <3>1. CASE i \in Own
        BY <3>1, <2>5, <2>8, NoneIsNoEntity
      <3>2. CASE i \notin Own
        BY <3>2, <2>5
      <3>3. QED
        BY <3>1, <3>2
    <2>14. QED
      BY <2>2, <2>6, <2>7, <2>11, <2>12, <2>13
  <1>3. QED
    BY <1>1, <1>2

-----------------------------------------------------------------------------
(* The invariant is kept.                                                  *)

\* The parts of the invariant that say nothing of keys, lives, teams and menus.
LEMMA InvFrame ==
  ASSUME IInv, TypeOK', UNCHANGED <<world, weapons, size>>
  PROVE  IInv'
  BY DEF IInv, TrackedExist, EachOnce, FitsTable, OwnGunsTracked, OnlyOwnDressed, Live

LEMMA CreateKeepsInv ==
  ASSUME IInv, NEW i \in Slots, NEW x \in Items, NEW mine \in BOOLEAN, NEW known \in BOOLEAN,
         Create(i, x, mine, known)
  PROVE  IInv'
  <1> DEFINE e == [item |-> x, mine |-> mine, known |-> known,
                   skin |-> IF x \in Guns THEN Default ELSE None, heard |-> class_ids]
  <1>1. /\ world[i] = None /\ world' = [world EXCEPT ![i] = e]
        /\ IF IsWeaponByClass(e, class_ids)
           THEN /\ weapons' = [weapons EXCEPT ![i] = @ + 1]
                /\ size' = Cardinality(Live(weapons)) + 1
           ELSE UNCHANGED listVars
    BY DEF Create, on_entity_created
  <1>2. /\ e \in Entity
        /\ e.item = x /\ e.mine = mine /\ e.heard = class_ids
        /\ e.skin = IF x \in Guns THEN Default ELSE None
    BY DEF IInv, TypeOK, Entity, Skins
  <1>3. e # None
    BY <1>2, NoneIsNoEntity
  <1> HIDE DEF e
  <1>4. weapons[i] = 0
    BY <1>1 DEF IInv, TypeOK, TrackedExist
  <1>5. weapons' \in [Slots -> Nat] /\ \A j \in Slots : weapons'[j] <= 1
    BY <1>1, <1>4 DEF IInv, TypeOK, EachOnce, listVars
  <1>6. world' \in [Slots -> Entity \union {None}]
    BY <1>1, <1>2 DEF IInv, TypeOK
  <1>7. size' \in Nat /\ FitsTable'
    <2>1. CASE IsWeaponByClass(e, class_ids)
      <3>1. Cardinality(Live(weapons')) = Cardinality(Live(weapons)) + 1
        BY <1>1, <1>4, <2>1, LiveGrows DEF IInv, TypeOK, EachOnce
      <3>2. Cardinality(Live(weapons')) <= Cardinality(Slots)
        BY <1>5, LiveIsFinite
      <3>3. Cardinality(Live(weapons)) \in Nat
        BY LiveIsFinite DEF IInv, TypeOK, EachOnce
      <3>4. size' = Cardinality(Live(weapons)) + 1
        BY <1>1, <2>1
      <3>5. Cardinality(Live(weapons')) = Cardinality(Live(weapons))'
        BY DEF Live
      <3>6. Cardinality(Slots) \in Nat
        BY TrackerAssumption, FS_CardinalityType
      <3> HIDE DEF IInv
      <3>7. Cardinality(Live(weapons'))  <= size' /\ size' <= Cardinality(Slots)
        BY <3>1, <3>2, <3>3, <3>4, <3>6
      <3>8. QED
        BY <3>3, <3>4, <3>7 DEF FitsTable, Live
    <2>2. CASE ~IsWeaponByClass(e, class_ids)
      BY <1>1, <2>2 DEF IInv, TypeOK, FitsTable, Live, listVars
    <2>3. QED
      BY <2>1, <2>2
  <1>8. TypeOK'
    BY <1>5, <1>6, <1>7 DEF IInv, TypeOK, Create, randomVars
  <1>9. EachOnce'
    BY <1>5 DEF EachOnce
  <1>10. TrackedExist'
    BY <1>1, <1>3 DEF IInv, TypeOK, TrackedExist, listVars
  <1>11. OwnGunsTracked'
    <2>1. ASSUME NEW j \in Slots, j # i
          PROVE  weapons'[j] = weapons[j] /\ world'[j] = world[j]
      BY <1>1, <2>1 DEF IInv, TypeOK, listVars
    <2>2. x \in Guns /\ class_ids => weapons'[i] > 0
      BY <1>1, <1>2, <1>4, TrackerAssumption DEF IsWeaponByClass, IInv, TypeOK
    <2>3. world'[i] = e
      BY <1>1 DEF IInv, TypeOK
    <2>4. QED
      BY <1>2, <2>1, <2>2, <2>3 DEF IInv, OwnGunsTracked
  <1>12. OnlyOwnDressed'
    BY <1>1, <1>2 DEF IInv, TypeOK, OnlyOwnDressed
  <1>13. QED
    BY <1>7, <1>8, <1>9, <1>10, <1>11, <1>12 DEF IInv

LEMMA DeleteKeepsInv ==
  ASSUME IInv, NEW i \in Slots, Delete(i)
  PROVE  IInv'
  <1>1. /\ world' = [world EXCEPT ![i] = None]
        /\ weapons' = IF weapons[i] > 0 THEN [weapons EXCEPT ![i] = @ - 1] ELSE weapons
        /\ size' = size
    BY DEF Delete, on_entity_deleted
  <1>2. /\ weapons' \in [Slots -> Nat] /\ weapons'[i] = 0
        /\ \A j \in Slots : weapons'[j] <= weapons[j]
        /\ \A j \in Slots \ {i} : weapons'[j] = weapons[j] /\ world'[j] = world[j]
        /\ world'[i] = None
    BY <1>1 DEF IInv, TypeOK, EachOnce
  <1>3. TypeOK'
    BY <1>1, <1>2 DEF IInv, TypeOK, Delete, randomVars
  <1>4. EachOnce'
    BY <1>2 DEF IInv, TypeOK, EachOnce
  <1>5. FitsTable'
    <2>1. Cardinality(Live(weapons')) <= Cardinality(Live(weapons))
      BY <1>2, LiveShrinks DEF IInv, TypeOK, EachOnce
    <2>2. Cardinality(Live(weapons)) \in Nat /\ Cardinality(Live(weapons')) \in Nat
      BY <1>2, <1>4, LiveIsFinite DEF IInv, TypeOK, EachOnce
    <2>3. QED
      BY <1>1, <2>1, <2>2 DEF IInv, TypeOK, FitsTable, Live
  <1>6. TrackedExist'
    BY <1>2 DEF IInv, TrackedExist
  <1>7. OwnGunsTracked' /\ OnlyOwnDressed'
    BY <1>2 DEF IInv, OwnGunsTracked, OnlyOwnDressed
  <1>8. QED
    BY <1>3, <1>4, <1>5, <1>6, <1>7 DEF IInv

LEMMA DescribeKeepsInv ==
  ASSUME IInv, NEW i \in Slots, Describe(i)
  PROVE  IInv'
  <1>1. /\ world[i] \in Entity /\ world' = [world EXCEPT ![i].known = TRUE]
        /\ UNCHANGED listVars
    BY DEF Describe, IInv, TypeOK
  <1>2. /\ world'[i] \in Entity
        /\ world'[i].item = world[i].item /\ world'[i].mine = world[i].mine
        /\ world'[i].skin = world[i].skin /\ world'[i].heard = world[i].heard
    BY <1>1 DEF IInv, TypeOK, Entity
  <1>3. \A j \in Slots \ {i} : world'[j] = world[j]
    BY <1>1 DEF IInv, TypeOK
  <1>4. world' \in [Slots -> Entity \union {None}]
    BY <1>1, <1>2 DEF IInv, TypeOK
  <1>5. TypeOK'
    BY <1>4 DEF Describe, listVars, randomVars, IInv, TypeOK
  <1>6. EachOnce' /\ FitsTable'
    BY <1>1 DEF IInv, EachOnce, FitsTable, Live, listVars
  <1>7. TrackedExist' /\ OwnGunsTracked'
    BY <1>1, <1>2, <1>3, NoneIsNoEntity DEF IInv, TrackedExist, OwnGunsTracked, listVars
  <1>8. OnlyOwnDressed'
    BY <1>1, <1>2, <1>3, NoneIsNoEntity DEF IInv, OnlyOwnDressed
  <1>9. QED
    BY <1>5, <1>6, <1>7, <1>8 DEF IInv

LEMMA ShutdownKeepsInv ==
  ASSUME IInv, LevelShutdown
  PROVE  IInv'
  <1>1. \A i \in Slots : world'[i] = None /\ weapons'[i] = 0
    BY DEF LevelShutdown
  <1>2. weapons' \in [Slots -> Nat] /\ size' = 0
    BY DEF LevelShutdown
  <1>3. TypeOK'
    BY DEF LevelShutdown, IInv, TypeOK, randomVars
  <1>4. FitsTable'
    <2>1. Live(weapons') = {}
      BY <1>1 DEF Live
    <2>2. Cardinality(Slots) \in Nat
      BY TrackerAssumption, FS_CardinalityType
    <2>3. QED
      BY <1>2, <2>1, <2>2, FS_EmptySet DEF FitsTable, Live
  <1>5. QED
    BY <1>1, <1>3, <1>4 DEF IInv, TrackedExist, EachOnce, OwnGunsTracked, OnlyOwnDressed

LEMMA FrameKeepsInv ==
  ASSUME IInv, Frame
  PROVE  IInv'
  <1>1. TypeOK
    BY DEF IInv
  <1>2. /\ weapons' \in [Slots -> Nat]
        /\ \A i \in Slots : weapons'[i] = 0 \/ weapons'[i] = weapons[i]
        /\ size' = size
    BY <1>1, FrameEffect DEF Frame
  <1>3. TypeOK'
    BY <1>1, FrameEffect DEF Frame, TypeOK
  <1>4. EachOnce'
    BY <1>2 DEF IInv, EachOnce
  <1>5. FitsTable'
    <2>1. Cardinality(Live(weapons')) <= Cardinality(Live(weapons))
      BY <1>2, LiveShrinks DEF IInv, TypeOK, EachOnce
    <2>2. Cardinality(Live(weapons)) \in Nat /\ Cardinality(Live(weapons')) \in Nat
      BY <1>2, <1>4, LiveIsFinite DEF IInv, TypeOK, EachOnce
    <2>3. QED
      BY <1>2, <2>1, <2>2 DEF IInv, TypeOK, FitsTable, Live
  <1>6. TrackedExist' /\ OwnGunsTracked' /\ OnlyOwnDressed'
    <2>1. ASSUME NEW i \in Slots
          PROVE  /\ weapons'[i] = 0 \/ weapons'[i] = weapons[i]
                 /\ world[i] # None /\ world[i].item \in Guns /\ world[i].mine
                      => weapons'[i] = weapons[i]
                 /\ world[i] = None => world'[i] = None
                 /\ world[i] # None =>
                      /\ world'[i] # None
                      /\ world'[i].item = world[i].item /\ world'[i].mine = world[i].mine
                      /\ world'[i].heard = world[i].heard
                      /\ ~world[i].mine => world'[i] = world[i]
      BY <1>1, FrameEffect
    <2>2. TrackedExist'
      BY <2>1 DEF IInv, TrackedExist
    <2>3. OwnGunsTracked'
      BY <2>1 DEF IInv, OwnGunsTracked
    <2>4. OnlyOwnDressed'
      BY <2>1 DEF IInv, OnlyOwnDressed
    <2>5. QED
      BY <2>2, <2>3, <2>4
  <1>7. QED
    BY <1>3, <1>4, <1>5, <1>6 DEF IInv

\* The steps of the player, the keyboard and the menu, and of levels that start.
LEMMA OthersKeepInv ==
  ASSUME IInv,
         \/ \E i \in Slots : Take(i)
         \/ StartLevel \/ LevelInitPostEntity
         \/ \E t \in Teams \union {None} : Join(t)
         \/ SpawnOrDie \/ Key
         \/ \E t \in Teams, x \in Dressed, k \in Skins \union {None} : Configure(t, x, k)
         \/ \E o \in {"random", "super"} : Toggle(o)
         \/ \E counts \in BOOLEAN : Kill(counts)
         \/ UNCHANGED vars
  PROVE  IInv'
  <1>1. UNCHANGED <<world, weapons, size>>
    BY DEF Take, StartLevel, LevelInitPostEntity, Join, SpawnOrDie, Key, Configure, Toggle,
           Kill, listVars, worldVars, vars
  <1>2. \A k \in Kinds : Spend(k) => used' \in [Kinds -> Nat]
    BY DEF Spend, IInv, TypeOK
  <1>3. TypeOK'
    <2> USE DEF IInv, TypeOK
    <2>1. ASSUME NEW i \in Slots, Take(i) PROVE TypeOK'
      BY <2>1, <1>2 DEF Take, listVars, randomVars, Kinds
    <2>2. CASE StartLevel \/ LevelInitPostEntity
      BY <2>2 DEF StartLevel, LevelInitPostEntity, listVars, randomVars
    <2>3. ASSUME NEW t \in Teams \union {None}, Join(t) PROVE TypeOK'
      BY <2>3 DEF Join, listVars, randomVars
    <2>4. CASE SpawnOrDie
      BY <2>4 DEF SpawnOrDie, listVars, randomVars
    <2>5. CASE Key
      BY <2>5, <1>2 DEF Key, listVars, worldVars, Kinds
    <2>6. ASSUME NEW t \in Teams, NEW x \in Dressed, NEW k \in Skins \union {None},
                 Configure(t, x, k)
          PROVE  TypeOK'
      BY <2>6, <1>2 DEF Configure, listVars, worldVars, randomVars, Kinds
    <2>7. ASSUME NEW o \in {"random", "super"}, Toggle(o) PROVE TypeOK'
      BY <2>7, <1>2 DEF Toggle, listVars, worldVars, randomVars, Kinds
    <2>8. ASSUME NEW counts \in BOOLEAN, Kill(counts) PROVE TypeOK'
      <3>1. kills' \in Nat /\ required' \in BOOLEAN /\ asked' \in Slots \union {None}
        BY <2>8 DEF Kill
      <3>2. used' \in [Kinds -> Nat]
        BY <2>8, <1>2 DEF Kill, Kinds
      <3>3. QED
        BY <2>8, <3>1, <3>2 DEF Kill, listVars, worldVars
    <2>9. CASE UNCHANGED vars
      BY <2>9 DEF vars
    <2>10. QED
      BY <2>1, <2>2, <2>3, <2>4, <2>5, <2>6, <2>7, <2>8, <2>9
  <1>4. QED
    BY <1>1, <1>3, InvFrame

-----------------------------------------------------------------------------
(* The theorems.                                                           *)

LEMMA InitInv == Init => IInv
  <1> SUFFICES ASSUME Init PROVE IInv
    OBVIOUS
  <1>1. TypeOK
    BY TrackerAssumption DEF Init, TypeOK
  <1>2. Live(weapons) = {}
    BY DEF Init, Live
  <1>3. Cardinality(Slots) \in Nat
    BY TrackerAssumption, FS_CardinalityType
  <1>4. FitsTable
    BY <1>2, <1>3, FS_EmptySet DEF Init, FitsTable
  <1>5. QED
    BY <1>1, <1>4 DEF Init, IInv, TrackedExist, EachOnce, OwnGunsTracked, OnlyOwnDressed

LEMMA StepKeepsInv == IInv /\ [Next]_vars => IInv'
  <1> SUFFICES ASSUME IInv, [Next]_vars PROVE IInv'
    OBVIOUS
  <1>1. ASSUME NEW i \in Slots, NEW x \in Items, NEW mine \in BOOLEAN, NEW known \in BOOLEAN,
               Create(i, x, mine, known)
        PROVE  IInv'
    BY <1>1, CreateKeepsInv
  <1>2. ASSUME NEW i \in Slots, Delete(i) PROVE IInv'
    BY <1>2, DeleteKeepsInv
  <1>3. ASSUME NEW i \in Slots, Describe(i) PROVE IInv'
    BY <1>3, DescribeKeepsInv
  <1>4. CASE LevelShutdown
    BY <1>4, ShutdownKeepsInv
  <1>5. CASE Frame
    BY <1>5, FrameKeepsInv
  <1>6. QED
    BY <1>1, <1>2, <1>3, <1>4, <1>5, OthersKeepInv DEF Next

THEOREM Invariance == Spec => []IInv
  BY InitInv, StepKeepsInv, PTL DEF Spec

\* Every variable of the tracker keeps its type, whatever the engine does.
THEOREM TypeCorrect == Spec => []TypeOK
  <1>1. IInv => TypeOK
    BY DEF IInv
  <1>2. QED
    BY Invariance, <1>1, PTL

\* The listener never has an index twice, although the engine reuses indexes and
\* on_entity_deleted drops one element only.
THEOREM EachOnceAlways == Spec => []EachOnce
  <1>1. IInv => EachOnce
    BY DEF IInv
  <1>2. QED
    BY Invariance, <1>1, PTL

\* The vector is never longer than the entity table: -1 elements do not pile up.
THEOREM VectorIsBounded == Spec => []FitsTable
  <1>1. IInv => FitsTable
    BY DEF IInv
  <1>2. QED
    BY Invariance, <1>1, PTL

\* The frames never drop a gun of the player's.
THEOREM OwnGunsStayTracked == Spec => []OwnGunsTracked
  <1>1. IInv => OwnGunsTracked
    BY DEF IInv
  <1>2. QED
    BY Invariance, <1>1, PTL

\* The frames never dress a weapon that was first somebody else's.
THEOREM OthersAreNotDressed == Spec => []OnlyOwnDressed
  <1>1. IInv => OnlyOwnDressed
    BY DEF IInv
  <1>2. QED
    BY Invariance, <1>1, PTL

LEMMA FrameChangesOne ==
  ASSUME TypeOK, Frame, config' # config
  PROVE  /\ ~required'
         /\ \A t \in Teams, x \in Dressed :
              config'[t][x] # config[t][x] => t = team /\ x = world[hand].item
  <1>1. team \in Teams
    BY DEF Frame
  <1> DEFINE on      == "random" \in options
             clicked == on /\ ~pressed /\ down
             wanted  == required \/ clicked
             y       == world[hand].item
             hit     == /\ wanted /\ hand \in Own
                        /\ \/ y \in Guns /\ \E g \in Guns : config[team][g] # None
                           \/ y = "knife"
  <1>2. /\ required' = StillRequired(wanted, hit)
        /\ \E k \in IF hit THEN Kits ELSE {Default} :
             config' = IF hit THEN [config EXCEPT ![team][y] = k] ELSE config
    BY <1>1 DEF Frame
  <1>3. hit
    BY <1>2
  <1>4. ~required'
    BY <1>2, <1>3 DEF StillRequired
  <1>5. PICK k \in Kits : config' = [config EXCEPT ![team][y] = k]
    BY <1>2, <1>3
  <1>6. \A t \in Teams, x \in Dressed :
          config'[t][x] # config[t][x] => t = team /\ x = y
    BY <1>1, <1>5 DEF TypeOK
  <1>7. QED
    BY <1>4, <1>6

\* A request makes one change, of the weapon in hand for the player's team, and
\* is used up by it.
THEOREM RequestsAreUsedUp == Spec => OneChangePerRequest
  <1> DEFINE P == Frame /\ config' # config =>
                    /\ ~required'
                    /\ \A t \in Teams, x \in Dressed :
                         config'[t][x] # config[t][x] => t = team /\ x = world[hand].item
  <1>1. TypeOK => P
    BY FrameChangesOne
  <1>2. Spec => [][P]_vars
    BY <1>1, TypeCorrect, PTL DEF Spec
  <1>3. QED
    BY <1>2 DEF OneChangePerRequest

-----------------------------------------------------------------------------
(* The vector implements the registry.                                     *)

\* A step of the registry, in terms of the tracker.
RegistryStep == [Registry!Next]_<<Present, Owed, Watched>>

LEMMA InitIsEmpty == Init => Registry!Init
  BY DEF Init, Registry!Init, Present, Owed, Watched

LEMMA CreateAnnounces ==
  ASSUME IInv, NEW i \in Slots, NEW x \in Items, NEW mine \in BOOLEAN, NEW known \in BOOLEAN,
         Create(i, x, mine, known)
  PROVE  Registry!Announce(i)
  <1> DEFINE e == [item |-> x, mine |-> mine, known |-> known,
                   skin |-> IF x \in Guns THEN Default ELSE None, heard |-> class_ids]
  <1>1. /\ world[i] = None /\ world' = [world EXCEPT ![i] = e]
        /\ IF IsWeaponByClass(e, class_ids)
           THEN weapons' = [weapons EXCEPT ![i] = @ + 1]
           ELSE weapons' = weapons
    BY DEF Create, on_entity_created, listVars
  <1>2. e \in Entity /\ e.item = x /\ e.heard = class_ids
    BY DEF IInv, TypeOK, Entity, Skins
  <1>3. e # None
    BY <1>2, NoneIsNoEntity
  <1> HIDE DEF e
  <1>4. /\ world'[i] = e /\ weapons[i] = 0
        /\ \A j \in Slots \ {i} : world'[j] = world[j] /\ weapons'[j] = weapons[j]
    BY <1>1 DEF IInv, TypeOK, TrackedExist
  <1>5. i \notin Present /\ Present' = Present \union {i}
    BY <1>1, <1>3, <1>4 DEF Present
  <1>6. CASE IsWeaponByClass(e, class_ids)
    <2>1. weapons'[i] = 1
      BY <1>1, <1>4, <1>6 DEF IInv, TypeOK
    <2>2. Watched' = Watched \union {i}
      BY <1>4, <2>1 DEF Watched
    <2>3. Owed' \in {Owed, Owed \union {i}}
      BY <1>1, <1>4 DEF Owed, Present
    <2>4. QED
      BY <1>5, <2>2, <2>3 DEF Registry!Announce, Present, Owed
  <1>7. CASE ~IsWeaponByClass(e, class_ids)
    <2>1. Watched' = Watched
      BY <1>1, <1>7 DEF Watched
    <2>2. x \notin Guns \/ ~class_ids
      BY <1>2, <1>7, TrackerAssumption DEF IsWeaponByClass
    <2>3. Owed' = Owed
      BY <1>1, <1>2, <1>4, <2>2 DEF Owed, Present
    <2>4. QED
      BY <1>5, <2>1, <2>3 DEF Registry!Announce, Present, Owed
  <1>8. QED
    BY <1>6, <1>7

LEMMA DeleteWithdraws ==
  ASSUME IInv, NEW i \in Slots, Delete(i)
  PROVE  Registry!Withdraw(i)
  <1>1. /\ world[i] # None /\ world' = [world EXCEPT ![i] = None]
        /\ weapons' = IF weapons[i] > 0 THEN [weapons EXCEPT ![i] = @ - 1] ELSE weapons
    BY DEF Delete, on_entity_deleted
  <1>2. /\ world'[i] = None /\ weapons'[i] = 0
        /\ \A j \in Slots \ {i} : world'[j] = world[j] /\ weapons'[j] = weapons[j]
    BY <1>1 DEF IInv, TypeOK, EachOnce
  <1>3. i \in Present /\ Present' = Present \ {i}
    BY <1>1, <1>2 DEF Present
  <1>4. Owed' = Owed \ {i}
    BY <1>2 DEF Owed, Present
  <1>5. Watched' = Watched \ {i}
    BY <1>2 DEF Watched
  <1>6. QED
    BY <1>3, <1>4, <1>5 DEF Registry!Withdraw, Present, Owed

LEMMA FrameForgets ==
  ASSUME IInv, Frame
  PROVE  \E S \in SUBSET Watched : Registry!Forget(S)
  <1>1. TypeOK
    BY DEF IInv
  <1>2. ASSUME NEW i \in Slots
        PROVE  /\ weapons'[i] = 0 \/ weapons'[i] = weapons[i]
               /\ world[i] # None /\ world[i].item \in Guns /\ world[i].mine
                    => weapons'[i] = weapons[i]
               /\ world[i] = None => world'[i] = None
               /\ world[i] # None =>
                    /\ world'[i] # None
                    /\ world'[i].item = world[i].item /\ world'[i].mine = world[i].mine
                    /\ world'[i].heard = world[i].heard
    BY <1>1, FrameEffect
  <1> DEFINE S == Watched \ Watched'
  <1>3. Watched' = Watched \ S
    BY <1>1, <1>2 DEF Watched, TypeOK
  <1>4. S \intersect Owed = {}
    BY <1>2 DEF Watched, Owed, Present
  <1>5. Present' = Present /\ Owed' = Owed
    BY <1>2 DEF Present, Owed
  <1>6. QED
    BY <1>3, <1>4, <1>5 DEF Registry!Forget, Present, Owed

LEMMA StepIsARegistryStep ==
  ASSUME IInv, [Next]_vars
  PROVE  RegistryStep
  <1>1. ASSUME NEW i \in Slots, NEW x \in Items, NEW mine \in BOOLEAN, NEW known \in BOOLEAN,
               Create(i, x, mine, known)
        PROVE  RegistryStep
    BY <1>1, CreateAnnounces DEF RegistryStep, Registry!Next
  <1>2. ASSUME NEW i \in Slots, Delete(i) PROVE RegistryStep
    BY <1>2, DeleteWithdraws DEF RegistryStep, Registry!Next
  <1>3. CASE LevelShutdown
    <2>1. \A i \in Slots : world'[i] = None /\ weapons'[i] = 0
      BY <1>3 DEF LevelShutdown
    <2>2. Present' = {} /\ Owed' = {} /\ Watched' = {}
      BY <2>1 DEF Present, Owed, Watched
    <2>3. QED
      BY <2>2 DEF RegistryStep, Registry!Next, Registry!Clear, Present, Owed
  <1>4. CASE Frame
    BY <1>4, FrameForgets DEF RegistryStep, Registry!Next
  <1>5. ASSUME NEW i \in Slots, Describe(i) PROVE RegistryStep
    <2>1. /\ world[i] \in Entity /\ world' = [world EXCEPT ![i].known = TRUE]
          /\ weapons' = weapons
      BY <1>5 DEF Describe, IInv, TypeOK, listVars
    <2>2. /\ world'[i] \in Entity
          /\ world'[i].item = world[i].item /\ world'[i].mine = world[i].mine
          /\ world'[i].heard = world[i].heard
          /\ \A j \in Slots \ {i} : world'[j] = world[j]
      BY <2>1 DEF IInv, TypeOK, Entity
    <2>3. Present' = Present /\ Owed' = Owed
      BY <2>1, <2>2, NoneIsNoEntity DEF Present, Owed
    <2>4. QED
      BY <2>1, <2>3 DEF RegistryStep, Watched
  <1>6. CASE UNCHANGED <<world, weapons>>
    BY <1>6 DEF RegistryStep, Present, Owed, Watched
  <1>7. ASSUME \/ \E i \in Slots : Take(i)
               \/ StartLevel \/ LevelInitPostEntity
               \/ \E t \in Teams \union {None} : Join(t)
               \/ SpawnOrDie \/ Key
               \/ \E t \in Teams, x \in Dressed, k \in Skins \union {None} : Configure(t, x, k)
               \/ \E o \in {"random", "super"} : Toggle(o)
               \/ \E counts \in BOOLEAN : Kill(counts)
               \/ UNCHANGED vars
        PROVE  UNCHANGED <<world, weapons>>
    BY <1>7 DEF Take, StartLevel, LevelInitPostEntity, Join, SpawnOrDie, Key, Configure,
                Toggle, Kill, listVars, worldVars, vars
  <1>8. QED
    BY <1>1, <1>2, <1>3, <1>4, <1>5, <1>6, <1>7 DEF Next

\* The vector is a registry for every entity table and every behaviour of the
\* engine: a deletion drops one element only, and that is enough because no
\* index is there twice (EachOnce).
THEOREM VectorImplementsRegistry == Spec => VectorIsARegistry
  <1>1. IInv /\ [Next]_vars => [Registry!Next]_<<Present, Owed, Watched>>
    BY StepIsARegistryStep DEF RegistryStep
  <1>2. QED
    BY InitIsEmpty, <1>1, Invariance, PTL DEF Spec, VectorIsARegistry, Registry!Spec
=============================================================================
