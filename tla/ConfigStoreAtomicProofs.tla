----------------------- MODULE ConfigStoreAtomicProofs -----------------------
(***************************************************************************)
(* Proof that ConfigStore implements AtomicStore: a load or a save that no *)
(* other overlaps, three and two steps of a thread here, is one step of    *)
(* the abstract store.                                                     *)
(*                                                                         *)
(* A save takes effect where it merges and opens its file.  It is a read   *)
(* and a write of the same file at once because an undisturbed save still  *)
(* has in settings what its file holds (CleanFetchIsFile), and it is the   *)
(* only access under way (OneClean).                                       *)
(***************************************************************************)
EXTENDS ConfigStoreProofs

\* Only a thread inside a load or a save can have been disturbed.
SpoiledInside == \A th \in spoiled : Busy(th)

\* A file that does not parse says nothing.
EmptyUnlessWhole == \A f \in Files : file[f].state # "whole" => file[f].doc = Null

\* An undisturbed save that has not merged yet has in settings what it read.
CleanFetchIsFile ==
  \A th \in Threads, f \in Files :
    step[th] = "fetched" /\ Doing(th, "write", f) /\ th \notin spoiled
      => settings = IF f = "other" THEN Null ELSE file[f].doc

\* What an undisturbed save has opened is torn until it closes it.
CleanOpenIsTorn == \A f \in Files : Sound(f) # {} => file[f] = Torn

AtomicInv ==
  /\ IInv
  /\ SpoiledInside /\ EmptyUnlessWhole /\ CleanFetchIsFile /\ CleanOpenIsTorn

-----------------------------------------------------------------------------
(* Who has which file open.                                                 *)

LEMMA AccessWriters ==
  ASSUME IInv, NEW th \in Threads, NEW f \in Files, Access(th, f), NEW g \in Files
  PROVE  Writers(g)' = IF g # f THEN Writers(g)
                       ELSE IF MergeAndOpen(th, f) THEN Writers(g) \union {th}
                       ELSE Writers(g) \ {th}
  <1>0. /\ todo[th] # <<>> /\ Job(th).file = f
        /\ \A u \in Threads \ {th} : todo'[u] = todo[u] /\ step'[u] = step[u]
        /\ step'[th] # "begin" => todo'[th] = todo[th]
    BY AccessShape DEF IInv
  <1>1. \A u \in Threads \ {th} : u \in Writers(g)' <=> u \in Writers(g)
    BY <1>0 DEF Writers, Doing, Job
  <1>2. g # f => th \notin Writers(g)
    BY <1>0 DEF Writers, Doing, Job
  <1>3. g # f => th \notin Writers(g)'
    BY <1>0 DEF Writers, Doing, Job
  <1>4. MergeAndOpen(th, f) => th \in Writers(f)'
    BY DEF MergeAndOpen, Goto, Writers, Doing, Job, IInv, TypeOK
  <1>5. ~ MergeAndOpen(th, f) => th \notin Writers(f)'
    BY DEF Access, FetchToWrite, OpenFails, Flush, FetchToRead, Apply, Finish, Goto, At,
           Writers, IInv, TypeOK
  <1>6. Writers(g) \subseteq Threads /\ Writers(g)' \subseteq Threads
    BY DEF Writers
  <1>7. QED
    BY <1>1, <1>2, <1>3, <1>4, <1>5, <1>6

\* A thread about to read, merge or apply has no file open.
LEMMA NotAWriter ==
  ASSUME NEW th \in Threads, step[th] # "opened", NEW g \in Files
  PROVE  th \notin Writers(g)
  BY DEF Writers

\* A thread that nothing disturbed is the only one whose save can be sound.
LEMMA SoundIsOne ==
  ASSUME IInv, NEW th \in Threads, Busy(th), th \notin spoiled, NEW g \in Files
  PROVE  Sound(g) \subseteq {th}
  BY DEF IInv, OneClean, Sound, Writers, Busy

\* What disturbs everybody else leaves no save sound but one's own.
LEMMA DisturbedSound ==
  ASSUME IInv, NEW th \in Threads, NEW f \in Files, Access(th, f), NEW g \in Files,
         Disturb(Threads, th) \subseteq spoiled'
  PROVE  Sound(g)' \subseteq {th}
  <1>1. \A u \in Writers(g) \ {th} : u \in spoiled'
    BY DEF Writers, Disturb, Busy
  <1>2. QED
    BY <1>1, AccessWriters DEF Sound

-----------------------------------------------------------------------------
(* The invariant.                                                           *)

LEMMA InitAtomicInv == Init => AtomicInv
  <1> SUFFICES ASSUME Init PROVE AtomicInv
    OBVIOUS
  <1>1. SpoiledInside /\ CleanFetchIsFile /\ CleanOpenIsTorn
    BY DEF Init, SpoiledInside, CleanFetchIsFile, CleanOpenIsTorn, Sound, Writers
  <1>2. EmptyUnlessWhole
    BY ConstantsAssumption DEF Init, EmptyUnlessWhole, Disk, Missing, Torn, Whole
  <1>3. QED
    BY <1>1, <1>2, InitIInv DEF AtomicInv

LEMMA AccessSpoiledInside ==
  ASSUME IInv, SpoiledInside, NEW th \in Threads, NEW f \in Files, Access(th, f)
  PROVE  SpoiledInside'
  <1>0. \A u \in Threads \ {th} : step'[u] = step[u]
    BY AccessShape DEF IInv
  <1>1. \A u \in spoiled' \ {th} : Busy(u)
    BY DEF Access, FetchToWrite, MergeAndOpen, OpenFails, Flush, FetchToRead, Apply, Disturb,
           SpoiledInside
  <1>2. th \in spoiled' => step'[th] # "begin"
    BY DEF Access, FetchToWrite, MergeAndOpen, OpenFails, Flush, FetchToRead, Apply, Disturb,
           SpoiledInside, Busy, Goto, At, IInv, TypeOK
  <1>3. spoiled' \subseteq Threads
    BY FileStepType DEF Access, IInv, TypeOK
  <1>4. QED
    BY <1>0, <1>1, <1>2, <1>3 DEF SpoiledInside, Busy

LEMMA AccessEmptyUnlessWhole ==
  ASSUME IInv, EmptyUnlessWhole, NEW th \in Threads, NEW f \in Files, Access(th, f)
  PROVE  EmptyUnlessWhole'
  <1>1. CASE MergeAndOpen(th, f) \/ Flush(th, f)
    BY <1>1 DEF MergeAndOpen, Flush, EmptyUnlessWhole, Torn, Whole, IInv, TypeOK
  <1>2. CASE UNCHANGED file
    BY <1>2 DEF EmptyUnlessWhole
  <1>3. QED
    BY <1>1, <1>2 DEF Access, FetchToWrite, OpenFails, FetchToRead, Apply

LEMMA AccessCleanFetch ==
  ASSUME IInv, CleanFetchIsFile, NEW th \in Threads, NEW f \in Files, Access(th, f)
  PROVE  CleanFetchIsFile'
  <1> SUFFICES ASSUME NEW u \in Threads, NEW g \in Files,
                      (step[u] = "fetched")', Doing(u, "write", g)', u \notin spoiled'
               PROVE  (settings = IF g = "other" THEN Null ELSE file[g].doc)'
    BY DEF CleanFetchIsFile
  <1>0. /\ \A w \in Threads \ {th} : todo'[w] = todo[w] /\ step'[w] = step[w]
        /\ step'[th] # "begin" => todo'[th] = todo[th]
    BY AccessShape DEF IInv
  <1>1. CASE u # th
    <2>1. step[u] = "fetched" /\ Doing(u, "write", g) /\ Busy(u)
      BY <1>0, <1>1 DEF Doing, Job, Busy
    <2>2. u \notin spoiled /\ UNCHANGED settings
      BY <1>1, <2>1 DEF Access, FetchToWrite, MergeAndOpen, OpenFails, Flush, FetchToRead,
                        Apply, Disturb
    <2>3. file'[g] = file[g]
      <3>1. CASE Flush(th, f)
        <4>1. g # f
          BY <1>1, <2>1, <3>1 DEF Flush, Disturb, OnFile, Doing, Job
        <4>2. QED
          BY <3>1, <4>1 DEF Flush, IInv, TypeOK
      <3>2. CASE MergeAndOpen(th, f)
        BY <1>1, <2>1, <3>2 DEF MergeAndOpen, Disturb
      <3>3. QED
        BY <3>1, <3>2 DEF Access, FetchToWrite, OpenFails, FetchToRead, Apply
    <2>4. QED
      BY <2>1, <2>2, <2>3 DEF CleanFetchIsFile
  <1>2. CASE u = th
    <2>1. FetchToWrite(th, f)
      BY <1>0, <1>2 DEF Access, FetchToWrite, MergeAndOpen, OpenFails, Flush, FetchToRead,
                        Apply, Finish, Goto, Doing, Job, IInv, TypeOK
    <2>2. g = f
      BY <1>0, <1>2, <2>1 DEF FetchToWrite, Doing, Job
    <2>3. QED
      BY <2>1, <2>2 DEF FetchToWrite
  <1>3. QED
    BY <1>1, <1>2

LEMMA AccessCleanOpen ==
  ASSUME IInv, CleanOpenIsTorn, NEW th \in Threads, NEW f \in Files, Access(th, f)
  PROVE  CleanOpenIsTorn'
  <1> SUFFICES ASSUME NEW g \in Files, NEW u \in Sound(g)' PROVE file'[g] = Torn
    BY DEF CleanOpenIsTorn
  <1>1. CASE MergeAndOpen(th, f)
    <2>1. u = th
      BY <1>1, DisturbedSound DEF MergeAndOpen
    <2>2. g = f
      BY <1>1, <2>1, AccessWriters, NotAWriter DEF Sound, MergeAndOpen, At
    <2>3. QED
      BY <1>1, <2>2 DEF MergeAndOpen, IInv, TypeOK
  <1>2. CASE ~ MergeAndOpen(th, f)
    <2>1. u # th /\ u \in Writers(g)
      BY <1>2, AccessWriters, AccessShape DEF Sound, Writers, Doing, Job, IInv
    <2>2. u \notin spoiled
      BY <2>1 DEF Access, FetchToWrite, MergeAndOpen, OpenFails, Flush, FetchToRead, Apply,
                  Disturb, Sound
    <2>3. file[g] = Torn
      BY <2>1, <2>2 DEF CleanOpenIsTorn, Sound
    <2>4. CASE Flush(th, f)
      <3>1. g # f
        BY <2>1, <2>4 DEF Flush, Disturb, OnFile, Sound, Writers, Doing, Job, Busy
      <3>2. QED
        BY <2>3, <2>4, <3>1 DEF Flush, IInv, TypeOK
    <2>5. CASE UNCHANGED file
      BY <2>3, <2>5
    <2>6. QED
      BY <1>2, <2>4, <2>5 DEF Access, FetchToWrite, OpenFails, FetchToRead, Apply
  <1>3. QED
    BY <1>1, <1>2

LEMMA OutsideWriters ==
  ASSUME IInv, Outside, NEW g \in Files
  PROVE  Writers(g)' = Writers(g) /\ Sound(g)' = Sound(g)
  BY DEF Outside, Writers, Sound, Doing, Job, Busy, IInv, BusyHasJob

LEMMA OutsideAtomicInv ==
  ASSUME AtomicInv, Outside
  PROVE  SpoiledInside' /\ EmptyUnlessWhole' /\ CleanFetchIsFile' /\ CleanOpenIsTorn'
  <1>1. SpoiledInside' /\ EmptyUnlessWhole'
    BY DEF AtomicInv, Outside, SpoiledInside, EmptyUnlessWhole, Busy
  <1>2. CleanFetchIsFile'
    BY DEF AtomicInv, Outside, CleanFetchIsFile, Doing, Job, Busy, IInv, BusyHasJob
  <1>3. CleanOpenIsTorn'
    BY OutsideWriters DEF AtomicInv, Outside, CleanOpenIsTorn
  <1>4. QED
    BY <1>1, <1>2, <1>3

LEMMA NextAtomicInv == AtomicInv /\ [Next]_vars => AtomicInv'
  <1> SUFFICES ASSUME AtomicInv, [Next]_vars PROVE AtomicInv'
    OBVIOUS
  <1>0. IInv'
    BY NextIInv DEF AtomicInv
  <1>1. ASSUME NEW th \in Threads, NEW f \in Files, Access(th, f) PROVE AtomicInv'
    BY <1>0, <1>1, AccessSpoiledInside, AccessEmptyUnlessWhole, AccessCleanFetch,
       AccessCleanOpen DEF AtomicInv
  <1>2. CASE Loops \/ Menu \/ Start \/ Loaded \/ Detach
    BY <1>0, <1>2, LoopsOutside, MenuOutside, LifeOutside, OutsideAtomicInv DEF AtomicInv
  <1>3. CASE Detached \/ Kill
    <2>1. Forget
      BY <1>3 DEF Detached, Kill
    <2>2. SpoiledInside' /\ EmptyUnlessWhole' /\ CleanFetchIsFile' /\ CleanOpenIsTorn'
      BY <2>1 DEF Forget, AtomicInv, SpoiledInside, EmptyUnlessWhole, CleanFetchIsFile,
                  CleanOpenIsTorn, Sound, Writers
    <2>3. QED
      BY <1>0, <2>2 DEF AtomicInv
  <1>4. CASE UNCHANGED vars
    BY <1>0, <1>4 DEF vars, AtomicInv, SpoiledInside, EmptyUnlessWhole, CleanFetchIsFile,
                      CleanOpenIsTorn, Sound, Writers, Busy, Doing, Job
  <1>5. QED
    BY <1>1, <1>2, <1>3, <1>4 DEF Next, FileStep, Access, Loops

-----------------------------------------------------------------------------
(* The abstract state.                                                      *)

Inside == {th \in Threads : Busy(th)}

\* A file as the abstract store sees it, before or after a step.
LEMMA DiskOf ==
  ASSUME NEW g \in Files
  PROVE  /\ AtomicDisk[g] = Content(g, IF Sound(g) # {} THEN Whole(settings) ELSE file[g])
         /\ AtomicDisk'[g] = Content(g, IF Sound(g)' # {} THEN Whole(settings') ELSE file'[g])
         /\ g \in AtomicOpen <=> Sound(g) # {}
         /\ g \in AtomicOpen' <=> Sound(g)' # {}
         /\ g \in AtomicDamaged <=> Sound(g) = {} /\ (g \in suspect \/ Writers(g) # {})
         /\ g \in AtomicDamaged' <=> Sound(g)' = {} /\ (g \in suspect' \/ Writers(g)' # {})
  BY DEF AtomicDisk, AtomicOpen, AtomicDamaged, Content

LEMMA StateShape ==
  /\ AtomicOpen \subseteq Files /\ AtomicDamaged \subseteq Files
  /\ AtomicOpen' \subseteq Files /\ AtomicDamaged' \subseteq Files
  /\ DOMAIN AtomicDisk = Files /\ DOMAIN AtomicDisk' = Files
  /\ AtomicDisk = [g \in Files |-> AtomicDisk[g]]
  /\ AtomicDisk' = [g \in Files |-> AtomicDisk'[g]]
  BY DEF AtomicOpen, AtomicDamaged, AtomicDisk

LEMMA ContentType ==
  ASSUME NEW g \in Files, NEW d \in [state : {"missing", "torn", "whole"}, doc : Json]
  PROVE  Content(g, d) \in Atomic!Contents
  <1> USE DEF Atomic!Contents
  <1>1. d.doc \in Json /\ d.state \in {"missing", "torn", "whole"}
    OBVIOUS
  <1>2. Content(g, d).value \in (Kits \union Switch) \union {None}
    BY <1>1 DEF Content, AsBool, Switch, Json
  <1>3. Content(g, d).kept \in SUBSET (Kits \union Switch)
    BY <1>1 DEF Content, Json
  <1>4. QED
    BY <1>1, <1>2, <1>3 DEF Content

LEMMA DiskIsTyped ==
  ASSUME TypeOK'
  PROVE  AtomicDisk' \in [Files -> Atomic!Contents]
  <1>1. ASSUME NEW g \in Files PROVE AtomicDisk'[g] \in Atomic!Contents
    <2>1. Whole(settings') \in [state : {"missing", "torn", "whole"}, doc : Json]
      BY DiskType DEF TypeOK
    <2>2. file'[g] \in [state : {"missing", "torn", "whole"}, doc : Json]
      BY DEF TypeOK
    <2>3. QED
      BY <2>1, <2>2, DiskOf, ContentType
  <1>2. QED
    BY <1>1, StateShape

-----------------------------------------------------------------------------
(* The steps.                                                               *)

\* Whoever takes a step inside the store overlaps with those that are inside.
LEMMA AccessTurn ==
  ASSUME AtomicInv, NEW th \in Threads, NEW f \in Files, Access(th, f)
  PROVE  Atomic!Turn
  <1>0. Inside' \ {th} = Inside \ {th}
    BY AccessShape DEF Inside, Busy, AtomicInv, IInv
  <1>1. spoiled' \subseteq Inside'
    <2>1. spoiled' \subseteq Threads
      BY FileStepType DEF Access, AtomicInv, IInv, TypeOK
    <2>2. QED
      BY <2>1, AccessSpoiledInside DEF AtomicInv, SpoiledInside, Inside
  <1>2. \A u \in spoiled' \ spoiled : u # th => u \in Inside
    BY DEF Access, FetchToWrite, MergeAndOpen, OpenFails, Flush, FetchToRead, Apply, Disturb,
           Inside
  <1>3. th \in spoiled' \ spoiled => \E v \in Inside : v # th
    <2> SUFFICES ASSUME th \in spoiled', th \notin spoiled PROVE \E v \in Inside : v # th
      OBVIOUS
    <2>1. OnFile(f) # {} /\ step[th] = "begin"
      BY DEF Access, FetchToWrite, MergeAndOpen, OpenFails, Flush, FetchToRead, Apply, Disturb, At
    <2>2. QED
      BY <2>1 DEF OnFile, Inside, Busy
  <1>4. spoiled' \ spoiled \subseteq IF Inside \subseteq {th} THEN {} ELSE Inside \union {th}
    BY <1>2, <1>3
  <1>5. QED
    BY <1>0, <1>1, <1>4 DEF Atomic!Turn, Inside

\* A step that writes no file and disturbs the others, with the files E given up.
LEMMA DisturbingStep ==
  ASSUME AtomicInv, TypeOK', UNCHANGED <<file, memory, stale>>,
         NEW E \in SUBSET Files, suspect' = suspect \union E,
         \A g \in Files : Writers(g)' = Writers(g) /\ Sound(g)' = {},
         AtomicOpen # {} => spoiled' # {}
  PROVE  \/ AtomicOpen # {} /\ Atomic!Overlap
         \/ AtomicOpen = {} /\ AtomicDamaged' = AtomicDamaged \union E
            /\ UNCHANGED <<memory, AtomicDisk, stale, AtomicOpen>>
  <1>1. AtomicOpen' = {}
    BY DEF AtomicOpen
  <1>2. CASE AtomicOpen # {}
    <2>1. AtomicDamaged \subseteq AtomicDamaged' /\ AtomicOpen \subseteq AtomicDamaged'
      BY StateShape, DiskOf DEF Sound
    <2>2. \A g \in Files \ AtomicDamaged' : AtomicDisk'[g] = AtomicDisk[g]
      BY DiskOf DEF Sound
    <2>3. QED
      BY <1>1, <1>2, <2>1, <2>2, DiskIsTyped, StateShape DEF Atomic!Overlap
  <1>3. CASE AtomicOpen = {}
    <2>1. \A g \in Files : AtomicDisk'[g] = AtomicDisk[g]
      BY <1>3, DiskOf
    <2>2. AtomicDisk' = AtomicDisk
      BY <2>1, StateShape
    <2>3. AtomicDamaged' = AtomicDamaged \union E
      BY <1>3, StateShape, DiskOf
    <2>4. QED
      BY <1>1, <1>3, <2>2, <2>3
  <1>4. QED
    BY <1>2, <1>3

\* What a step of the abstract store does to it, apart from who is inside.
Effect ==
  \/ UNCHANGED <<memory, AtomicDisk, stale, AtomicDamaged, AtomicOpen>>
  \/ \E f \in Files : Atomic!Load(f) \/ Atomic!Save(f) \/ Atomic!Refuse(f)
  \/ Atomic!Change \/ Atomic!Close \/ Atomic!Overlap

\* A save that has an open file, and is disturbed, shows that accesses overlap.
LEMMA OpenIsCrossed ==
  ASSUME NEW th \in Threads, Disturb(Threads, th) \subseteq spoiled', step[th] # "opened",
         AtomicOpen # {}
  PROVE  spoiled' # {}
  <1>1. PICK g \in Files : Sound(g) # {}
    BY DEF AtomicOpen
  <1>2. PICK u \in Writers(g) : u \in Threads /\ Busy(u)
    BY <1>1 DEF Sound, Writers, Busy
  <1>3. u # th
    BY <1>2 DEF Writers
  <1>4. QED
    BY <1>2, <1>3 DEF Disturb

LEMMA FetchToWriteEffect ==
  ASSUME AtomicInv, TypeOK', NEW th \in Threads, NEW f \in Files, FetchToWrite(th, f)
  PROVE  Effect
  <1>0. Access(th, f) /\ step[th] # "opened" /\ Disturb(Threads, th) \subseteq spoiled'
        /\ ~ MergeAndOpen(th, f) /\ UNCHANGED <<file, memory, stale>>
    BY DEF Access, FetchToWrite, MergeAndOpen, At
  <1>1. \A g \in Files : Writers(g)' = Writers(g) /\ Sound(g)' = {}
    BY <1>0, AccessWriters, NotAWriter, DisturbedSound DEF AtomicInv, Sound
  <1>2. PICK E \in {{}, {f}} : suspect' = suspect \union E
    <2>1. suspect' = suspect \union {} \/ suspect' = suspect \union {f}
      BY DEF FetchToWrite
    <2>2. QED
      BY <2>1
  <1>3. AtomicOpen # {} => spoiled' # {}
    BY <1>0, OpenIsCrossed
  <1>4. \/ Atomic!Overlap
        \/ AtomicOpen = {} /\ AtomicDamaged' = AtomicDamaged \union E
            /\ UNCHANGED <<memory, AtomicDisk, stale, AtomicOpen>>
    BY <1>0, <1>1, <1>2, <1>3, DisturbingStep
  <1>5. QED
    BY <1>2, <1>4 DEF Effect, Atomic!Refuse

LEMMA OpenFailsEffect ==
  ASSUME AtomicInv, TypeOK', NEW th \in Threads, NEW f \in Files, OpenFails(th, f)
  PROVE  Effect
  <1>0. Access(th, f) /\ step[th] # "opened" /\ Disturb(Threads, th) \subseteq spoiled'
        /\ ~ MergeAndOpen(th, f) /\ UNCHANGED <<file, memory, stale>>
        /\ suspect' = suspect \union {f}
    BY DEF Access, OpenFails, MergeAndOpen, At, Goto, Finish, AtomicInv, IInv, TypeOK
  <1>1. \A g \in Files : Writers(g)' = Writers(g) /\ Sound(g)' = {}
    BY <1>0, AccessWriters, NotAWriter, DisturbedSound DEF AtomicInv, Sound
  <1>2. AtomicOpen # {} => spoiled' # {}
    BY <1>0, OpenIsCrossed
  <1>3. \/ Atomic!Overlap
        \/ AtomicOpen = {} /\ AtomicDamaged' = AtomicDamaged \union {f}
            /\ UNCHANGED <<memory, AtomicDisk, stale, AtomicOpen>>
    BY <1>0, <1>1, <1>2, DisturbingStep
  <1>4. QED
    BY <1>3 DEF Effect, Atomic!Refuse

LEMMA FetchToReadEffect ==
  ASSUME AtomicInv, TypeOK', NEW th \in Threads, NEW f \in Files, FetchToRead(th, f)
  PROVE  Effect
  <1>0. Access(th, f) /\ step[th] # "opened" /\ ~ MergeAndOpen(th, f)
        /\ UNCHANGED <<file, memory, stale, suspect>>
    BY DEF Access, FetchToRead, MergeAndOpen, At
  <1>1. \A g \in Files : Writers(g)' = Writers(g)
    BY <1>0, AccessWriters, NotAWriter DEF AtomicInv
  <1>2. CASE UNCHANGED <<settings, spoiled>>
    <2>1. \A g \in Files : Sound(g)' = Sound(g)
      BY <1>1, <1>2 DEF Sound
    <2>2. UNCHANGED <<AtomicOpen, AtomicDamaged>>
      BY <1>0, <1>1, <2>1, StateShape, DiskOf
    <2>3. \A g \in Files : AtomicDisk'[g] = AtomicDisk[g]
      BY <1>0, <1>2, <2>1, DiskOf
    <2>4. QED
      BY <1>0, <2>2, <2>3, StateShape DEF Effect
  <1>3. CASE Disturb(Threads, th) \subseteq spoiled'
    <2>1. \A g \in Files : Sound(g)' = {}
      BY <1>0, <1>1, <1>3, NotAWriter, DisturbedSound DEF AtomicInv, Sound
    <2>2. AtomicOpen # {} => spoiled' # {}
      BY <1>0, <1>3, OpenIsCrossed
    <2>3. \/ Atomic!Overlap
          \/ AtomicOpen = {} /\ AtomicDamaged' = AtomicDamaged \union {}
             /\ UNCHANGED <<memory, AtomicDisk, stale, AtomicOpen>>
      BY <1>0, <1>1, <2>1, <2>2, DisturbingStep
    <2>4. QED
      BY <2>3 DEF Effect
  <1>4. QED
    BY <1>2, <1>3 DEF FetchToRead

\* What a save merges, read from its file, is the file with memory put into it.
LEMMA MergedIsPut ==
  ASSUME AtomicInv, NEW f \in Files, AtomicDisk[f] = Content(f, file[f]),
         settings = IF f = "other" THEN Null ELSE file[f].doc
  PROVE  Content(f, Whole(Merged(settings, f))) = Atomic!Put(f)
  <1>0. /\ Null \in Json /\ Null.hist = {} /\ Null.last = None
        /\ Whole(Merged(settings, f)).state = "whole"
        /\ Whole(Merged(settings, f)).doc = Merged(settings, f)
    BY DiskType DEF Whole, Null
  <1>1. CASE f \in SkinFiles
    <2>1. settings \in Json /\ settings = file[f].doc /\ f # "other"
      BY <1>1 DEF SkinFiles, AtomicInv, IInv, TypeOK
    <2>2. file[f].state # "whole" => settings.last = None /\ settings.hist = {}
      BY <1>0, <2>1 DEF AtomicInv, EmptyUnlessWhole
    <2>3. CASE memory[f] = None
      <3>1. Merged(settings, f) = settings
        BY <1>1, <2>3 DEF Merged, PutSkin
      <3>2. Content(f, Whole(Merged(settings, f)))
              = [state |-> "whole", value |-> settings.last, kept |-> settings.hist]
        BY <1>0, <1>1, <3>1 DEF Content
      <3>3. AtomicDisk[f] = [state |-> file[f].state, value |-> settings.last, kept |-> settings.hist]
        BY <1>1, <2>1, <2>2 DEF Content
      <3>4. Atomic!Put(f) = [AtomicDisk[f] EXCEPT !.state = "whole"]
        BY <2>3 DEF Atomic!Put
      <3>5. QED
        BY <3>2, <3>3, <3>4
    <2>4. CASE memory[f] # None
      <3>1. /\ Merged(settings, f).last = memory[f]
            /\ Merged(settings, f).hist = settings.hist \union {memory[f]}
        BY <1>1, <2>1, <2>4 DEF Merged, PutSkin, Json
      <3>2. AtomicDisk[f].kept = settings.hist
        BY <1>1, <2>1 DEF Content
      <3>3. QED
        BY <1>0, <1>1, <2>4, <3>1, <3>2 DEF Content, Atomic!Put
    <2>5. QED
      BY <2>3, <2>4
  <1>2. CASE f = "sounds"
    <2>1. Merged(settings, f).sounds = memory[f] /\ f \notin SkinFiles
      BY <1>2 DEF Merged, PutSounds, SkinFiles, AtomicInv, IInv, TypeOK, Json
    <2>2. memory[f] # None /\ AsBool(memory[f]) = memory[f]
      BY <1>2, ConstantsAssumption DEF AsBool, AtomicInv, IInv, TypeOK
    <2>3. QED
      BY <1>0, <1>2, <2>1, <2>2 DEF Content, Atomic!Put
  <1>3. CASE f = "other"
    <2>1. Merged(settings, f).other = memory[f] /\ f \notin SkinFiles /\ f # "sounds"
      BY <1>3 DEF Merged, PutOptions, SkinFiles, AtomicInv, IInv, TypeOK, Json
    <2>2. memory[f] # None
      BY <1>3, ConstantsAssumption DEF AtomicInv, IInv, TypeOK
    <2>3. QED
      BY <1>0, <1>3, <2>1, <2>2 DEF Content, Atomic!Put
  <1>4. QED
    BY <1>1, <1>2, <1>3 DEF Files

LEMMA MergeAndOpenEffect ==
  ASSUME AtomicInv, TypeOK', NEW th \in Threads, NEW f \in Files, MergeAndOpen(th, f)
  PROVE  Effect
  <1>0. /\ Access(th, f) /\ Busy(th) /\ step[th] = "fetched" /\ Doing(th, "write", f)
        /\ UNCHANGED <<memory, suspect>> /\ stale' = stale \ {f}
        /\ settings' = Merged(settings, f) /\ \A g \in Files \ {f} : file'[g] = file[g]
        /\ Disturb(Threads, th) \subseteq spoiled' /\ (th \in spoiled <=> th \in spoiled')
    BY DEF Access, MergeAndOpen, At, Busy, Disturb, AtomicInv, IInv, TypeOK
  <1>1. /\ \A g \in Files \ {f} : Writers(g)' = Writers(g)
        /\ Writers(f)' = Writers(f) \union {th}
        /\ \A g \in Files : th \notin Writers(g) /\ Sound(g)' \subseteq {th}
    BY <1>0, AccessWriters, NotAWriter, DisturbedSound DEF AtomicInv
  <1>2. \A g \in Files \ {f} : Sound(g)' = {}
    BY <1>1 DEF Sound
  <1>3. CASE th \in spoiled
    <2>1. Sound(f)' = {}
      BY <1>0, <1>1, <1>3 DEF Sound
    <2>2. /\ f \in AtomicDamaged' /\ AtomicOpen' = {}
          /\ AtomicDamaged \subseteq AtomicDamaged' /\ AtomicOpen \subseteq AtomicDamaged'
      BY <1>0, <1>1, <1>2, <2>1, StateShape, DiskOf DEF Sound
    <2>3. \A g \in Files \ AtomicDamaged' : AtomicDisk'[g] = AtomicDisk[g]
      <3> SUFFICES ASSUME NEW g \in Files \ AtomicDamaged' PROVE AtomicDisk'[g] = AtomicDisk[g]
        OBVIOUS
      <3>1. g # f /\ Sound(g)' = {} /\ Sound(g) = {}
        BY <1>1, <1>2, <2>2, DiskOf DEF Sound
      <3>2. QED
        BY <1>0, <3>1, DiskOf
    <2>4. Atomic!Overlap
      BY <1>0, <1>3, <2>2, <2>3, DiskIsTyped, StateShape DEF Atomic!Overlap
    <2>5. QED
      BY <2>4 DEF Effect
  <1>4. CASE th \notin spoiled
    <2>1. \A g \in Files : Sound(g) = {}
      BY <1>0, <1>1, <1>4, SoundIsOne DEF AtomicInv, Sound
    <2>2. Sound(f)' = {th}
      BY <1>0, <1>1, <1>4 DEF Sound
    <2>3. AtomicOpen = {} /\ AtomicOpen' = {f}
      BY <1>2, <2>1, <2>2, StateShape, DiskOf
    <2>4. AtomicDamaged' = AtomicDamaged \ {f}
      BY <1>0, <1>1, <1>2, <2>1, <2>2, StateShape, DiskOf
    <2>5. \A g \in Files \ {f} : AtomicDisk'[g] = AtomicDisk[g]
      BY <1>0, <1>2, <2>1, DiskOf
    <2>6. AtomicDisk'[f] = Atomic!Put(f)
      <3>1. AtomicDisk[f] = Content(f, file[f])
        BY <2>1, DiskOf
      <3>2. settings = IF f = "other" THEN Null ELSE file[f].doc
        BY <1>0, <1>4 DEF AtomicInv, CleanFetchIsFile
      <3>3. AtomicDisk'[f] = Content(f, Whole(Merged(settings, f)))
        BY <1>0, <2>2, DiskOf
      <3>4. QED
        BY <3>1, <3>2, <3>3, MergedIsPut
    <2>7. AtomicDisk' = [AtomicDisk EXCEPT ![f] = Atomic!Put(f)]
      BY <2>5, <2>6, StateShape
    <2>8. Atomic!Save(f)
      BY <1>0, <2>3, <2>4, <2>7 DEF Atomic!Save
    <2>9. QED
      BY <2>8 DEF Effect
  <1>5. QED
    BY <1>3, <1>4

LEMMA FlushEffect ==
  ASSUME AtomicInv, TypeOK', NEW th \in Threads, NEW f \in Files, Flush(th, f)
  PROVE  Effect
  <1>0. /\ Access(th, f) /\ ~ MergeAndOpen(th, f) /\ Busy(th) /\ th \in Writers(f)
        /\ UNCHANGED <<memory, settings, stale>> /\ \A g \in Files \ {f} : file'[g] = file[g]
        /\ \A g \in Files \ {f} : g \in suspect' <=> g \in suspect
        /\ spoiled' = Disturb(OnFile(f), th)
    BY DEF Access, Flush, MergeAndOpen, At, Busy, Writers, AtomicInv, IInv, TypeOK
  <1>1. /\ \A g \in Files \ {f} : Writers(g)' = Writers(g) /\ th \notin Writers(g)
        /\ Writers(f)' = Writers(f) \ {th}
    BY <1>0, AccessWriters DEF AtomicInv, Writers, Doing
  <1>2. Sound(f)' = {}
    BY <1>0, <1>1 DEF Sound, Disturb, OnFile, Writers, Doing, Job, Busy
  <1>3. \A g \in Files \ {f} : Sound(g)' = Sound(g)
    <2> SUFFICES ASSUME NEW g \in Files \ {f}, NEW u \in Writers(g)
                 PROVE  u \in spoiled' <=> u \in spoiled
      BY <1>1 DEF Sound
    <2>1. u \in Threads /\ u # th /\ u \notin OnFile(f)
      BY <1>1 DEF Writers, Doing, OnFile
    <2>2. QED
      BY <1>0, <2>1 DEF Disturb
  <1>4. AtomicOpen' = AtomicOpen \ {f}
    BY <1>2, <1>3, StateShape, DiskOf
  <1>5. \A g \in Files \ {f} : /\ AtomicDisk'[g] = AtomicDisk[g]
                               /\ g \in AtomicDamaged' <=> g \in AtomicDamaged
    BY <1>0, <1>1, <1>3, DiskOf
  <1>6. CASE f \in AtomicDamaged' /\ spoiled # {}
    <2>1. AtomicDamaged \subseteq AtomicDamaged' /\ AtomicOpen' = AtomicOpen \ AtomicDamaged'
      BY <1>4, <1>5, <1>6, StateShape, DiskOf
    <2>2. Atomic!Overlap
      BY <1>0, <1>5, <1>6, <2>1, DiskIsTyped, StateShape DEF Atomic!Overlap
    <2>3. QED
      BY <2>2 DEF Effect
  <1>7. CASE th \in spoiled
    BY <1>2, <1>6, <1>7, DiskOf DEF Flush
  <1>8. CASE th \notin spoiled
    <2>1. Sound(f) = {th} /\ \A g \in Files \ {f} : Sound(g) = {}
      BY <1>0, <1>1, <1>8, SoundIsOne DEF AtomicInv, Sound
    <2>2. file'[f] = Whole(settings) /\ f \notin suspect'
      BY <1>8 DEF Flush, AtomicInv, IInv, TypeOK
    <2>3. AtomicDisk'[f] = AtomicDisk[f]
      BY <1>0, <1>2, <2>1, <2>2, DiskOf
    <2>4. CASE Writers(f)' # {}
      <3>1. PICK u \in Writers(f) : u # th
        BY <1>1, <2>4
      <3>2. u \in spoiled
        BY <2>1, <3>1 DEF Sound
      <3>3. QED
        BY <1>2, <1>6, <2>4, <3>2, DiskOf
    <2>5. CASE Writers(f)' = {}
      <3>1. AtomicDamaged' = AtomicDamaged
        BY <1>5, <2>1, <2>2, <2>5, StateShape, DiskOf
      <3>2. AtomicDisk' = AtomicDisk
        BY <1>5, <2>3, StateShape
      <3>3. AtomicOpen = {f}
        BY <2>1, StateShape, DiskOf
      <3>4. Atomic!Close
        BY <1>0, <1>4, <3>1, <3>2, <3>3 DEF Atomic!Close
      <3>5. QED
        BY <3>4 DEF Effect
    <2>6. QED
      BY <2>4, <2>5
  <1>9. QED
    BY <1>7, <1>8

LEMMA ApplyEffect ==
  ASSUME AtomicInv, TypeOK', NEW th \in Threads, NEW f \in Files, Apply(th, f)
  PROVE  Effect
  <1>0. /\ Access(th, f) /\ ~ MergeAndOpen(th, f) /\ Busy(th)
        /\ step[th] = "fetched" /\ Doing(th, "read", f)
        /\ UNCHANGED <<file, settings, suspect>> /\ spoiled' = spoiled \ {th}
    BY DEF Access, Apply, MergeAndOpen, At, Goto, Finish, Busy, Doing, AtomicInv, IInv, TypeOK
  <1>1. \A g \in Files : Writers(g)' = Writers(g) /\ th \notin Writers(g)
    BY <1>0, AccessWriters, NotAWriter DEF AtomicInv
  <1>2. \A g \in Files : Sound(g)' = Sound(g)
    BY <1>0, <1>1 DEF Sound
  <1>3. UNCHANGED <<AtomicDisk, AtomicOpen, AtomicDamaged>>
    <2>1. UNCHANGED <<AtomicOpen, AtomicDamaged>>
      BY <1>0, <1>1, <1>2, StateShape, DiskOf
    <2>2. \A g \in Files : AtomicDisk'[g] = AtomicDisk[g]
      BY <1>0, <1>2, DiskOf
    <2>3. QED
      BY <2>1, <2>2, StateShape
  <1>4. PICK v \in Applied(settings, f) :
          /\ memory' = [memory EXCEPT ![f] = v]
          /\ stale' = IF th \in spoiled \/ (f \in SkinFiles /\ settings.last = None)
                         \/ (f = "other" /\ settings.other = None)
                      THEN stale \union {f} ELSE stale \ {f}
    BY DEF Apply
  <1>5. CASE stale' = stale \union {f}
    <2>1. Atomic!Change
      BY <1>3, <1>4, <1>5 DEF Atomic!Change, TypeOK, AtomicInv, IInv
    <2>2. QED
      BY <2>1 DEF Effect
  <1>6. CASE /\ th \notin spoiled /\ stale' = stale \ {f}
             /\ f \in SkinFiles => settings.last # None
             /\ f = "other" => settings.other # None
    <2>1. AtomicOpen = {}
      BY <1>0, <1>1, <1>6, SoundIsOne, StateShape, DiskOf DEF AtomicInv, Sound
    <2>2. file[f].state = "whole" /\ settings = file[f].doc
      BY <1>0, <1>6 DEF AtomicInv, IInv, CleanLoadIsCurrent
    <2>3. AtomicDisk[f] = Content(f, file[f])
      BY <2>1, StateShape, DiskOf
    <2>4. AtomicDisk[f].state = "whole"
      BY <2>2, <2>3 DEF Content
    <2>5. AtomicDisk[f].value = v /\ v # None
      BY <1>4, <1>6, <2>2, <2>3, ConstantsAssumption
         DEF Content, Applied, GotSkin, GotOptions, AsBool, Switch, Files, SkinFiles
    <2>6. Atomic!Load(f)
      BY <1>3, <1>4, <1>6, <2>1, <2>4, <2>5 DEF Atomic!Load
    <2>7. QED
      BY <2>6 DEF Effect
  <1>7. QED
    BY <1>4, <1>5, <1>6

-----------------------------------------------------------------------------
(* The store implements AtomicStore.                                        *)

\* Every statement inside a load or a save is a step of the abstract store.
LEMMA AccessIsAtomic ==
  ASSUME AtomicInv, TypeOK', NEW th \in Threads, NEW f \in Files, Access(th, f)
  PROVE  Atomic!Next
  <1>1. Effect
    BY FetchToWriteEffect, MergeAndOpenEffect, OpenFailsEffect, FlushEffect,
       FetchToReadEffect, ApplyEffect DEF Access
  <1>2. Atomic!Turn
    BY AccessTurn
  <1>3. QED
    BY <1>1, <1>2 DEF Effect, Atomic!Next, Atomic!store

\* What happens outside a load or a save changes values in memory at most.
LEMMA OutsideIsAtomic ==
  ASSUME AtomicInv, TypeOK', Outside
  PROVE  Atomic!Next
  <1>1. UNCHANGED <<AtomicDisk, AtomicOpen, AtomicDamaged>>
    <2>1. \A g \in Files : Writers(g)' = Writers(g) /\ Sound(g)' = Sound(g)
      BY OutsideWriters DEF AtomicInv
    <2>2. UNCHANGED <<AtomicOpen, AtomicDamaged>>
      BY <2>1, StateShape, DiskOf DEF Outside
    <2>3. \A g \in Files : AtomicDisk'[g] = AtomicDisk[g]
      BY <2>1, DiskOf DEF Outside
    <2>4. QED
      BY <2>2, <2>3, StateShape
  <1>2. Atomic!Change
    BY <1>1 DEF Outside, Atomic!Change, TypeOK
  <1>3. Inside' = Inside /\ spoiled' = spoiled /\ spoiled \subseteq Inside
    BY DEF Outside, Inside, Busy, AtomicInv, SpoiledInside, IInv, TypeOK
  <1>4. Atomic!Turn
    BY <1>3 DEF Atomic!Turn, Inside, Threads
  <1>5. QED
    BY <1>2, <1>4 DEF Atomic!Next

\* The end of the process: of an open file, what is on disk is torn.
LEMMA ForgetIsAtomic ==
  ASSUME AtomicInv, Forget
  PROVE  Atomic!Next
  <1>1. \A g \in Files : Writers(g)' = {} /\ Sound(g)' = {}
    BY DEF Forget, Writers, Sound
  <1>2. AtomicOpen' = {} /\ AtomicDamaged' = {}
    BY <1>1, StateShape, DiskOf DEF Forget
  <1>3. ASSUME NEW g \in Files
        PROVE  AtomicDisk'[g] = IF g \in AtomicOpen THEN Atomic!TornFile ELSE AtomicDisk[g]
    <2>1. AtomicDisk'[g] = Content(g, file[g])
      BY <1>1, DiskOf DEF Forget
    <2>2. g \in AtomicOpen => Content(g, file[g]) = Atomic!TornFile
      <3>1. Content(g, Torn) = Atomic!TornFile
        BY DiskType DEF Content, Torn, Atomic!TornFile
      <3>2. QED
        BY <3>1, DiskOf DEF AtomicInv, CleanOpenIsTorn
    <2>3. QED
      BY <2>1, <2>2, DiskOf
  <1>4. AtomicDisk' = [g \in Files |-> IF g \in AtomicOpen THEN Atomic!TornFile ELSE AtomicDisk[g]]
    BY <1>3, StateShape
  <1>5. Inside' = {} /\ spoiled' = {}
    BY DEF Forget, Inside, Busy
  <1>6. QED
    BY <1>2, <1>4, <1>5 DEF Forget, Atomic!Next, Atomic!End, Inside

LEMMA StepIsAtomic == AtomicInv /\ [Next]_vars => [Atomic!Next]_(Atomic!vars)
  <1> SUFFICES ASSUME AtomicInv, [Next]_vars PROVE Atomic!Next \/ UNCHANGED Atomic!vars
    OBVIOUS
  <1>0. TypeOK'
    BY NextAtomicInv DEF AtomicInv, IInv
  <1>1. ASSUME NEW th \in Threads, NEW f \in Files, Access(th, f) PROVE Atomic!Next
    BY <1>0, <1>1, AccessIsAtomic
  <1>2. CASE Loops \/ Menu \/ Start \/ Loaded \/ Detach
    BY <1>0, <1>2, LoopsOutside, MenuOutside, LifeOutside, OutsideIsAtomic DEF AtomicInv
  <1>3. CASE Detached \/ Kill
    BY <1>3, ForgetIsAtomic DEF Detached, Kill
  <1>4. CASE UNCHANGED vars
    BY <1>4 DEF vars, Atomic!vars, AtomicDisk, AtomicOpen, AtomicDamaged, Content, Sound,
                Writers, Busy, Doing, Job
  <1>5. QED
    BY <1>1, <1>2, <1>3, <1>4 DEF Next, FileStep, Access, Loops

LEMMA InitIsAtomic == Init => Atomic!Init
  <1> SUFFICES ASSUME Init PROVE Atomic!Init
    OBVIOUS
  <1>1. \A g \in Files : Writers(g) = {} /\ Sound(g) = {}
    BY DEF Init, Writers, Sound
  <1>2. AtomicDisk = [g \in Files |-> Content(g, FirstDisk[g])]
    BY <1>1 DEF Init, AtomicDisk
  <1>3. AtomicOpen = {} /\ AtomicDamaged = {}
    BY <1>1, StateShape, DiskOf DEF Init
  <1>4. QED
    BY <1>2, <1>3 DEF Init, Atomic!Init, Busy

LEMMA AtomicInvariance == Spec => []AtomicInv
  BY InitAtomicInv, NextAtomicInv, PTL DEF Spec

\* Loads and saves that do not overlap are atomic: the many statements of
\* config::load and config::save, run by four threads with no lock, are the
\* steps of AtomicStore, for every set of kits, every initial disk and every
\* bound on the environment.
THEOREM StoreImplementsAtomic == Spec => StoreIsAtomic
  BY InitIsAtomic, StepIsAtomic, AtomicInvariance, PTL DEF Spec, StoreIsAtomic, Atomic!Spec

-----------------------------------------------------------------------------
(* What AtomicStore says, said of the code.                                 *)

LEMMA StoreStepKeepsClean ==
  ASSUME TypeOK, Atomic!CleanIsOnDisk, Atomic!Next
  PROVE  Atomic!CleanIsOnDisk'
  <1> SUFFICES ASSUME NEW g \in Files, g \notin stale', g \notin AtomicDamaged'
               PROVE  /\ AtomicDisk'[g].state = "whole"
                      /\ memory'[g] \in {None, AtomicDisk'[g].value}
    BY DEF Atomic!CleanIsOnDisk
  <1>0. g \notin stale /\ g \notin AtomicDamaged
          => AtomicDisk[g].state = "whole" /\ memory[g] \in {None, AtomicDisk[g].value}
    BY DEF Atomic!CleanIsOnDisk
  <1>1. CASE UNCHANGED Atomic!store
    BY <1>0, <1>1 DEF Atomic!store
  <1>2. ASSUME NEW f \in Files, Atomic!Load(f)
        PROVE  /\ AtomicDisk'[g].state = "whole"
               /\ memory'[g] \in {None, AtomicDisk'[g].value}
    BY <1>0, <1>2 DEF Atomic!Load, TypeOK
  <1>3. ASSUME NEW f \in Files, Atomic!Save(f)
        PROVE  /\ AtomicDisk'[g].state = "whole"
               /\ memory'[g] \in {None, AtomicDisk'[g].value}
    BY <1>0, <1>3, StateShape DEF Atomic!Save, Atomic!Put
  <1>4. CASE \E f \in Files : Atomic!Refuse(f)
    BY <1>0, <1>4 DEF Atomic!Refuse
  <1>5. CASE Atomic!Change \/ Atomic!Close \/ Atomic!Overlap
    BY <1>0, <1>5 DEF Atomic!Change, Atomic!Close, Atomic!Overlap
  <1>6. CASE Atomic!End
    BY <1>6 DEF Atomic!End
  <1>7. QED
    BY <1>1, <1>2, <1>3, <1>4, <1>5, <1>6 DEF Atomic!Next

\* A file is known to be behind memory, or damaged, whenever it is: if neither,
\* it is whole and has the value of memory, and this also while the save that
\* put it there is still open.
THEOREM CleanIsOnDiskAlways == Spec => []Atomic!CleanIsOnDisk
  <1>1. Init => Atomic!CleanIsOnDisk
    BY InitIsAtomic DEF Atomic!Init, Atomic!CleanIsOnDisk
  <1>2. AtomicInv /\ [Next]_vars /\ Atomic!CleanIsOnDisk => Atomic!CleanIsOnDisk'
    <2>1. CASE Atomic!Next
      BY <2>1, StoreStepKeepsClean DEF AtomicInv, IInv
    <2>2. CASE UNCHANGED Atomic!vars
      BY <2>2 DEF Atomic!vars, Atomic!CleanIsOnDisk
    <2>3. QED
      BY <2>1, <2>2, StepIsAtomic
  <1>3. QED
    BY <1>1, <1>2, AtomicInvariance, PTL DEF Spec

\* The details stored for a kit are lost only with their file, and a file is
\* lost only when accesses to the store overlap, when it cannot be saved, or
\* when the process ends while a save has it open.
THEOREM NothingIsForgottenEver == Spec => Atomic!NothingIsForgotten
  <1>1. ASSUME Atomic!Next, NEW f \in SkinFiles
        PROVE  \/ AtomicDisk[f].kept \subseteq AtomicDisk'[f].kept
               \/ f \in AtomicDamaged' \/ (f \in AtomicOpen /\ Atomic!End)
    <2>0. f \in Files
      BY DEF Files
    <2>1. CASE AtomicDisk'[f] = AtomicDisk[f] \/ f \in AtomicDamaged'
      BY <2>1
    <2>2. ASSUME NEW g \in Files, Atomic!Save(g)
          PROVE  AtomicDisk[f].kept \subseteq AtomicDisk'[f].kept
      BY <2>0, <2>2, StateShape DEF Atomic!Save, Atomic!Put
    <2>3. CASE Atomic!End
      <3>1. f \notin AtomicOpen => AtomicDisk'[f] = AtomicDisk[f]
        BY <2>0, <2>3 DEF Atomic!End
      <3>2. QED
        BY <2>1, <2>3, <3>1
    <2>4. QED
      BY <1>1, <2>0, <2>1, <2>2, <2>3
         DEF Atomic!Next, Atomic!store, Atomic!Load, Atomic!Refuse, Atomic!Change,
             Atomic!Close, Atomic!Overlap
  <1>2. [Atomic!Next]_(Atomic!vars) => [Atomic!KeptUnlessDamaged]_(Atomic!vars)
    BY <1>1 DEF Atomic!KeptUnlessDamaged
  <1>3. QED
    BY <1>2, StepIsAtomic, AtomicInvariance, PTL DEF Spec, Atomic!NothingIsForgotten
=============================================================================
