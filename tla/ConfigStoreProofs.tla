-------------------------- MODULE ConfigStoreProofs --------------------------
(***************************************************************************)
(* Proofs about ConfigStore, for every set of kits, every initial disk and *)
(* every bound on the environment.                                         *)
(*                                                                         *)
(* CleanFilesAgree is not inductive: that a save writes what memory holds  *)
(* rests on `settings` still being what this save put there, and that a    *)
(* load leaves memory in agreement rests on the file still being what it   *)
(* parsed.  Both follow from one fact: of the threads inside a load or a   *)
(* save at most one is undisturbed (OneClean), because entering a load or  *)
(* a save clears `settings` and so disturbs all the others.                *)
(***************************************************************************)
EXTENDS ConfigStore, SequenceTheorems, TLAPS

\* A thread is inside a job only if it has one, and has a file open only to write.
BusyHasJob ==
  \A th \in Threads : /\ Busy(th) => todo[th] # <<>>
                      /\ step[th] = "opened" => Job(th).op = "write"

\* A thread whose loop is between two turns has no job; the two loops start
\* when the library has loaded.
IdleBetweenTurns ==
  /\ save_pc \in {"off", "poll"} => Idle("save")
  /\ read_pc \in {"off", "poll"} => Idle("read")
  /\ proc \in {"down", "running"} => Idle("loader")
  /\ proc \in {"down", "loading"} => save_pc = "off" /\ read_pc = "off"

\* At most one thread inside a load or a save is undisturbed.
OneClean ==
  \A th, u \in Threads : th # u /\ Busy(th) /\ Busy(u) => th \in spoiled \/ u \in spoiled

\* An undisturbed load still has in settings what its file holds.
CleanLoadIsCurrent ==
  \A th \in Threads, f \in Files :
    step[th] = "fetched" /\ Doing(th, "read", f) /\ th \notin spoiled
      => file[f].state = "whole" /\ settings = file[f].doc

\* An undisturbed save has in settings what memory holds.
CleanSaveIsCurrent ==
  \A th \in Threads, f \in Files :
    step[th] = "opened" /\ Doing(th, "write", f) /\ th \notin spoiled
      => f \in stale \/ Agrees(settings, f)

IInv ==
  /\ TypeOK
  /\ BusyHasJob
  /\ IdleBetweenTurns
  /\ OneClean
  /\ CleanLoadIsCurrent
  /\ CleanSaveIsCurrent
  /\ CleanFilesAgree

-----------------------------------------------------------------------------
LEMMA JobListType ==
  ASSUME NEW fs \in Seq(Files)
  PROVE  Writes(fs) \in Seq(Jobs) /\ Reads(fs) \in Seq(Jobs)
  <1> DEFINE n == Len(fs)
  <1>1. n \in Nat /\ DOMAIN fs = 1..n /\ \A i \in 1..n : fs[i] \in Files
    OBVIOUS
  <1>2. Writes(fs) \in [1..n -> Jobs]
    BY <1>1 DEF Writes, Jobs
  <1>3. Reads(fs) \in [1..n -> Jobs]
    BY <1>1 DEF Reads, Jobs
  <1>4. QED
    BY <1>1, <1>2, <1>3, SeqDef

LEMMA ListType ==
  /\ <<"ct", "t", "sounds", "other">> \in Seq(Files)
  /\ <<"sounds", "ct", "t", "other">> \in Seq(Files)
  /\ <<"ct", "t", "other">> \in Seq(Files)
  /\ <<"t", "ct">> \in Seq(Files)
  /\ <<"other">> \in Seq(Files)
  /\ <<"sounds">> \in Seq(Files)
  BY DEF Files, SkinFiles

LEMMA DiskType ==
  /\ Null \in Json /\ Null.hist = {}
  /\ Missing.doc = Null /\ Torn.doc = Null
  /\ Missing.state = "missing" /\ Torn.state = "torn"
  /\ \A d \in Json : Whole(d) \in [state : {"missing", "torn", "whole"}, doc : Json]
  /\ Torn \in [state : {"missing", "torn", "whole"}, doc : Json]
  /\ Disk \subseteq [state : {"missing", "torn", "whole"}, doc : Json]
  <1>1. Null \in Json /\ Null.hist = {}
    BY DEF Null, Json
  <1>2. QED
    BY <1>1 DEF Disk, Missing, Torn, Whole

LEMMA InitType == Init => TypeOK
  <1> SUFFICES ASSUME Init PROVE TypeOK
    OBVIOUS
  <1>1. file \in [Files -> [state : {"missing", "torn", "whole"}, doc : Json]]
    BY DiskType, ConstantsAssumption DEF Init
  <1>2. stored \in [SkinFiles -> SUBSET Kits]
    <2>1. \A f \in Files : file[f].doc.hist \in SUBSET Kits
      BY <1>1 DEF Json
    <2>2. QED
      BY <2>1 DEF Init, Files
  <1>3. /\ memory \in [Files -> Kits \union Switch \union {None}]
        /\ \A f \in SkinFiles : memory[f] \in Kits \union {None}
        /\ memory["sounds"] \in Switch /\ memory["other"] \in Switch
    BY DEF Init, Defaults, Switch, Files, SkinFiles
  <1>4. settings \in Json
    BY DiskType DEF Init
  <1>5. todo \in [Threads -> Seq(Jobs)] /\ step \in [Threads -> Steps] /\ used \in [Kinds -> Nat]
    BY DEF Init, Steps
  <1>6. QED
    BY <1>1, <1>2, <1>3, <1>4, <1>5 DEF Init, TypeOK

-----------------------------------------------------------------------------
(* Every step keeps the types.                                              *)

LEMMA MergedType ==
  ASSUME TypeOK, NEW f \in Files, NEW d \in Json
  PROVE  Merged(d, f) \in Json
  <1>1. CASE f \in SkinFiles
    BY <1>1 DEF Merged, PutSkin, PutSounds, PutOptions, TypeOK, Json
  <1>2. CASE f = "sounds"
    BY <1>2 DEF Merged, PutSkin, PutSounds, PutOptions, TypeOK, Json, SkinFiles
  <1>3. CASE f = "other"
    BY <1>3 DEF Merged, PutSkin, PutSounds, PutOptions, TypeOK, Json, SkinFiles
  <1>4. QED
    BY <1>1, <1>2, <1>3 DEF Files

LEMMA AppliedType ==
  ASSUME TypeOK, NEW f \in Files, NEW v \in Applied(settings, f)
  PROVE  /\ [memory EXCEPT ![f] = v] \in [Files -> Kits \union Switch \union {None}]
         /\ \A g \in SkinFiles : [memory EXCEPT ![f] = v][g] \in Kits \union {None}
         /\ [memory EXCEPT ![f] = v]["sounds"] \in Switch
         /\ [memory EXCEPT ![f] = v]["other"] \in Switch
  <1>1. f \in SkinFiles => v \in Kits \union {None}
    BY DEF Applied, GotSkin, GotOptions, TypeOK, Json
  <1>2. f \notin SkinFiles => v \in Switch
    BY DEF Applied, GotSkin, GotOptions, TypeOK, Json, AsBool, Switch, Files
  <1>3. QED
    BY <1>1, <1>2 DEF TypeOK, Files, SkinFiles

LEMMA FinishType ==
  ASSUME TypeOK, NEW th \in Threads, todo[th] # <<>>, Finish(th)
  PROVE  todo' \in [Threads -> Seq(Jobs)] /\ step' \in [Threads -> Steps]
  BY DEF TypeOK, Finish, Steps

LEMMA GotoType ==
  ASSUME TypeOK, NEW th \in Threads, NEW s \in Steps, Goto(th, s)
  PROVE  todo' \in [Threads -> Seq(Jobs)] /\ step' \in [Threads -> Steps]
  BY DEF TypeOK, Goto

LEMMA FileStepType ==
  ASSUME TypeOK, NEW th \in Threads, NEW f \in Files,
         \/ FetchToWrite(th, f) \/ MergeAndOpen(th, f) \/ OpenFails(th, f) \/ Flush(th, f)
         \/ FetchToRead(th, f) \/ Apply(th, f)
  PROVE  TypeOK'
  <1> USE DEF TypeOK
  <1>1. CASE FetchToWrite(th, f)
    <2>1. settings' \in Json
      BY <1>1, DiskType DEF FetchToWrite
    <2>2. todo' \in [Threads -> Seq(Jobs)] /\ step' \in [Threads -> Steps]
      BY <1>1, FinishType, GotoType DEF FetchToWrite, At, Steps
    <2>3. spoiled' \subseteq Threads /\ suspect' \subseteq Files
      BY <1>1 DEF FetchToWrite, Disturb
    <2>4. QED
      BY <1>1, <2>1, <2>2, <2>3 DEF FetchToWrite, flags, loops
  <1>2. CASE MergeAndOpen(th, f)
    <2>1. settings' \in Json
      BY <1>2, MergedType DEF MergeAndOpen
    <2>2. todo' \in [Threads -> Seq(Jobs)] /\ step' \in [Threads -> Steps]
      BY <1>2, GotoType DEF MergeAndOpen, Steps
    <2>3. file' \in [Files -> [state : {"missing", "torn", "whole"}, doc : Json]]
      BY <1>2, DiskType DEF MergeAndOpen
    <2>4. spoiled' \subseteq Threads
      BY <1>2 DEF MergeAndOpen, Disturb
    <2>5. QED
      BY <1>2, <2>1, <2>2, <2>3, <2>4 DEF MergeAndOpen, flags, loops
  <1>3. CASE OpenFails(th, f)
    <2>1. settings' \in Json
      BY <1>3, MergedType DEF OpenFails
    <2>2. todo' \in [Threads -> Seq(Jobs)] /\ step' \in [Threads -> Steps]
      BY <1>3, FinishType DEF OpenFails, At
    <2>3. spoiled' \subseteq Threads
      BY <1>3 DEF OpenFails, Disturb
    <2>4. QED
      BY <1>3, <2>1, <2>2, <2>3 DEF OpenFails, flags, loops
  <1>4. CASE Flush(th, f)
    <2>1. PICK result \in {Whole(settings)} \union (IF th \in spoiled THEN {Torn} ELSE {}) :
            /\ file' = [file EXCEPT ![f] = result]
            /\ stored' = IF f \in SkinFiles THEN [stored EXCEPT ![f] = result.doc.hist]
                                             ELSE stored
      BY <1>4 DEF Flush
    <2>2. result \in [state : {"missing", "torn", "whole"}, doc : Json]
      BY <2>1, DiskType
    <2>3. result.doc.hist \in SUBSET Kits
      BY <2>2 DEF Json
    <2>4. file' \in [Files -> [state : {"missing", "torn", "whole"}, doc : Json]]
      BY <2>1, <2>2
    <2>5. stored' \in [SkinFiles -> SUBSET Kits]
      BY <2>1, <2>3
    <2>6. todo' \in [Threads -> Seq(Jobs)] /\ step' \in [Threads -> Steps]
      BY <1>4, FinishType DEF Flush, At
    <2>7. spoiled' \subseteq Threads /\ suspect' \subseteq Files
      BY <1>4 DEF Flush, Disturb
    <2>8. QED
      BY <1>4, <2>4, <2>5, <2>6, <2>7 DEF Flush, flags, loops
  <1>5. CASE FetchToRead(th, f)
    <2>1. settings' \in Json
      BY <1>5, DiskType DEF FetchToRead
    <2>2. todo' \in [Threads -> Seq(Jobs)] /\ step' \in [Threads -> Steps]
      <3>1. CASE file[f].state = "missing"
        <4>1. [op |-> "write", file |-> f] \in Jobs
          BY DEF Jobs
        <4>2. Tail(todo[th]) \in Seq(Jobs)
          BY <1>5 DEF FetchToRead, At
        <4>3. <<[op |-> "write", file |-> f]>> \o Tail(todo[th]) \in Seq(Jobs)
          BY <4>1, <4>2
        <4>4. QED
          BY <1>5, <3>1, <4>3 DEF FetchToRead
      <3>2. CASE file[f].state # "missing"
        BY <1>5, <3>2, FinishType, GotoType DEF FetchToRead, At, Steps
      <3>3. QED
        BY <3>1, <3>2
    <2>3. spoiled' \subseteq Threads
      BY <1>5 DEF FetchToRead, Disturb
    <2>4. QED
      BY <1>5, <2>1, <2>2, <2>3 DEF FetchToRead, flags, loops
  <1>6. CASE Apply(th, f)
    <2>1. todo' \in [Threads -> Seq(Jobs)] /\ step' \in [Threads -> Steps]
      BY <1>6, FinishType DEF Apply, At
    <2>2. /\ memory' \in [Files -> Kits \union Switch \union {None}]
          /\ \A g \in SkinFiles : memory'[g] \in Kits \union {None}
          /\ memory'["sounds"] \in Switch /\ memory'["other"] \in Switch
      BY <1>6, AppliedType DEF Apply
    <2>3. stale' \subseteq Files /\ late' \subseteq Files /\ promised' \subseteq Files
      BY <1>6 DEF Apply
    <2>4. QED
      BY <1>6, <2>1, <2>2, <2>3 DEF Apply, flags, loops
  <1>7. QED
    BY <1>1, <1>2, <1>3, <1>4, <1>5, <1>6

LEMMA LoopType ==
  ASSUME TypeOK, SavePoll \/ SaveServed \/ SaveOtherDone \/ ReadPoll \/ ReadServed
  PROVE  TypeOK'
  <1>1. /\ Writes(<<"ct", "t", "sounds", "other">>) \in Seq(Jobs)
        /\ Writes(<<"other">>) \in Seq(Jobs)
        /\ Reads(<<"ct", "t", "sounds", "other">>) \in Seq(Jobs)
    BY ListType, JobListType
  <1>2. todo' \in [Threads -> Seq(Jobs)]
    BY <1>1 DEF TypeOK, SavePoll, SaveServed, SaveOtherDone, ReadPoll, ReadServed, StartOther
  <1>3. UNCHANGED <<file, memory, settings, step, proc, used, spoiled, stale, suspect,
                    promised, stored>>
    BY DEF SavePoll, SaveServed, SaveOtherDone, ReadPoll, ReadServed, onDisk, history
  <1>4. /\ save_flag' \in BOOLEAN /\ read_flag' \in BOOLEAN /\ save_other' \in BOOLEAN
        /\ save_pc' \in {"off", "poll", "saving", "saving_other"}
        /\ read_pc' \in {"off", "poll", "reading"}
        /\ late' \subseteq Files
    BY DEF TypeOK, SavePoll, SaveServed, SaveOtherDone, ReadPoll, ReadServed, StartOther,
           flags, history
  <1>5. QED
    BY <1>2, <1>3, <1>4 DEF TypeOK

LEMMA ChangeType ==
  ASSUME TypeOK, NEW F \in SUBSET Files, NEW m, Change(m, F)
  PROVE  stale' \subseteq Files /\ late' \subseteq Files /\ promised' \subseteq Files
  BY DEF TypeOK, Change

LEMMA MenuType == ASSUME TypeOK, Menu PROVE TypeOK'
  <1> USE DEF TypeOK, flags, loops, onDisk
  <1>a. \A k \in Kinds : Spend(k) => used' \in [Kinds -> Nat]
    BY DEF Spend
  <1>b. SkinFiles \subseteq Files /\ {"sounds"} \subseteq Files /\ {"other"} \subseteq Files
    BY DEF Files
  <1>1. ASSUME NEW f \in SkinFiles, NEW k \in Kits, Edit(f, k) PROVE TypeOK'
    <2>1. used' \in [Kinds -> Nat]
      BY <1>a, <1>1 DEF Edit, Kinds
    <2>2. stale' \subseteq Files /\ late' \subseteq Files /\ promised' \subseteq Files
      BY <1>1, <1>b, ChangeType DEF Edit
    <2>3. memory' = [memory EXCEPT ![f] = k]
      BY <1>1 DEF Edit, Change
    <2>4. QED
      BY <1>1, <2>1, <2>2, <2>3 DEF Edit, Files, SkinFiles
  <1>2. ASSUME NEW f \in SkinFiles, ShowWeapon(f) PROVE TypeOK'
    <2>1. used' \in [Kinds -> Nat]
      BY <1>a, <1>2 DEF ShowWeapon, Kinds
    <2>2. stale' \subseteq Files /\ late' \subseteq Files /\ promised' \subseteq Files
      BY <1>2, <1>b, ChangeType DEF ShowWeapon
    <2>3. memory' = [memory EXCEPT ![f] = DefaultKit]
      BY <1>2 DEF ShowWeapon, Change
    <2>4. QED
      BY <1>2, <2>1, <2>2, <2>3, ConstantsAssumption DEF ShowWeapon, Files, SkinFiles
  <1>3. ASSUME NEW f \in SkinFiles, NEW g \in SkinFiles, CopyConfig(f, g) PROVE TypeOK'
    <2>1. used' \in [Kinds -> Nat]
      BY <1>a, <1>3 DEF CopyConfig, Kinds
    <2>2. stale' \subseteq Files /\ late' \subseteq Files /\ promised' \subseteq Files
      BY <1>3, <1>b, ChangeType DEF CopyConfig
    <2>3. memory' = [memory EXCEPT ![g] = memory[f]]
      BY <1>3 DEF CopyConfig, Change
    <2>4. QED
      BY <1>3, <2>1, <2>2, <2>3 DEF CopyConfig, Files, SkinFiles
  <1>4. ASSUME NEW k1 \in Kits, NEW k2 \in Kits, Randomize(k1, k2) PROVE TypeOK'
    <2>1. used' \in [Kinds -> Nat]
      BY <1>a, <1>4 DEF Randomize, Kinds
    <2>2. stale' \subseteq Files /\ late' \subseteq Files /\ promised' \subseteq Files
      BY <1>4, <1>b, ChangeType DEF Randomize
    <2>3. memory' = [memory EXCEPT !["ct"] = k1, !["t"] = k2]
      BY <1>4 DEF Randomize, Change
    <2>4. QED
      BY <1>4, <2>1, <2>2, <2>3 DEF Randomize, Files, SkinFiles
  <1>c. \A v : Flip(v) \in Switch
    BY DEF Flip, Switch
  <1>5. CASE ToggleSound
    <2>1. used' \in [Kinds -> Nat]
      BY <1>a, <1>5 DEF ToggleSound, Kinds
    <2>2. stale' \subseteq Files /\ late' \subseteq Files /\ promised' \subseteq Files
      BY <1>5, <1>b, ChangeType DEF ToggleSound
    <2>3. memory' = [memory EXCEPT !["sounds"] = Flip(memory["sounds"])]
      BY <1>5 DEF ToggleSound, Change
    <2>4. todo' \in [Threads -> Seq(Jobs)]
      BY <1>5, ListType, JobListType DEF ToggleSound
    <2>5. QED
      BY <1>5, <1>c, <2>1, <2>2, <2>3, <2>4 DEF ToggleSound, Files, SkinFiles
  <1>6. CASE ToggleAutosave
    <2>1. used' \in [Kinds -> Nat]
      BY <1>a, <1>6 DEF ToggleAutosave, Kinds
    <2>2. stale' \subseteq Files /\ late' \subseteq Files /\ promised' \subseteq Files
      BY <1>6, <1>b, ChangeType DEF ToggleAutosave
    <2>3. memory' = [memory EXCEPT !["other"] = Flip(memory["other"])]
      BY <1>6 DEF ToggleAutosave, Change
    <2>4. QED
      BY <1>6, <1>c, <2>1, <2>2, <2>3 DEF ToggleAutosave, Files, SkinFiles
  <1>7. CASE ClickSave
    BY <1>a, <1>7 DEF ClickSave, Kinds, history
  <1>8. CASE ClickLoad
    BY <1>a, <1>8 DEF ClickLoad, Kinds, history
  <1>9. QED
    BY <1>1, <1>2, <1>3, <1>4, <1>5, <1>6, <1>7, <1>8 DEF Menu

LEMMA ForgetType ==
  ASSUME TypeOK, Forget, used' \in [Kinds -> Nat]
  PROVE  TypeOK'
  <1>1. stored' \in [SkinFiles -> SUBSET Kits]
    BY DEF Forget, TypeOK, Files, Json
  <1>2. /\ memory' \in [Files -> Kits \union Switch \union {None}]
        /\ \A f \in SkinFiles : memory'[f] \in Kits \union {None}
        /\ memory'["sounds"] \in Switch /\ memory'["other"] \in Switch
    BY DEF Forget, Defaults, Switch, Files, SkinFiles
  <1>3. settings' \in Json
    BY DiskType DEF Forget
  <1>4. todo' \in [Threads -> Seq(Jobs)] /\ step' \in [Threads -> Steps]
    BY DEF Forget, Steps
  <1>5. QED
    BY <1>1, <1>2, <1>3, <1>4 DEF Forget, TypeOK

LEMMA LifeType ==
  ASSUME TypeOK, Start \/ Loaded \/ Detach \/ Detached \/ Kill
  PROVE  TypeOK'
  <1> USE DEF TypeOK
  <1>1. CASE Start
    <2>1. todo' \in [Threads -> Seq(Jobs)]
      BY <1>1, ListType, JobListType DEF Start
    <2>2. QED
      BY <1>1, <2>1 DEF Start, flags, loops, history
  <1>2. CASE Loaded
    BY <1>2 DEF Loaded, flags, history
  <1>3. CASE Detach
    <2>1. todo' \in [Threads -> Seq(Jobs)]
      BY <1>3, ListType, JobListType DEF Detach
    <2>2. used' \in [Kinds -> Nat]
      BY <1>3 DEF Detach, Spend, Kinds
    <2>3. QED
      BY <1>3, <2>1, <2>2 DEF Detach, flags, loops, onDisk
  <1>4. CASE Detached
    BY <1>4, ForgetType DEF Detached
  <1>5. CASE Kill
    <2>1. used' \in [Kinds -> Nat]
      BY <1>5 DEF Kill, Spend, Kinds
    <2>2. QED
      BY <1>5, <2>1, ForgetType DEF Kill
  <1>6. QED
    BY <1>1, <1>2, <1>3, <1>4, <1>5

LEMMA NextType == TypeOK /\ [Next]_vars => TypeOK'
  <1> SUFFICES ASSUME TypeOK, [Next]_vars PROVE TypeOK'
    OBVIOUS
  <1>1. CASE \E th \in Threads : FileStep(th)
    BY <1>1, FileStepType DEF FileStep
  <1>2. CASE SavePoll \/ SaveServed \/ SaveOtherDone \/ ReadPoll \/ ReadServed
    BY <1>2, LoopType
  <1>3. CASE Menu
    BY <1>3, MenuType
  <1>4. CASE Start \/ Loaded \/ Detach \/ Detached \/ Kill
    BY <1>4, LifeType
  <1>5. CASE UNCHANGED vars
    BY <1>5 DEF TypeOK, vars
  <1>6. QED
    BY <1>1, <1>2, <1>3, <1>4, <1>5 DEF Next

\* Every variable of the store keeps its type: in particular what a load puts
\* into memory is a value of that file's kind, whatever document `settings` is.
THEOREM TypeCorrect == Spec => []TypeOK
  <1>1. QED
    BY InitType, NextType, PTL DEF Spec

-----------------------------------------------------------------------------
(* The inductive invariant.                                                 *)

Access(th, f) ==
  \/ FetchToWrite(th, f) \/ MergeAndOpen(th, f) \/ OpenFails(th, f)
  \/ Flush(th, f) \/ FetchToRead(th, f) \/ Apply(th, f)

LEMMA InitIInv == Init => IInv
  <1> SUFFICES ASSUME Init PROVE IInv
    OBVIOUS
  <1>1. \A th \in Threads : step[th] = "begin" /\ todo[th] = <<>>
    BY DEF Init
  <1>2. BusyHasJob /\ OneClean /\ CleanLoadIsCurrent /\ CleanSaveIsCurrent
    BY <1>1 DEF BusyHasJob, OneClean, CleanLoadIsCurrent, CleanSaveIsCurrent, Busy
  <1>3. IdleBetweenTurns
    BY <1>1 DEF IdleBetweenTurns, Idle, Init, Threads
  <1>4. CleanFilesAgree
    BY DEF CleanFilesAgree, Init
  <1>5. QED
    BY InitType, <1>2, <1>3, <1>4 DEF IInv

\* A step of a load or a save leaves the jobs and the places of the other
\* threads alone, and ends its own job or advances in it.
LEMMA AccessShape ==
  ASSUME TypeOK, NEW th \in Threads, NEW f \in Files, Access(th, f)
  PROVE  /\ todo[th] # <<>> /\ Job(th).file = f
         /\ \A u \in Threads \ {th} : todo'[u] = todo[u] /\ step'[u] = step[u]
         /\ \/ step'[th] = "begin"
            \/ /\ todo'[th] = todo[th]
               /\ step'[th] = "fetched" \/ (step'[th] = "opened" /\ Job(th).op = "write")
         /\ UNCHANGED <<save_pc, read_pc, proc>>
  <1>1. todo[th] # <<>> /\ Job(th).file = f
    BY DEF Access, FetchToWrite, MergeAndOpen, OpenFails, Flush, FetchToRead, Apply, Doing
  <1>2. UNCHANGED <<save_pc, read_pc, proc>>
    BY DEF Access, FetchToWrite, MergeAndOpen, OpenFails, Flush, FetchToRead, Apply, loops
  <1>3. CASE Finish(th)
    BY <1>1, <1>2, <1>3 DEF Finish, TypeOK
  <1>4. CASE Goto(th, "fetched")
    BY <1>1, <1>2, <1>4 DEF Goto, TypeOK
  <1>5. CASE Goto(th, "opened") /\ Job(th).op = "write"
    BY <1>1, <1>2, <1>5 DEF Goto, TypeOK
  <1>6. CASE /\ step[th] = "begin" /\ UNCHANGED step
             /\ todo' = [todo EXCEPT ![th] = <<[op |-> "write", file |-> f]>> \o Tail(@)]
    BY <1>1, <1>2, <1>6 DEF TypeOK
  <1>7. Finish(th) \/ Goto(th, "fetched") \/ (Goto(th, "opened") /\ Job(th).op = "write")
        \/ /\ step[th] = "begin" /\ UNCHANGED step
           /\ todo' = [todo EXCEPT ![th] = <<[op |-> "write", file |-> f]>> \o Tail(@)]
    BY DEF Access, FetchToWrite, MergeAndOpen, OpenFails, Flush, FetchToRead, Apply, Doing, At
  <1>8. QED
    BY <1>3, <1>4, <1>5, <1>6, <1>7

LEMMA AccessControl ==
  ASSUME IInv, NEW th \in Threads, NEW f \in Files, Access(th, f)
  PROVE  BusyHasJob' /\ IdleBetweenTurns'
  <1>1. /\ todo[th] # <<>>
        /\ \A u \in Threads \ {th} : todo'[u] = todo[u] /\ step'[u] = step[u]
        /\ \/ step'[th] = "begin"
           \/ /\ todo'[th] = todo[th]
              /\ step'[th] = "fetched" \/ (step'[th] = "opened" /\ Job(th).op = "write")
        /\ UNCHANGED <<save_pc, read_pc, proc>>
    BY AccessShape DEF IInv
  <1>2. BusyHasJob'
    BY <1>1 DEF IInv, BusyHasJob, Busy, Job
  <1>3. IdleBetweenTurns'
    BY <1>1 DEF IInv, IdleBetweenTurns, Idle, Threads
  <1>4. QED
    BY <1>2, <1>3

\* Entering a load or a save disturbs every other thread inside one.
LEMMA AccessOneClean ==
  ASSUME IInv, NEW th \in Threads, NEW f \in Files, Access(th, f)
  PROVE  OneClean'
  <1>1. /\ \A u \in Threads \ {th} : step'[u] = step[u]
        /\ step'[th] # "begin" =>
              \A u \in Threads \ {th} : Busy(u) => u \in spoiled'
        /\ \A u \in Threads \ {th} : u \in spoiled => u \in spoiled'
    <2>1. \A u \in Threads \ {th} : step'[u] = step[u]
      BY AccessShape DEF IInv
    <2>2. \A u \in Threads \ {th} : u \in spoiled => u \in spoiled'
      BY DEF Access, FetchToWrite, MergeAndOpen, OpenFails, Flush, FetchToRead, Apply, Disturb
    <2>3. step'[th] # "begin" => \A u \in Threads \ {th} : Busy(u) => u \in spoiled'
      <3>1. CASE FetchToWrite(th, f)
        BY <3>1 DEF FetchToWrite, Finish, Disturb, IInv, TypeOK
      <3>2. CASE MergeAndOpen(th, f)
        BY <3>2 DEF MergeAndOpen, Disturb
      <3>3. CASE OpenFails(th, f) \/ Flush(th, f) \/ Apply(th, f)
        BY <3>3 DEF OpenFails, Flush, Apply, Finish, IInv, TypeOK
      <3>4. CASE FetchToRead(th, f)
        BY <3>4 DEF FetchToRead, Finish, Disturb, At, IInv, TypeOK
      <3>5. QED
        BY <3>1, <3>2, <3>3, <3>4 DEF Access
    <2>4. QED
      BY <2>1, <2>2, <2>3
  <1>2. QED
    BY <1>1 DEF IInv, OneClean, Busy

LEMMA AccessCleanLoad ==
  ASSUME IInv, NEW th \in Threads, NEW f \in Files, Access(th, f)
  PROVE  CleanLoadIsCurrent'
  <1> SUFFICES ASSUME NEW u \in Threads, NEW g \in Files,
                      (step[u] = "fetched")', Doing(u, "read", g)', u \notin spoiled'
               PROVE  (file[g].state = "whole" /\ settings = file[g].doc)'
    BY DEF CleanLoadIsCurrent
  <1>0. /\ \A w \in Threads \ {th} : todo'[w] = todo[w] /\ step'[w] = step[w]
        /\ step'[th] # "begin" => todo'[th] = todo[th]
    BY AccessShape DEF IInv
  <1>1. u # th => /\ step[u] = "fetched" /\ Doing(u, "read", g) /\ Busy(u)
    BY <1>0 DEF Doing, Job, Busy
  <1>2. CASE FetchToWrite(th, f) \/ MergeAndOpen(th, f) \/ OpenFails(th, f)
    <2>1. u = th
      BY <1>1, <1>2 DEF FetchToWrite, MergeAndOpen, OpenFails, Disturb
    <2>2. QED
      BY <1>0, <1>2, <2>1
         DEF FetchToWrite, MergeAndOpen, OpenFails, Doing, Job, Finish, Goto, IInv, TypeOK
  <1>3. CASE Flush(th, f)
    <2>1. u # th
      BY <1>3 DEF Flush, Finish, IInv, TypeOK
    <2>2. u \notin OnFile(f) /\ u \notin spoiled
      BY <1>1, <1>3, <2>1 DEF Flush, Disturb
    <2>3. g # f
      BY <1>1, <2>1, <2>2 DEF OnFile, Doing, Job
    <2>4. file'[g] = file[g] /\ settings' = settings
      BY <1>3, <2>3 DEF Flush, IInv, TypeOK
    <2>5. QED
      BY <1>1, <2>1, <2>2, <2>4 DEF IInv, CleanLoadIsCurrent
  <1>4. CASE FetchToRead(th, f)
    <2>1. CASE u = th
      BY <1>0, <1>4, <2>1 DEF FetchToRead, Doing, Job, At, Finish, Goto, IInv, TypeOK
    <2>2. CASE u # th
      BY <1>1, <1>4, <2>2
         DEF FetchToRead, Disturb, IInv, CleanLoadIsCurrent
    <2>3. QED
      BY <2>1, <2>2
  <1>5. CASE Apply(th, f)
    <2>1. u # th
      BY <1>5 DEF Apply, Finish, IInv, TypeOK
    <2>2. u \notin spoiled /\ UNCHANGED <<file, settings>>
      BY <1>5, <2>1 DEF Apply
    <2>3. QED
      BY <1>1, <2>1, <2>2 DEF IInv, CleanLoadIsCurrent
  <1>6. QED
    BY <1>2, <1>3, <1>4, <1>5 DEF Access

\* What memory says of a file is in the document it was merged into.
LEMMA MergedAgrees ==
  ASSUME TypeOK, NEW f \in Files, NEW d \in Json
  PROVE  Agrees(Merged(d, f), f)
  <1>1. CASE f \in SkinFiles
    BY <1>1 DEF Agrees, Merged, PutSkin, PutSounds, PutOptions, Json, TypeOK
  <1>2. CASE f = "sounds"
    BY <1>2, ConstantsAssumption DEF Agrees, Merged, PutSkin, PutSounds, PutOptions, Json, TypeOK, AsBool, SkinFiles
  <1>3. CASE f = "other"
    BY <1>3 DEF Agrees, Merged, PutSkin, PutSounds, PutOptions, Json, TypeOK, SkinFiles
  <1>4. QED
    BY <1>1, <1>2, <1>3 DEF Files

\* ... and a value applied from a document that has one is what it says.
LEMMA AppliedAgrees ==
  ASSUME TypeOK, NEW f \in Files, NEW v \in Applied(settings, f),
         memory' = [memory EXCEPT ![f] = v],
         ~ (f \in SkinFiles /\ settings.last = None),
         ~ (f = "other" /\ settings.other = None)
  PROVE  IF f \in SkinFiles THEN memory'[f] = settings.last
         ELSE IF f = "sounds" THEN memory'[f] = AsBool(settings.sounds)
         ELSE memory'[f] = settings.other
  BY DEF Applied, GotSkin, GotOptions, TypeOK, Files, SkinFiles

LEMMA AccessCleanSave ==
  ASSUME IInv, NEW th \in Threads, NEW f \in Files, Access(th, f)
  PROVE  CleanSaveIsCurrent'
  <1> SUFFICES ASSUME NEW u \in Threads, NEW g \in Files,
                      (step[u] = "opened")', Doing(u, "write", g)', u \notin spoiled'
               PROVE  (g \in stale \/ Agrees(settings, g))'
    BY DEF CleanSaveIsCurrent
  <1>0. /\ \A w \in Threads \ {th} : todo'[w] = todo[w] /\ step'[w] = step[w]
        /\ step'[th] # "begin" => todo'[th] = todo[th]
    BY AccessShape DEF IInv
  <1>1. u # th => /\ step[u] = "opened" /\ Doing(u, "write", g) /\ Busy(u)
    BY <1>0 DEF Doing, Job, Busy
  <1>2. CASE FetchToWrite(th, f) \/ OpenFails(th, f) \/ FetchToRead(th, f)
    <2>1. u # th
      BY <1>2 DEF FetchToWrite, OpenFails, FetchToRead, Finish, Goto, At, IInv, TypeOK
    <2>2. u \notin spoiled /\ UNCHANGED <<settings, memory, stale>>
      BY <1>1, <1>2, <2>1 DEF FetchToWrite, OpenFails, FetchToRead, Disturb
    <2>3. QED
      BY <1>1, <2>1, <2>2 DEF IInv, CleanSaveIsCurrent, Agrees
  <1>3. CASE MergeAndOpen(th, f)
    <2>1. u = th
      BY <1>1, <1>3 DEF MergeAndOpen, Disturb
    <2>2. g = f
      BY <1>0, <1>3, <2>1 DEF MergeAndOpen, Doing, Job
    <2>3. Agrees(Merged(settings, f), f)
      BY MergedAgrees DEF IInv, TypeOK
    <2>4. QED
      BY <1>3, <2>2, <2>3 DEF MergeAndOpen, Agrees
  <1>4. CASE Flush(th, f)
    <2>1. u # th
      BY <1>4 DEF Flush, Finish, IInv, TypeOK
    <2>2. u \notin spoiled /\ UNCHANGED <<settings, memory, stale>>
      BY <1>4, <2>1 DEF Flush, Disturb
    <2>3. QED
      BY <1>1, <2>1, <2>2 DEF IInv, CleanSaveIsCurrent, Agrees
  <1>5. CASE Apply(th, f)
    <2>1. u # th
      BY <1>5 DEF Apply, Finish, IInv, TypeOK
    <2>2. u \notin spoiled /\ Busy(th) /\ Busy(u)
      BY <1>1, <1>5, <2>1 DEF Apply, At, Busy
    <2>3. th \in spoiled
      BY <2>1, <2>2 DEF IInv, OneClean
    <2>4. f \in stale' /\ stale \subseteq stale'
      BY <1>5, <2>3 DEF Apply
    <2>5. g # f => memory'[g] = memory[g] /\ settings' = settings
      BY <1>5 DEF Apply, IInv, TypeOK
    <2>6. QED
      BY <1>1, <2>1, <2>2, <2>4, <2>5 DEF IInv, CleanSaveIsCurrent, Agrees
  <1>6. QED
    BY <1>2, <1>3, <1>4, <1>5 DEF Access

LEMMA AccessCleanFiles ==
  ASSUME IInv, NEW th \in Threads, NEW f \in Files, Access(th, f)
  PROVE  CleanFilesAgree'
  <1> SUFFICES ASSUME NEW g \in Files, g \notin stale', g \notin suspect'
               PROVE  (\/ \E u \in Threads : step[u] = "opened" /\ Doing(u, "write", g)
                       \/ file[g].state = "whole" /\ Agrees(file[g].doc, g))'
    BY DEF CleanFilesAgree
  <1> DEFINE Open(u) == step[u] = "opened" /\ Doing(u, "write", g)
             Good    == file[g].state = "whole" /\ Agrees(file[g].doc, g)
  <1>0. /\ \A w \in Threads \ {th} : todo'[w] = todo[w] /\ step'[w] = step[w]
        /\ step'[th] # "begin" => todo'[th] = todo[th]
    BY AccessShape DEF IInv
  <1>1. \A w \in Threads \ {th} : Open(w) => Open(w)'
    BY <1>0 DEF Doing, Job
  <1>2. g \notin stale /\ g \notin suspect => Good \/ \E u \in Threads : Open(u)
    BY DEF IInv, CleanFilesAgree
  <1>3. CASE FetchToWrite(th, f) \/ OpenFails(th, f) \/ FetchToRead(th, f)
    <2>1. UNCHANGED <<file, memory, stale>> /\ suspect \subseteq suspect' /\ ~Open(th)
      BY <1>3 DEF FetchToWrite, OpenFails, FetchToRead, At
    <2>2. QED
      BY <1>1, <1>2, <2>1 DEF Agrees
  <1>4. CASE MergeAndOpen(th, f)
    <2>1. CASE g = f
      <3>1. Open(th)'
        BY <1>4, <2>1 DEF MergeAndOpen, Doing, Job, Goto, IInv, TypeOK
      <3>2. QED
        BY <3>1
    <2>2. CASE g # f
      <3>1. g \notin stale /\ g \notin suspect /\ file'[g] = file[g] /\ UNCHANGED memory /\ ~Open(th)
        BY <1>4, <2>2 DEF MergeAndOpen, At, IInv, TypeOK
      <3>2. QED
        BY <1>1, <1>2, <3>1 DEF Agrees
    <2>3. QED
      BY <2>1, <2>2
  <1>5. CASE Flush(th, f)
    <2>1. CASE g = f
      <3>1. th \notin spoiled /\ g \notin stale
        BY <1>5, <2>1 DEF Flush
      <3>2. file'[g] = Whole(settings) /\ UNCHANGED memory
        BY <1>5, <2>1, <3>1 DEF Flush, IInv, TypeOK
      <3>3. Agrees(settings, g)
        BY <1>5, <2>1, <3>1 DEF Flush, At, IInv, CleanSaveIsCurrent
      <3>4. Good'
        BY <3>2, <3>3 DEF Whole, Agrees
      <3>5. QED
        BY <3>4
    <2>2. CASE g # f
      <3>1. g \notin stale /\ g \notin suspect /\ file'[g] = file[g] /\ UNCHANGED memory /\ ~Open(th)
        BY <1>5, <2>2 DEF Flush, Doing, Job, IInv, TypeOK
      <3>2. QED
        BY <1>1, <1>2, <3>1 DEF Agrees
    <2>3. QED
      BY <2>1, <2>2
  <1>6. CASE Apply(th, f)
    <2>1. CASE g = f
      <3>1. /\ th \notin spoiled /\ UNCHANGED file
            /\ ~ (f \in SkinFiles /\ settings.last = None)
            /\ ~ (f = "other" /\ settings.other = None)
        BY <1>6, <2>1 DEF Apply
      <3>2. file[g].state = "whole" /\ settings = file[g].doc
        BY <1>6, <2>1, <3>1 DEF Apply, At, IInv, CleanLoadIsCurrent
      <3>3. IF f \in SkinFiles THEN memory'[f] = settings.last
            ELSE IF f = "sounds" THEN memory'[f] = AsBool(settings.sounds)
            ELSE memory'[f] = settings.other
        BY <1>6, <3>1, AppliedAgrees DEF Apply, IInv
      <3>4. Good'
        BY <2>1, <3>1, <3>2, <3>3 DEF Agrees
      <3>5. QED
        BY <3>4
    <2>2. CASE g # f
      <3>1. g \notin stale /\ g \notin suspect /\ memory'[g] = memory[g] /\ UNCHANGED file /\ ~Open(th)
        BY <1>6, <2>2 DEF Apply, At, IInv, TypeOK
      <3>2. QED
        BY <1>1, <1>2, <3>1 DEF Agrees
    <2>3. QED
      BY <2>1, <2>2
  <1>7. QED
    BY <1>3, <1>4, <1>5, <1>6 DEF Access

\* The other steps give jobs only to threads that have none, change no file
\* and no place inside a job, and count what they change in memory as stale.
Outside ==
  /\ UNCHANGED <<file, settings, step, spoiled, suspect>>
  /\ \A th \in Threads : todo[th] # <<>> => todo'[th] = todo[th]
  /\ stale \subseteq stale'
  /\ \A f \in Files \ stale' : memory'[f] = memory[f]

Loops == SavePoll \/ SaveServed \/ SaveOtherDone \/ ReadPoll \/ ReadServed

LEMMA LoopsOutside == ASSUME IInv, Loops PROVE Outside /\ IdleBetweenTurns'
  <1>1. UNCHANGED <<file, memory, settings, step, proc, spoiled, suspect, stale>>
    BY DEF Loops, SavePoll, SaveServed, SaveOtherDone, ReadPoll, ReadServed, onDisk, history
  <1>2. /\ \A th \in Threads : todo[th] # <<>> => todo'[th] = todo[th]
        /\ todo'["loader"] = todo["loader"]
        /\ save_pc' \in {"off", "poll"} => todo'["save"] = <<>>
        /\ read_pc' \in {"off", "poll"} => todo'["read"] = <<>>
    <2>1. CASE SavePoll
      BY <2>1 DEF SavePoll, StartOther, IInv, TypeOK, IdleBetweenTurns, Idle, Threads
    <2>2. CASE SaveServed
      BY <2>2 DEF SaveServed, StartOther, IInv, TypeOK, IdleBetweenTurns, Idle, Threads
    <2>3. CASE SaveOtherDone
      BY <2>3 DEF SaveOtherDone, IInv, IdleBetweenTurns, Idle
    <2>4. CASE ReadPoll
      BY <2>4 DEF ReadPoll, IInv, TypeOK, IdleBetweenTurns, Idle, Threads
    <2>5. CASE ReadServed
      BY <2>5 DEF ReadServed, IInv, IdleBetweenTurns, Idle
    <2>6. QED
      BY <2>1, <2>2, <2>3, <2>4, <2>5 DEF Loops
  <1>3. proc \in {"down", "loading"} => save_pc' = "off" /\ read_pc' = "off"
    BY DEF Loops, SavePoll, SaveServed, SaveOtherDone, ReadPoll, ReadServed, IInv,
           IdleBetweenTurns
  <1>4. QED
    BY <1>1, <1>2, <1>3 DEF Outside, IInv, IdleBetweenTurns, Idle

LEMMA MenuOutside == ASSUME IInv, Menu PROVE Outside /\ IdleBetweenTurns'
  <1>1. UNCHANGED <<file, settings, step, spoiled, suspect, save_pc, read_pc, proc>>
    BY DEF Menu, Edit, ShowWeapon, CopyConfig, Randomize, ToggleSound, ToggleAutosave,
           ClickSave, ClickLoad, onDisk, loops, history
  <1>2. /\ \A th \in Threads : todo[th] # <<>> => todo'[th] = todo[th]
        /\ \A th \in Threads \ {"render"} : todo'[th] = todo[th]
    BY DEF Menu, Edit, ShowWeapon, CopyConfig, Randomize, ToggleSound, ToggleAutosave,
           ClickSave, ClickLoad, Drawing, Idle, IInv, TypeOK
  <1>3. stale \subseteq stale' /\ \A f \in Files \ stale' : memory'[f] = memory[f]
    <2>1. ASSUME NEW f \in SkinFiles, NEW k \in Kits, Edit(f, k)
          PROVE  stale \subseteq stale' /\ \A g \in Files \ stale' : memory'[g] = memory[g]
      BY <2>1 DEF Edit, Change, IInv, TypeOK
    <2>2. ASSUME NEW f \in SkinFiles, ShowWeapon(f)
          PROVE  stale \subseteq stale' /\ \A g \in Files \ stale' : memory'[g] = memory[g]
      BY <2>2 DEF ShowWeapon, Change, IInv, TypeOK
    <2>3. ASSUME NEW f \in SkinFiles, NEW h \in SkinFiles, CopyConfig(f, h)
          PROVE  stale \subseteq stale' /\ \A g \in Files \ stale' : memory'[g] = memory[g]
      BY <2>3 DEF CopyConfig, Change, IInv, TypeOK
    <2>4. ASSUME NEW k1 \in Kits, NEW k2 \in Kits, Randomize(k1, k2)
          PROVE  stale \subseteq stale' /\ \A g \in Files \ stale' : memory'[g] = memory[g]
      BY <2>4 DEF Randomize, Change, IInv, TypeOK, SkinFiles
    <2>5. CASE ToggleSound \/ ToggleAutosave
      BY <2>5 DEF ToggleSound, ToggleAutosave, Change, IInv, TypeOK
    <2>6. CASE ClickSave \/ ClickLoad
      BY <2>6 DEF ClickSave, ClickLoad, history
    <2>7. QED
      BY <2>1, <2>2, <2>3, <2>4, <2>5, <2>6 DEF Menu
  <1>4. IdleBetweenTurns'
    BY <1>1, <1>2 DEF IInv, IdleBetweenTurns, Idle, Threads
  <1>5. QED
    BY <1>1, <1>2, <1>3, <1>4 DEF Outside

LEMMA LifeOutside ==
  ASSUME IInv, Start \/ Loaded \/ Detach
  PROVE  Outside /\ IdleBetweenTurns'
  <1>1. UNCHANGED <<file, memory, settings, step, spoiled, suspect, stale>>
    BY DEF Start, Loaded, Detach, onDisk, history
  <1>2. CASE Start
    BY <1>1, <1>2 DEF Start, loops, Outside, IInv, TypeOK, IdleBetweenTurns, Idle, Threads
  <1>3. CASE Loaded
    BY <1>1, <1>3 DEF Loaded, Outside, IInv, IdleBetweenTurns, Idle
  <1>4. CASE Detach
    BY <1>1, <1>4 DEF Detach, loops, Outside, IInv, TypeOK, IdleBetweenTurns, Idle, Threads
  <1>5. QED
    BY <1>2, <1>3, <1>4

LEMMA OutsideKeeps ==
  ASSUME IInv, Outside
  PROVE  BusyHasJob' /\ OneClean' /\ CleanLoadIsCurrent' /\ CleanSaveIsCurrent'
         /\ CleanFilesAgree'
  <1>1. \A th \in Threads : Busy(th)' = Busy(th) /\ (Busy(th) => todo'[th] = todo[th])
    BY DEF Outside, IInv, BusyHasJob, Busy
  <1>2. BusyHasJob'
    BY <1>1 DEF Outside, IInv, BusyHasJob, Busy, Job
  <1>3. OneClean'
    BY <1>1 DEF Outside, IInv, OneClean
  <1>4. CleanLoadIsCurrent'
    BY <1>1 DEF Outside, IInv, CleanLoadIsCurrent, Busy, Doing, Job
  <1>5. CleanSaveIsCurrent'
    BY <1>1 DEF Outside, IInv, CleanSaveIsCurrent, Busy, Doing, Job, Agrees
  <1>6. CleanFilesAgree'
    BY <1>1 DEF Outside, IInv, CleanFilesAgree, Busy, Doing, Job, Agrees
  <1>7. QED
    BY <1>2, <1>3, <1>4, <1>5, <1>6

LEMMA ForgetKeeps ==
  ASSUME IInv, Forget
  PROVE  BusyHasJob' /\ IdleBetweenTurns' /\ OneClean' /\ CleanLoadIsCurrent'
         /\ CleanSaveIsCurrent' /\ CleanFilesAgree'
  <1>1. \A th \in Threads : step'[th] = "begin" /\ todo'[th] = <<>>
    BY DEF Forget
  <1>2. BusyHasJob' /\ OneClean' /\ CleanLoadIsCurrent' /\ CleanSaveIsCurrent'
    BY <1>1 DEF BusyHasJob, OneClean, CleanLoadIsCurrent, CleanSaveIsCurrent, Busy
  <1>3. IdleBetweenTurns'
    BY <1>1 DEF IdleBetweenTurns, Idle, Forget, Threads
  <1>4. CleanFilesAgree'
    BY DEF CleanFilesAgree, Forget
  <1>5. QED
    BY <1>2, <1>3, <1>4

LEMMA NextIInv == IInv /\ [Next]_vars => IInv'
  <1> SUFFICES ASSUME IInv, [Next]_vars PROVE IInv'
    OBVIOUS
  <1>0. TypeOK'
    BY NextType DEF IInv
  <1>1. ASSUME NEW th \in Threads, NEW f \in Files, Access(th, f) PROVE IInv'
    BY <1>0, <1>1, AccessControl, AccessOneClean, AccessCleanLoad, AccessCleanSave,
       AccessCleanFiles DEF IInv
  <1>2. CASE Loops
    BY <1>0, <1>2, LoopsOutside, OutsideKeeps DEF IInv
  <1>3. CASE Menu
    BY <1>0, <1>3, MenuOutside, OutsideKeeps DEF IInv
  <1>4. CASE Start \/ Loaded \/ Detach
    BY <1>0, <1>4, LifeOutside, OutsideKeeps DEF IInv
  <1>5. CASE Detached \/ Kill
    <2>1. Forget
      BY <1>5 DEF Detached, Kill
    <2>2. QED
      BY <1>0, <2>1, ForgetKeeps DEF IInv
  <1>6. CASE UNCHANGED vars
    BY <1>6 DEF vars, IInv, TypeOK, BusyHasJob, IdleBetweenTurns, OneClean,
                CleanLoadIsCurrent, CleanSaveIsCurrent, CleanFilesAgree,
                Busy, Idle, Doing, Job, Agrees
  <1>7. QED
    BY <1>1, <1>2, <1>3, <1>4, <1>5, <1>6 DEF Next, FileStep, Access, Loops

\* The one scratch value of the store never carries one file's content into
\* another, or an old value over a newer one, unnoticed: a file whose value was
\* not changed since its last undisturbed load or save says what memory says,
\* however loads, saves, the menu, crashes and restarts interleave.
THEOREM CleanFilesAlwaysAgree == Spec => []CleanFilesAgree
  <1>1. IInv => CleanFilesAgree
    BY DEF IInv
  <1>2. QED
    BY InitIInv, NextIInv, <1>1, PTL DEF Spec
=============================================================================
