----------------------------- MODULE ConfigStore -----------------------------
(***************************************************************************)
(* The configuration store of the changer: one `config` object             *)
(* (Config.cpp) whose member `settings`, a JSON tree, is the scratch value *)
(* of EVERY load and save, and the four threads that call it with no lock: *)
(* the thread that initialises and tears down the library ("loader"),      *)
(* save_thread and read_thread of Menu.cpp, and the thread that draws the  *)
(* menu ("render").  The statements of a load or a save that touch         *)
(* `settings` or a file are steps of their own.                            *)
(*                                                                         *)
(* Data.  A skin file remembers, for one weapon of one team, the paint kit *)
(* chosen last (LastPaintKit) and the kits whose details it has ever       *)
(* stored; the sound file and the file of other options remember one       *)
(* switch each.  A file that was truncated and not yet rewritten is torn:  *)
(* it does not parse.                                                      *)
(***************************************************************************)
EXTENDS Naturals, Sequences, FiniteSets

CONSTANTS
  Kits,             \* paint kits
  DefaultKit,       \* paint kit 0, what a weapon gets when the menu shows it
  None,             \* no value
  SoundsPrecached,  \* Options::sounds_precached when the library starts
  OpenMayFail,      \* whether opening a file for writing may fail
  FirstDisk,        \* the files an earlier session left
  Bound             \* bounds of the environment's actions, by kind

Kinds == {"edit", "silent", "option", "sound", "request", "kill", "detach"}

Threads   == {"loader", "save", "read", "render"}
SkinFiles == {"ct", "t"}
Files     == SkinFiles \union {"sounds", "other"}
Steps     == {"begin", "fetched", "opened"}
Jobs      == [op : {"read", "write"}, file : Files]

Switch == {"off", "on"}  \* a JSON boolean

Json == [last : Kits \union {None}, hist : SUBSET Kits,
         sounds : Switch \union {None}, other : Switch \union {None}]
Null == [last |-> None, hist |-> {}, sounds |-> None, other |-> None]

\* A file on disk.  `doc` is what parsing it yields.
Missing    == [state |-> "missing", doc |-> Null]
Torn       == [state |-> "torn", doc |-> Null]
Whole(doc) == [state |-> "whole", doc |-> doc]

Disk       == {Missing, Torn} \union {Whole(doc) : doc \in Json}

ASSUME ConstantsAssumption ==
  /\ DefaultKit \in Kits
  /\ None \notin Kits /\ None \notin Switch
  /\ SoundsPrecached \in BOOLEAN /\ OpenMayFail \in BOOLEAN
  /\ Bound \in [Kinds -> Nat]
  /\ FirstDisk \in [Files -> Disk]

\* What the program starts with (Options.cpp).
Defaults ==
  [f \in Files |-> IF f \in SkinFiles THEN None ELSE "off"]

VARIABLES
  file,       \* [Files -> file on disk]
  memory,     \* Options::config_ct, config_t, config_old_sounds, autosave_if_changed
  settings,   \* config::settings
  todo,       \* [Threads -> the loads and saves a thread still has to do]
  step,       \* [Threads -> how far it is in the first of them]
  save_flag,  \* should_save_config
  read_flag,  \* should_read_config
  save_other, \* should_save_other, a local of save_thread
  save_pc,    \* where save_thread is in its loop
  read_pc,    \* where read_thread is in its loop
  proc,       \* the state of the library in the process
  used,       \* [Kinds -> how many environment actions were taken] (bounded)
  \* What no code reads: the history the properties are about.
  spoiled,    \* threads whose running load or save was disturbed by another
  stale,      \* files whose value in memory changed since it was last merged
  suspect,    \* files whose last save was disturbed, refused or not opened
  late,       \* files whose value in memory changed since the pass of save_thread, or
              \* Restore, began
  promised,   \* files changed while "Save config at every change" was on, not merged since
  stored      \* [SkinFiles -> kits the file held when it was last closed]

onDisk  == <<file, stored>>
flags   == <<save_flag, read_flag>>
loops   == <<save_other, save_pc, read_pc>>
history == <<spoiled, stale, suspect, late, promised, stored>>
vars    == <<file, memory, settings, todo, step, save_flag, read_flag, save_other,
             save_pc, read_pc, proc, used, spoiled, stale, suspect, late, promised, stored>>

Reads(fs)  == [i \in DOMAIN fs |-> [op |-> "read", file |-> fs[i]]]
Writes(fs) == [i \in DOMAIN fs |-> [op |-> "write", file |-> fs[i]]]

Init ==
  /\ file = FirstDisk
  /\ memory = Defaults
  /\ settings = Null
  /\ todo = [th \in Threads |-> <<>>]
  /\ step = [th \in Threads |-> "begin"]
  /\ save_flag = FALSE /\ read_flag = FALSE
  /\ save_other = FALSE /\ save_pc = "off" /\ read_pc = "off"
  /\ proc = "down"
  /\ used = [k \in Kinds |-> 0]
  /\ spoiled = {} /\ stale = Files /\ suspect = {} /\ late = {} /\ promised = {}
  /\ stored = [f \in SkinFiles |-> FirstDisk[f].doc.hist]

Spend(k) == used[k] < Bound[k] /\ used' = [used EXCEPT ![k] = @ + 1]

-----------------------------------------------------------------------------
(* One load or save, by any thread.                                        *)

Busy(th)     == step[th] # "begin"
Job(th)      == Head(todo[th])
Doing(th, op, f) == todo[th] # <<>> /\ Job(th) = [op |-> op, file |-> f]
At(th, s)    == todo[th] # <<>> /\ step[th] = s
OnFile(f)    == {th \in Threads : Busy(th) /\ Job(th).file = f}
Finish(th)   == todo' = [todo EXCEPT ![th] = Tail(@)] /\ step' = [step EXCEPT ![th] = "begin"]
Goto(th, s)  == step' = [step EXCEPT ![th] = s] /\ UNCHANGED todo

\* A thread that changes `settings` or file f disturbs whoever is using it.
Disturb(S, th) == (spoiled \union {u \in Threads : Busy(u) /\ u \in S}) \ {th}

\* write_weapon: the kit becomes LastPaintKit, and its details are kept beside
\* those of the other kits.  (The knife and the gloves are written likewise.)
PutSkin(doc, kit) ==
  IF kit = None THEN doc ELSE [doc EXCEPT !.last = kit, !.hist = @ \union {kit}]
PutSounds(doc)  == [doc EXCEPT !.sounds = memory["sounds"]]
PutOptions(doc) == [doc EXCEPT !.other = memory["other"]]

\* Mutants of Merged: the file of one team gets the other's configuration; no
\* check that there is anything to write.
MergedSwapped(doc, f) ==
  IF f \in SkinFiles THEN PutSkin(doc, memory["ct"])
  ELSE IF f = "sounds" THEN PutSounds(doc) ELSE PutOptions(doc)
MergedUnchecked(doc, f) ==
  IF f \in SkinFiles THEN [doc EXCEPT !.last = memory[f], !.hist = @ \union {memory[f]}]
  ELSE IF f = "sounds" THEN PutSounds(doc) ELSE PutOptions(doc)

\* A document with the entries of the value in memory.
Merged(doc, f) ==
  IF f \in SkinFiles THEN PutSkin(doc, memory[f])
  ELSE IF f = "sounds" THEN PutSounds(doc) ELSE PutOptions(doc)

\* asBool() of an absent value is false.
AsBool(v) == IF v = None THEN "off" ELSE v
Flip(v)   == IF v = "on" THEN "off" ELSE "on"

\* read_weapon leaves last_pk uninitialised when the document has no
\* LastPaintKit: any kit, or nothing is read.
GotSkin(doc, f)    == IF doc.last = None THEN Kits \union {memory[f]} ELSE {doc.last}
GotOptions(doc, f) == IF doc.other = None THEN {memory[f]} ELSE {doc.other}

\* The values memory may get from a document.
Applied(doc, f) ==
  IF f \in SkinFiles THEN GotSkin(doc, f)
  ELSE IF f = "sounds" THEN {AsBool(doc.sounds)} ELSE GotOptions(doc, f)

\* Mutants of FetchToWrite: the old file is not parsed; a skin file that does
\* not parse is given up.
FetchToWriteBlank(th, f) ==
  /\ At(th, "begin") /\ Doing(th, "write", f)
  /\ settings' = Null
  /\ Goto(th, "fetched")
  /\ spoiled' = IF OnFile(f) = {} THEN Disturb(Threads, th) ELSE Disturb(Threads, th) \union {th}
  /\ UNCHANGED <<file, memory, flags, loops, proc, used, stale, suspect, late, promised, stored>>
FetchToWriteGivesUp(th, f) ==
  /\ At(th, "begin") /\ Doing(th, "write", f)
  /\ settings' = IF f = "other" THEN Null ELSE file[f].doc
  /\ IF f # "other" /\ file[f].state = "torn" THEN Finish(th) ELSE Goto(th, "fetched")
  /\ spoiled' = IF OnFile(f) = {} THEN Disturb(Threads, th) ELSE Disturb(Threads, th) \union {th}
  /\ UNCHANGED <<file, memory, flags, loops, proc, used, stale, suspect, late, promised, stored>>

\* Mutant of FetchToWrite: no settings.clear(), so that what does not parse leaves
\* the document of another file there.
FetchToWriteUncleared(th, f) ==
  /\ At(th, "begin") /\ Doing(th, "write", f)
  /\ settings' = IF file[f].state = "whole" THEN file[f].doc ELSE settings
  /\ Goto(th, "fetched")
  /\ spoiled' = IF OnFile(f) = {} THEN Disturb(Threads, th) ELSE Disturb(Threads, th) \union {th}
  /\ UNCHANGED <<file, memory, flags, loops, proc, used, stale, suspect, late, promised, stored>>

\* settings.clear(), then the file is parsed into settings.  A save of the
\* other options does not read the file; a save of the sounds gives up on a
\* file that does not parse, and a save of skins goes on with what it has.
FetchToWrite(th, f) ==
  /\ At(th, "begin") /\ Doing(th, "write", f)
  /\ settings' = IF f = "other" THEN Null ELSE file[f].doc
  /\ IF f = "sounds" /\ file[f].state = "torn"
     THEN /\ Finish(th)
          /\ suspect' = suspect \union {f}
          /\ spoiled' = Disturb(Threads, th)
     ELSE /\ Goto(th, "fetched")
          /\ spoiled' = IF OnFile(f) = {} THEN Disturb(Threads, th)
                        ELSE Disturb(Threads, th) \union {th}
          /\ UNCHANGED suspect
  /\ UNCHANGED <<file, memory, flags, loops, proc, used, stale, late, promised, stored>>

\* The entries of the value in memory are put into settings, and
\* out.open(filename) truncates the file.  (Opening touches nothing but the
\* file, so it is one step with the writing of the entries.)
MergeAndOpen(th, f) ==
  /\ At(th, "fetched") /\ Doing(th, "write", f)
  /\ settings' = Merged(settings, f)
  /\ file' = [file EXCEPT ![f] = Torn]
  /\ Goto(th, "opened")
  /\ spoiled' = Disturb(Threads, th) \union (spoiled \intersect {th})
  /\ stale' = stale \ {f}
  /\ promised' = promised \ {f}
  /\ UNCHANGED <<memory, flags, loops, proc, used, suspect, late, stored>>

\* The file cannot be opened: a message box, and nothing is saved.
OpenFails(th, f) ==
  /\ OpenMayFail
  /\ At(th, "fetched") /\ Doing(th, "write", f)
  /\ settings' = Merged(settings, f)
  /\ Finish(th)
  /\ suspect' = suspect \union {f}
  /\ spoiled' = Disturb(Threads, th)
  /\ UNCHANGED <<file, memory, flags, loops, proc, used, stale, late, promised, stored>>

\* writer->write(settings, &out), flush, close.  Another thread's use of
\* settings or of the file in the meantime may leave text that does not parse.
Flush(th, f) ==
  /\ At(th, "opened") /\ Doing(th, "write", f)
  /\ \E result \in {Whole(settings)} \union (IF th \in spoiled THEN {Torn} ELSE {}) :
       /\ file' = [file EXCEPT ![f] = result]
       /\ stored' = IF f \in SkinFiles THEN [stored EXCEPT ![f] = result.doc.hist]
                                        ELSE stored
  /\ Finish(th)
  /\ suspect' = IF th \in spoiled THEN suspect \union {f} ELSE suspect \ {f}
  /\ spoiled' = Disturb(OnFile(f), th)
  /\ UNCHANGED <<memory, settings, flags, loops, proc, used, stale, late, promised>>

\* Mutant of FetchToRead: a file that was missing is read again when it is created.
FetchToReadAgain(th, f) ==
  /\ At(th, "begin") /\ Doing(th, "read", f)
  /\ IF file[f].state = "missing"
     THEN /\ todo' = [todo EXCEPT ![th] = <<[op |-> "write", file |-> f]>> \o @]
          /\ UNCHANGED <<step, settings, spoiled>>
     ELSE /\ IF file[f].state = "torn" THEN Finish(th) ELSE Goto(th, "fetched")
          /\ settings' = file[f].doc
          /\ spoiled' = IF OnFile(f) = {} THEN Disturb(Threads, th)
                        ELSE Disturb(Threads, th) \union {th}
  /\ UNCHANGED <<file, memory, flags, loops, proc, used, stale, suspect, late, promised, stored>>

\* A load parses the file into settings.  A missing file is created from
\* memory; one that does not parse is given up.
FetchToRead(th, f) ==
  /\ At(th, "begin") /\ Doing(th, "read", f)
  /\ \/ /\ file[f].state = "missing"
        /\ todo' = [todo EXCEPT ![th] = <<[op |-> "write", file |-> f]>> \o Tail(@)]
        /\ settings' = IF f = "sounds" THEN settings ELSE Null
        /\ spoiled' = IF f = "sounds" THEN spoiled ELSE Disturb(Threads, th)
        /\ UNCHANGED step
     \/ /\ file[f].state = "torn"
        /\ Finish(th)
        /\ settings' = Null
        /\ spoiled' = Disturb(Threads, th)
     \/ /\ file[f].state = "whole"
        /\ Goto(th, "fetched")
        /\ settings' = file[f].doc
        /\ spoiled' = IF OnFile(f) = {} THEN Disturb(Threads, th)
                      ELSE Disturb(Threads, th) \union {th}
  /\ UNCHANGED <<file, memory, flags, loops, proc, used, stale, suspect, late, promised, stored>>

\* The value in memory is overwritten from settings.
Apply(th, f) ==
  /\ At(th, "fetched") /\ Doing(th, "read", f)
  /\ \E v \in Applied(settings, f) :
       /\ memory' = [memory EXCEPT ![f] = v]
       /\ stale' = IF th \in spoiled \/ (f \in SkinFiles /\ settings.last = None)
                      \/ (f = "other" /\ settings.other = None)
                   THEN stale \union {f} ELSE stale \ {f}
       /\ late' = late \union {f}
       /\ promised' = promised \ {f}
  /\ Finish(th)
  /\ spoiled' = spoiled \ {th}
  /\ UNCHANGED <<file, settings, flags, loops, proc, used, suspect, stored>>

FileStep(th) ==
  \E f \in Files : \/ FetchToWrite(th, f) \/ MergeAndOpen(th, f)
                   \/ OpenFails(th, f) \/ Flush(th, f)
                   \/ FetchToRead(th, f) \/ Apply(th, f)

-----------------------------------------------------------------------------
(* save_thread and read_thread.                                            *)

Idle(th) == todo[th] = <<>>

\* Mutant of StartOther: should_save_other is never set.
StartOtherNever ==
  /\ save_pc' = "poll"
  /\ UNCHANGED <<save_other, todo>>

\* The second half of a turn: the other options, if this is not the first turn.
StartOther ==
  /\ save_other' = TRUE
  /\ IF save_other
     THEN todo' = [todo EXCEPT !["save"] = Writes(<<"other">>)] /\ save_pc' = "saving_other"
     ELSE save_pc' = "poll" /\ UNCHANGED todo

\* Mutant of SavePoll: one of the four saves is missing.
SavePollSkipsT ==
  /\ save_pc = "poll"
  /\ IF save_flag
     THEN /\ todo' = [todo EXCEPT !["save"] = Writes(<<"ct", "sounds", "other">>)]
          /\ late' = IF proc = "detaching" THEN late ELSE {}
          /\ save_pc' = "saving"
          /\ UNCHANGED save_other
     ELSE StartOther /\ UNCHANGED late
  /\ UNCHANGED <<onDisk, memory, settings, step, flags, read_pc, proc, used,
                 spoiled, stale, suspect, promised>>

\* save_thread starts a turn: it saves everything if that is requested, and
\* otherwise the other options alone, except in its first turn.  should_save_other
\* and the sleep are its own business, so they take no step of their own.
SavePoll ==
  /\ save_pc = "poll"
  /\ IF save_flag
     THEN /\ todo' = [todo EXCEPT !["save"] = Writes(<<"ct", "t", "sounds", "other">>)]
          /\ late' = IF proc = "detaching" THEN late ELSE {}
          /\ save_pc' = "saving"
          /\ UNCHANGED save_other
     ELSE /\ StartOther
          /\ UNCHANGED late
  /\ UNCHANGED <<onDisk, memory, settings, step, flags, read_pc, proc, used,
                 spoiled, stale, suspect, promised>>

\* Everything is saved: the request is cleared, whoever made it and when.
SaveServed ==
  /\ save_pc = "saving" /\ Idle("save")
  /\ save_flag' = FALSE
  /\ StartOther
  /\ UNCHANGED <<onDisk, memory, settings, step, read_flag, read_pc, proc, used,
                 spoiled, stale, suspect, late, promised>>

SaveOtherDone ==
  /\ save_pc = "saving_other" /\ Idle("save")
  /\ save_pc' = "poll"
  /\ UNCHANGED <<onDisk, memory, settings, todo, step, flags, save_other, read_pc, proc,
                 used, spoiled, stale, suspect, late, promised>>

\* Mutant of ReadPoll: it waits for the other thread's flag.
ReadPollOther ==
  /\ read_pc = "poll"
  /\ save_flag
  /\ todo' = [todo EXCEPT !["read"] = Reads(<<"ct", "t", "sounds", "other">>)]
  /\ read_pc' = "reading"
  /\ UNCHANGED <<file, memory, settings, step, flags, save_other, save_pc, proc, used, history>>

\* One turn of read_thread; nothing else happens in a turn without a request.
ReadPoll ==
  /\ read_pc = "poll"
  /\ read_flag
  /\ todo' = [todo EXCEPT !["read"] = Reads(<<"ct", "t", "sounds", "other">>)]
  /\ read_pc' = "reading"
  /\ UNCHANGED <<file, memory, settings, step, flags, save_other, save_pc, proc, used, history>>

ReadServed ==
  /\ read_pc = "reading" /\ Idle("read")
  /\ read_flag' = FALSE
  /\ read_pc' = "poll"
  /\ UNCHANGED <<file, memory, settings, todo, step, save_flag, save_other, save_pc, proc,
                 used, history>>

-----------------------------------------------------------------------------
(* The menu, drawn by the render thread; it draws nothing while a click on *)
(* a sound saves the sounds.                                               *)

Drawing == proc # "down" /\ Idle("render")

\* Memory changes to m in the files F.
Change(m, F) ==
  /\ memory' = m
  /\ stale' = stale \union F
  /\ late' = late \union F
  /\ promised' = IF memory["other"] = "on" THEN promised \union F ELSE promised

\* The user picks a kit for the weapon shown; with the option on, that
\* requests a save.
Edit(f, k) ==
  /\ Drawing /\ Spend("edit")
  /\ memory[f] # k
  /\ Change([memory EXCEPT ![f] = k], {f})
  /\ save_flag' = (save_flag \/ memory["other"] = "on")
  /\ UNCHANGED <<onDisk, settings, todo, step, read_flag, loops, proc, spoiled, suspect>>

\* Opening the weapon list gives a weapon that is not configured kit 0.
ShowWeapon(f) ==
  /\ Drawing /\ Spend("silent")
  /\ memory[f] = None
  /\ Change([memory EXCEPT ![f] = DefaultKit], {f})
  /\ UNCHANGED <<onDisk, settings, todo, step, flags, loops, proc, spoiled, suspect>>

\* The two copy buttons, and the one that makes a random configuration.
CopyConfig(from, to) ==
  /\ Drawing /\ Spend("silent")
  /\ memory[from] # memory[to]
  /\ Change([memory EXCEPT ![to] = memory[from]], {to})
  /\ UNCHANGED <<onDisk, settings, todo, step, flags, loops, proc, spoiled, suspect>>

Randomize(k1, k2) ==
  /\ Drawing /\ Spend("silent")
  /\ Change([memory EXCEPT !["ct"] = k1, !["t"] = k2], SkinFiles)
  /\ UNCHANGED <<onDisk, settings, todo, step, flags, loops, proc, spoiled, suspect>>

\* A click on a switch of the old sounds saves them there and then.
ToggleSound ==
  /\ Drawing /\ SoundsPrecached /\ Spend("sound")
  /\ Change([memory EXCEPT !["sounds"] = Flip(@)], {"sounds"})
  /\ todo' = [todo EXCEPT !["render"] = Writes(<<"sounds">>)]
  /\ UNCHANGED <<onDisk, settings, step, flags, loops, proc, spoiled, suspect>>

\* The switch "Save config at every change".
ToggleAutosave ==
  /\ Drawing /\ Spend("option")
  /\ Change([memory EXCEPT !["other"] = Flip(@)], {"other"})
  /\ UNCHANGED <<onDisk, settings, todo, step, flags, loops, proc, spoiled, suspect>>

ClickSave ==
  /\ Drawing /\ Spend("request")
  /\ save_flag' = TRUE
  /\ UNCHANGED <<file, memory, settings, todo, step, read_flag, loops, proc, history>>

ClickLoad ==
  /\ Drawing /\ Spend("request")
  /\ read_flag' = TRUE
  /\ UNCHANGED <<file, memory, settings, todo, step, save_flag, loops, proc, history>>

Menu ==
  \/ \E f \in SkinFiles, k \in Kits : Edit(f, k)
  \/ \E f \in SkinFiles : ShowWeapon(f)
  \/ \E f, g \in SkinFiles : CopyConfig(f, g)
  \/ \E k1, k2 \in Kits : Randomize(k1, k2)
  \/ ToggleSound \/ ToggleAutosave \/ ClickSave \/ ClickLoad

-----------------------------------------------------------------------------
(* The life of the library in the process.                                 *)

\* Hooks::Initialize loads the configuration ...
Start ==
  /\ proc = "down"
  /\ proc' = "loading"
  /\ todo' = [todo EXCEPT !["loader"] =
                IF SoundsPrecached THEN Reads(<<"sounds", "ct", "t", "other">>)
                                   ELSE Reads(<<"ct", "t", "other">>)]
  /\ UNCHANGED <<file, memory, settings, step, flags, loops, used, history>>

\* ... and starts the two threads.
Loaded ==
  /\ proc = "loading" /\ Idle("loader")
  /\ proc' = "running"
  /\ save_pc' = "poll" /\ read_pc' = "poll"
  /\ UNCHANGED <<file, memory, settings, todo, step, flags, save_other, used, history>>

\* Mutant of Detach: Restore saves one team only.
DetachHalf ==
  /\ proc = "running" /\ Spend("detach")
  /\ proc' = "detaching"
  /\ todo' = [todo EXCEPT !["loader"] = Writes(<<"t">>)]
  /\ late' = {}
  /\ UNCHANGED <<onDisk, memory, settings, step, flags, loops, spoiled, stale, suspect, promised>>

\* The library is unloaded: Hooks::Restore saves both teams.
Detach ==
  /\ proc = "running" /\ Spend("detach")
  /\ proc' = "detaching"
  /\ todo' = [todo EXCEPT !["loader"] = Writes(<<"t", "ct">>)]
  /\ late' = {}
  /\ UNCHANGED <<onDisk, memory, settings, step, flags, loops, spoiled, stale, suspect, promised>>

\* The process forgets everything but the files.
Forget ==
  /\ proc' = "down"
  /\ memory' = Defaults /\ settings' = Null
  /\ todo' = [th \in Threads |-> <<>>] /\ step' = [th \in Threads |-> "begin"]
  /\ save_flag' = FALSE /\ read_flag' = FALSE
  /\ save_other' = FALSE /\ save_pc' = "off" /\ read_pc' = "off"
  /\ spoiled' = {} /\ stale' = Files /\ suspect' = {} /\ late' = {} /\ promised' = {}
  /\ stored' = [f \in SkinFiles |-> file[f].doc.hist]
  /\ UNCHANGED file

Detached == proc = "detaching" /\ Idle("loader") /\ Forget /\ UNCHANGED used

\* The process ends at any moment; DllMain does not call Restore then.
Kill == proc # "down" /\ Spend("kill") /\ Forget

Next ==
  \/ \E th \in Threads : FileStep(th)
  \/ SavePoll \/ SaveServed \/ SaveOtherDone
  \/ ReadPoll \/ ReadServed
  \/ Menu
  \/ Start \/ Loaded \/ Detach \/ Detached \/ Kill

\* The scheduler runs every thread; nothing obliges the user, and nothing
\* makes a file open.
Fairness ==
  /\ \A th \in Threads : WF_vars(FileStep(th))
  /\ WF_vars(SavePoll) /\ WF_vars(SaveServed) /\ WF_vars(SaveOtherDone)
  /\ WF_vars(ReadPoll) /\ WF_vars(ReadServed)
  /\ WF_vars(Loaded) /\ WF_vars(Detached)

Spec     == Init /\ [][Next]_vars
FairSpec == Spec /\ Fairness

-----------------------------------------------------------------------------
(* Properties.                                                             *)

\* Every variable has its type.
TypeOK ==
  /\ file \in [Files -> [state : {"missing", "torn", "whole"}, doc : Json]]
  /\ memory \in [Files -> Kits \union Switch \union {None}]
  /\ \A f \in SkinFiles : memory[f] \in Kits \union {None}
  /\ memory["sounds"] \in Switch /\ memory["other"] \in Switch
  /\ settings \in Json
  /\ todo \in [Threads -> Seq(Jobs)]
  /\ step \in [Threads -> Steps]
  /\ save_flag \in BOOLEAN /\ read_flag \in BOOLEAN /\ save_other \in BOOLEAN
  /\ save_pc \in {"off", "poll", "saving", "saving_other"}
  /\ read_pc \in {"off", "poll", "reading"}
  /\ proc \in {"down", "loading", "running", "detaching"}
  /\ used \in [Kinds -> Nat]
  /\ spoiled \subseteq Threads
  /\ stale \subseteq Files /\ suspect \subseteq Files
  /\ late \subseteq Files /\ promised \subseteq Files
  /\ stored \in [SkinFiles -> SUBSET Kits]

\* What a document says of f is what memory says.
Agrees(doc, f) ==
  IF f \in SkinFiles THEN memory[f] \in {None, doc.last}
  ELSE IF f = "sounds" THEN memory[f] = AsBool(doc.sounds)
  ELSE memory[f] = doc.other

\* A file no thread is rewriting, whose value did not change in memory since
\* the last save or load, and whose last save was not disturbed, is whole and
\* says what memory says: the one scratch value `settings` never carries one
\* file's content, or half of it, into another file unnoticed.
CleanFilesAgree ==
  \A f \in Files \ (stale \union suspect) :
    \/ \E th \in Threads : step[th] = "opened" /\ Doing(th, "write", f)
    \/ file[f].state = "whole" /\ Agrees(file[f].doc, f)

\* When save_thread clears should_save_config, what it leaves out of the files
\* was changed after the pass began, or could not be saved: a request is
\* cleared only when it was served.
RequestIsServed ==
  [][SaveServed /\ proc = "running" => stale \ suspect \subseteq late]_vars

\* Likewise when Restore is over and the library is gone: both teams' files
\* hold what the user had configured when it began.
RestoreSavesBothTeams ==
  [][Detached => (stale \intersect SkinFiles) \ suspect \subseteq late]_vars

\* Saving a kit never loses the details stored for another kit of the same
\* weapon: an undisturbed save keeps every kit the file held.
HistoryIsKept ==
  [][\A th \in Threads, f \in SkinFiles :
       Flush(th, f) /\ th \notin spoiled => stored[f] \subseteq stored'[f]]_vars

\* A skin file torn by a crash in the middle of a save is whole again when
\* the next requested pass is over.
PassRepairsSkinFiles ==
  [][SaveServed => \A f \in SkinFiles \ suspect :
       \/ file[f].state = "whole"
       \/ \E th \in Threads : step[th] = "opened" /\ Doing(th, "write", f)]_vars

\* How many steps a thread has left at most: of a load of a missing file, one
\* more than of a save.
StepsOf(op, s) ==
  IF op = "read" THEN IF s = "begin" THEN 4 ELSE 1
  ELSE IF s = "begin" THEN 3 ELSE IF s = "fetched" THEN 2 ELSE 1
StepsLeft(th) ==
  IF todo[th] = <<>> THEN 0 ELSE 4 * (Len(todo[th]) - 1) + StepsOf(Job(th).op, step[th])

\* A pass ends, whatever the files are and whether they open: each step of a
\* thread leaves it fewer, a file that is created is not loaded again, and
\* nobody gives it more to do before it is done.
EveryPassEnds ==
  [][\A th \in Threads :
       /\ FileStep(th) => StepsLeft(th)' < StepsLeft(th)
       /\ StepsLeft(th)' > StepsLeft(th) => StepsLeft(th) = 0]_vars

\* A request of the menu is cleared some day, whatever else runs.
RequestsEnd == (save_flag ~> ~save_flag) /\ (read_flag ~> ~read_flag)

\* A changed option reaches its file without any request, by the periodic save.
OptionsReachDisk == ("other" \in stale) ~> ("other" \notin stale \/ proc = "down")

\* "Save config at every change" (Hooks.cpp): with the option on, a change
\* of a team's configuration is saved some day.
EveryChangeIsSaved ==
  \A f \in SkinFiles : (f \in promised) ~> (f \notin promised)

-----------------------------------------------------------------------------
(* The store implements AtomicStore.                                       *)

\* Threads that rewrite f, and those of them no other disturbed.
Writers(f) == {th \in Threads : step[th] = "opened" /\ Doing(th, "write", f)}
Sound(f)   == Writers(f) \ spoiled

\* What a file says of its own value.
Content(f, disk) ==
  [state |-> disk.state,
   value |-> IF disk.state # "whole" THEN None
             ELSE IF f \in SkinFiles THEN disk.doc.last
             ELSE IF f = "sounds" THEN AsBool(disk.doc.sounds) ELSE disk.doc.other,
   kept  |-> IF f \in SkinFiles THEN disk.doc.hist ELSE {}]

\* An undisturbed save counts from the moment it has merged: it is sure to write
\* what settings has, unless it is disturbed before it does.
AtomicDisk    == [f \in Files |-> Content(f, IF Sound(f) # {} THEN Whole(settings) ELSE file[f])]
AtomicOpen    == {f \in Files : Sound(f) # {}}
AtomicDamaged == {f \in Files \ AtomicOpen : f \in suspect \/ Writers(f) # {}}

Atomic == INSTANCE AtomicStore WITH
  Remembering <- SkinFiles, Values <- Kits \union Switch, FirstMem <- Defaults,
  FirstDisk <- [f \in Files |-> Content(f, FirstDisk[f])],
  mem <- memory, disk <- AtomicDisk, dirty <- stale, damaged <- AtomicDamaged, open <- AtomicOpen,
  inside <- {th \in Threads : Busy(th)}, crossed <- spoiled

\* Loads and saves that do not overlap are atomic: each reads its file and puts
\* memory into it, or it into memory, in one step, leaves every other file
\* alone, and what overlaps or ends it damages no file but those it has open.
StoreIsAtomic == Atomic!Spec
=============================================================================
