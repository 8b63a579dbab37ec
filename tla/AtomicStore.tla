----------------------------- MODULE AtomicStore -----------------------------
(***************************************************************************)
(* What the configuration store promises, whoever calls it: files and a    *)
(* value in memory for each, where a load or a save that no other one      *)
(* overlaps is a single step.  A save takes effect at once and is open     *)
(* until its file is closed; an access that overlaps it, or the end of the *)
(* process, may spoil the file, and a spoiled file is known as damaged.    *)
(***************************************************************************)
CONSTANTS
  Threads,
  Files,
  Remembering,  \* the files that keep every value they ever got
  Values, None,
  FirstMem, FirstDisk

VARIABLES
  mem,      \* [Files -> value in memory]
  disk,     \* [Files -> file]
  dirty,    \* files whose value in memory may be another than the one saved or loaded last
  damaged,  \* files that may have anything in them
  open,     \* the file whose last save is not closed, if any
  inside,   \* threads inside a load or a save
  crossed   \* those of them another one overlapped

store == <<mem, disk, dirty, damaged, open>>
vars  == <<mem, disk, dirty, damaged, open, inside, crossed>>

Contents == [state : {"missing", "torn", "whole"}, value : Values \union {None},
             kept : SUBSET Values]
TornFile == [state |-> "torn", value |-> None, kept |-> {}]

\* File f with the value in memory put into it; None changes nothing.
Put(f) ==
  IF mem[f] = None THEN [disk[f] EXCEPT !.state = "whole"]
  ELSE [state |-> "whole", value |-> mem[f],
        kept |-> IF f \in Remembering THEN disk[f].kept \union {mem[f]} ELSE {}]

Init ==
  /\ mem = FirstMem /\ disk = FirstDisk
  /\ dirty = Files /\ damaged = {} /\ open = {}
  /\ inside = {} /\ crossed = {}

\* Values in memory change: by the user, or by a load that another overlapped.
Change ==
  /\ mem' \in [Files -> Values \union {None}]
  /\ dirty \subseteq dirty' /\ dirty' \subseteq Files
  /\ \A f \in Files \ dirty' : mem'[f] = mem[f]
  /\ UNCHANGED <<disk, damaged, open>>

Load(f) ==
  /\ open = {}
  /\ disk[f].state = "whole" /\ disk[f].value # None
  /\ mem' = [mem EXCEPT ![f] = disk[f].value]
  /\ dirty' = dirty \ {f}
  /\ UNCHANGED <<disk, damaged, open>>

Save(f) ==
  /\ open = {}
  /\ disk' = [disk EXCEPT ![f] = Put(f)]
  /\ open' = {f}
  /\ dirty' = dirty \ {f}
  /\ damaged' = damaged \ {f}
  /\ UNCHANGED mem

Close == open # {} /\ open' = {} /\ UNCHANGED <<mem, disk, dirty, damaged>>

\* A file cannot be saved, and is what it was.
Refuse(f) == open = {} /\ damaged' = damaged \union {f} /\ UNCHANGED <<mem, disk, dirty, open>>

\* Accesses overlap: files are damaged, among them the open one, and the rest is
\* left alone.
Overlap ==
  /\ crossed \union crossed' # {}
  /\ damaged \subseteq damaged' /\ damaged' \subseteq Files
  /\ disk' \in [Files -> Contents]
  /\ dirty' \subseteq dirty
  /\ \A f \in Files \ damaged' : disk'[f] = disk[f] /\ (f \in dirty => f \in dirty')
  /\ open' = open \ damaged'
  /\ UNCHANGED mem

\* One thread at a time enters, goes on or leaves; it overlaps with those inside.
Turn ==
  \E th \in Threads :
    /\ inside' \ {th} = inside \ {th}
    /\ crossed' \ crossed \subseteq IF inside \subseteq {th} THEN {} ELSE inside \union {th}
    /\ crossed' \subseteq inside'

\* The process ends and starts again some day: a save that is open is lost,
\* with the file.
End ==
  /\ mem' = FirstMem
  /\ disk' = [f \in Files |-> IF f \in open THEN TornFile ELSE disk[f]]
  /\ dirty' = Files /\ damaged' = {} /\ open' = {}
  /\ inside' = {} /\ crossed' = {}

Next ==
  \/ /\ Turn
     /\ \/ UNCHANGED store
        \/ \E f \in Files : Load(f) \/ Save(f) \/ Refuse(f)
        \/ Change \/ Close \/ Overlap
  \/ End

Spec == Init /\ [][Next]_vars

\* What a file says that is neither dirty nor damaged is what memory says: in
\* this specification of the store, by what each of its steps does.
CleanIsOnDisk ==
  \A f \in Files \ (dirty \union damaged) :
    disk[f].state = "whole" /\ mem[f] \in {None, disk[f].value}

\* A remembered value is lost only with its file, which is then damaged, or was
\* open when the process ended.
KeptUnlessDamaged ==
  \A f \in Remembering :
    disk[f].kept \subseteq disk'[f].kept \/ f \in damaged' \/ (f \in open /\ End)
NothingIsForgotten == [][KeptUnlessDamaged]_vars
=============================================================================
