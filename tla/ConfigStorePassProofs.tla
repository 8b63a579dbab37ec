------------------------ MODULE ConfigStorePassProofs ------------------------
(***************************************************************************)
(* Proofs of what a pass over the files achieves (ConfigStore): a pass of  *)
(* save_thread, the two saves of Hooks::Restore, and the single save.      *)
(*                                                                         *)
(* A property of the step that ends a pass says nothing of how the pass    *)
(* went; what carries it is the account of what the pass has still to do.  *)
(* While it runs, a file that is not up to date is among the saves the     *)
(* pass has left, or was changed after it began, or its save was given up; *)
(* when nothing is left, only the other two remain.                        *)
(***************************************************************************)
EXTENDS ConfigStoreProofs

\* The files a list of jobs saves, and those a thread has still to save: a
\* save under way counts until the value in memory is merged.
WritesIn(s) == {f \in Files : \E i \in 1..Len(s) : s[i] = [op |-> "write", file |-> f]}
Left(th)    == WritesIn(IF step[th] = "opened" THEN Tail(todo[th]) ELSE todo[th])

Opened(th, f) == step[th] = "opened" /\ Doing(th, "write", f)

\* The last save of f failed, and no save under way will say otherwise.
GivenUp(f) == f \in suspect /\ \A th \in Threads : Opened(th, f) => th \in spoiled

\* Of the files F that are not up to date, th will save those that were so
\* when its pass began.
Ahead(th, F) == \A f \in (stale \intersect F) \ late : f \in Left(th) \/ GivenUp(f)

\* Of the files that do not parse, th will save those no other thread is saving.
RepairAhead(th) ==
  \A f \in Files : \/ f \in Left(th) \/ f \in suspect \/ file[f].state = "whole"
                   \/ \E u \in Threads : Opened(u, f)

PassGoesOn    == save_pc = "saving" /\ proc = "running" => Ahead("save", Files)
RestoreGoesOn == proc = "detaching" => Ahead("loader", SkinFiles)
RepairGoesOn  == save_pc = "saving" => RepairAhead("save")

\* The kits a file held when it was last closed are those it holds, but for a
\* file being rewritten; an undisturbed save has them in settings.
StoredIsOnDisk ==
  \A f \in SkinFiles : \/ stored[f] = file[f].doc.hist
                       \/ \E th \in Threads : Opened(th, f)
CleanSaveKeeps ==
  \A th \in Threads, f \in SkinFiles :
    Busy(th) /\ Doing(th, "write", f) /\ th \notin spoiled => stored[f] \subseteq settings.hist

PassInv ==
  /\ IInv
  /\ PassGoesOn /\ RestoreGoesOn /\ RepairGoesOn
  /\ StoredIsOnDisk /\ CleanSaveKeeps

-----------------------------------------------------------------------------
(* Lists of jobs.                                                           *)

\* What a list saves is what its first job saves and what the rest does.
LEMMA WritesInTail ==
  ASSUME NEW s \in Seq(Jobs), s # <<>>
  PROVE  /\ WritesIn(Tail(s)) \subseteq WritesIn(s)
         /\ \A f \in WritesIn(s) : Head(s) = [op |-> "write", file |-> f] \/ f \in WritesIn(Tail(s))
  <1>1. /\ Len(s) \in Nat /\ Len(s) > 0 /\ Head(s) = s[1]
        /\ Tail(s) \in Seq(Jobs) /\ Len(Tail(s)) = Len(s) - 1
        /\ \A i \in 1..Len(Tail(s)) : Tail(s)[i] = s[i+1]
    BY EmptySeq, HeadTailProperties
  <1>2. ASSUME NEW f \in WritesIn(Tail(s)) PROVE f \in WritesIn(s)
    <2>1. PICK i \in 1..Len(Tail(s)) : Tail(s)[i] = [op |-> "write", file |-> f]
      BY <1>2 DEF WritesIn
    <2>2. i + 1 \in 1..Len(s) /\ s[i+1] = [op |-> "write", file |-> f]
      BY <1>1, <2>1
    <2>3. QED
      BY <1>2, <2>2 DEF WritesIn
  <1>3. ASSUME NEW f \in WritesIn(s), Head(s) # [op |-> "write", file |-> f]
        PROVE  f \in WritesIn(Tail(s))
    <2>1. PICK i \in 1..Len(s) : s[i] = [op |-> "write", file |-> f]
      BY DEF WritesIn
    <2>2. i # 1
      BY <1>1, <1>3, <2>1
    <2>3. i - 1 \in 1..Len(Tail(s)) /\ Tail(s)[i-1] = s[i]
      BY <1>1, <2>1, <2>2
    <2>4. QED
      BY <2>1, <2>3 DEF WritesIn
  <1>4. QED
    BY <1>2, <1>3

LEMMA WritesInList ==
  ASSUME NEW fs \in Seq(Files), NEW i \in 1..Len(fs)
  PROVE  fs[i] \in WritesIn(Writes(fs))
  <1>1. Len(fs) \in Nat /\ DOMAIN fs = 1..Len(fs) /\ fs[i] \in Files
    OBVIOUS
  <1>2. Writes(fs) = [j \in 1..Len(fs) |-> [op |-> "write", file |-> fs[j]]]
    BY <1>1 DEF Writes
  <1>3. Len(Writes(fs)) = Len(fs)
    <2>1. Writes(fs) \in Seq(Jobs) /\ DOMAIN Writes(fs) = 1..Len(fs)
      BY <1>2, JobListType
    <2>2. QED
      BY <1>1, <2>1, LenProperties
  <1>4. QED
    BY <1>1, <1>2, <1>3 DEF WritesIn

LEMMA NothingLeft == ASSUME NEW th \in Threads, Idle(th), step[th] = "begin" PROVE Left(th) = {}
  BY DEF Idle, Left, WritesIn

-----------------------------------------------------------------------------
(* The steps of a load or a save.                                           *)

\* What a thread has left, it has left after the step, unless the value was
\* merged in that step or its save was given up.
LEMMA AccessLeft ==
  ASSUME IInv, NEW u \in Threads, NEW f \in Files, Access(u, f), NEW th \in Threads,
         NEW g \in Left(th)
  PROVE  \/ g \in Left(th)'
         \/ g = f /\ g \notin stale' /\ Opened(u, f)'
         \/ g = f /\ GivenUp(g)'
  <1> DEFINE job == [op |-> "write", file |-> g]
  <1>0. /\ todo[u] # <<>> /\ todo[u] \in Seq(Jobs) /\ g \in Files
        /\ \A w \in Threads \ {u} : todo'[w] = todo[w] /\ step'[w] = step[w]
    BY AccessShape DEF IInv, TypeOK, Left, WritesIn
  <1>1. CASE th # u
    BY <1>0, <1>1 DEF Left
  <1>2. CASE th = u
    <2>1. g \in WritesIn(todo[u]) \/ g \in WritesIn(Tail(todo[u]))
      BY <1>2 DEF Left
    <2>2. g \in WritesIn(Tail(todo[u])) \/ (Job(u) = job /\ step[u] # "opened")
      BY <1>0, <1>2, <2>1, WritesInTail DEF Left, Job
    <2>3. CASE Finish(u) /\ g \in WritesIn(Tail(todo[u]))
      BY <1>2, <2>3 DEF Finish, Left, IInv, TypeOK
    <2>4. CASE Goto(u, "fetched") /\ step[u] = "begin"
      BY <1>2, <2>4 DEF Goto, Left, IInv, TypeOK
    <2>5. CASE MergeAndOpen(u, f)
      <3>1. CASE g \in WritesIn(Tail(todo[u]))
        BY <1>2, <2>5, <3>1 DEF MergeAndOpen, Goto, Left, IInv, TypeOK
      <3>2. CASE Job(u) = job
        <4>1. g = f /\ g \notin stale'
          BY <2>5, <3>2 DEF MergeAndOpen, Doing
        <4>2. Opened(u, f)'
          BY <2>5 DEF MergeAndOpen, Goto, Opened, Doing, Job, IInv, TypeOK
        <4>3. QED
          BY <4>1, <4>2
      <3>3. QED
        BY <2>2, <3>1, <3>2
    <2>6. CASE Finish(u) /\ (FetchToWrite(u, f) \/ OpenFails(u, f)) /\ Job(u) = job
      <3>1. g = f
        BY <2>6 DEF FetchToWrite, OpenFails, Doing
      <3>2. g \in suspect' /\ \A w \in Threads \ {u} : Busy(w) => w \in spoiled'
        BY <2>6, <3>1 DEF FetchToWrite, OpenFails, Disturb, Goto, Finish, IInv, TypeOK
      <3>3. step'[u] = "begin"
        BY <2>6 DEF Finish, IInv, TypeOK
      <3>4. GivenUp(g)'
        BY <1>0, <3>2, <3>3 DEF GivenUp, Opened, Busy
      <3>5. QED
        BY <3>1, <3>4
    <2>7. CASE Flush(u, f)
      BY <1>2, <2>2, <2>3, <2>7 DEF Flush, At
    <2>8. CASE Apply(u, f)
      BY <2>2, <2>3, <2>8 DEF Apply, Doing
    <2>9. CASE FetchToRead(u, f)
      <3>1. g \in WritesIn(Tail(todo[u]))
        BY <2>2, <2>9 DEF FetchToRead, Doing
      <3>2. CASE file[f].state = "missing"
        <4> DEFINE w == [op |-> "write", file |-> f]
                   s == <<w>> \o Tail(todo[u])
        <4>1. todo'[u] = s /\ step'[u] = "begin"
          BY <2>9, <3>2 DEF FetchToRead, At, IInv, TypeOK
        <4>2. w \in Jobs /\ Tail(todo[u]) \in Seq(Jobs)
          BY <1>0 DEF Jobs
        <4>3. s \in Seq(Jobs) /\ s # <<>> /\ Tail(s) = Tail(todo[u])
          BY <4>2
        <4>4. g \in WritesIn(s)
          BY <3>1, <4>3, WritesInTail
        <4>5. QED
          BY <1>2, <4>1, <4>4 DEF Left
      <3>3. CASE file[f].state # "missing"
        BY <2>3, <2>4, <2>9, <3>1, <3>3 DEF FetchToRead, At
      <3>4. QED
        BY <3>2, <3>3
    <2>10. CASE FetchToWrite(u, f)
      BY <2>2, <2>3, <2>4, <2>6, <2>10 DEF FetchToWrite, At
    <2>11. CASE OpenFails(u, f)
      BY <2>2, <2>3, <2>6, <2>11 DEF OpenFails
    <2>12. QED
      BY <2>5, <2>7, <2>8, <2>9, <2>10, <2>11 DEF Access
  <1>3. QED
    BY <1>1, <1>2

\* A save given up stays so until another begins to rewrite the file.
LEMMA AccessGivenUp ==
  ASSUME IInv, NEW u \in Threads, NEW f \in Files, Access(u, f), NEW g \in Files, GivenUp(g)
  PROVE  GivenUp(g)' \/ g \notin stale'
  <1>0. /\ \A w \in Threads \ {u} : todo'[w] = todo[w] /\ step'[w] = step[w]
        /\ step'[u] # "begin" => todo'[u] = todo[u]
    BY AccessShape DEF IInv
  <1>1. \A w \in Threads \ {u} : w \in spoiled => w \in spoiled'
    BY DEF Access, FetchToWrite, MergeAndOpen, OpenFails, Flush, FetchToRead, Apply, Disturb
  <1>2. \A w \in Threads \ {u} : Opened(w, g)' => w \in spoiled'
    BY <1>0, <1>1 DEF GivenUp, Opened, Doing, Job
  <1>3. CASE MergeAndOpen(u, f)
    <2>1. CASE g = f
      BY <1>3, <2>1 DEF MergeAndOpen
    <2>2. CASE g # f
      <3>1. ~ Opened(u, g)' /\ g \in suspect'
        BY <1>3, <2>2 DEF MergeAndOpen, Goto, Opened, Doing, Job, GivenUp
      <3>2. QED
        BY <1>2, <3>1 DEF GivenUp
    <2>3. QED
      BY <2>1, <2>2
  <1>4. CASE Flush(u, f)
    <2>1. g \in suspect'
      BY <1>4 DEF Flush, GivenUp, Opened, At
    <2>2. ~ Opened(u, g)'
      BY <1>4 DEF Flush, Finish, Opened, IInv, TypeOK
    <2>3. QED
      BY <1>2, <2>1, <2>2 DEF GivenUp
  <1>5. CASE FetchToWrite(u, f) \/ OpenFails(u, f) \/ FetchToRead(u, f) \/ Apply(u, f)
    <2>1. g \in suspect' /\ ~ Opened(u, g)'
      BY <1>5 DEF FetchToWrite, OpenFails, FetchToRead, Apply, Finish, Goto, At, Opened,
                  GivenUp, IInv, TypeOK
    <2>2. QED
      BY <1>2, <2>1 DEF GivenUp
  <1>6. QED
    BY <1>3, <1>4, <1>5 DEF Access

LEMMA AccessAhead ==
  ASSUME IInv, NEW u \in Threads, NEW f \in Files, Access(u, f),
         NEW th \in Threads, NEW F \in SUBSET Files, Ahead(th, F)
  PROVE  Ahead(th, F)'
  <1> SUFFICES ASSUME NEW g \in (stale' \intersect F) \ late'
               PROVE  (g \in Left(th))' \/ GivenUp(g)'
    BY DEF Ahead
  <1>1. g \in (stale \intersect F) \ late
    BY DEF Access, FetchToWrite, MergeAndOpen, OpenFails, Flush, FetchToRead, Apply
  <1>2. g \in Left(th) \/ GivenUp(g)
    BY <1>1 DEF Ahead
  <1>3. QED
    BY <1>2, AccessLeft, AccessGivenUp

LEMMA AccessRepair ==
  ASSUME IInv, NEW u \in Threads, NEW f \in Files, Access(u, f),
         NEW th \in Threads, RepairAhead(th)
  PROVE  RepairAhead(th)'
  <1> SUFFICES ASSUME NEW g \in Files
               PROVE  (\/ g \in Left(th) \/ g \in suspect \/ file[g].state = "whole"
                       \/ \E w \in Threads : Opened(w, g))'
    BY DEF RepairAhead
  <1>0. \A w \in Threads \ {u} : todo'[w] = todo[w] /\ step'[w] = step[w]
    BY AccessShape DEF IInv
  <1>1. \A w \in Threads \ {u} : Opened(w, g) => Opened(w, g)'
    BY <1>0 DEF Opened, Doing, Job
  <1>2. g \in Left(th) \/ g \in suspect \/ file[g].state = "whole" \/ \E w \in Threads : Opened(w, g)
    BY DEF RepairAhead
  <1>3. g \in Left(th) => \/ (g \in Left(th) \/ g \in suspect)'
                          \/ \E w \in Threads : Opened(w, g)'
    BY AccessLeft DEF GivenUp
  <1>4. CASE Flush(u, f)
    <2>1. CASE g = f
      <3>1. g \in suspect' \/ file'[g] = Whole(settings)
        BY <1>4, <2>1 DEF Flush, IInv, TypeOK
      <3>2. QED
        BY <3>1 DEF Whole
    <2>2. CASE g # f
      <3>1. (g \in suspect => g \in suspect') /\ file'[g] = file[g] /\ ~ Opened(u, g)
        BY <1>4, <2>2 DEF Flush, Opened, Doing, Job, IInv, TypeOK
      <3>2. QED
        BY <1>1, <1>2, <1>3, <3>1
    <2>3. QED
      BY <2>1, <2>2
  <1>5. CASE MergeAndOpen(u, f)
    <2>1. CASE g = f
      <3>1. Opened(u, f)'
        BY <1>5 DEF MergeAndOpen, Goto, Opened, Doing, Job, IInv, TypeOK
      <3>2. QED
        BY <2>1, <3>1
    <2>2. CASE g # f
      <3>1. (g \in suspect => g \in suspect') /\ file'[g] = file[g] /\ ~ Opened(u, g)
        BY <1>5, <2>2 DEF MergeAndOpen, At, Opened, IInv, TypeOK
      <3>2. QED
        BY <1>1, <1>2, <1>3, <3>1
    <2>3. QED
      BY <2>1, <2>2
  <1>6. CASE FetchToWrite(u, f) \/ OpenFails(u, f) \/ FetchToRead(u, f) \/ Apply(u, f)
    <2>1. (g \in suspect => g \in suspect') /\ file' = file /\ ~ Opened(u, g)
      BY <1>6 DEF FetchToWrite, OpenFails, FetchToRead, Apply, At, Opened
    <2>2. QED
      BY <1>1, <1>2, <1>3, <2>1
  <1>7. QED
    BY <1>4, <1>5, <1>6 DEF Access

LEMMA AccessStored ==
  ASSUME IInv, NEW u \in Threads, NEW f \in Files, Access(u, f), StoredIsOnDisk
  PROVE  StoredIsOnDisk'
  <1> SUFFICES ASSUME NEW g \in SkinFiles
               PROVE  (stored[g] = file[g].doc.hist \/ \E w \in Threads : Opened(w, g))'
    BY DEF StoredIsOnDisk
  <1>0. /\ \A w \in Threads \ {u} : todo'[w] = todo[w] /\ step'[w] = step[w]
        /\ g \in Files
    BY AccessShape DEF IInv, Files
  <1>1. \A w \in Threads \ {u} : Opened(w, g) => Opened(w, g)'
    BY <1>0 DEF Opened, Doing, Job
  <1>2. CASE Flush(u, f)
    <2>1. PICK result \in {Whole(settings)} \union (IF u \in spoiled THEN {Torn} ELSE {}) :
            /\ file' = [file EXCEPT ![f] = result]
            /\ stored' = IF f \in SkinFiles THEN [stored EXCEPT ![f] = result.doc.hist]
                                             ELSE stored
      BY <1>2 DEF Flush
    <2>2. CASE g = f
      BY <2>1, <2>2 DEF IInv, TypeOK
    <2>3. CASE g # f
      <3>1. file'[g] = file[g] /\ stored'[g] = stored[g] /\ ~ Opened(u, g)
        BY <1>0, <1>2, <2>1, <2>3 DEF Flush, Opened, Doing, Job, IInv, TypeOK
      <3>2. QED
        BY <1>1, <3>1 DEF StoredIsOnDisk
    <2>4. QED
      BY <2>2, <2>3
  <1>3. CASE MergeAndOpen(u, f)
    <2>1. CASE g = f
      <3>1. Opened(u, f)'
        BY <1>3 DEF MergeAndOpen, Goto, Opened, Doing, Job, IInv, TypeOK
      <3>2. QED
        BY <2>1, <3>1
    <2>2. CASE g # f
      <3>1. file'[g] = file[g] /\ stored' = stored /\ ~ Opened(u, g)
        BY <1>0, <1>3, <2>2 DEF MergeAndOpen, At, Opened, IInv, TypeOK
      <3>2. QED
        BY <1>1, <3>1 DEF StoredIsOnDisk
    <2>3. QED
      BY <2>1, <2>2
  <1>4. CASE FetchToWrite(u, f) \/ OpenFails(u, f) \/ FetchToRead(u, f) \/ Apply(u, f)
    <2>1. file' = file /\ stored' = stored /\ ~ Opened(u, g)
      BY <1>4 DEF FetchToWrite, OpenFails, FetchToRead, Apply, At, Opened
    <2>2. QED
      BY <1>1, <2>1 DEF StoredIsOnDisk
  <1>5. QED
    BY <1>2, <1>3, <1>4 DEF Access

\* Merging adds to the history and takes nothing away.
LEMMA MergedKeeps ==
  ASSUME TypeOK, NEW f \in SkinFiles, NEW d \in Json
  PROVE  d.hist \subseteq Merged(d, f).hist
  BY DEF Merged, PutSkin, Json

LEMMA AccessCleanSaveKeeps ==
  ASSUME IInv, NEW u \in Threads, NEW f \in Files, Access(u, f),
         StoredIsOnDisk, CleanSaveKeeps
  PROVE  CleanSaveKeeps'
  <1> SUFFICES ASSUME NEW w \in Threads, NEW g \in SkinFiles,
                      Busy(w)', Doing(w, "write", g)', w \notin spoiled'
               PROVE  stored'[g] \subseteq settings'.hist
    BY DEF CleanSaveKeeps
  <1>0. /\ \A v \in Threads \ {u} : todo'[v] = todo[v] /\ step'[v] = step[v]
        /\ step'[u] # "begin" => todo'[u] = todo[u]
        /\ g \in Files
    BY AccessShape DEF IInv, Files
  <1>1. CASE w # u
    <2>1. Busy(w) /\ Doing(w, "write", g)
      BY <1>0, <1>1 DEF Busy, Doing, Job
    <2>2. UNCHANGED settings /\ w \notin spoiled
      BY <1>1, <2>1 DEF Access, FetchToWrite, MergeAndOpen, OpenFails, Flush, FetchToRead,
                        Apply, Disturb
    <2>3. stored'[g] = stored[g]
      <3>1. CASE Flush(u, f)
        <4>1. g # f
          BY <1>1, <2>1, <3>1 DEF Flush, Disturb, OnFile, Doing, Job
        <4>2. QED
          BY <3>1, <4>1 DEF Flush, IInv, TypeOK
      <3>2. CASE ~ Flush(u, f)
        BY <3>2 DEF Access, FetchToWrite, MergeAndOpen, OpenFails, FetchToRead, Apply
      <3>3. QED
        BY <3>1, <3>2
    <2>4. QED
      BY <2>1, <2>2, <2>3 DEF CleanSaveKeeps
  <1>2. CASE w = u
    <2>0. Doing(u, "write", g)
      BY <1>0, <1>2 DEF Busy, Doing, Job
    <2>1. CASE FetchToWrite(u, f)
      <3>1. g = f
        BY <2>0, <2>1 DEF FetchToWrite, Doing
      <3>2. OnFile(f) = {} /\ settings' = file[f].doc /\ stored' = stored
        BY <1>2, <2>1, <3>1 DEF FetchToWrite, SkinFiles
      <3>3. stored[f] = file[f].doc.hist
        BY <3>1, <3>2 DEF StoredIsOnDisk, OnFile, Opened, Busy, Doing, Job
      <3>4. QED
        BY <3>1, <3>2, <3>3
    <2>2. CASE MergeAndOpen(u, f)
      <3>1. g = f /\ u \notin spoiled /\ Busy(u)
        BY <1>2, <2>0, <2>2 DEF MergeAndOpen, Doing, Busy, At
      <3>2. stored[f] \subseteq settings.hist
        BY <2>0, <3>1 DEF CleanSaveKeeps
      <3>3. settings' = Merged(settings, f) /\ stored' = stored
        BY <2>2 DEF MergeAndOpen
      <3>4. QED
        BY <3>1, <3>2, <3>3, MergedKeeps DEF IInv, TypeOK
    <2>3. CASE OpenFails(u, f) \/ Flush(u, f) \/ Apply(u, f) \/ FetchToRead(u, f)
      BY <1>2, <2>0, <2>3 DEF OpenFails, Flush, Apply, FetchToRead, Finish, Busy, Doing, IInv, TypeOK
    <2>4. QED
      BY <2>1, <2>2, <2>3 DEF Access
  <1>3. QED
    BY <1>1, <1>2

-----------------------------------------------------------------------------
(* The other steps.                                                         *)

\* They leave the saves under way alone, and take nothing from what a thread
\* has still to do.
LEMMA OutsideLeft ==
  ASSUME IInv, Outside
  PROVE  /\ \A th \in Threads : Left(th) \subseteq Left(th)'
         /\ \A th \in Threads, f \in Files : Opened(th, f)' = Opened(th, f)
         /\ \A f \in Files : GivenUp(f)' = GivenUp(f)
  <1>1. ASSUME NEW th \in Threads PROVE Left(th) \subseteq Left(th)'
    <2>1. CASE todo[th] = <<>>
      BY <2>1, NothingLeft DEF Idle, IInv, BusyHasJob, Busy
    <2>2. CASE todo[th] # <<>>
      BY <2>2 DEF Outside, Left
    <2>3. QED
      BY <2>1, <2>2
  <1>2. ASSUME NEW th \in Threads, NEW f \in Files PROVE Opened(th, f)' = Opened(th, f)
    BY DEF Outside, Opened, Doing, Job, Busy, IInv, BusyHasJob
  <1>3. \A f \in Files : GivenUp(f)' = GivenUp(f)
    BY <1>2 DEF Outside, GivenUp
  <1>4. QED
    BY <1>1, <1>2, <1>3

LEMMA OutsideAhead ==
  ASSUME IInv, Outside, stale' \ late' \subseteq stale \ late
  PROVE  /\ \A th \in Threads, F \in SUBSET Files : Ahead(th, F) => Ahead(th, F)'
         /\ \A th \in Threads : RepairAhead(th) => RepairAhead(th)'
  <1>1. ASSUME NEW th \in Threads, NEW F \in SUBSET Files, Ahead(th, F) PROVE Ahead(th, F)'
    BY <1>1, OutsideLeft DEF Ahead
  <1>2. ASSUME NEW th \in Threads, RepairAhead(th) PROVE RepairAhead(th)'
    BY <1>2, OutsideLeft DEF RepairAhead, Outside
  <1>3. QED
    BY <1>1, <1>2

LEMMA OutsideStored ==
  ASSUME IInv, Outside, UNCHANGED stored
  PROVE  /\ StoredIsOnDisk => StoredIsOnDisk'
         /\ CleanSaveKeeps => CleanSaveKeeps'
  <1>1. StoredIsOnDisk => StoredIsOnDisk'
    BY OutsideLeft DEF StoredIsOnDisk, Outside, Files
  <1>2. CleanSaveKeeps => CleanSaveKeeps'
    BY DEF CleanSaveKeeps, Outside, Busy, Doing, Job, IInv, BusyHasJob
  <1>3. QED
    BY <1>1, <1>2

\* A pass that begins has everything left to do.
LEMMA PassBegins ==
  ASSUME NEW th \in Threads, NEW fs \in Seq(Files), todo'[th] = Writes(fs), step'[th] = "begin"
  PROVE  \A i \in 1..Len(fs) : fs[i] \in Left(th)'
  BY WritesInList DEF Left

LEMMA LoopsPass == ASSUME PassInv, Loops PROVE PassInv'
  <1>0. Outside /\ IInv' /\ UNCHANGED <<proc, stored>>
    <2>1. Outside
      BY LoopsOutside DEF PassInv
    <2>2. [Next]_vars
      BY DEF Loops, Next
    <2>3. QED
      BY <2>1, <2>2, NextIInv
         DEF PassInv, Loops, SavePoll, SaveServed, SaveOtherDone, ReadPoll, ReadServed,
             onDisk, history
  <1>1. StoredIsOnDisk' /\ CleanSaveKeeps'
    BY <1>0, OutsideStored DEF PassInv
  <1>2. CASE SavePoll /\ save_flag
    <2>1. \A f \in Files : f \in Left("save")'
      <3> DEFINE fs == <<"ct", "t", "sounds", "other">>
      <3>1. todo'["save"] = Writes(fs) /\ step'["save"] = "begin"
        BY <1>2 DEF SavePoll, Threads, PassInv, IInv, TypeOK, BusyHasJob, IdleBetweenTurns,
                    Idle, Busy
      <3>2. \A i \in 1..4 : fs[i] \in Left("save")'
        BY <3>1, ListType, PassBegins DEF Threads
      <3>3. fs[1] = "ct" /\ fs[2] = "t" /\ fs[3] = "sounds" /\ fs[4] = "other"
        OBVIOUS
      <3> HIDE DEF fs
      <3>4. QED
        BY <3>2, <3>3 DEF Files, SkinFiles
    <2>2. PassGoesOn' /\ RepairGoesOn'
      BY <2>1 DEF PassGoesOn, RepairGoesOn, Ahead, RepairAhead
    <2>3. RestoreGoesOn'
      <3>1. proc = "detaching" => stale' \ late' \subseteq stale \ late
        BY <1>2 DEF SavePoll
      <3>2. QED
        BY <1>0, <3>1, OutsideAhead DEF PassInv, RestoreGoesOn, Threads, Files
    <2>4. QED
      BY <1>0, <1>1, <2>2, <2>3 DEF PassInv
  <1>3. CASE (SavePoll /\ ~ save_flag) \/ SaveServed \/ SaveOtherDone \/ ReadPoll \/ ReadServed
    <2>1. UNCHANGED <<stale, late>>
      BY <1>3 DEF SavePoll, SaveServed, SaveOtherDone, ReadPoll, ReadServed, StartOther, history
    <2>2. save_pc' = "saving" => save_pc = "saving"
      BY <1>3 DEF SavePoll, SaveServed, SaveOtherDone, ReadPoll, ReadServed, StartOther
    <2>3. QED
      BY <1>0, <1>1, <2>1, <2>2, OutsideAhead
         DEF PassInv, PassGoesOn, RestoreGoesOn, RepairGoesOn, Threads, Files
  <1>4. QED
    BY <1>2, <1>3 DEF Loops

LEMMA MenuPass == ASSUME PassInv, Menu PROVE PassInv'
  <1>1. Outside /\ IInv'
    BY MenuOutside, NextIInv DEF PassInv, Next
  <1>2. UNCHANGED <<proc, save_pc, stored>>
    BY DEF Menu, Edit, ShowWeapon, CopyConfig, Randomize, ToggleSound, ToggleAutosave,
           ClickSave, ClickLoad, onDisk, loops, history
  <1>3. stale' \ late' \subseteq stale \ late
    BY DEF Menu, Edit, ShowWeapon, CopyConfig, Randomize, ToggleSound, ToggleAutosave,
           ClickSave, ClickLoad, Change, history
  <1>4. QED
    BY <1>1, <1>2, <1>3, OutsideAhead, OutsideStored
       DEF PassInv, PassGoesOn, RestoreGoesOn, RepairGoesOn, Threads, Files

LEMMA LifePass == ASSUME PassInv, Start \/ Loaded \/ Detach PROVE PassInv'
  <1>1. Outside /\ IInv' /\ UNCHANGED stored
    BY LifeOutside, NextIInv DEF PassInv, Next, Start, Loaded, Detach, onDisk, history
  <1>2. StoredIsOnDisk' /\ CleanSaveKeeps'
    BY <1>1, OutsideStored DEF PassInv
  <1>3. CASE Start \/ Loaded
    BY <1>1, <1>2, <1>3
       DEF PassInv, IInv, IdleBetweenTurns, Start, Loaded, loops, PassGoesOn, RestoreGoesOn,
           RepairGoesOn
  <1>4. CASE Detach
    <2>1. \A f \in SkinFiles : f \in Left("loader")'
      <3> DEFINE fs == <<"t", "ct">>
      <3>1. todo'["loader"] = Writes(fs) /\ step'["loader"] = "begin"
        BY <1>4 DEF Detach, Threads, PassInv, IInv, TypeOK, BusyHasJob, IdleBetweenTurns,
                    Idle, Busy
      <3>2. \A i \in 1..2 : fs[i] \in Left("loader")'
        BY <3>1, ListType, PassBegins DEF Threads
      <3>3. fs[1] = "t" /\ fs[2] = "ct"
        OBVIOUS
      <3> HIDE DEF fs
      <3>4. QED
        BY <3>2, <3>3 DEF SkinFiles
    <2>2. RestoreGoesOn' /\ PassGoesOn'
      BY <1>4, <2>1 DEF Detach, RestoreGoesOn, PassGoesOn, Ahead
    <2>3. RepairGoesOn'
      BY <1>1, <1>4, OutsideLeft DEF Detach, loops, PassInv, RepairGoesOn, RepairAhead, Outside,
                                     Threads
    <2>4. QED
      BY <1>1, <1>2, <2>2, <2>3 DEF PassInv
  <1>5. QED
    BY <1>3, <1>4

LEMMA ForgetPass == ASSUME PassInv, Detached \/ Kill PROVE PassInv'
  <1>1. Forget /\ IInv'
    BY NextIInv DEF PassInv, Next, Detached, Kill
  <1>2. PassGoesOn' /\ RestoreGoesOn' /\ RepairGoesOn'
    BY <1>1 DEF Forget, PassGoesOn, RestoreGoesOn, RepairGoesOn
  <1>3. StoredIsOnDisk' /\ CleanSaveKeeps'
    BY <1>1 DEF Forget, StoredIsOnDisk, CleanSaveKeeps, Busy
  <1>4. QED
    BY <1>1, <1>2, <1>3 DEF PassInv

LEMMA InitPassInv == Init => PassInv
  <1> SUFFICES ASSUME Init PROVE PassInv
    OBVIOUS
  <1>1. PassGoesOn /\ RestoreGoesOn /\ RepairGoesOn
    BY DEF Init, PassGoesOn, RestoreGoesOn, RepairGoesOn
  <1>2. StoredIsOnDisk /\ CleanSaveKeeps
    BY DEF Init, StoredIsOnDisk, CleanSaveKeeps, Busy
  <1>3. QED
    BY InitIInv, <1>1, <1>2 DEF PassInv

LEMMA NextPassInv == PassInv /\ [Next]_vars => PassInv'
  <1> SUFFICES ASSUME PassInv, [Next]_vars PROVE PassInv'
    OBVIOUS
  <1>0. IInv'
    BY NextIInv DEF PassInv
  <1>1. ASSUME NEW u \in Threads, NEW f \in Files, Access(u, f) PROVE PassInv'
    <2>1. UNCHANGED <<save_pc, proc>>
      BY <1>1, AccessShape DEF PassInv, IInv
    <2>2. PassGoesOn' /\ RestoreGoesOn' /\ RepairGoesOn'
      BY <1>1, <2>1, AccessAhead, AccessRepair
         DEF PassInv, PassGoesOn, RestoreGoesOn, RepairGoesOn, Threads, Files
    <2>3. StoredIsOnDisk' /\ CleanSaveKeeps'
      BY <1>1, AccessStored, AccessCleanSaveKeeps DEF PassInv
    <2>4. QED
      BY <1>0, <2>2, <2>3 DEF PassInv
  <1>2. CASE UNCHANGED vars
    BY <1>0, <1>2
       DEF vars, PassInv, PassGoesOn, RestoreGoesOn, RepairGoesOn, Ahead, RepairAhead, GivenUp,
           Left, Opened, StoredIsOnDisk, CleanSaveKeeps, Busy, Doing, Job
  <1>3. QED
    BY <1>1, <1>2, LoopsPass, MenuPass, LifePass, ForgetPass DEF Next, FileStep, Access, Loops

-----------------------------------------------------------------------------
(* What follows.                                                            *)

\* should_save_config is cleared only when the request was served: every file
\* whose value changed before the pass began, and whose save did not fail, is
\* up to date, whoever else loads and saves in the meantime.
THEOREM RequestsAreServed == Spec => RequestIsServed
  <1> DEFINE Step == SaveServed /\ proc = "running" => stale \ suspect \subseteq late
  <1>1. PassInv => Step
    <2> SUFFICES ASSUME PassInv, SaveServed, proc = "running" PROVE stale \ suspect \subseteq late
      OBVIOUS
    <2>1. step["save"] = "begin"
      BY DEF SaveServed, Idle, PassInv, IInv, BusyHasJob, Busy, Threads
    <2>2. Left("save") = {}
      BY <2>1, NothingLeft DEF SaveServed, Threads
    <2>3. Ahead("save", Files)
      BY DEF PassInv, PassGoesOn, SaveServed
    <2>4. QED
      BY <2>2, <2>3 DEF Ahead, GivenUp, PassInv, IInv, TypeOK
  <1>2. QED
    BY <1>1, InitPassInv, NextPassInv, PTL DEF Spec, RequestIsServed

\* When the library is gone, Restore has left in both teams' files what the user
\* had when it began, unless a save failed or the value changed under it.
THEOREM RestoreKeepsBothTeams == Spec => RestoreSavesBothTeams
  <1> DEFINE Step == Detached => (stale \intersect SkinFiles) \ suspect \subseteq late
  <1>1. PassInv => Step
    <2> SUFFICES ASSUME PassInv, Detached
                 PROVE  (stale \intersect SkinFiles) \ suspect \subseteq late
      OBVIOUS
    <2>1. step["loader"] = "begin"
      BY DEF Detached, Idle, PassInv, IInv, BusyHasJob, Busy, Threads
    <2>2. Left("loader") = {}
      BY <2>1, NothingLeft DEF Detached, Threads
    <2>3. Ahead("loader", SkinFiles)
      BY DEF PassInv, RestoreGoesOn, Detached
    <2>4. QED
      BY <2>2, <2>3 DEF Ahead, GivenUp
  <1>2. QED
    BY <1>1, InitPassInv, NextPassInv, PTL DEF Spec, RestoreSavesBothTeams

\* A file torn by a crash is whole when the next requested pass is over.
THEOREM PassRepairs == Spec => PassRepairsSkinFiles
  <1> DEFINE Step == SaveServed => \A f \in SkinFiles \ suspect :
                       \/ file[f].state = "whole"
                       \/ \E th \in Threads : step[th] = "opened" /\ Doing(th, "write", f)
  <1>1. PassInv => Step
    <2> SUFFICES ASSUME PassInv, SaveServed, NEW f \in SkinFiles \ suspect
                 PROVE  \/ file[f].state = "whole"
                        \/ \E th \in Threads : step[th] = "opened" /\ Doing(th, "write", f)
      OBVIOUS
    <2>1. step["save"] = "begin"
      BY DEF SaveServed, Idle, PassInv, IInv, BusyHasJob, Busy, Threads
    <2>2. Left("save") = {}
      BY <2>1, NothingLeft DEF SaveServed, Threads
    <2>3. RepairAhead("save")
      BY DEF PassInv, RepairGoesOn, SaveServed
    <2>4. QED
      BY <2>2, <2>3 DEF RepairAhead, Opened, Files
  <1>2. QED
    BY <1>1, InitPassInv, NextPassInv, PTL DEF Spec, PassRepairsSkinFiles

\* A save that no other thread disturbed keeps, for every kit the file held,
\* the details stored with it.
THEOREM HistoryStays == Spec => HistoryIsKept
  <1> DEFINE Step == \A th \in Threads, f \in SkinFiles :
                       Flush(th, f) /\ th \notin spoiled => stored[f] \subseteq stored'[f]
  <1>1. PassInv => Step
    <2> SUFFICES ASSUME PassInv, NEW th \in Threads, NEW f \in SkinFiles,
                        Flush(th, f), th \notin spoiled
                 PROVE  stored[f] \subseteq stored'[f]
      OBVIOUS
    <2>1. stored'[f] = settings.hist
      BY DEF Flush, Whole, PassInv, IInv, TypeOK
    <2>2. Busy(th) /\ Doing(th, "write", f)
      BY DEF Flush, At, Busy
    <2>3. QED
      BY <2>1, <2>2 DEF PassInv, CleanSaveKeeps
  <1>2. QED
    BY <1>1, InitPassInv, NextPassInv, PTL DEF Spec, HistoryIsKept

-----------------------------------------------------------------------------
(* Every pass ends.                                                         *)

\* A list of jobs and a place in the first have four steps a job at most.
LEMMA CountIsBounded ==
  ASSUME NEW s \in Seq(Jobs), NEW k, s # <<>>
  PROVE  /\ Len(s) \in Nat \ {0} /\ StepsOf(Head(s).op, k) \in 1..4
         /\ 4 * (Len(s) - 1) + StepsOf(Head(s).op, k) \in 4 * (Len(s) - 1) + 1 .. 4 * Len(s)
  <1>1. Len(s) \in Nat \ {0}
    BY EmptySeq
  <1>2. StepsOf(Head(s).op, k) \in 1..4
    BY DEF StepsOf
  <1>3. QED
    BY <1>1, <1>2

LEMMA StepsLeftType ==
  ASSUME TypeOK, NEW th \in Threads
  PROVE  /\ StepsLeft(th) \in Nat /\ todo[th] \in Seq(Jobs)
         /\ todo[th] # <<>> =>
              Len(todo[th]) \in Nat \ {0} /\ StepsLeft(th) >= 4 * (Len(todo[th]) - 1) + 1
  <1>1. todo[th] \in Seq(Jobs)
    BY DEF TypeOK
  <1>2. CASE todo[th] = <<>>
    BY <1>1, <1>2 DEF StepsLeft
  <1>3. CASE todo[th] # <<>>
    <2>1. StepsLeft(th) = 4 * (Len(todo[th]) - 1) + StepsOf(Head(todo[th]).op, step[th])
      BY <1>3 DEF StepsLeft, Job
    <2>2. /\ Len(todo[th]) \in Nat \ {0}
          /\ StepsOf(Head(todo[th]).op, step[th]) \in 1..4
      BY <1>1, <1>3, CountIsBounded
    <2>3. QED
      BY <1>1, <2>1, <2>2
  <1>4. QED
    BY <1>2, <1>3

\* A thread that has ended a load or a save has at most four steps for each
\* of the others.
LEMMA FinishShrinks ==
  ASSUME TypeOK, NEW th \in Threads, todo[th] # <<>>, Finish(th)
  PROVE  StepsLeft(th)' < StepsLeft(th) /\ StepsLeft(th)' \in Nat
  <1>1. /\ todo'[th] = Tail(todo[th]) /\ Tail(todo[th]) \in Seq(Jobs)
        /\ Len(Tail(todo[th])) = Len(todo[th]) - 1
    BY StepsLeftType, HeadTailProperties DEF TypeOK, Finish
  <1>2. /\ Len(todo[th]) \in Nat \ {0}
        /\ StepsLeft(th) \in Nat /\ StepsLeft(th) >= 4 * (Len(todo[th]) - 1) + 1
    BY StepsLeftType
  <1>3. StepsLeft(th)' \in 0 .. 4 * (Len(todo[th]) - 1)
    <2>1. CASE Tail(todo[th]) = <<>>
      BY <1>1, <1>2, <2>1 DEF StepsLeft
    <2>2. CASE Tail(todo[th]) # <<>>
      <3>1. StepsLeft(th)' = 4 * (Len(Tail(todo[th])) - 1)
                               + StepsOf(Head(Tail(todo[th])).op, step'[th])
        BY <1>1, <2>2 DEF StepsLeft, Job
      <3>2. StepsOf(Head(Tail(todo[th])).op, step'[th]) \in 1..4
        BY DEF StepsOf
      <3>3. Len(Tail(todo[th])) \in Nat \ {0}
        BY <1>1, <2>2, CountIsBounded
      <3>4. Len(Tail(todo[th])) = Len(todo[th]) - 1
        BY <1>1
      <3>5. Len(todo[th]) \in Nat \ {0}
        BY <1>2
      <3>6. ASSUME NEW l \in Nat \ {0}, NEW m \in Nat \ {0}, m = l - 1, NEW c \in 1..4
            PROVE  4 * (m - 1) + c \in 0 .. 4 * (l - 1)
        BY <3>6
      <3>7. QED
        BY <3>1, <3>2, <3>3, <3>4, <3>5, <3>6
    <2>3. QED
      BY <2>1, <2>2
  <1>4. QED
    BY <1>2, <1>3

LEMMA AccessShrinks ==
  ASSUME IInv, NEW th \in Threads, NEW f \in Files, Access(th, f)
  PROVE  /\ StepsLeft(th)' < StepsLeft(th) /\ StepsLeft(th)' \in Nat
         /\ \A u \in Threads \ {th} : StepsLeft(u)' = StepsLeft(u)
  <1>0. /\ TypeOK /\ todo[th] # <<>>
        /\ \A u \in Threads \ {th} : todo'[u] = todo[u] /\ step'[u] = step[u]
    BY AccessShape DEF IInv
  <1>1. \A u \in Threads \ {th} : StepsLeft(u)' = StepsLeft(u)
    BY <1>0 DEF StepsLeft, Job
  <1>2. CASE Finish(th)
    BY <1>0, <1>1, <1>2, FinishShrinks
  <1>3. Len(todo[th]) \in Nat \ {0}
    BY <1>0, StepsLeftType
  <1>4. CASE \/ step[th] = "begin" /\ Goto(th, "fetched")
             \/ step[th] = "fetched" /\ Goto(th, "opened") /\ Job(th).op = "write"
    <2>1. todo'[th] = todo[th] /\ Job(th)' = Job(th)
      BY <1>0, <1>4 DEF Goto, Job
    <2>2. StepsOf(Job(th).op, step'[th]) < StepsOf(Job(th).op, step[th])
      BY <1>0, <1>4 DEF Goto, StepsOf, TypeOK
    <2>3. /\ StepsOf(Job(th).op, step'[th]) \in Nat /\ StepsOf(Job(th).op, step[th]) \in Nat
      BY DEF StepsOf
    <2>4. QED
      BY <1>0, <1>1, <1>3, <2>1, <2>2, <2>3 DEF StepsLeft
  <1>5. CASE /\ step[th] = "begin" /\ UNCHANGED step /\ Job(th).op = "read"
             /\ todo' = [todo EXCEPT ![th] = <<[op |-> "write", file |-> f]>> \o Tail(@)]
    <2>1. /\ todo[th] \in Seq(Jobs)
          /\ todo'[th] = <<[op |-> "write", file |-> f]>> \o Tail(todo[th])
      BY <1>0, <1>5 DEF TypeOK
    <2>2. Tail(todo[th]) \in Seq(Jobs) /\ Len(Tail(todo[th])) = Len(todo[th]) - 1
      BY <1>0, <2>1, HeadTailProperties
    <2>3. Len(todo'[th]) = Len(todo[th]) /\ todo'[th] # <<>> /\ Job(th)'.op = "write"
      BY <1>3, <2>1, <2>2 DEF Job
    <2>4. StepsLeft(th)' = 4 * (Len(todo[th]) - 1) + 3
      BY <1>5, <2>3 DEF StepsLeft, StepsOf
    <2>5. StepsLeft(th) = 4 * (Len(todo[th]) - 1) + 4
      BY <1>0, <1>5 DEF StepsLeft, StepsOf
    <2>6. QED
      BY <1>1, <1>3, <2>4, <2>5
  <1>6. QED
    BY <1>2, <1>4, <1>5
       DEF Access, FetchToWrite, MergeAndOpen, OpenFails, Flush, FetchToRead, Apply, Doing, At

\* Every pass over the files ends after a number of steps known when it begins:
\* four at most for each of its loads and saves, however the threads take turns,
\* and whatever they find.
THEOREM PassesEnd == Spec => EveryPassEnds
  <1> DEFINE Step == \A th \in Threads :
                       /\ FileStep(th) => StepsLeft(th)' < StepsLeft(th)
                       /\ StepsLeft(th)' > StepsLeft(th) => StepsLeft(th) = 0
  <1>1. ASSUME IInv, IInv', Next PROVE Step
    <2>0. TypeOK /\ TypeOK'
      BY <1>1 DEF IInv
    <2>1. ASSUME NEW th \in Threads, FileStep(th)
          PROVE  StepsLeft(th)' < StepsLeft(th)
      BY <1>1, <2>1, AccessShrinks DEF FileStep, Access
    <2>2. ASSUME NEW th \in Threads, StepsLeft(th)' > StepsLeft(th), StepsLeft(th) # 0
          PROVE  FALSE
      <3>0. todo[th] # <<>>
        BY <2>2 DEF StepsLeft
      <3>1. CASE \E u \in Threads, f \in Files : Access(u, f)
        <4>1. PICK u \in Threads, f \in Files : Access(u, f)
          BY <3>1
        <4>2. StepsLeft(th) \in Nat
          BY <2>0, StepsLeftType
        <4>3. /\ th = u => StepsLeft(th)' < StepsLeft(th) /\ StepsLeft(th)' \in Nat
              /\ th # u => StepsLeft(th)' = StepsLeft(th)
          BY <1>1, <4>1, AccessShrinks
        <4>4. QED
          BY <2>2, <4>2, <4>3
      <3>2. CASE Loops \/ Menu \/ Start \/ Loaded \/ Detach
        <4>1. Outside
          BY <1>1, <3>2, LoopsOutside, MenuOutside, LifeOutside
        <4>2. StepsLeft(th)' = StepsLeft(th)
          BY <3>0, <4>1 DEF Outside, StepsLeft, Job
        <4>3. QED
          BY <2>0, <2>2, <4>2, StepsLeftType
      <3>3. CASE Detached \/ Kill
        <4>1. StepsLeft(th)' = 0
          BY <3>3 DEF Detached, Kill, Forget, StepsLeft
        <4>2. QED
          BY <2>0, <2>2, <4>1, StepsLeftType
      <3>4. QED
        BY <1>1, <3>1, <3>2, <3>3 DEF Next, FileStep, Access, Loops
    <2>3. QED
      BY <2>1, <2>2
  <1>2. IInv /\ IInv' /\ [Next]_vars => [Step]_vars
    BY <1>1
  <1>3. QED
    BY <1>2, InitIInv, NextIInv, PTL DEF Spec, EveryPassEnds
=============================================================================
