---------------------------- MODULE MCConfigStore ----------------------------
(* Instances of ConfigStore for TLC: how often the environment acts.        *)
EXTENDS ConfigStore

Budget(edit, silent, option, sound, request, kill, detach) ==
  [edit |-> edit, silent |-> silent, option |-> option, sound |-> sound,
   request |-> request, kill |-> kill, detach |-> detach]

\* The files of a first start, and of a later one: one kit for each team.
NoFiles == [f \in Files |-> Missing]
Saved(kit) == [Null EXCEPT !.last = kit, !.hist = {kit}]
FilesOf(k1, k2) ==
  [f \in Files |-> IF f = "ct" THEN Whole(Saved(k1))
                   ELSE IF f = "t" THEN Whole(Saved(k2))
                   ELSE Whole([Null EXCEPT ![f] = "off"])]
AnyKit == CHOOSE k \in Kits : k # DefaultKit
OldFiles     == FilesOf(DefaultKit, AnyKit)
CrashedFiles == [OldFiles EXCEPT !["t"] = Torn]  \* killed in the middle of a save

\* Edits, a requested save and a crash of the process.
SavingBound  == Budget(1, 1, 0, 0, 1, 1, 0)
\* An edit, a click on a sound and Restore, against save_thread.
UnloadBound  == Budget(1, 0, 0, 1, 0, 0, 1)
\* Requests, and the option that makes an edit one.
ServingBound == Budget(0, 0, 1, 0, 1, 0, 0)
\* The user turns "Save config at every change" on and picks two kits.
AutosaveBound == Budget(2, 0, 1, 0, 0, 0, 0)
=============================================================================
