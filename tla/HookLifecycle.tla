---------------------------- MODULE HookLifecycle ----------------------------
(***************************************************************************)
(* How the library puts itself between the game and its functions, and     *)
(* takes itself away: Hooks::Initialize, on a thread of its own while the  *)
(* game runs, and Hooks::Restore, when the library is freed.               *)
(*                                                                         *)
(* A slot is a pointer through which the game calls one of its functions.  *)
(* For each there is a variable of the library with the original, which    *)
(* the hook calls; of some it is filled after the slot.                    *)
(***************************************************************************)
EXTENDS Naturals, Sequences

Slots == {"WndProc", "Reset", "Present", "nSequence", "FrameStageNotify",
          "LevelInitPostEntity", "LevelShutdown", "FindOrAddFileName", "LockCursor"}

\* Where a slot may lead: to the original, to the hook, or into a variable.
Targets == {"game", "hook", "variable"}

VARIABLES
  slot,     \* where each slot leads
  known,    \* slots of which the library has the original
  stage,    \* "Initialize", "loaded", "Restore" or "freed"
  next,     \* the statement of Initialize or Restore that comes next
  inside,   \* slots whose hook is being executed
  fallen    \* something that is no function was called, or null used: the game is gone

vars == <<slot, known, stage, next, inside, fallen>>

Keep(s)   == [does |-> "keep", slot |-> s]
Hook(s)   == [does |-> "hook", slot |-> s]
Unhook(s) == [does |-> "unhook", slot |-> s]

\* Hooks first, the original after it.
HookThenKeep(s) == <<Hook(s), Keep(s)>>

Initialize ==
  <<Keep("Present")>>
  \o HookThenKeep("WndProc") \o HookThenKeep("Reset")
  \o <<Hook("Present"), Keep("nSequence"), Hook("nSequence")>>
  \o HookThenKeep("FrameStageNotify") \o HookThenKeep("LevelInitPostEntity")
  \o HookThenKeep("LevelShutdown") \o HookThenKeep("FindOrAddFileName")
  \o HookThenKeep("LockCursor")

\* Of the tables, the one of the device has Reset, the one of the surface
\* LockCursor.  The pointer to the hook of the data cache is null, so that the
\* rest is not reached.  The proxy of nSequence is not put back at all.
Restore ==
  <<Unhook("WndProc"), Unhook("Present"), Unhook("Reset"), Unhook("LockCursor"),
    [does |-> "use null"],
    Unhook("FindOrAddFileName"),
    Unhook("FrameStageNotify"), Unhook("LevelInitPostEntity"), Unhook("LevelShutdown")>>

Init ==
  /\ slot = [s \in Slots |-> "game"]
  /\ known = {} /\ inside = {}
  /\ stage = "Initialize" /\ next = 1
  /\ fallen = FALSE

-----------------------------------------------------------------------------
(* The library.                                                            *)

\* The assignment to the slot of Present takes the address of the variable that
\* has the original, not the original.
Removed(s) == IF s = "Present" THEN "variable" ELSE "game"

InitializeStep ==
  /\ ~fallen /\ stage = "Initialize" /\ next <= Len(Initialize)
  /\ LET i == Initialize[next] IN
       IF i.does = "keep"
       THEN known' = known \union {i.slot} /\ UNCHANGED slot
       ELSE slot' = [slot EXCEPT ![i.slot] = "hook"] /\ UNCHANGED known
  /\ IF next = Len(Initialize) THEN stage' = "loaded" /\ next' = 0
                               ELSE next' = next + 1 /\ UNCHANGED stage
  /\ UNCHANGED <<inside, fallen>>

\* DllMain, when the library is freed.
Free ==
  /\ ~fallen /\ stage = "loaded"
  /\ stage' = "Restore" /\ next' = 1
  /\ UNCHANGED <<slot, known, inside, fallen>>

RestoreStep ==
  /\ ~fallen /\ stage = "Restore"
  /\ LET i == Restore[next] IN
       IF i.does = "use null"
       THEN fallen' = TRUE /\ UNCHANGED slot
       ELSE slot' = [slot EXCEPT ![i.slot] = Removed(i.slot)] /\ UNCHANGED fallen
  /\ IF next = Len(Restore) THEN stage' = "freed" /\ next' = 0
                            ELSE next' = next + 1 /\ UNCHANGED stage
  /\ UNCHANGED <<known, inside>>

-----------------------------------------------------------------------------
(* The game, on whatever thread.                                           *)

\* A call through a slot enters its hook, or what the slot leads to is executed.
Call(s) ==
  /\ ~fallen /\ s \notin inside
  /\ inside' = IF slot[s] = "hook" THEN inside \union {s} ELSE inside
  /\ fallen' = (slot[s] = "variable" \/ (slot[s] = "hook" /\ stage = "freed"))
  /\ UNCHANGED <<slot, known, stage, next>>

\* The hook calls the original and returns.
Return(s) ==
  /\ ~fallen /\ s \in inside
  /\ inside' = inside \ {s}
  /\ fallen' = (s \notin known \/ stage = "freed")
  /\ UNCHANGED <<slot, known, stage, next>>

Next == InitializeStep \/ Free \/ RestoreStep \/ (\E s \in Slots : Call(s) \/ Return(s))

Spec == Init /\ [][Next]_vars

-----------------------------------------------------------------------------
\* A slot that Restore has been through ("Remove the hooks") leads to the game's
\* function again.  The code breaks this for Present.
RemovedHooksAreGone ==
  stage = "Restore" =>
    \A i \in 1 .. next - 1 : Restore[i].does = "unhook" => slot[Restore[i].slot] = "game"
=============================================================================
