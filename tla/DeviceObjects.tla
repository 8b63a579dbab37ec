---------------------------- MODULE DeviceObjects ----------------------------
(***************************************************************************)
(* The overlay's one texture, the font's, over resets of the Direct3D      *)
(* device.  Hooked_Reset releases it and leaves its recreation to a new    *)
(* thread, on_reset; Hooked_Present, on the render thread, recreates it    *)
(* too when it finds none.  Both run ImGui_ImplDX9_CreateFontsTexture on   *)
(* the same globals, with no lock.                                         *)
(*                                                                         *)
(* The vertex and index buffers, which only the render thread touches, are *)
(* left out; the menu that is drawn or not is Overlay's.                   *)
(***************************************************************************)
EXTENDS Naturals

CONSTANTS
  Threads,   \* on_reset threads that may exist at a time
  Textures,  \* textures that may exist at a time
  None

Render == "render"
Owners == Threads \union {Render}

VARIABLES
  g_FontTexture, TexID,
  alive,         \* textures that were created and not released
  is_ready_draw,
  at,            \* how far each thread is
  broken         \* a null or released texture was used: the game is gone

vars == <<g_FontTexture, TexID, alive, is_ready_draw, at, broken>>

Init ==
  /\ g_FontTexture = None /\ TexID = None
  /\ alive = {}
  /\ is_ready_draw = TRUE
  /\ at = [t \in Owners |-> "idle"]
  /\ broken = FALSE

Goes(t, from, to) == ~broken /\ at[t] = from /\ at' = [at EXCEPT ![t] = to]

\* What a thread does when it is done with CreateFontsTexture.
AfterCreation(t) == IF t = Render THEN "draw" ELSE "ready"

-----------------------------------------------------------------------------
(* ImGui_ImplDX9_CreateFontsTexture, on any thread.                        *)

Forget(t) ==
  /\ Goes(t, "forget", "create")
  /\ g_FontTexture' = None
  /\ UNCHANGED <<TexID, alive, is_ready_draw, broken>>

\* CreateTexture may fail, and then the function returns.
Create(t) ==
  /\ \/ /\ Goes(t, "create", "fill")
        /\ \E x \in Textures \ alive :
             /\ x # TexID
             /\ g_FontTexture' = x /\ alive' = alive \union {x}
     \/ Goes(t, "create", AfterCreation(t)) /\ UNCHANGED <<g_FontTexture, alive>>
  /\ UNCHANGED <<TexID, is_ready_draw, broken>>

\* LockRect, the copy, UnlockRect, of what g_FontTexture says now.
Fill(t) ==
  /\ Goes(t, "fill", "publish")
  /\ broken' = (g_FontTexture \notin alive)
  /\ UNCHANGED <<g_FontTexture, TexID, alive, is_ready_draw>>

Publish(t) ==
  /\ Goes(t, "publish", AfterCreation(t))
  /\ TexID' = g_FontTexture
  /\ UNCHANGED <<g_FontTexture, alive, is_ready_draw, broken>>

-----------------------------------------------------------------------------
(* The render thread.                                                      *)

\* Present with the menu open: NewFrame creates a texture if there is none.
NewFrame ==
  /\ Goes(Render, "idle", IF g_FontTexture = None THEN "forget" ELSE "draw")
  /\ UNCHANGED <<g_FontTexture, TexID, alive, is_ready_draw, broken>>

\* DrawMenu, if it is ready, and RenderDrawData.
Draw ==
  /\ Goes(Render, "draw", "idle")
  /\ broken' = (is_ready_draw /\ TexID \notin alive \union {None})
  /\ UNCHANGED <<g_FontTexture, TexID, alive, is_ready_draw>>

\* Hooked_Reset: ImGui_ImplDX9_InvalidateDeviceObjects ...
Invalidate ==
  /\ Goes(Render, "idle", "reset")
  /\ IF g_FontTexture = None
     THEN UNCHANGED <<g_FontTexture, TexID, alive>>
     ELSE alive' = alive \ {g_FontTexture} /\ g_FontTexture' = None /\ TexID' = None
  /\ UNCHANGED <<is_ready_draw, broken>>

\* ... the game's Reset, and the start of on_reset.
Reset ==
  /\ ~broken /\ at[Render] = "reset"
  /\ \E t \in Threads :
       /\ at[t] = "idle"
       /\ at' = [at EXCEPT ![Render] = "idle", ![t] = "started"]
  /\ UNCHANGED <<g_FontTexture, TexID, alive, is_ready_draw, broken>>

-----------------------------------------------------------------------------
(* on_reset.                                                               *)

Started(t) ==
  /\ Goes(t, "started", "forget")
  /\ is_ready_draw' = FALSE
  /\ UNCHANGED <<g_FontTexture, TexID, alive, broken>>

Ready(t) ==
  /\ Goes(t, "ready", "idle")
  /\ is_ready_draw' = TRUE
  /\ UNCHANGED <<g_FontTexture, TexID, alive, broken>>

Next ==
  \/ \E t \in Owners : Forget(t) \/ Create(t) \/ Fill(t) \/ Publish(t)
  \/ NewFrame \/ Draw \/ Invalidate \/ Reset
  \/ \E t \in Threads : Started(t) \/ Ready(t)

Spec == Init /\ [][Next]_vars

-----------------------------------------------------------------------------
\* With no on_reset thread left of an earlier reset, the overlay has released all
\* it has on the device when the device is reset ("Device is on LOST state",
\* "Invalidate GUI resources").  The code breaks this: of two textures, one made
\* by Present and one by on_reset, the first is known to nobody.
NothingAliveAtReset ==
  [][Invalidate /\ (\A t \in Threads : at[t] = "idle") => alive' = {}]_vars
=============================================================================
