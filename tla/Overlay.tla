------------------------------- MODULE Overlay -------------------------------
(***************************************************************************)
(* The menu as a window: when it is open, who gets the keys, the window    *)
(* handle and the cursor, and the automatic accept, which closes it.       *)
(*                                                                         *)
(* Three threads write main_window with no lock.  The render thread draws  *)
(* it in Hooked_Present and samples the menu key in the game's input       *)
(* system.  The main thread filters the window's messages, and executes    *)
(* the command dodge_challenger.  accept_thread closes it to click on the  *)
(* game's button.  What a key does thus depends on which of the two, the   *)
(* filter or the sampling, sees it, and when.                              *)
(*                                                                         *)
(* Of the keyboard there are the two keys the filter knows; what the menu  *)
(* shows is left out but for the close buttons and the look at the player  *)
(* (his team, the weapon in his hand) it takes when it has been opened.    *)
(***************************************************************************)
EXTENDS Naturals

CONSTANTS
  Keys,     \* the menu key, and escape, which closes the menu too
  MaxCalls  \* how often dodge_challenger or Reset are called (bound)

ASSUME OverlayAssumption == MaxCalls \in Nat

VARIABLES
  main_window, was_opened, is_ready_draw, enable_auto_accept,  \* Options
  initialized,  \* g_bWasInitialized
  attached,     \* the input system's m_hAttachedHWnd is the game's window, not null
  saved,        \* saved_hwnd is
  locked,       \* the cursor is locked to the game
  isDown,       \* the menu key was down in the last sample
  frame,        \* how far Hooked_Present is
  message,      \* what the main thread is in the middle of
  down,         \* keys that are down
  pressed,      \* vecPressedKeys
  buttons,      \* keys the game believes to be down
  should_accept,
  accept,       \* how far accept_thread is
  found,        \* the game's function SetLocalPlayerReady was found
  starting,     \* on_reset threads that were started
  creating,     \* on_reset threads that recreate the device objects
  calls,        \* of the command and of Reset (bounded)
  \* What no code reads: the history the properties are about.
  stale,        \* opened, and no look at the player has ended since
  crossed,      \* opened while a message was between the filter's two tests
  lost,         \* keys whose release was swallowed by such an opening
  owed          \* a match was found and is not accepted

options == <<main_window, was_opened, is_ready_draw, enable_auto_accept, stale, crossed>>
render  == <<initialized, attached, saved, isDown, frame>>
keys    == <<message, down, pressed, buttons, lost, locked>>
accepts == <<should_accept, accept, found, owed>>
device  == <<starting, creating, calls>>
vars    == <<options, render, keys, accepts, device>>

Idle == [of |-> "nothing"]
Init ==
  /\ main_window = FALSE /\ was_opened = FALSE
  /\ is_ready_draw = TRUE /\ enable_auto_accept = TRUE
  /\ initialized = FALSE
  /\ attached = TRUE /\ saved = FALSE
  /\ locked \in BOOLEAN
  /\ isDown = FALSE /\ frame = "no"
  /\ message = Idle
  /\ down = {} /\ pressed = {} /\ buttons = {} /\ lost = {}
  /\ should_accept = FALSE /\ accept = "none" /\ found \in BOOLEAN
  /\ starting = 0 /\ creating = 0
  /\ calls = 0
  /\ stale = FALSE /\ crossed = FALSE /\ owed = FALSE

\* An assignment to main_window.
Set(open) ==
  /\ main_window' = open
  /\ stale'   = (stale \/ (open /\ ~main_window))
  /\ crossed' = (crossed \/ (open /\ ~main_window))

-----------------------------------------------------------------------------
(* Hooked_Present, on the render thread.                                   *)

GUI_Init ==
  /\ ~initialized /\ initialized' = TRUE
  /\ UNCHANGED <<options, attached, saved, isDown, frame, keys, accepts, device>>

\* The sample; a release is a click, which toggles.  The toggle has read
\* main_window before it writes it.
Sample ==
  /\ initialized /\ frame = "no"
  /\ isDown' = ("menu" \in buttons)
  /\ frame' = IF isDown /\ "menu" \notin buttons
              THEN IF main_window THEN "closing" ELSE "opening"
              ELSE "drawing"
  /\ UNCHANGED <<options, initialized, attached, saved, keys, accepts, device>>

Toggle ==
  /\ frame \in {"closing", "opening"}
  /\ Set(frame = "opening")
  /\ frame' = "toggled"
  /\ UNCHANGED <<was_opened, is_ready_draw, enable_auto_accept,
                 initialized, attached, saved, isDown, keys, accepts, device>>

\* Mutant of Toggled: was_opened is left as it is.
ToggledSeen ==
  /\ frame = "toggled" /\ frame' = "drawing"
  /\ UNCHANGED <<options, initialized, attached, saved, isDown, keys, accepts, device>>

Toggled ==
  /\ frame = "toggled" /\ frame' = "drawing"
  /\ was_opened' = FALSE
  /\ UNCHANGED <<main_window, is_ready_draw, enable_auto_accept, stale, crossed,
                 initialized, attached, saved, isDown, keys, accepts, device>>

\* Mutant of Swap: a closed menu swaps the handles whatever is saved.
SwapAlways ==
  /\ frame = "drawing"
  /\ attached' = saved /\ saved' = attached
  /\ frame' = IF main_window THEN "menu" ELSE "no"
  /\ UNCHANGED <<options, initialized, isDown, keys, accepts, device>>

\* Mutant of Swap: a closed menu gives the handle back and keeps it saved.
SwapCopies ==
  /\ frame = "drawing"
  /\ attached' = (saved \/ (attached /\ ~main_window))
  /\ saved' = IF main_window THEN attached ELSE saved
  /\ frame' = IF main_window THEN "menu" ELSE "no"
  /\ UNCHANGED <<options, initialized, isDown, keys, accepts, device>>

\* An open menu swaps the window handle with the saved one in every frame, a
\* closed one if that is needed to give it back.
Swap ==
  /\ frame = "drawing"
  /\ IF main_window \/ saved
     THEN attached' = saved /\ saved' = attached
     ELSE UNCHANGED <<attached, saved>>
  /\ frame' = IF main_window THEN "menu" ELSE "no"
  /\ UNCHANGED <<options, initialized, isDown, keys, accepts, device>>

\* DrawMenu; it looks at main_window again.
DrawMenu ==
  /\ frame = "menu"
  /\ frame' = IF ~(is_ready_draw /\ main_window) THEN "no"
              ELSE IF was_opened THEN "shown" ELSE "look"
  /\ UNCHANGED <<options, initialized, attached, saved, isDown, keys, accepts, device>>

Looked ==
  /\ frame = "look" /\ frame' = "shown"
  /\ was_opened' = ~was_opened
  /\ stale' = FALSE
  /\ UNCHANGED <<main_window, is_ready_draw, enable_auto_accept, crossed,
                 initialized, attached, saved, isDown, keys, accepts, device>>

\* The rest of it, in which the user may close the menu (the window's button,
\* or the one to precache sounds) or switch the automatic accept.
Shown ==
  /\ frame = "shown" /\ frame' = "no"
  /\ \/ Set(FALSE) /\ UNCHANGED enable_auto_accept
     \/ enable_auto_accept' \in BOOLEAN /\ UNCHANGED <<main_window, stale, crossed>>
  /\ UNCHANGED <<was_opened, is_ready_draw,
                 initialized, attached, saved, isDown, keys, accepts, device>>

\* Hooked_Reset, on the same thread, leaves the device objects to a new thread.
Reset ==
  /\ frame = "no" /\ initialized
  /\ calls < MaxCalls /\ calls' = calls + 1
  /\ starting' = starting + 1
  /\ UNCHANGED <<options, render, keys, accepts, creating>>

\* Mutant of on_reset: an early return when the objects cannot be recreated.
on_reset_returns ==
  \/ /\ starting > 0
     /\ starting' = starting - 1 /\ creating' = creating + 1
     /\ is_ready_draw' = FALSE
     /\ UNCHANGED <<main_window, was_opened, enable_auto_accept, stale, crossed,
                    render, keys, accepts, calls>>
  \/ /\ creating > 0
     /\ creating' = creating - 1
     /\ is_ready_draw' \in {is_ready_draw, TRUE}
     /\ UNCHANGED <<main_window, was_opened, enable_auto_accept, stale, crossed,
                    render, keys, accepts, starting, calls>>

on_reset ==
  \/ /\ starting > 0
     /\ starting' = starting - 1 /\ creating' = creating + 1
     /\ is_ready_draw' = FALSE
     /\ UNCHANGED <<main_window, was_opened, enable_auto_accept, stale, crossed,
                    render, keys, accepts, calls>>
  \/ /\ creating > 0
     /\ creating' = creating - 1
     /\ is_ready_draw' = TRUE
     /\ UNCHANGED <<main_window, was_opened, enable_auto_accept, stale, crossed,
                    render, keys, accepts, starting, calls>>

-----------------------------------------------------------------------------
(* The main thread: Hooked_WndProc, the command, LockCursor, OnEvent.      *)

\* A key goes down, or repeats.
KeyDown(k) ==
  /\ message = Idle
  /\ down' = down \union {k} /\ pressed' = pressed \union {k}
  /\ message' = [of |-> "down", key |-> k]
  /\ crossed' = FALSE /\ lost' = lost \ {k}
  /\ UNCHANGED <<main_window, was_opened, is_ready_draw, enable_auto_accept, stale,
                 render, buttons, locked, accepts, device>>

\* Mutant of KeyUp: only escape closes the menu here.
KeyUpEscape(k) ==
  /\ message = Idle /\ k \in down
  /\ down' = down \ {k} /\ pressed' = pressed \ {k}
  /\ message' = [of |-> "up", key |-> k]
  /\ main_window' = (main_window /\ ~(k \in pressed /\ k = "escape"))
  /\ crossed' = FALSE
  /\ UNCHANGED <<was_opened, is_ready_draw, enable_auto_accept, stale,
                 render, buttons, lost, locked, accepts, device>>

\* A key goes up: either one closes the menu, if its press was seen.
KeyUp(k) ==
  /\ message = Idle /\ k \in down
  /\ down' = down \ {k} /\ pressed' = pressed \ {k}
  /\ message' = [of |-> "up", key |-> k]
  /\ main_window' = (main_window /\ k \notin pressed)
  /\ crossed' = FALSE
  /\ UNCHANGED <<was_opened, is_ready_draw, enable_auto_accept, stale,
                 render, buttons, lost, locked, accepts, device>>

\* An open menu swallows the message, a closed one passes it to the game.
Dispatch ==
  /\ message.of \in {"down", "up"} /\ message' = Idle
  /\ LET k == message.key
         swallowed == initialized /\ main_window
     IN
     /\ buttons' = IF swallowed THEN buttons
                   ELSE IF message.of = "down" THEN buttons \union {k} ELSE buttons \ {k}
     /\ lost' = IF swallowed /\ message.of = "up" /\ crossed THEN lost \union {k} ELSE lost
  /\ UNCHANGED <<options, render, down, pressed, locked, accepts, device>>

\* dodge_challenger: a toggle, and was_opened.
Command ==
  /\ message = Idle
  /\ calls < MaxCalls /\ calls' = calls + 1
  /\ message' = [of |-> IF main_window THEN "close" ELSE "open"]
  /\ UNCHANGED <<options, render, down, pressed, buttons, lost, locked, accepts,
                 starting, creating>>

CommandToggles ==
  /\ message.of \in {"close", "open"}
  /\ Set(message.of = "open")
  /\ message' = [of |-> "toggled"]
  /\ UNCHANGED <<was_opened, is_ready_draw, enable_auto_accept,
                 render, down, pressed, buttons, lost, locked, accepts, device>>

CommandEnds ==
  /\ message.of = "toggled" /\ message' = Idle
  /\ was_opened' = FALSE
  /\ UNCHANGED <<main_window, is_ready_draw, enable_auto_accept, stale, crossed,
                 render, down, pressed, buttons, lost, locked, accepts, device>>

\* The cursor is locked to the game, unless the menu is open.
LockCursor ==
  /\ message = Idle
  /\ locked' = ~main_window
  /\ UNCHANGED <<options, render, message, down, pressed, buttons, lost,
                 accepts, device>>

\* Mutant of OnEvent: an update that reserves nothing takes the request back.
OnEventResets(reserved) ==
  /\ message = Idle /\ enable_auto_accept
  /\ accept' = IF accept = "none" THEN "poll" ELSE accept
  /\ should_accept' = reserved
  /\ owed' = (owed \/ reserved)
  /\ UNCHANGED <<options, render, keys, found, device>>

\* An event of the match framework; `reserved`: a match is found.
OnEvent(reserved) ==
  /\ message = Idle /\ enable_auto_accept
  /\ accept' = IF accept = "none" THEN "poll" ELSE accept
  /\ should_accept' = (should_accept \/ reserved)
  /\ owed' = (owed \/ reserved)
  /\ UNCHANGED <<options, render, keys, found, device>>

-----------------------------------------------------------------------------
(* accept_thread.                                                          *)

\* It sleeps, and tells the game, or else brings its window to the front, closes
\* the menu and clicks.
Poll ==
  /\ accept = "poll" /\ should_accept
  /\ IF found THEN owed' = FALSE /\ UNCHANGED accept
              ELSE accept' = "close" /\ UNCHANGED owed
  /\ UNCHANGED <<options, render, keys, should_accept, found, device>>

CloseMenu ==
  /\ accept = "close" /\ accept' = "closed"
  /\ Set(FALSE)
  /\ UNCHANGED <<was_opened, is_ready_draw, enable_auto_accept,
                 render, keys, should_accept, found, owed, device>>

ForgetMenu ==
  /\ accept = "closed" /\ accept' = "click"
  /\ was_opened' = FALSE
  /\ UNCHANGED <<main_window, is_ready_draw, enable_auto_accept, stale, crossed,
                 render, keys, should_accept, found, owed, device>>

\* The click is a message like any other: the main thread handles it, and an
\* open menu swallows it.
Click ==
  /\ accept = "click" /\ accept' = "poll"
  /\ message = Idle
  /\ owed' = (owed /\ initialized /\ main_window)
  /\ UNCHANGED <<options, render, keys, should_accept, found, device>>

-----------------------------------------------------------------------------
Present == GUI_Init \/ Sample \/ Toggle \/ Toggled \/ Swap \/ DrawMenu \/ Looked \/ Shown
Handle  == Dispatch \/ CommandToggles \/ CommandEnds
Accept  == Poll \/ CloseMenu \/ ForgetMenu \/ Click

Next ==
  \/ Present \/ Reset \/ on_reset
  \/ \E k \in Keys : KeyDown(k) \/ KeyUp(k)
  \/ Handle \/ Command \/ LockCursor
  \/ \E reserved \in BOOLEAN : OnEvent(reserved)
  \/ Accept

\* The game draws frames and locks its cursor, what is begun goes on, and the
\* system runs every thread and lets the window come to the front.  For the
\* cursor and the click the main thread must be between two messages.
Fairness ==
  /\ WF_vars(Present) /\ WF_vars(on_reset) /\ WF_vars(Handle)
  /\ SF_vars(LockCursor)
  /\ WF_vars(Poll \/ CloseMenu \/ ForgetMenu) /\ SF_vars(Click)

Spec     == Init /\ [][Next]_vars
FairSpec == Spec /\ Fairness

-----------------------------------------------------------------------------
(* Properties.                                                             *)

Messages ==
  {Idle} \union [of : {"down", "up"}, key : Keys] \union [of : {"close", "open", "toggled"}]

\* Every variable has its type.
TypeOK ==
  /\ main_window \in BOOLEAN /\ was_opened \in BOOLEAN
  /\ is_ready_draw \in BOOLEAN /\ enable_auto_accept \in BOOLEAN
  /\ initialized \in BOOLEAN /\ isDown \in BOOLEAN /\ locked \in BOOLEAN
  /\ attached \in BOOLEAN /\ saved \in BOOLEAN /\ attached # saved
  /\ frame \in {"no", "closing", "opening", "toggled", "drawing", "menu", "look", "shown"}
  /\ message \in Messages
  /\ down \subseteq Keys /\ pressed \subseteq Keys
  /\ buttons \subseteq Keys /\ lost \subseteq Keys
  /\ should_accept \in BOOLEAN /\ found \in BOOLEAN /\ owed \in BOOLEAN
  /\ accept \in {"none", "poll", "close", "closed", "click"}
  /\ starting \in Nat /\ creating \in Nat /\ calls \in Nat
  /\ stale \in BOOLEAN /\ crossed \in BOOLEAN

\* The game sees the release of every key of which it saw the press, though the
\* menu may be opened in between: the release of a key that opens or closes the
\* menu closes it before it is passed on.  Only an opening by another thread
\* between these two statements swallows it.
ReleaseReachesTheGame ==
  \A k \in buttons :
    \/ k \in down \/ k \in lost
    \/ message = [of |-> "up", key |-> k]

\* An open menu that was not drawn with a look at the player since it was
\* opened will take that look, however it was opened and closed before.
OpenMenuLooksAtPlayer ==
  main_window /\ stale =>
    \/ ~was_opened
    \/ frame = "toggled" \/ message.of = "toggled"

\* What has the keyboard and the mouse follows the menu: when it is closed for
\* good the input system has its window back and the cursor is locked again,
\* and while it stays open the cursor is free.
InputFollowsTheMenu ==
  /\ <>[](initialized /\ ~main_window) => <>[](attached /\ locked)
  /\ <>[]main_window => <>[]~locked

\* A menu that stays open is drawn, also after resets of the device.
OpenMenuIsDrawn == [](main_window => <>(~main_window \/ frame = "shown"))

\* A match that was found is accepted, whatever other events there are, unless
\* the user opens the menu over the button again and again.
MatchIsAccepted == []<>main_window \/ [](owed => <>~owed)
=============================================================================
