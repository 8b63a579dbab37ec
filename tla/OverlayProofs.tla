---------------------------- MODULE OverlayProofs ----------------------------
(***************************************************************************)
(* Proofs about Overlay, for any keys and any number of calls.             *)
(*                                                                         *)
(* ReleaseReachesTheGame needs three facts more: vecPressedKeys is what is *)
(* down, so a release always closes the menu (ReleaseCloses), and a press  *)
(* that is being passed on is of a key that is still down (PressIsDown).   *)
(* OpenMenuLooksAtPlayer is inductive as it stands.                        *)
(***************************************************************************)
EXTENDS Overlay, TLAPS

OptionsType ==
  /\ main_window \in BOOLEAN /\ was_opened \in BOOLEAN
  /\ is_ready_draw \in BOOLEAN /\ enable_auto_accept \in BOOLEAN
  /\ stale \in BOOLEAN /\ crossed \in BOOLEAN
RenderType ==
  /\ initialized \in BOOLEAN /\ isDown \in BOOLEAN
  /\ attached \in BOOLEAN /\ saved \in BOOLEAN /\ attached # saved
  /\ frame \in {"no", "closing", "opening", "toggled", "drawing", "menu", "look", "shown"}
KeysType ==
  /\ message \in Messages /\ locked \in BOOLEAN
  /\ down \subseteq Keys /\ pressed \subseteq Keys
  /\ buttons \subseteq Keys /\ lost \subseteq Keys
AcceptsType ==
  /\ should_accept \in BOOLEAN /\ found \in BOOLEAN /\ owed \in BOOLEAN
  /\ accept \in {"none", "poll", "close", "closed", "click"}
DeviceType == starting \in Nat /\ creating \in Nat /\ calls \in Nat

LEMMA TypeParts ==
  TypeOK <=> OptionsType /\ RenderType /\ KeysType /\ AcceptsType /\ DeviceType
  BY DEF TypeOK, OptionsType, RenderType, KeysType, AcceptsType, DeviceType

\* The parts a step leaves alone.
LEMMA UnchangedTypes ==
  ASSUME TypeOK
  PROVE  /\ UNCHANGED options => OptionsType'
         /\ UNCHANGED render => RenderType'
         /\ UNCHANGED keys => KeysType'
         /\ UNCHANGED accepts => AcceptsType'
         /\ UNCHANGED device => DeviceType'
  <1>1. UNCHANGED options => OptionsType'
    BY DEF TypeOK, OptionsType, options
  <1>2. UNCHANGED render => RenderType'
    BY DEF TypeOK, RenderType, render
  <1>3. UNCHANGED keys => KeysType'
    BY DEF TypeOK, KeysType, keys
  <1>4. UNCHANGED accepts => AcceptsType'
    BY DEF TypeOK, AcceptsType, accepts
  <1>5. UNCHANGED device => DeviceType'
    BY DEF TypeOK, DeviceType, device
  <1>6. QED
    BY <1>1, <1>2, <1>3, <1>4, <1>5

PressedAreDown == pressed = down
ReleaseCloses  == message.of = "up" /\ main_window => crossed
PressIsDown    == message.of = "down" => message.key \in down

IInv ==
  /\ TypeOK
  /\ PressedAreDown /\ ReleaseCloses /\ PressIsDown
  /\ ReleaseReachesTheGame
  /\ OpenMenuLooksAtPlayer

\* A message of a key names it; the others are of no key.
LEMMA MessageKinds ==
  ASSUME message \in Messages
  PROVE  /\ message.of \in {"nothing", "down", "up", "close", "open", "toggled"}
         /\ message = Idle => message.of = "nothing"
         /\ message.of = "nothing" => message = Idle
         /\ message.of \in {"down", "up"} =>
              message \in [of : {"down", "up"}, key : Keys] /\ message.key \in Keys
  <1>1. CASE message = Idle
    BY <1>1 DEF Idle
  <1>2. CASE message \in [of : {"down", "up"}, key : Keys]
    BY <1>2 DEF Idle
  <1>3. CASE message \in [of : {"close", "open", "toggled"}]
    BY <1>3 DEF Idle
  <1>4. QED
    BY <1>1, <1>2, <1>3 DEF Messages

\* What an assignment to main_window does to the history.
LEMMA SetEffect ==
  ASSUME main_window \in BOOLEAN, stale \in BOOLEAN, crossed \in BOOLEAN,
         NEW open \in BOOLEAN, Set(open)
  PROVE  /\ main_window' \in BOOLEAN /\ stale' \in BOOLEAN /\ crossed' \in BOOLEAN
         /\ main_window' = open
         /\ open /\ ~main_window => crossed'
         /\ crossed => crossed'
         /\ ~open \/ main_window => stale' = stale
  BY DEF Set

LEMMA InitInv == Init => IInv
  <1>1. ASSUME Init PROVE TypeOK
    BY <1>1, OverlayAssumption DEF Init, TypeOK, Messages
  <1>2. ASSUME Init
        PROVE  PressedAreDown /\ ReleaseCloses /\ PressIsDown /\ OpenMenuLooksAtPlayer
    BY <1>2 DEF Init, PressedAreDown, ReleaseCloses, PressIsDown, Idle, OpenMenuLooksAtPlayer
  <1>3. ASSUME Init PROVE ReleaseReachesTheGame
    BY <1>3 DEF Init, ReleaseReachesTheGame
  <1>4. QED
    BY <1>1, <1>2, <1>3 DEF IInv

\* A step of the render thread or of accept_thread or of a reset: the keys do
\* not change.
LEMMA OtherThreadsKeepInv ==
  ASSUME IInv, Present \/ Reset \/ on_reset \/ Accept
  PROVE  IInv'
  <1>1. UNCHANGED keys
    BY DEF Present, GUI_Init, Sample, Toggle, Toggled, Swap, DrawMenu, Looked, Shown,
           Reset, on_reset, Accept, Poll, CloseMenu, ForgetMenu, Click
  <1>2. /\ main_window' \in BOOLEAN /\ stale' \in BOOLEAN /\ crossed' \in BOOLEAN
        /\ main_window' /\ ~main_window => crossed'
        /\ crossed => crossed'
    <2>1. main_window \in BOOLEAN /\ stale \in BOOLEAN /\ crossed \in BOOLEAN
      BY DEF IInv, TypeOK
    <2>2. CASE Toggle \/ Shown \/ CloseMenu
      <3>1. \/ \E open \in BOOLEAN : Set(open)
            \/ UNCHANGED <<main_window, stale, crossed>>
        BY <2>2 DEF Toggle, Shown, CloseMenu
      <3>2. QED
        BY <2>1, <3>1, SetEffect
    <2>3. CASE Looked
      BY <2>1, <2>3 DEF Looked
    <2>4. CASE UNCHANGED <<main_window, stale, crossed>>
      BY <2>1, <2>4
    <2>5. QED
      BY <2>2, <2>3, <2>4
         DEF Present, GUI_Init, Sample, Toggled, Swap, DrawMenu, Reset, on_reset, Accept,
             Poll, ForgetMenu, Click, options
  <1>3. TypeOK'
    <2>1. TypeOK /\ KeysType'
      BY <1>1, UnchangedTypes DEF IInv
    <2>2. OptionsType'
      <3>1. was_opened' \in BOOLEAN
        BY <2>1 DEF TypeOK, Present, GUI_Init, Sample, Toggle, Toggled, Swap, DrawMenu, Looked,
             Shown, Reset, on_reset, Accept, Poll, CloseMenu, ForgetMenu, Click, options
      <3>2. is_ready_draw' \in BOOLEAN /\ enable_auto_accept' \in BOOLEAN
        BY <2>1 DEF TypeOK, Present, GUI_Init, Sample, Toggle, Toggled, Swap, DrawMenu, Looked,
             Shown, Reset, on_reset, Accept, Poll, CloseMenu, ForgetMenu, Click, options
      <3>3. QED
        BY <1>2, <3>1, <3>2 DEF OptionsType
    <2>3. RenderType'
      <3>1. CASE UNCHANGED render
        BY <2>1, <3>1, UnchangedTypes
      <3>2. CASE GUI_Init \/ Toggle \/ Toggled \/ DrawMenu \/ Looked \/ Shown
        <4>1. /\ initialized' \in BOOLEAN /\ UNCHANGED <<attached, saved, isDown>>
              /\ frame' \in {frame, "toggled", "drawing", "no", "shown", "look"}
          BY <2>1, <3>2
             DEF TypeOK, GUI_Init, Toggle, Toggled, DrawMenu, Looked, Shown
        <4>2. QED
          BY <2>1, <4>1 DEF TypeOK, RenderType
      <3>3. CASE Sample
        BY <2>1, <3>3 DEF TypeOK, RenderType, Sample
      <3>4. CASE Swap
        BY <2>1, <3>4 DEF TypeOK, RenderType, Swap
      <3>5. QED
        BY <3>1, <3>2, <3>3, <3>4
           DEF Present, Reset, on_reset, Accept, Poll, CloseMenu, ForgetMenu, Click
    <2>4. AcceptsType'
      <3>1. CASE UNCHANGED accepts
        BY <2>1, <3>1, UnchangedTypes
      <3>2. CASE Accept
        BY <2>1, <3>2 DEF TypeOK, AcceptsType, Accept, Poll, CloseMenu, ForgetMenu, Click
      <3>3. QED
        BY <3>1, <3>2
           DEF Present, GUI_Init, Sample, Toggle, Toggled, Swap, DrawMenu, Looked, Shown,
               Reset, on_reset
    <2>5. DeviceType'
      <3>1. CASE UNCHANGED device
        BY <2>1, <3>1, UnchangedTypes
      <3>2. CASE Reset \/ on_reset
        BY <2>1, <3>2 DEF TypeOK, DeviceType, Reset, on_reset
      <3>3. QED
        BY <3>1, <3>2
           DEF Present, GUI_Init, Sample, Toggle, Toggled, Swap, DrawMenu, Looked, Shown,
               Accept, Poll, CloseMenu, ForgetMenu, Click
    <2>6. QED
      BY <2>1, <2>2, <2>3, <2>4, <2>5, TypeParts, PTL
  <1>4. (PressedAreDown /\ ReleaseCloses /\ PressIsDown /\ ReleaseReachesTheGame)'
    BY <1>1, <1>2
       DEF IInv, TypeOK, PressedAreDown, ReleaseCloses, PressIsDown, ReleaseReachesTheGame, keys
  <1>5. OpenMenuLooksAtPlayer'
    <2>1. OpenMenuLooksAtPlayer /\ message' = message
      BY <1>1 DEF IInv, keys
    <2>2. CASE Toggle
      BY <2>2 DEF Toggle, OpenMenuLooksAtPlayer
    <2>3. CASE Toggled \/ Looked \/ ForgetMenu
      BY <2>1, <2>3 DEF Toggled, Looked, ForgetMenu, OpenMenuLooksAtPlayer, IInv, TypeOK
    <2>4. CASE Shown \/ CloseMenu
      BY <2>1, <2>4 DEF Shown, CloseMenu, Set, OpenMenuLooksAtPlayer, IInv, TypeOK, render
    <2>5. CASE \/ GUI_Init \/ Sample \/ Swap \/ DrawMenu
               \/ Reset \/ on_reset \/ Poll \/ Click
      BY <2>1, <2>5
         DEF GUI_Init, Sample, Swap, DrawMenu, Reset, on_reset, Poll, Click,
             OpenMenuLooksAtPlayer, options, render
    <2>6. QED
      BY <2>2, <2>3, <2>4, <2>5 DEF Present, Accept
  <1>6. QED
    BY <1>3, <1>4, <1>5 DEF IInv

\* The press or the release of a key arrives.
LEMMA KeyKeepsInv ==
  ASSUME IInv, NEW k \in Keys, KeyDown(k) \/ KeyUp(k)
  PROVE  IInv'
  <1>1. message.of = "nothing" /\ message \in Messages
    BY MessageKinds DEF IInv, TypeOK, KeyDown, KeyUp
  <1>2. CASE KeyDown(k)
    <2>1. message' \in Messages /\ message'.of = "down" /\ message'.key = k
      BY <1>2 DEF KeyDown, Messages
    <2>2. TypeOK'
      <3>1. TypeOK /\ RenderType' /\ AcceptsType' /\ DeviceType'
        BY <1>2, UnchangedTypes DEF IInv, KeyDown
      <3>2. OptionsType'
        BY <1>2, <3>1 DEF TypeOK, OptionsType, KeyDown
      <3>3. KeysType'
        BY <1>2, <2>1, <3>1 DEF TypeOK, KeysType, KeyDown
      <3>4. QED
        BY <3>1, <3>2, <3>3, TypeParts, PTL
    <2>3. QED
      BY <1>1, <1>2, <2>1, <2>2
         DEF IInv, KeyDown, PressedAreDown, ReleaseCloses, PressIsDown, ReleaseReachesTheGame,
             OpenMenuLooksAtPlayer, render
  <1>3. CASE KeyUp(k)
    <2>1. /\ message' = [of |-> "up", key |-> k]
          /\ message' \in Messages /\ message'.of = "up"
      BY <1>3 DEF KeyUp, Messages
    <2>2. ~main_window'
      BY <1>3 DEF KeyUp, IInv, PressedAreDown
    <2>3. TypeOK'
      <3>1. TypeOK /\ RenderType' /\ AcceptsType' /\ DeviceType'
        BY <1>3, UnchangedTypes DEF IInv, KeyUp
      <3>2. OptionsType'
        BY <1>3, <3>1 DEF TypeOK, OptionsType, KeyUp
      <3>3. KeysType'
        BY <1>3, <2>1, <3>1 DEF TypeOK, KeysType, KeyUp
      <3>4. QED
        BY <3>1, <3>2, <3>3, TypeParts, PTL
    <2>4. ReleaseReachesTheGame'
      BY <1>1, <1>3, <2>1 DEF IInv, KeyUp, ReleaseReachesTheGame
    <2>5. QED
      BY <1>3, <2>1, <2>2, <2>3, <2>4
         DEF IInv, KeyUp, PressedAreDown, ReleaseCloses, PressIsDown, OpenMenuLooksAtPlayer
  <1>4. QED
    BY <1>2, <1>3

\* The rest of the main thread.
LEMMA HandleKeepsInv ==
  ASSUME IInv,
         Handle \/ Command \/ LockCursor \/ (\E reserved \in BOOLEAN : OnEvent(reserved))
  PROVE  IInv'
  <1>1. TypeOK /\ message \in Messages
    BY DEF IInv, TypeOK
  <1>2. CASE Dispatch
    <2>1. /\ message.of \in {"down", "up"} /\ message.key \in Keys
          /\ message \in [of : {"down", "up"}, key : Keys]
      BY <1>1, <1>2, MessageKinds DEF Dispatch
    <2>2. message' = Idle /\ message' \in Messages /\ message'.of = "nothing"
      BY <1>2 DEF Dispatch, Messages, Idle
    <2>3. UNCHANGED <<options, render, down, pressed, locked, accepts, device>>
      BY <1>2 DEF Dispatch
    <2>4. buttons' \subseteq Keys /\ lost' \subseteq Keys
      BY <1>1, <1>2, <2>1 DEF TypeOK, Dispatch
    <2>5. TypeOK'
      BY <1>1, <2>2, <2>3, <2>4 DEF TypeOK, options, render, accepts, device
    <2>6. ReleaseReachesTheGame'
      <3>1. SUFFICES ASSUME NEW k \in buttons', k \notin down
                     PROVE  k \in lost'
        BY <2>3 DEF ReleaseReachesTheGame
      <3>2. CASE k = message.key
        <4>1. message.of = "up"
          BY <2>1, <3>1, <3>2 DEF IInv, PressIsDown
        <4>2. initialized /\ main_window
          BY <1>2, <3>1, <3>2, <4>1 DEF Dispatch
        <4>3. crossed
          BY <4>1, <4>2 DEF IInv, ReleaseCloses
        <4>4. QED
          BY <1>2, <3>2, <4>1, <4>2, <4>3 DEF Dispatch
      <3>3. CASE k # message.key
        <4>1. k \in buttons /\ lost \subseteq lost'
          BY <1>2, <3>1, <3>3 DEF Dispatch
        <4>2. message # [of |-> "up", key |-> k]
          BY <3>3
        <4>3. QED
          BY <3>1, <4>1, <4>2 DEF IInv, ReleaseReachesTheGame
      <3>4. QED
        BY <3>2, <3>3
    <2>7. OpenMenuLooksAtPlayer'
      BY <2>1, <2>3 DEF IInv, OpenMenuLooksAtPlayer, options, render
    <2>8. QED
      BY <2>2, <2>3, <2>5, <2>6, <2>7
         DEF IInv, PressedAreDown, ReleaseCloses, PressIsDown
  <1>3. CASE Command
    <2>1. message.of = "nothing" /\ message = Idle
      BY <1>1, <1>3, MessageKinds DEF Command
    <2>2. message' \in Messages /\ message'.of \in {"close", "open"}
      BY <1>1, <1>3 DEF Command, Messages, TypeOK
    <2>3. /\ UNCHANGED <<options, render, down, pressed, buttons, lost, locked, accepts,
                         starting, creating>>
          /\ calls' = calls + 1
      BY <1>3 DEF Command
    <2>4. TypeOK'
      BY <1>1, <2>2, <2>3 DEF TypeOK, options, render, accepts
    <2>5. ReleaseReachesTheGame'
      BY <2>1, <2>3 DEF IInv, ReleaseReachesTheGame, Idle
    <2>6. QED
      BY <2>1, <2>2, <2>3, <2>4, <2>5
         DEF IInv, PressedAreDown, ReleaseCloses, PressIsDown, OpenMenuLooksAtPlayer, options,
             render
  <1>4. CASE CommandToggles
    <2>1. message.of \in {"close", "open"}
      BY <1>4 DEF CommandToggles
    <2>2. message' \in Messages /\ message'.of = "toggled"
      BY <1>4 DEF CommandToggles, Messages
    <2>3. /\ main_window' \in BOOLEAN /\ stale' \in BOOLEAN /\ crossed' \in BOOLEAN
          /\ UNCHANGED <<was_opened, is_ready_draw, enable_auto_accept, render, down, pressed,
                         buttons, lost, locked, accepts, device>>
      BY <1>1, <1>4 DEF CommandToggles, Set, TypeOK
    <2>4. TypeOK'
      BY <1>1, <2>2, <2>3 DEF TypeOK, render, accepts, device
    <2>5. ReleaseReachesTheGame'
      BY <2>1, <2>3 DEF IInv, ReleaseReachesTheGame
    <2>6. QED
      BY <2>2, <2>3, <2>4, <2>5
         DEF IInv, PressedAreDown, ReleaseCloses, PressIsDown, OpenMenuLooksAtPlayer
  <1>5. CASE CommandEnds
    <2>1. message.of = "toggled"
      BY <1>5 DEF CommandEnds
    <2>2. message' \in Messages /\ message'.of = "nothing"
      BY <1>5 DEF CommandEnds, Messages, Idle
    <2>3. /\ was_opened' = FALSE
          /\ UNCHANGED <<main_window, is_ready_draw, enable_auto_accept, stale, crossed,
                         render, down, pressed, buttons, lost, locked, accepts, device>>
      BY <1>5 DEF CommandEnds
    <2>4. TypeOK'
      <3>1. RenderType' /\ AcceptsType' /\ DeviceType'
        BY <1>1, <2>3, UnchangedTypes
      <3>2. OptionsType'
        BY <1>1, <2>3 DEF TypeOK, OptionsType
      <3>3. KeysType'
        BY <1>1, <2>2, <2>3 DEF TypeOK, KeysType
      <3>4. QED
        BY <3>1, <3>2, <3>3, TypeParts, PTL
    <2>5. ReleaseReachesTheGame'
      BY <2>1, <2>3 DEF IInv, ReleaseReachesTheGame
    <2>6. QED
      BY <2>2, <2>3, <2>4, <2>5
         DEF IInv, PressedAreDown, ReleaseCloses, PressIsDown, OpenMenuLooksAtPlayer
  <1>6. CASE LockCursor \/ (\E reserved \in BOOLEAN : OnEvent(reserved))
    <2>1. /\ UNCHANGED <<options, render, message, down, pressed, buttons, lost, found, device>>
          /\ locked' \in BOOLEAN /\ should_accept' \in BOOLEAN /\ owed' \in BOOLEAN
          /\ accept' \in {"poll", accept}
      BY <1>1, <1>6 DEF LockCursor, OnEvent, TypeOK, keys, accepts
    <2>2. TypeOK'
      BY <1>1, <2>1 DEF TypeOK, options, render, device
    <2>3. QED
      BY <2>1, <2>2
         DEF IInv, PressedAreDown, ReleaseCloses, PressIsDown, ReleaseReachesTheGame,
             OpenMenuLooksAtPlayer, options, render
  <1>7. QED
    BY <1>2, <1>3, <1>4, <1>5, <1>6 DEF Handle

\* Stuttering.
LEMMA StutterKeepsInv == ASSUME IInv, UNCHANGED vars PROVE IInv'
  BY DEF IInv, TypeOK, PressedAreDown, ReleaseCloses, PressIsDown, ReleaseReachesTheGame,
         OpenMenuLooksAtPlayer, vars, options, render, keys, accepts, device

\* The inductive invariant.
THEOREM Invariance == Spec => []IInv
  <1>1. IInv /\ [Next]_vars => IInv'
    BY OtherThreadsKeepInv, KeyKeepsInv, HandleKeepsInv, StutterKeepsInv DEF Next
  <1>2. QED
    BY InitInv, <1>1, PTL DEF Spec

\* Every variable has its type.
THEOREM TypeCorrect == Spec => []TypeOK
  <1>1. IInv => TypeOK
    BY DEF IInv
  <1>2. QED
    BY Invariance, <1>1, PTL

\* A press that went to the game is followed there by its release: the filter
\* closes the menu before it decides who gets the release.
THEOREM KeysAreReleased == Spec => []ReleaseReachesTheGame
  <1>1. IInv => ReleaseReachesTheGame
    BY DEF IInv
  <1>2. QED
    BY Invariance, <1>1, PTL

\* Every opening of the menu, by the key or by the command, brings a look at the
\* player.
THEOREM OpeningsLook == Spec => []OpenMenuLooksAtPlayer
  <1>1. IInv => OpenMenuLooksAtPlayer
    BY DEF IInv
  <1>2. QED
    BY Invariance, <1>1, PTL

-----------------------------------------------------------------------------
(* What the liveness properties rest on: nothing that must happen is        *)
(* forgotten before it has.                                                 *)

\* A match that is not accepted keeps accept_thread going: nobody takes the
\* request back, other events included.
OwedIsRequested == owed => should_accept /\ accept # "none"

\* The menu is hidden only while some on_reset recreates the device objects: of
\* several that overlap, the last one to end shows it.
HiddenIsCreating == ~is_ready_draw => creating > 0

LEMMA NothingForgotten ==
  ASSUME TypeOK, OwedIsRequested, HiddenIsCreating, [Next]_vars
  PROVE  OwedIsRequested' /\ HiddenIsCreating'
  <1>1. CASE Present \/ Handle \/ Command \/ LockCursor \/ (\E k \in Keys : KeyDown(k) \/ KeyUp(k))
    <2>1. UNCHANGED <<accepts, is_ready_draw, creating>>
      BY <1>1 DEF Present, GUI_Init, Sample, Toggle, Toggled, Swap, DrawMenu, Looked, Shown,
                  Handle, Dispatch, CommandToggles, CommandEnds, Command, LockCursor, KeyDown,
                  KeyUp, options, device
    <2>2. QED
      BY <2>1 DEF OwedIsRequested, HiddenIsCreating, accepts
  <1>2. CASE Reset \/ on_reset
    BY <1>2 DEF Reset, on_reset, OwedIsRequested, HiddenIsCreating, TypeOK, accepts, options
  <1>3. CASE Accept \/ \E reserved \in BOOLEAN : OnEvent(reserved)
    <2>1. UNCHANGED <<is_ready_draw, creating>>
      BY <1>3 DEF Accept, Poll, CloseMenu, ForgetMenu, Click, OnEvent, options, device
    <2>2. OwedIsRequested'
      BY <1>3 DEF Accept, Poll, CloseMenu, ForgetMenu, Click, OnEvent, OwedIsRequested, TypeOK
    <2>3. QED
      BY <2>1, <2>2 DEF HiddenIsCreating
  <1>4. CASE UNCHANGED vars
    BY <1>4 DEF vars, options, accepts, device, OwedIsRequested, HiddenIsCreating
  <1>5. QED
    BY <1>1, <1>2, <1>3, <1>4 DEF Next

\* No event, no closing or opening of the menu and no number of resets make the
\* program forget a match it has to accept, or leave the menu hidden: what is
\* left of MatchIsAccepted and OpenMenuIsDrawn is that the threads go on.
THEOREM NothingIsForgotten == Spec => [](OwedIsRequested /\ HiddenIsCreating)
  <1>1. Init => OwedIsRequested /\ HiddenIsCreating
    BY DEF Init, OwedIsRequested, HiddenIsCreating
  <1>2. TypeOK /\ OwedIsRequested /\ HiddenIsCreating /\ [Next]_vars
          => (OwedIsRequested /\ HiddenIsCreating)'
    BY NothingForgotten
  <1>3. QED
    BY <1>1, <1>2, TypeCorrect, PTL DEF Spec
=============================================================================
