------------------------------ MODULE MCOverlay ------------------------------
(***************************************************************************)
(* A small instance of Overlay.  Presses, frames, events and clicks are    *)
(* without bound; only the command and the resets are counted.             *)
(***************************************************************************)
EXTENDS Overlay

TheMenuKey == {"menu"}
=============================================================================
