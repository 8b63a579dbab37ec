--------------------------- MODULE MCHookLifecycle ---------------------------
(***************************************************************************)
(* HookLifecycle as it is; it has no constants.                            *)
(***************************************************************************)
EXTENDS HookLifecycle
=============================================================================
