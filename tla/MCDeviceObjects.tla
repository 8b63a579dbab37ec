--------------------------- MODULE MCDeviceObjects ---------------------------
(***************************************************************************)
(* A small instance of DeviceObjects.                                      *)
(***************************************************************************)
EXTENDS DeviceObjects
=============================================================================
