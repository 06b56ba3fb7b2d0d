----------------------------- MODULE MCNewDevice -----------------------------
(* The instance of NewDevice for TLC: MCNewDevice.cfg. *)
EXTENDS NewDevice
==============================================================================
