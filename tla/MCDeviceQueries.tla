--------------------------- MODULE MCDeviceQueries ---------------------------
(* Instances of DeviceQueries for TLC. *)
EXTENDS DeviceQueries, TLC

Symmetry == Permutations(Query) \cup Permutations(Device)
==============================================================================
