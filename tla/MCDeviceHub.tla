---------------------------- MODULE MCDeviceHub ----------------------------
(* Model-checking instances of DeviceHub. *)
EXTENDS DeviceHub, TLC

Symmetry == Permutations(Socket) \cup Permutations(Command)
=============================================================================
