-------------------------------- MODULE MCUdpGw --------------------------------
(* UdpGw for TLC: nothing in it tells one local or remote address from another. *)
EXTENDS UdpGw, TLC

AddressSymmetry == Permutations(Locals) \cup Permutations(Remotes)
=============================================================================
