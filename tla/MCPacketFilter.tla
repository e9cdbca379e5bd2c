--------------------------- MODULE MCPacketFilter ---------------------------
(* An instance of PacketFilter with two CPUs. *)
EXTENDS PacketFilter, TLC

CONSTANTS c1, c2

Symmetric == Permutations({c1, c2})
=============================================================================
