---------------------------- MODULE MCPlacement -----------------------------
(* Every map of up to three regions over a handful of addresses, with and  *)
(* without the reset page that lies above the top of memory.               *)
EXTENDS Placement

MCBases == {0, 2, 3, 4, 6}

MCRegions ==
  { Measured(b, k, n) : b \in MCBases, k \in {RAM, ACPI}, n \in {0, 3} }
    \cup { Host(b) : b \in {4} }
    \cup { Mmio(b, n) : b \in MCBases, n \in {2, 4} }

Reset == Measured(RESET_ALIAS, RESERVED, PAGE)

MCPlaced ==
  { <<>>, <<Reset>> } \cup { <<p>> : p \in MCRegions }
    \cup { <<p, q, Reset>> : p \in MCRegions, q \in MCRegions }
    \cup { <<p, q, s>> : p \in MCRegions, q \in MCRegions, s \in MCRegions }

MCMaps == [placed: MCPlaced, memory: {6, 10}]

MCAddrs == 0 .. 11
=============================================================================
