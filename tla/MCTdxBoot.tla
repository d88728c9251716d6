----------------------------- MODULE MCTdxBoot ------------------------------
(* Nine frames of memory, large pages of two, maps of three regions, the   *)
(* zero page and the reset page, and two processors to start besides the   *)
(* boot processor.                                                         *)
EXTENDS TdxBoot

MCLoaded(b) ==
  [base: {b}, e820: {RAM, RESERVED}, fill: {"measured"}, len: {1, 2}]

MCHoles == [base: {2, 5, 6}, e820: {ABSENT}, fill: {"mmio"}, len: {1, 2}]

MCMaps ==
  [placed: { << p, q, h, Measured(ZERO_PAGE, RESERVED, PAGE), Measured(RESET_ALIAS, RESERVED, PAGE) >> :
               p \in MCLoaded(0) \cup MCLoaded(1), q \in MCLoaded(3), h \in MCHoles },
   memory: {8, 9}]

MCAddrs == 0 .. 9
MCVector == [a \in APs |-> 10 + a]
MCOptions == [key: {""}, svn: {0}, config: {"hash"}]
=============================================================================
