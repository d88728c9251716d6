----------------------------- MODULE MCTdxShim ------------------------------
(* Every well-formed list of up to two ranges over twelve frames, and of   *)
(* three between a few of them, so that ranges start and end on both sides *)
(* of a large page's boundary.                                             *)
EXTENDS TdxShim

MCFrames == 0 .. 11

MCRanges == { <<lo, hi>> : lo \in 0 .. 11, hi \in 1 .. 12 }

MCCoarse == { <<lo, hi>> : lo \in {0, 3, 4, 8, 9}, hi \in {1, 4, 5, 8, 12} }

MCLists ==
  { <<>> } \cup { <<p>> : p \in MCRanges }
    \cup { <<p, q>> : p \in MCRanges, q \in MCRanges }
    \cup { <<p, q, s>> : p \in MCCoarse, q \in MCCoarse, s \in MCCoarse }

Listed(list) == UNION { Frames(list[n]) : n \in DOMAIN list }

\* The loader imported everything the list leaves over, as the builder arranges.
MCImages ==
  { i \in { [imported |-> MCFrames \ Listed(l), ranges |-> l] : l \in MCLists } : WellFormed(i) }
=============================================================================
