----------------------------- MODULE MCSnpShim ------------------------------
(* Well-formed lists of up to two ranges over twelve frames, from the first *)
(* frame or later, that start and end on and off the boundaries of large    *)
(* pages of four.  Frame 2 is the lent page.  Two processors are woken.     *)
EXTENDS SnpShim

MCFrames == 0 .. 11

MCRanges == { <<lo, hi>> : lo \in {0, 3, 4, 6}, hi \in {2, 4, 6, 8, 9, 12} }

MCLists ==
  { <<>> } \cup { <<p>> : p \in MCRanges } \cup { <<p, q>> : p \in MCRanges, q \in MCRanges }

Listed(list) == UNION { Frames(list[n]) : n \in DOMAIN list }

\* The loader imported everything the list leaves over, as the builder arranges.
MCImages ==
  { i \in { [imported |-> MCFrames \ Listed(l), ranges |-> l] : l \in MCLists } :
      WellFormed(i) /\ GHCB \in i.imported }
=============================================================================
