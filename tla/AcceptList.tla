----------------------------- MODULE AcceptList -----------------------------
(***************************************************************************)
(* The image as a boot shim finds it, the same on both platforms: what the *)
(* loader imported, and the accept list in the shim's data block.  Memory  *)
(* is counted in 4-KiB frames and HUGE of them make a 2-MiB page.          *)
(***************************************************************************)
EXTENDS Integers, Sequences

CONSTANTS
  HUGE,     \* frames of a large page
  Images    \* the images to start from: [imported |-> frames, ranges |-> <<lo, hi>>s]

VARIABLES
  imported,   \* frames the loader added and measured
  ranges      \* the data block up to its terminator

data == <<imported, ranges>>

Frames(range) == range[1] .. range[2] - 1

\* What the builder promises of the list (Placement: AcceptOrdered, AcceptExact).
WellFormed(image) ==
  /\ image.imported \subseteq Nat
  /\ image.ranges \in Seq(Nat \X Nat)
  /\ \A n \in DOMAIN image.ranges :
       /\ image.ranges[n][1] < image.ranges[n][2]
       /\ Frames(image.ranges[n]) \cap image.imported = {}
       /\ \A m \in DOMAIN image.ranges : n < m => image.ranges[n][2] <= image.ranges[m][1]

ASSUME HugeAssumption == HUGE \in Nat \ {0, 1}
ASSUME ImagesAssumption == \A image \in Images : WellFormed(image)

\* The block is zero past its last range, which is what ends the list.
Block(n) == IF n \in DOMAIN ranges THEN ranges[n] ELSE <<0, 0>>

\* The frames of the first n ranges of the block.
FramesUpTo(n) == UNION { Frames(ranges[m]) : m \in { k \in DOMAIN ranges : k <= n } }

\* What has to be private when Linux runs.
Target == imported \cup FramesUpTo(Len(ranges))

\* The list as WellFormed asks for it, in a state.
BlockOK ==
  \A n \in DOMAIN ranges :
    /\ ranges[n][1] < ranges[n][2]
    /\ Frames(ranges[n]) \cap imported = {}
    /\ \A m \in DOMAIN ranges : n < m => ranges[n][2] <= ranges[m][1]
=============================================================================
