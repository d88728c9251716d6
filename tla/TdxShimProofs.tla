--------------------------- MODULE TdxShimProofs ----------------------------
(***************************************************************************)
(* Proofs about TdxShim, for every size of a large page and every image    *)
(* whose list is well formed.                                              *)
(*                                                                         *)
(* The argument is one inductive invariant, ShimInv.  Its centre is        *)
(* AcceptedSoFar: at each label the private frames are exactly the         *)
(* imported ones, the finished ranges and the part of the current range    *)
(* below R12.  With the list ordered and clear of the imported frames      *)
(* (BlockOK), the next page to accept is then always a fresh one.          *)
(***************************************************************************)
EXTENDS TdxShim, TLAPS

ShimInv ==
  /\ ShimTypeOK
  /\ BlockOK
  /\ AcceptedSoFar
  /\ EntersComplete
  /\ DiesOnlyOnHostError

-----------------------------------------------------------------------------
(* The frames of a prefix of the list.                                     *)

\* No range comes before the first.
LEMMA NoFramesYet == ranges \in Seq(Nat \X Nat) => FramesUpTo(0) = {}
BY DEF FramesUpTo

\* Finishing a range adds its frames.
LEMMA OneMoreRange ==
  ASSUME ranges \in Seq(Nat \X Nat), NEW n \in DOMAIN ranges
  PROVE  FramesUpTo(n) = FramesUpTo(n - 1) \cup Frames(ranges[n])
<1>1. { k \in DOMAIN ranges : k <= n } = { k \in DOMAIN ranges : k <= n - 1 } \cup {n}
  OBVIOUS
<1> QED BY <1>1 DEF FramesUpTo

\* No frame of a range was private before its turn.
LEMMA RangeIsFresh ==
  ASSUME ranges \in Seq(Nat \X Nat), BlockOK, NEW n \in DOMAIN ranges
  PROVE  Frames(ranges[n]) \cap (imported \cup FramesUpTo(n - 1)) = {}
<1> SUFFICES ASSUME NEW f \in Frames(ranges[n]), f \in FramesUpTo(n - 1) PROVE FALSE
  BY DEF BlockOK
<1>1. PICK m \in DOMAIN ranges : m <= n - 1 /\ f \in Frames(ranges[m])
  BY DEF FramesUpTo
<1>2. ranges[m] \in Nat \X Nat /\ ranges[n] \in Nat \X Nat
  OBVIOUS
<1>3. ranges[m][2] <= ranges[n][1]
  BY <1>1 DEF BlockOK
<1> QED BY <1>1, <1>2, <1>3 DEF Frames

\* The list and the imported frames never change, so neither do their properties.
LEMMA SameList ==
  ASSUME UNCHANGED data
  PROVE  /\ BlockOK' <=> BlockOK
         /\ Target' = Target
         /\ \A n : FramesUpTo(n)' = FramesUpTo(n)
BY DEF data, BlockOK, Target, FramesUpTo, Frames

\* The frames of a range and of all before it are to be private in the end.
LEMMA PrefixInTarget ==
  ASSUME ranges \in Seq(Nat \X Nat), NEW n \in DOMAIN ranges
  PROVE  FramesUpTo(n - 1) \cup Frames(ranges[n]) \subseteq Target
BY DEF FramesUpTo, Target

-----------------------------------------------------------------------------
(* The walk of the list.                                                   *)

\* The loader has imported its frames and the walk of the block begins.
LEMMA InitInv == ShimInit => ShimInv
<1> SUFFICES ASSUME ShimInit PROVE ShimInv
  OBVIOUS
<1>1. PICK image \in Images : /\ imported = image.imported
                              /\ ranges = image.ranges
                              /\ private = image.imported
  BY DEF ShimInit
<1>2. WellFormed(image)
  BY ImagesAssumption
<1>3. ShimTypeOK
  BY <1>1, <1>2 DEF ShimInit, ShimTypeOK, WellFormed, Labels
<1>4. BlockOK
  BY <1>1, <1>2 DEF BlockOK, WellFormed
<1>5. AcceptedSoFar
  BY <1>1, <1>3, NoFramesYet DEF ShimInit, AcceptedSoFar, ShimTypeOK
<1> QED BY <1>3, <1>4, <1>5 DEF ShimInv, ShimInit, EntersComplete, DiesOnlyOnHostError

\* accept_next loads the next range, none of whose frames is private yet, or finds the end.
LEMMA NextRangeInv == ShimInv /\ AcceptNextRange => ShimInv'
<1> SUFFICES ASSUME ShimInv, AcceptNextRange PROVE ShimInv'
  OBVIOUS
<1> USE DEF ShimInv
<1>1. UNCHANGED <<data, private, status>>
  BY DEF AcceptNextRange
<1>2. CASE rbp \in DOMAIN ranges
  <2>1. Block(rbp) = ranges[rbp] /\ ranges[rbp] \in Nat \X Nat
    BY <1>2 DEF Block, ShimTypeOK
  <2>2. ranges[rbp][1] < ranges[rbp][2]
    BY <1>2 DEF BlockOK
  <2>3. ~Terminator(Block(rbp))
    BY <2>1, <2>2 DEF Terminator
  <2>4. /\ pc' = "accept_range" /\ rbp' = rbp + 1
        /\ r12' = ranges[rbp][1] /\ r13' = ranges[rbp][2]
    BY <2>1, <2>3 DEF AcceptNextRange
  <2>5. ShimTypeOK'
    BY <1>1, <1>2, <2>1, <2>4 DEF ShimTypeOK, data, Labels
  <2>6. AcceptedSoFar'
    <3>1. private = imported \cup FramesUpTo(rbp - 1)
      BY DEF AcceptNextRange, AcceptedSoFar
    <3>2. ranges[rbp][1] .. r12' - 1 = {}
      BY <2>1, <2>4
    <3>3. rbp' - 2 = rbp - 1 /\ rbp' - 1 = rbp /\ rbp' > 1
      BY <2>4 DEF ShimTypeOK
    <3>4. r12' \in ranges[rbp][1] .. r13'
      BY <2>1, <2>2, <2>4
    <3> QED BY <1>1, <2>4, <3>1, <3>2, <3>3, <3>4, SameList DEF AcceptedSoFar, data
  <2> QED BY <1>1, <2>4, <2>5, <2>6, SameList DEF EntersComplete, DiesOnlyOnHostError
<1>3. CASE rbp \notin DOMAIN ranges
  <2>1. /\ pc' = "boot_kernel" /\ rbp' = rbp /\ r12' = 0 /\ r13' = 0
    BY <1>3 DEF AcceptNextRange, Block, Terminator
  <2>2. rbp - 1 = Len(ranges)
    BY <1>3 DEF ShimTypeOK
  <2>3. private = Target
    BY <2>2 DEF AcceptNextRange, AcceptedSoFar, Target
  <2>4. ShimTypeOK'
    BY <1>1, <2>1 DEF ShimTypeOK, data, Labels
  <2>5. AcceptedSoFar'
    BY <2>1 DEF AcceptedSoFar
  <2> QED BY <1>1, <2>1, <2>3, <2>4, <2>5, SameList DEF EntersComplete, DiesOnlyOnHostError
<1> QED BY <1>2, <1>3

\* accept_range picks a page that fits the range, or the range is finished.
LEMMA RangeStepInv == ShimInv /\ AcceptRange => ShimInv'
<1> SUFFICES ASSUME ShimInv, AcceptRange PROVE ShimInv'
  OBVIOUS
<1> USE DEF ShimInv
<1>1. UNCHANGED <<data, regs, private, status>>
  BY DEF AcceptRange
<1>2. pc' \in {"accept_next", "tdcall_2m", "accept_4k"}
  BY DEF AcceptRange
<1>3. ShimTypeOK'
  BY <1>1, <1>2 DEF ShimTypeOK, data, regs, Labels
<1>4. rbp - 1 \in DOMAIN ranges /\ ranges[rbp - 1] \in Nat \X Nat
  BY DEF AcceptRange, AcceptedSoFar, ShimTypeOK
<1>5. AcceptedSoFar'
  <2>1. CASE r12 >= r13
    <3>1. pc' = "accept_next"
      BY <2>1 DEF AcceptRange
    <3>2. r12 = r13 /\ r13 = ranges[rbp - 1][2]
      BY <2>1, <1>4 DEF AcceptRange, AcceptedSoFar, ShimTypeOK
    <3>3. private = imported \cup FramesUpTo(rbp - 2) \cup Frames(ranges[rbp - 1])
      BY <3>2 DEF AcceptRange, AcceptedSoFar, Frames
    <3>4. FramesUpTo(rbp - 1) = FramesUpTo(rbp - 1 - 1) \cup Frames(ranges[rbp - 1])
      BY <1>4, OneMoreRange DEF ShimTypeOK
    <3>5. rbp - 1 - 1 = rbp - 2
      BY DEF ShimTypeOK
    <3>6. private = imported \cup FramesUpTo(rbp - 1)
      BY <3>3, <3>4, <3>5
    <3> QED BY <1>1, <3>1, <3>6, SameList DEF AcceptedSoFar, data, regs
  <2>2. CASE r12 < r13
    <3>1. pc' \in {"tdcall_2m", "accept_4k"} /\ (pc' = "tdcall_2m" => FitsHuge)
      BY <2>2 DEF AcceptRange, ShimTypeOK
    <3>2. FitsHuge' <=> FitsHuge
      BY <1>1 DEF FitsHuge, regs
    <3> QED BY <1>1, <2>2, <3>1, <3>2, SameList DEF AcceptRange, AcceptedSoFar, data, regs
  <2> QED BY <2>1, <2>2 DEF ShimTypeOK
<1> QED BY <1>1, <1>2, <1>3, <1>5, SameList DEF EntersComplete, DiesOnlyOnHostError

\* Accepting a page keeps the invariant if its frames are the next of the range.
LEMMA GrowInv ==
  ASSUME ShimInv, pc \in {"tdcall_2m", "accept_4k"}, NEW size \in Nat, r12 + size <= r13,
         private' = private \cup (r12 .. r12 + size - 1), r12' = r12 + size,
         pc' = "accept_range", status' = "success", UNCHANGED <<data, rbp, r13>>
  PROVE  ShimInv'
<1> USE DEF ShimInv
<1>1. rbp - 1 \in DOMAIN ranges /\ ranges[rbp - 1] \in Nat \X Nat
  BY DEF AcceptedSoFar, ShimTypeOK
<1>2. ShimTypeOK'
  BY DEF ShimTypeOK, data, Labels
<1>3. AcceptedSoFar'
  <2> DEFINE lo == ranges[rbp - 1][1]
  <2>1. lo \in Nat /\ r12 \in lo .. r13 /\ r13 = ranges[rbp - 1][2] /\ rbp > 1
    BY <1>1 DEF AcceptedSoFar
  <2>2. private = imported \cup FramesUpTo(rbp - 2) \cup (lo .. r12 - 1)
    BY DEF AcceptedSoFar
  <2>3. (lo .. r12 - 1) \cup (r12 .. r12 + size - 1) = lo .. r12' - 1
    BY <2>1
  <2>4. private' = imported \cup FramesUpTo(rbp - 2) \cup (lo .. r12' - 1)
    BY <2>2, <2>3
  <2>5. r12' \in lo .. r13
    BY <2>1
  <2> QED BY <2>1, <2>4, <2>5, SameList DEF AcceptedSoFar, data
<1> QED BY <1>2, <1>3, SameList DEF EntersComplete, DiesOnlyOnHostError

\* The frames of a page inside the range are not yet private, so the TDX module
\* cannot answer that they were accepted before.
LEMMA PageIsFresh ==
  ASSUME ShimInv, pc \in {"tdcall_2m", "accept_4k"}, NEW size \in Nat, r12 + size <= r13
  PROVE  (r12 .. r12 + size - 1) \cap private = {}
<1> USE DEF ShimInv
<1>1. rbp - 1 \in DOMAIN ranges /\ ranges[rbp - 1] \in Nat \X Nat
  BY DEF AcceptedSoFar, ShimTypeOK
<1>2. /\ r12 \in ranges[rbp - 1][1] .. r13 /\ r13 = ranges[rbp - 1][2]
      /\ private = imported \cup FramesUpTo(rbp - 2) \cup (ranges[rbp - 1][1] .. r12 - 1)
  BY DEF AcceptedSoFar
<1>3. r12 .. r12 + size - 1 \subseteq Frames(ranges[rbp - 1])
  BY <1>1, <1>2 DEF Frames
<1>4. rbp - 1 - 1 = rbp - 2
  BY DEF ShimTypeOK
<1>5. Frames(ranges[rbp - 1]) \cap (imported \cup FramesUpTo(rbp - 2)) = {}
  BY <1>1, <1>4, RangeIsFresh DEF ShimTypeOK
<1>6. (r12 .. r12 + size - 1) \cap (ranges[rbp - 1][1] .. r12 - 1) = {}
  BY <1>1, <1>2
<1> QED BY <1>2, <1>3, <1>5, <1>6

\* A call that fails moves to die and changes no memory.
LEMMA DieInv ==
  ASSUME ShimInv, pc' = "die", status' = "error", UNCHANGED <<data, regs, private>>
  PROVE  ShimInv'
BY SameList DEF ShimInv, ShimTypeOK, AcceptedSoFar, EntersComplete, DiesOnlyOnHostError,
                data, regs, Labels

\* An accepted large page was fresh and inside the range; a mismatch changes nothing.
LEMMA Accept2MInv == ShimInv /\ Accept2M => ShimInv'
<1> SUFFICES ASSUME ShimInv, Accept2M PROVE ShimInv'
  OBVIOUS
<1> DEFINE frames == r12 .. r12 + HUGE - 1
<1>1. pc = "tdcall_2m" /\ r12 + HUGE <= r13 /\ r12 < r13
  BY HugeAssumption DEF Accept2M, ShimInv, AcceptedSoFar, FitsHuge, ShimTypeOK
<1>2. frames \cap private = {}
  BY <1>1, HugeAssumption, PageIsFresh
<1>3. status' \in {"success", "mismatch", "error"}
  BY <1>2 DEF Accept2M, AcceptStatus
<1>4. CASE status' = "success"
  BY <1>1, <1>4, HugeAssumption, GrowInv DEF Accept2M
<1>5. CASE status' = "mismatch"
  <2>1. pc' = "accept_4k" /\ UNCHANGED <<data, regs, private>>
    BY <1>5 DEF Accept2M, regs
  <2>2. ShimTypeOK'
    BY <1>5, <2>1 DEF ShimInv, ShimTypeOK, data, regs, Labels
  <2>3. AcceptedSoFar'
    BY <1>1, <2>1, SameList DEF ShimInv, AcceptedSoFar, data, regs
  <2> QED BY <2>1, <2>2, <2>3, SameList DEF ShimInv, EntersComplete, DiesOnlyOnHostError
<1>6. CASE status' = "error"
  BY <1>6, DieInv DEF Accept2M, regs
<1> QED BY <1>3, <1>4, <1>5, <1>6

\* An accepted small page was fresh and inside the range.
LEMMA Accept4KInv == ShimInv /\ Accept4K => ShimInv'
<1> SUFFICES ASSUME ShimInv, Accept4K PROVE ShimInv'
  OBVIOUS
<1>1. pc = "accept_4k" /\ r12 \in Nat /\ r13 \in Nat /\ r12 + 1 <= r13
  BY DEF Accept4K, ShimInv, AcceptedSoFar, ShimTypeOK
<1>2. r12 .. r12 + 1 - 1 = {r12}
  BY <1>1
<1>3. {r12} \cap private = {}
  BY <1>1, <1>2, PageIsFresh
<1>4. status' \in {"success", "error"}
  BY <1>3 DEF Accept4K, AcceptStatus
<1>5. CASE status' = "success"
  BY <1>1, <1>2, <1>5, GrowInv DEF Accept4K
<1>6. CASE status' = "error"
  BY <1>6, DieInv DEF Accept4K, regs
<1> QED BY <1>4, <1>5, <1>6

\* The last jump on either path changes the label only.
LEMMA LeaveInv == ShimInv /\ (BootKernel \/ Die) => ShimInv'
BY SameList DEF ShimInv, BootKernel, Die, ShimTypeOK, AcceptedSoFar, EntersComplete,
                DiesOnlyOnHostError, data, regs, Labels

\* The kernel has the processor or it is halted: nothing changes.
LEMMA StutterInv == ShimInv /\ UNCHANGED shimVars => ShimInv'
<1> SUFFICES ASSUME ShimInv, UNCHANGED shimVars PROVE ShimInv'
  OBVIOUS
<1>1. UNCHANGED <<data, pc, regs, private, status>>
  BY DEF shimVars, data, regs
<1>2. (ShimTypeOK /\ BlockOK)'
  BY <1>1, SameList DEF data, regs, ShimInv, ShimTypeOK
<1>3. AcceptedSoFar'
  BY <1>1, SameList DEF data, regs, ShimInv, AcceptedSoFar, FitsHuge
<1>4. (EntersComplete /\ DiesOnlyOnHostError)'
  BY <1>1, SameList DEF data, ShimInv, EntersComplete, DiesOnlyOnHostError
<1> QED BY <1>1, <1>2, <1>3, <1>4 DEF ShimInv

\* The shim's invariant, for every well-formed image.
THEOREM ShimInvariant == ShimSpec => []ShimInv
<1>1. ShimInv /\ [ShimNext]_shimVars => ShimInv'
  BY NextRangeInv, RangeStepInv, Accept2MInv, Accept4KInv, LeaveInv, StutterInv
     DEF ShimNext, ShimStep, ShimLeft
<1> QED BY InitInv, <1>1, PTL DEF ShimSpec

\* Every register and status of reset.S keeps its type, and RBP stays in the block.
THEOREM ShimTypeCorrect == ShimSpec => []ShimTypeOK
<1>1. ShimInv => ShimTypeOK
  BY DEF ShimInv
<1> QED BY ShimInvariant, <1>1, PTL

\* At every label of reset.S the private frames are the ones the walk has passed.
THEOREM AcceptedSoFarAlways == ShimSpec => []AcceptedSoFar
<1>1. ShimInv => AcceptedSoFar
  BY DEF ShimInv
<1> QED BY ShimInvariant, <1>1, PTL

\* reset.S enters Linux with exactly the imported frames and the listed ranges private.
THEOREM EntersCompleteAlways == ShimSpec => []EntersComplete
<1>1. ShimInv => EntersComplete
  BY DEF ShimInv
<1> QED BY ShimInvariant, <1>1, PTL

\* reset.S never asks for a frame twice, so it dies of a host error or not at all.
THEOREM DiesOnlyOnHostErrorAlways == ShimSpec => []DiesOnlyOnHostError
<1>1. ShimInv => DiesOnlyOnHostError
  BY DEF ShimInv
<1> QED BY ShimInvariant, <1>1, PTL

-----------------------------------------------------------------------------
(* The refinement.                                                         *)

\* What is private after an accept is part of the target.
LEMMA PrivateInTarget ==
  ShimInv /\ pc \in {"accept_range", "accept_4k"} => private \subseteq Target
<1> USE DEF ShimInv
<1> SUFFICES ASSUME ShimInv, pc \in {"accept_range", "accept_4k"}, NEW f \in private
             PROVE  f \in Target
  OBVIOUS
<1>1. rbp - 1 \in DOMAIN ranges /\ ranges[rbp - 1] \in Nat \X Nat
  BY DEF AcceptedSoFar, ShimTypeOK
<1>2. ranges[rbp - 1][1] .. r12 - 1 \subseteq Frames(ranges[rbp - 1])
  <2>1. /\ r12 \in Nat /\ r12 <= ranges[rbp - 1][2]
        /\ ranges[rbp - 1][1] \in Nat /\ ranges[rbp - 1][2] \in Nat
    BY <1>1 DEF AcceptedSoFar, ShimTypeOK
  <2> QED BY <2>1 DEF Frames
<1>3. FramesUpTo(rbp - 2) \cup Frames(ranges[rbp - 1]) \subseteq Target
  <2>1. rbp - 1 - 1 = rbp - 2
    BY DEF ShimTypeOK
  <2> QED BY <1>1, <2>1, PrefixInTarget DEF ShimTypeOK
<1> QED BY <1>2, <1>3 DEF AcceptedSoFar, Target

\* Every step of the shim is a step or a stutter of PrivateMemory.
LEMMA StepRefines == ShimInv /\ [ShimNext]_shimVars => [Memory!MemNext]_(Memory!memVars)
<1> SUFFICES ASSUME ShimInv, [ShimNext]_shimVars
             PROVE  Memory!MemNext \/ UNCHANGED Memory!memVars
  OBVIOUS
<1> USE DEF Memory!MemNext, Memory!memVars, Memory!MakePrivate, Memory!EnterKernel, Memory!Halt,
            Phase
<1>1. CASE AcceptNextRange
  BY <1>1, SameList DEF AcceptNextRange
<1>2. CASE AcceptRange
  BY <1>2, SameList DEF AcceptRange
<1>3. CASE Accept2M \/ Accept4K
  <2>1. ShimInv'
    BY <1>3, Accept2MInv, Accept4KInv
  <2>2. Target' = Target /\ Phase = "shim" /\ Phase' = "shim"
    BY <1>3, SameList DEF Accept2M, Accept4K
  <2>3. CASE pc' = "die"
    BY <1>3, <2>2, <2>3 DEF Accept2M, Accept4K
  <2>4. CASE pc' # "die"
    <3>1. private \subseteq private'
      BY <1>3 DEF Accept2M, Accept4K
    <3>2. (pc \in {"accept_range", "accept_4k"})'
      BY <1>3, <2>4 DEF Accept2M, Accept4K
    <3>3. (private \subseteq Target)'
      BY <2>1, <3>2, PrivateInTarget, PTL
    <3> QED BY <2>2, <3>1, <3>3
  <2> QED BY <2>3, <2>4
<1>4. CASE BootKernel
  BY <1>4, SameList DEF BootKernel, ShimInv, EntersComplete
<1>5. CASE Die
  BY <1>5, SameList DEF Die
<1>6. CASE UNCHANGED shimVars
  BY <1>6, SameList DEF shimVars, data
<1> QED BY <1>1, <1>2, <1>3, <1>4, <1>5, <1>6 DEF ShimNext, ShimStep, ShimLeft

\* The shim implements the abstract promise on private memory.
THEOREM Refinement == ShimSpec => ImplementsPrivateMemory
<1>1. ShimInit => Memory!MemInit
  BY DEF ShimInit, Memory!MemInit, Target, Phase
<1> QED BY <1>1, StepRefines, ShimInvariant, PTL
        DEF ShimSpec, ImplementsPrivateMemory, Memory!MemSpec
=============================================================================
