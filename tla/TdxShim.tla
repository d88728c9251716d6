------------------------------ MODULE TdxShim -------------------------------
(***************************************************************************)
(* The boot processor's path through src/reset.S: it walks the accept      *)
(* ranges of its data block, has the TDX module turn each page of them     *)
(* private, and jumps to the kernel.                                       *)
(*                                                                         *)
(* The TDX module and the host behind it are external: TDG.MEM.PAGE.ACCEPT *)
(* never accepts a frame that is already private, and may at any call      *)
(* answer that the host mapped smaller pages, or fail.                     *)
(***************************************************************************)
EXTENDS AcceptList

VARIABLES
  pc,         \* the label the processor is at
  rbp,        \* next entry of the data block
  r12, r13,   \* what is left of the range being accepted
  private,    \* frames that are private memory
  status      \* RAX of the last tdcall

regs == <<rbp, r12, r13>>
shimVars == <<imported, ranges, pc, rbp, r12, r13, private, status>>

-----------------------------------------------------------------------------
(* TDG.MEM.PAGE.ACCEPT on a set of frames, one page of either size.        *)

AcceptStatus(frames) ==
  { "error" } \cup (IF frames \cap private = {} THEN {"success"} ELSE {"already"})

-----------------------------------------------------------------------------

\* Mutant: only the low word is tested.
Terminator_LowWord(pair) == pair[1] = 0

\* Mutant: a pair of ones ends the list.
Terminator_Ones(pair) == pair = <<1, 1>>

Terminator(pair) == pair = <<0, 0>>

\* accept_next: load a pair; a pair of zeros is the terminator.
AcceptNextRange ==
  /\ pc = "accept_next"
  /\ r12' = Block(rbp)[1]
  /\ r13' = Block(rbp)[2]
  /\ IF Terminator(Block(rbp))
     THEN pc' = "boot_kernel" /\ rbp' = rbp
     ELSE pc' = "accept_range" /\ rbp' = rbp + 1
  /\ UNCHANGED <<data, private, status>>

\* Mutant: the end of the range is not looked at.
FitsHuge_NoEnd == r12 % HUGE = 0

\* A large page, if the address is aligned to one and the range reaches that far.
FitsHuge == r12 % HUGE = 0 /\ r12 + HUGE <= r13

\* accept_range: choose the size of the next page, or return at the end.
AcceptRange ==
  /\ pc = "accept_range"
  /\ pc' = IF r12 >= r13 THEN "accept_next"
           ELSE IF FitsHuge THEN "tdcall_2m" ELSE "accept_4k"
  /\ UNCHANGED <<data, regs, private, status>>

\* Mutant: a size mismatch is retried at the same size.
Accept2M_Retries ==
  LET frames == r12 .. r12 + HUGE - 1
  IN  /\ pc = "tdcall_2m"
      /\ status' \in AcceptStatus(frames) \cup {"mismatch"}
      /\ \/ /\ status' = "success"
            /\ private' = private \cup frames
            /\ r12' = r12 + HUGE
            /\ pc' = "accept_range"
         \/ status' = "mismatch" /\ pc' = "accept_range" /\ UNCHANGED <<private, r12>>
         \/ status' \in {"already", "error"} /\ pc' = "die" /\ UNCHANGED <<private, r12>>
      /\ UNCHANGED <<data, rbp, r13>>

\* A 2-MiB accept.  A size mismatch falls back to 4 KiB, anything else is fatal.
Accept2M ==
  LET frames == r12 .. r12 + HUGE - 1
  IN  /\ pc = "tdcall_2m"
      /\ status' \in AcceptStatus(frames) \cup {"mismatch"}
      /\ \/ /\ status' = "success"
            /\ private' = private \cup frames
            /\ r12' = r12 + HUGE
            /\ pc' = "accept_range"
         \/ status' = "mismatch" /\ pc' = "accept_4k" /\ UNCHANGED <<private, r12>>
         \/ status' \in {"already", "error"} /\ pc' = "die" /\ UNCHANGED <<private, r12>>
      /\ UNCHANGED <<data, rbp, r13>>

\* Mutant: the status is not tested.
Accept4K_IgnoresStatus ==
  /\ pc = "accept_4k"
  /\ status' \in AcceptStatus({r12})
  /\ private' = IF status' = "success" THEN private \cup {r12} ELSE private
  /\ r12' = r12 + 1
  /\ pc' = "accept_range"
  /\ UNCHANGED <<data, rbp, r13>>

\* A 4-KiB accept.
Accept4K ==
  /\ pc = "accept_4k"
  /\ status' \in AcceptStatus({r12})
  /\ IF status' = "success"
     THEN private' = private \cup {r12} /\ r12' = r12 + 1 /\ pc' = "accept_range"
     ELSE pc' = "die" /\ UNCHANGED <<private, r12>>
  /\ UNCHANGED <<data, rbp, r13>>

\* boot_kernel: RSI is the zero page, and the first word of the block the entry.
BootKernel ==
  /\ pc = "boot_kernel"
  /\ pc' = "linux"
  /\ UNCHANGED <<data, regs, private, status>>

\* die: report the fatal error to the host once, then halt for good.
Die ==
  /\ pc = "die"
  /\ pc' = "fatal"
  /\ UNCHANGED <<data, regs, private, status>>

ShimStep == AcceptNextRange \/ AcceptRange \/ Accept2M \/ Accept4K \/ BootKernel \/ Die

\* The kernel has the processor, or it is in the halt loop.
ShimLeft == pc \in {"linux", "fatal"} /\ UNCHANGED shimVars

ShimInit ==
  /\ \E image \in Images : /\ imported = image.imported
                           /\ ranges = image.ranges
                           /\ private = image.imported
  /\ pc = "accept_next"
  /\ rbp = 1
  /\ r12 = 0
  /\ r13 = 0
  /\ status = "success"

ShimNext == ShimStep \/ ShimLeft

\* The processor runs for as long as the host schedules it, which it must for
\* anything at all to be promised.
ShimSpec == ShimInit /\ [][ShimNext]_shimVars /\ WF_shimVars(ShimStep)

-----------------------------------------------------------------------------

Labels == {"accept_next", "accept_range", "tdcall_2m", "accept_4k", "boot_kernel",
           "linux", "die", "fatal"}

ShimTypeOK ==
  /\ imported \subseteq Nat
  /\ ranges \in Seq(Nat \X Nat)
  /\ pc \in Labels
  /\ rbp \in 1 .. Len(ranges) + 1
  /\ r12 \in Nat /\ r13 \in Nat
  /\ private \subseteq Nat
  /\ status \in {"success", "mismatch", "already", "error"}

\* Linux is entered with exactly the imported frames and the listed ranges private:
\* none skipped where page sizes change, none past the end of a range (reset.S 40-87).
EntersComplete == pc \in {"boot_kernel", "linux"} => private = Target

\* The shim never asks for a frame that is already private, so it only ever dies
\* of what the host did: its own bookkeeping cannot kill the guest (reset.S 58-87).
DiesOnlyOnHostError == pc \in {"die", "fatal"} => status = "error"

\* The shim leaves: it enters Linux or halts, however the host sizes its pages
\* (reset.S 42-50, 58-87).
ShimLeaves == <>(pc \in {"linux", "fatal"})

\* The strengthening behind the two safety properties: at every label the private
\* frames are the imported ones, the finished ranges, and the part of the current
\* range below R12 (reset.S 42-87).
AcceptedSoFar ==
  /\ pc = "accept_next" => private = imported \cup FramesUpTo(rbp - 1)
  /\ pc \in {"accept_range", "tdcall_2m", "accept_4k"} =>
       /\ rbp > 1
       /\ r13 = ranges[rbp - 1][2]
       /\ r12 \in ranges[rbp - 1][1] .. r13
       /\ private = imported \cup FramesUpTo(rbp - 2) \cup (ranges[rbp - 1][1] .. r12 - 1)
  /\ pc = "accept_4k" => r12 < r13
  /\ pc = "tdcall_2m" => FitsHuge

-----------------------------------------------------------------------------
(* The shim implements the abstract promise.                               *)

Phase == IF pc = "linux" THEN "kernel"
         ELSE IF pc = "fatal" THEN "halted" ELSE "shim"

Memory == INSTANCE PrivateMemory WITH target <- Target, phase <- Phase

\* The shim implements PrivateMemory: memory only grows, only inside the target, and
\* the kernel is entered with all of it and never after the shim gave up.
ImplementsPrivateMemory == Memory!MemSpec
=============================================================================
