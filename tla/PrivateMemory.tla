--------------------------- MODULE PrivateMemory ----------------------------
(***************************************************************************)
(* What a boot shim promises about the guest's memory, whichever way the   *)
(* platform turns a page private.  The loader imports some frames; the     *)
(* shim turns the rest private, each frame once; the kernel is entered     *)
(* only when nothing is missing and nothing was added; and a shim that     *)
(* gives up never enters it.                                               *)
(***************************************************************************)
VARIABLES
  target,    \* the frames that have to be private when the kernel is entered
  private,   \* the frames that are
  phase      \* "shim", "kernel" or "halted"

memVars == <<target, private, phase>>

MemInit ==
  /\ private \subseteq target
  /\ phase = "shim"

MakePrivate ==
  /\ phase = "shim"
  /\ private \subseteq private'
  /\ private' \subseteq target
  /\ UNCHANGED <<target, phase>>

EnterKernel ==
  /\ phase = "shim"
  /\ private = target
  /\ phase' = "kernel"
  /\ UNCHANGED <<target, private>>

Halt ==
  /\ phase = "shim"
  /\ phase' = "halted"
  /\ UNCHANGED <<target, private>>

MemNext == MakePrivate \/ EnterKernel \/ Halt

MemSpec == MemInit /\ [][MemNext]_memVars
=============================================================================
