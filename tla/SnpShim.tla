------------------------------ MODULE SnpShim -------------------------------
(***************************************************************************)
(* src/snp_reset.S: the boot processor validates and clears the ranges of  *)
(* its data block, lends one page to the host to wake the application      *)
(* processors through it, takes the page back and jumps to the kernel.     *)
(* The application processors park until Linux recreates them.             *)
(*                                                                         *)
(* PVALIDATE and the host are external.  PVALIDATE reports a status and,   *)
(* in the carry flag, a page that was valid already; it may fail at any    *)
(* call.  The host may refuse any step of the wake.  It delivers an INIT   *)
(* or SIPI it accepted some time later, and may resume a parked processor  *)
(* whenever it likes.  Touching private memory that is not valid, or the   *)
(* GHCB page before it is shared and registered, ends the guest ("fault"). *)
(***************************************************************************)
EXTENDS AcceptList

CONSTANTS
  GHCB,   \* the frame lent to the host, imported as part of the image
  APs     \* the application processors

ASSUME GhcbAssumption == \A image \in Images : GHCB \in image.imported

VARIABLES
  pc,         \* the boot processor's label
  rbp,        \* next entry of the data block
  r12, r13,   \* what is left of the range being validated
  r15,        \* R15D: the status of the last PVALIDATE, then the step of the wake
  bl,         \* the carry of the last PVALIDATE of a range
  private,    \* frames that are valid private memory
  clear,      \* history: the frames the shim has zeroed
  ghcb,       \* the lent page: private, rescinded, shared, registered or assigned
  granted,    \* history: how many steps of the wake the host has granted
  report,     \* the termination request: reason set and code
  ap,         \* each application processor
  pend        \* the interrupts the host has yet to deliver to each of them

regs == <<rbp, r12, r13>>
wake == <<ghcb, granted, pend>>
snpVars == <<data, pc, regs, r15, bl, private, clear, wake, report, ap>>

-----------------------------------------------------------------------------
(* validate_next and validate_range.                                       *)

\* Mutant: only the low word is tested.
Terminator_LowWord(pair) == pair[1] = 0

\* Mutant: a pair of ones ends the list.
Terminator_Ones(pair) == pair = <<1, 1>>

Terminator(pair) == pair = <<0, 0>>

ValidateNext ==
  /\ pc = "validate_next"
  /\ r12' = Block(rbp)[1]
  /\ r13' = Block(rbp)[2]
  /\ IF Terminator(Block(rbp))
     THEN pc' = "rescind" /\ rbp' = rbp
     ELSE pc' = "validate_range" /\ rbp' = rbp + 1
  /\ UNCHANGED <<data, r15, bl, private, clear, wake, report, ap>>

\* Mutant: the end of the range is not looked at.
FitsHuge_NoEnd == r12 % HUGE = 0

FitsHuge == r12 % HUGE = 0 /\ r12 + HUGE <= r13

ValidateRange ==
  /\ pc = "validate_range"
  /\ pc' = IF r12 >= r13 THEN "validate_next"
           ELSE IF FitsHuge THEN "validate_2m" ELSE "validate_4k"
  /\ UNCHANGED <<data, regs, r15, bl, private, clear, wake, report, ap>>

LargePage == r12 .. r12 + HUGE - 1

\* The answers of PVALIDATE, with what the carry says of a failure left open.
FAIL_INPUT == 1
FAIL_SIZEMISMATCH == 6

Pvalidate(frames) ==
  [eax: {0}, carry: {frames \cap private # {}}]
    \cup [eax: {FAIL_INPUT, FAIL_SIZEMISMATCH}, carry: BOOLEAN]

\* What both sizes do with an answer.
Answered(frames, answer) ==
  /\ r15' = answer.eax
  /\ bl' = answer.carry
  /\ private' = IF answer.eax = 0 THEN private \cup frames ELSE private
  /\ UNCHANGED <<data, regs, clear, wake, report, ap>>

\* A size mismatch falls back to 4 KiB; a page that was valid already is fatal.
Validate2M ==
  /\ pc = "validate_2m"
  /\ \E answer \in Pvalidate(LargePage) :
       /\ Answered(LargePage, answer)
       /\ pc' = IF answer.eax = FAIL_SIZEMISMATCH THEN "validate_4k"
                ELSE IF answer.eax = 0 /\ ~answer.carry THEN "zero_2m" ELSE "die"

Validate4K ==
  /\ pc = "validate_4k"
  /\ \E answer \in Pvalidate({r12}) :
       /\ Answered({r12}, answer)
       /\ pc' = IF answer.eax = 0 /\ ~answer.carry THEN "zero_4k" ELSE "die"

\* rep stosq over the frames, then past them.
Zero(frames, past) ==
  /\ IF frames \subseteq private
     THEN clear' = clear \cup frames /\ r12' = past /\ pc' = "validate_range"
     ELSE pc' = "fault" /\ UNCHANGED <<clear, r12>>
  /\ UNCHANGED <<data, rbp, r13, r15, bl, private, wake, report, ap>>

\* Mutant: a large page is cleared like a small one.
Zero2M_OneFrame == pc = "zero_2m" /\ Zero({r12}, r12 + HUGE)

Zero2M == pc = "zero_2m" /\ Zero(LargePage, r12 + HUGE)

\* Mutant: a small page advances like a large one.
Zero4K_StepsHuge == pc = "zero_4k" /\ Zero({r12}, r12 + HUGE)

Zero4K == pc = "zero_4k" /\ Zero({r12}, r12 + 1)

-----------------------------------------------------------------------------
(* wake_aps: eight steps, each numbered in R15D before the host is asked.  *)

Numbered(label, n) ==
  /\ pc = label
  /\ r15' = n
  /\ UNCHANGED <<data, regs, bl, report, ap>>

Step(label, n) == Numbered(label, n) /\ UNCHANGED clear

Grant(next) == pc' = next /\ granted' = granted + 1

Refuse == pc' = "die_wake" /\ UNCHANGED <<private, wake>>

Rescind ==
  /\ Step("rescind", 1)
  /\ \/ /\ Grant("share")
        /\ private' = private \ {GHCB}
        /\ ghcb' = "rescinded"
        /\ UNCHANGED pend
     \/ Refuse

Share ==
  /\ Step("share", 2)
  /\ \/ Grant("register") /\ ghcb' = "shared" /\ UNCHANGED <<private, pend>>
     \/ Refuse

Register ==
  /\ Step("register", 3)
  /\ \/ /\ Grant("init")
        /\ ghcb' = IF ghcb = "shared" THEN "registered" ELSE ghcb
        /\ UNCHANGED <<private, pend>>
     \/ Refuse

\* send_ipi: the request goes through the page, the host queues what it accepted.
\* An INIT supersedes what is queued.
SendIpi(event, next) ==
  IF ghcb # "registered"
  THEN pc' = "fault" /\ UNCHANGED <<private, wake>>
  ELSE \/ /\ Grant(next)
          /\ pend' = [a \in APs |-> IF event = "init" THEN {"init"} ELSE pend[a] \cup {event}]
          /\ UNCHANGED <<private, ghcb>>
       \/ Refuse

\* The lent page, which came with the image, is zeroed through its shared alias before the
\* first request is written into it.
ZeroGhcb == clear' = IF ghcb \in {"shared", "registered"} THEN clear \cup {GHCB} ELSE clear

\* Mutant: the first interrupt is a SIPI like the others.
Init_SendsSipi == Numbered("init", 4) /\ ZeroGhcb /\ SendIpi("sipi", "sipi1")

Init == Numbered("init", 4) /\ ZeroGhcb /\ SendIpi("init", "sipi1")

Sipi1 == Step("sipi1", 5) /\ SendIpi("sipi", "sipi2")

\* Mutant: the second SIPI keeps the number of the first.
Sipi2_NotNumbered == Step("sipi2", r15) /\ SendIpi("sipi", "unshare")

Sipi2 == Step("sipi2", 6) /\ SendIpi("sipi", "unshare")

\* Mutant: the page is assigned back but never validated again.
Unshare_Enters ==
  /\ Step("unshare", 7)
  /\ \/ Grant("boot_kernel") /\ ghcb' = "assigned" /\ UNCHANGED <<private, pend>>
     \/ Refuse

Unshare ==
  /\ Step("unshare", 7)
  /\ \/ Grant("revalidate") /\ ghcb' = "assigned" /\ UNCHANGED <<private, pend>>
     \/ Refuse

Revalidate ==
  /\ Step("revalidate", 8)
  /\ \/ /\ Grant("boot_kernel")
        /\ private' = private \cup {GHCB}
        /\ ghcb' = "private"
        /\ UNCHANGED pend
     \/ Refuse

-----------------------------------------------------------------------------
(* The ways out.                                                           *)

BootKernel ==
  /\ pc = "boot_kernel"
  /\ pc' = "linux"
  /\ UNCHANGED <<data, regs, r15, bl, private, clear, wake, report, ap>>

\* Before the wake: the carry and the status are the reason set, and the number of the
\* large page the code, as far as its eight bits reach.
Die ==
  /\ pc = "die"
  /\ pc' = "fatal"
  /\ report' = [set |-> (IF bl THEN 8 ELSE 0) + (r15 % 8), code |-> (r12 \div HUGE) % 256]
  /\ UNCHANGED <<data, regs, r15, bl, private, clear, wake, ap>>

WAKE_SET == 15

DieWake ==
  /\ pc = "die_wake"
  /\ pc' = "fatal"
  /\ report' = [set |-> WAKE_SET, code |-> r15]
  /\ UNCHANGED <<data, regs, r15, bl, private, clear, wake, ap>>

ShimStep ==
  \/ ValidateNext \/ ValidateRange \/ Validate2M \/ Validate4K \/ Zero2M \/ Zero4K
  \/ Rescind \/ Share \/ Register \/ Init \/ Sipi1 \/ Sipi2 \/ Unshare \/ Revalidate
  \/ BootKernel \/ Die \/ DieWake

-----------------------------------------------------------------------------
(* The application processors and what the host and Linux do with them.    *)

others == <<data, pc, regs, r15, bl, private, clear, ghcb, granted, report>>

\* Only an INIT leaves the state KVM starts them in.
TakeInit(a) ==
  /\ "init" \in pend[a]
  /\ ap' = [ap EXCEPT ![a] = "init"]
  /\ pend' = [pend EXCEPT ![a] = @ \ {"init"}]
  /\ UNCHANGED others

\* A SIPI starts the measured VMSA at the park stub; any other is dropped.
TakeSipi(a) ==
  /\ "sipi" \in pend[a] /\ "init" \notin pend[a]
  /\ ap' = [ap EXCEPT ![a] = IF @ = "init" THEN "stub" ELSE @]
  /\ pend' = [pend EXCEPT ![a] = {}]
  /\ UNCHANGED others

\* snp_ap_park: ask the host for an AP Reset Hold.
Park(a) ==
  /\ ap[a] = "stub"
  /\ ap' = [ap EXCEPT ![a] = "held"]
  /\ UNCHANGED <<others, pend>>

\* A hold that ends early falls through to the jump back.
Resume(a) ==
  /\ ap[a] = "held"
  /\ ap' = [ap EXCEPT ![a] = "stub"]
  /\ UNCHANGED <<others, pend>>

\* Linux replaces the VMSA of a processor that runs its own.
Create(a) ==
  /\ pc = "linux"
  /\ ap[a] \in {"stub", "held"}
  /\ ap' = [ap EXCEPT ![a] = "created"]
  /\ pend' = [pend EXCEPT ![a] = {}]
  /\ UNCHANGED others

\* Linux has the boot processor, or it is in the halt loop or gone.
SnpLeft == pc \in {"linux", "fatal", "fault"} /\ UNCHANGED snpVars

SnpInit ==
  /\ \E image \in Images : /\ imported = image.imported
                           /\ ranges = image.ranges
                           /\ private = image.imported
  /\ pc = "validate_next"
  /\ rbp = 1 /\ r12 = 0 /\ r13 = 0
  /\ r15 = 0 /\ bl = FALSE
  /\ clear = {}
  /\ ghcb = "private"
  /\ granted = 0
  /\ report = [set |-> 0, code |-> 0]
  /\ ap = [a \in APs |-> "wait"]
  /\ pend = [a \in APs |-> {}]

ApStep(a) == TakeInit(a) \/ TakeSipi(a) \/ Park(a)

SnpNext ==
  \/ ShimStep
  \/ SnpLeft
  \/ \E a \in APs : ApStep(a) \/ Resume(a) \/ Create(a)

\* The host schedules every processor and delivers what it accepted.  It owes nobody
\* an early resume.
SnpSpec ==
  /\ SnpInit
  /\ [][SnpNext]_snpVars
  /\ WF_snpVars(ShimStep)
  /\ \A a \in APs : WF_snpVars(ApStep(a)) /\ WF_snpVars(Create(a))

-----------------------------------------------------------------------------

RangeLabels == {"validate_range", "validate_2m", "validate_4k", "zero_2m", "zero_4k"}
WakeLabels == {"rescind", "share", "register", "init", "sipi1", "sipi2", "unshare", "revalidate"}
Labels == {"validate_next"} \cup RangeLabels \cup WakeLabels
            \cup {"boot_kernel", "linux", "die", "die_wake", "fatal", "fault"}

SnpTypeOK ==
  /\ imported \subseteq Nat
  /\ ranges \in Seq(Nat \X Nat)
  /\ pc \in Labels
  /\ rbp \in 1 .. Len(ranges) + 1
  /\ r12 \in Nat /\ r13 \in Nat
  /\ r15 \in 0 .. 8
  /\ bl \in BOOLEAN
  /\ private \subseteq Nat
  /\ clear \subseteq Nat
  /\ ghcb \in {"private", "rescinded", "shared", "registered", "assigned"}
  /\ granted \in 0 .. 8
  /\ report \in [set: 0 .. 15, code: 0 .. 255]
  /\ ap \in [APs -> {"wait", "init", "stub", "held", "created"}]
  /\ pend \in [APs -> SUBSET {"init", "sipi"}]

\* Everything but the lent page.
GuestRam == Target \ {GHCB}

\* Linux is entered with every promised frame valid, the lent page among them again
\* (snp_reset.S 107: "so Linux sees only private RAM").
EntersComplete == pc \in {"boot_kernel", "linux"} => private = Target

\* Of the image only the lent page is ever zeroed: once the host has granted its sharing and
\* its registration, and before any interrupt goes through it (snp_reset.S 82-89).
OnlyLentZeroed ==
  /\ clear \cap imported \subseteq {GHCB}
  /\ GHCB \in clear => granted >= 3
  /\ granted > 3 => GHCB \in clear

\* What the walk validated it has cleared by its end, wherever the page sizes changed
\* (snp_reset.S 221-232), and the image keeps its contents but for the lent page.  That page
\* is not cleared again when it is validated again (104-110).
ClearsWhatItValidates ==
  /\ OnlyLentZeroed
  /\ pc \in WakeLabels \cup {"boot_kernel", "linux"} => clear \ {GHCB} = Target \ imported

\* Only the host ends the guest: the shim never touches a page before it is what the
\* access needs, and never validates one twice, so before the wake it dies only of a
\* status, not of a carry (snp_reset.S 64-88, 196-232).
NeverKillsItself ==
  /\ pc # "fault"
  /\ pc \in {"die", "fatal"} => r15 # 0

\* Nothing leaves the guest's hands, and no other processor leaves the wait KVM put it
\* in, before all private RAM is valid and clear (snp_reset.S 6-7).
WakesLast ==
  (ghcb # "private" \/ \E a \in APs : ap[a] # "wait" \/ pend[a] # {}) =>
    GuestRam \subseteq private /\ Target \ imported \subseteq clear

Missing == GuestRam \ private

\* A termination request says how far the shim came: in a reason set of its own, the
\* step of the wake the host refused, one past those it granted; otherwise the large
\* page of the first frame that is still missing (snp_reset.S 58-59, 155-181).
ReportTellsWhere ==
  pc = "fatal" =>
    IF Missing = {}
    THEN report = [set |-> WAKE_SET, code |-> granted + 1]
    ELSE /\ report.set # WAKE_SET
         /\ \E f \in Missing : /\ \A g \in Missing : f <= g
                               /\ report.code = (f \div HUGE) % 256

\* The shim reports a failure or Linux runs and gets every processor it creates, which
\* only the wake makes possible (snp_reset.S 52-59, 237-243).
EveryProcessorCreated == <>(pc = "fatal" \/ \A a \in APs : ap[a] = "created")

-----------------------------------------------------------------------------
(* The strengthening behind the safety properties: at every label what is  *)
(* valid, what is clear and what has been lent, in terms of the cursor.    *)

\* While ranges are validated (snp_reset.S 42-50, 188-235).
ValidatedSoFar ==
  /\ pc = "validate_next" =>
       private = imported \cup FramesUpTo(rbp - 1) /\ clear = FramesUpTo(rbp - 1)
  /\ pc \in RangeLabels =>
       LET done == FramesUpTo(rbp - 2) \cup (ranges[rbp - 1][1] .. r12 - 1)
           page == IF pc = "zero_2m" THEN LargePage ELSE IF pc = "zero_4k" THEN {r12} ELSE {}
       IN  /\ rbp > 1
           /\ r13 = ranges[rbp - 1][2]
           /\ r12 \in ranges[rbp - 1][1] .. r13
           /\ pc \in {"validate_4k", "zero_4k"} => r12 < r13
           /\ pc \in {"validate_2m", "zero_2m"} => FitsHuge
           /\ private = imported \cup done \cup page
           /\ clear = done

\* Nothing is lent and no other processor has been told anything.
Quiet == ghcb = "private" /\ \A a \in APs : ap[a] = "wait" /\ pend[a] = {}

\* All there is to validate is valid, but for a page that is lent, and clear, which the
\* image is not, but for that page.
Complete ==
  /\ private = IF ghcb = "private" THEN Target ELSE GuestRam
  /\ clear \ {GHCB} = Target \ imported

\* While the others are woken (snp_reset.S 52-163).
WakeSoFar ==
  /\ pc \in RangeLabels \cup {"validate_next", "die"} => Quiet /\ granted = 0
  /\ pc \in WakeLabels \cup {"boot_kernel", "linux", "die_wake"} => Complete
  /\ pc = "rescind"    => granted = 0 /\ ghcb = "private"
  /\ pc = "share"      => granted = 1 /\ ghcb = "rescinded"
  /\ pc = "register"   => granted = 2 /\ ghcb = "shared"
  /\ pc = "init"       => granted = 3 /\ ghcb = "registered"
  /\ pc = "sipi1"      => granted = 4 /\ ghcb = "registered"
  /\ pc = "sipi2"      => granted = 5 /\ ghcb = "registered"
  /\ pc = "unshare"    => granted = 6 /\ ghcb = "registered"
  /\ pc = "revalidate" => granted = 7 /\ ghcb = "assigned"
  /\ pc \in {"boot_kernel", "linux"} => ghcb = "private"
  /\ pc = "die" => r15 \in {1, 6} /\ r12 \in Missing /\ \A f \in Missing : r12 <= f
  /\ pc = "die_wake" => r15 = granted + 1
  /\ pc = "fatal" => r15 # 0 /\ (Quiet \/ Complete)

-----------------------------------------------------------------------------
(* The shim implements the abstract promise for all but the lent page.     *)

Phase == IF pc = "linux" THEN "kernel"
         ELSE IF pc \in {"fatal", "fault"} THEN "halted" ELSE "shim"

Memory == INSTANCE PrivateMemory WITH
  target <- GuestRam, private <- private \ {GHCB}, phase <- Phase

\* The shim implements PrivateMemory: memory only grows, only inside the target, and the
\* kernel is entered with all of it and never after the shim gave up.
ImplementsPrivateMemory == Memory!MemSpec
=============================================================================
