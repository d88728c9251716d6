------------------------------ MODULE TdxBoot -------------------------------
(***************************************************************************)
(* A TDX guest from its placement map to a running kernel: the builder     *)
(* derives the E820 map and the accept list (Placement) and writes the     *)
(* file, the loader imports its pages and the verifier compares the report *)
(* (Image), the boot processor runs the shim over the list it finds in its *)
(* own page (TdxShim) while the others poll the mailbox (Mailbox), and the *)
(* OS claims them once it runs.  Addresses are divided by PAGE where the   *)
(* shim's frames begin.                                                    *)
(***************************************************************************)
EXTENDS Image

CONSTANTS HUGE, APs, Vector

ASSUME BootAssumption ==
  /\ Platform = "tdx"
  /\ HUGE \in Nat \ {0, 1}
  /\ APs = 1 .. VCPUS - 1
  /\ Vector \in [APs -> Nat \ {0}]

VARIABLES
  imported, ranges, pc, rbp, r12, r13, private, status,
  command, apicId, vector, ap, rax, os, target, claimed

S == INSTANCE TdxShim WITH Images <- {}
B == INSTANCE Mailbox

shim == <<imported, ranges, pc, rbp, r12, r13, private, status>>
box == <<command, apicId, vector, ap, rax, os, target, claimed>>
bootVars == <<vars, image, shim, box>>

-----------------------------------------------------------------------------

Build ==
  /\ Validate \/ E820 \/ Accept
  /\ UNCHANGED <<image, shim, box>>

Load ==
  /\ ImageStep
  /\ UNCHANGED <<vars, shim, box>>

\* The processors start.  A guest the verifier turned down is not followed further.
Launch ==
  /\ phase = "verified"
  /\ pc = "off"
  /\ imported' = GuestFrames
  /\ private' = GuestFrames
  /\ ranges' = GuestRanges
  /\ pc' = "accept_next"
  /\ UNCHANGED <<vars, image, box, rbp, r12, r13, status>>

BootProcessor ==
  /\ S!ShimStep
  /\ UNCHANGED <<vars, image, box>>

OtherProcessor(a) ==
  /\ pc # "off"
  /\ B!Poll(a)
  /\ UNCHANGED <<vars, image, shim>>

Os ==
  /\ pc = "linux"
  /\ B!OsStep
  /\ UNCHANGED <<vars, image, shim>>

BootInit ==
  /\ Init
  /\ ImageInit
  /\ B!BoxInit
  /\ imported = {} /\ private = {}
  /\ ranges = <<>>
  /\ pc = "off"
  /\ rbp = 1 /\ r12 = 0 /\ r13 = 0
  /\ status = "success"

\* No image, a guest turned down, a dead guest whose other processors poll for ever, or
\* all of it up.
AtRest ==
  /\ \/ step = "error"
     \/ phase \in {"rejected", "refused", "error"}
     \/ pc = "linux" /\ claimed = APs /\ os = "idle"
  /\ UNCHANGED bootVars

BootNext ==
  \/ Build \/ Load \/ Launch \/ BootProcessor \/ Os \/ AtRest
  \/ \E a \in APs : OtherProcessor(a)

\* The builder runs to its end, the image is launched, and the host schedules every
\* processor.
BootSpec ==
  /\ BootInit
  /\ [][BootNext]_bootVars
  /\ WF_bootVars(Build) /\ WF_bootVars(Load) /\ WF_bootVars(Launch)
  /\ WF_bootVars(BootProcessor) /\ WF_bootVars(Os)
  /\ \A a \in APs : WF_bootVars(OtherProcessor(a))

-----------------------------------------------------------------------------

\* When Linux runs, every frame its E820 map calls RAM is private memory and no frame
\* of an aperture is: the builder's two lists and the shim's walk over one of them
\* add up, whatever page sizes the host chose (boot.rs 264-303, reset.S 42-87).
LinuxOwnsItsRam ==
  pc = "linux" => RamFrames \subseteq private /\ ApertureFrames \cap private = {}

\* No list the builder writes makes the shim accept a frame twice: a guest that dies
\* was failed by its host (boot.rs 290-303, reset.S 58-87).
BuiltListsNeverKill == pc \in {"die", "fatal"} => status = "error"

\* While the boot processor is still accepting memory, and after it died, no other
\* processor leaves the shim (reset.S 40-104).
OthersWaitForMemory ==
  (\E a \in APs : ap[a] \in {"vector", "ack", "run"}) => pc = "linux" /\ RamFrames \subseteq private

\* A built image ends in a running guest whose OS has all its processors, or in a
\* report of the host's failure (image.rs 175-239, reset.S 40-116).  The mailbox race of
\* Mailbox, a processor that leaves before its command, is all that can prevent it.
BootsOrReports ==
  []B!WaitsForClaim =>
    <>(\/ step = "error"
       \/ phase \in {"rejected", "refused"} /\ delivery # Untouched
       \/ pc = "fatal"
       \/ pc = "linux" /\ os = "idle" /\ claimed = APs /\ \A a \in APs : ap[a] = "run")
=============================================================================
