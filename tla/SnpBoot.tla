------------------------------ MODULE SnpBoot -------------------------------
(***************************************************************************)
(* An SNP guest from its placement map to a running kernel: the builder    *)
(* derives the E820 map and the accept list (Placement) and writes the     *)
(* file, the loader imports its pages and contexts and the verifier        *)
(* compares the report (Image), and the boot processor runs the shim over  *)
(* the list it finds in its own page and wakes the other processors        *)
(* through the GHCB page the map has placed (SnpShim).  Addresses are      *)
(* divided by PAGE where the shim's frames begin.                          *)
(***************************************************************************)
EXTENDS Image

CONSTANTS HUGE, APs

ASSUME BootAssumption ==
  /\ Platform = "snp"
  /\ APs = 1 .. VCPUS - 1
  /\ HUGE \in Nat \ {0, 1}

VARIABLES
  imported, ranges, pc, rbp, r12, r13, r15, bl, private, clear, ghcb, granted, report, ap, pend

S == INSTANCE SnpShim WITH GHCB <- SNP_GHCB \div PAGE, Images <- {}

shim == <<imported, ranges, pc, rbp, r12, r13, r15, bl, private, clear, ghcb, granted, report, ap, pend>>
bootVars == <<vars, image, shim>>

-----------------------------------------------------------------------------

Build ==
  /\ Validate \/ E820 \/ Accept
  /\ UNCHANGED <<image, shim>>

Load ==
  /\ ImageStep
  /\ UNCHANGED <<vars, shim>>

\* The boot processor starts; the others wait for an INIT.  A guest the verifier turned
\* down is not followed further.
Launch ==
  /\ phase = "verified"
  /\ pc = "off"
  /\ imported' = GuestFrames
  /\ private' = GuestFrames
  /\ ranges' = GuestRanges
  /\ pc' = "validate_next"
  /\ delivery' = NoDelivery
  /\ UNCHANGED <<vars, opts, phase, file, spans, launch, next, guest, log, vps, signed,
                 rbp, r12, r13, r15, bl, clear, ghcb, granted, report, ap, pend>>

BootProcessor ==
  /\ S!ShimStep
  /\ UNCHANGED <<vars, image>>

\* A processor runs the context it was measured with.
OtherProcessor(a) ==
  /\ pc # "off"
  /\ vps[a] = ap_vmsa
  /\ S!ApStep(a) \/ S!Resume(a) \/ S!Create(a)
  /\ UNCHANGED <<vars, image>>

BootInit ==
  /\ Init
  /\ ImageInit
  /\ imported = {} /\ private = {} /\ clear = {}
  /\ ranges = <<>>
  /\ pc = "off"
  /\ rbp = 1 /\ r12 = 0 /\ r13 = 0
  /\ r15 = 0 /\ bl = FALSE
  /\ ghcb = "private" /\ granted = 0
  /\ report = [set |-> 0, code |-> 0]
  /\ ap = [a \in APs |-> "wait"]
  /\ pend = [a \in APs |-> {}]

\* No image, a guest turned down, or the boot processor has left the shim.
AtRest ==
  /\ \/ step = "error"
     \/ phase \in {"rejected", "refused", "error"}
     \/ pc \in {"linux", "fatal", "fault"}
  /\ UNCHANGED bootVars

BootNext ==
  \/ Build \/ Load \/ Launch \/ BootProcessor \/ AtRest
  \/ \E a \in APs : OtherProcessor(a)

BootSpec == BootInit /\ [][BootNext]_bootVars

-----------------------------------------------------------------------------

\* When Linux runs, every frame its E820 map calls RAM is valid private memory, the lent
\* page among none of them, nothing of an aperture is, and what the loader did not import
\* has been cleared: builder, file and shim add up, whatever page sizes the host chose
\* (boot.rs 264-303, snp_reset.S 42-88).
LinuxOwnsItsRam ==
  pc = "linux" =>
    /\ RamFrames \subseteq private
    /\ RamFrames \ imported \subseteq clear
    /\ SNP_GHCB \div PAGE \notin RamFrames
    /\ ApertureFrames \cap private = {}

\* No list the builder writes makes the shim validate a frame twice or touch one it may
\* not: a guest that dies was failed by a status or a refusal of its host (boot.rs
\* 290-303, snp_reset.S 61-110, 200-232).
BuiltListsNeverKill ==
  /\ pc # "fault"
  /\ pc \in {"die", "fatal"} => r15 # 0
=============================================================================
