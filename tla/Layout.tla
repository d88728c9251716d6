------------------------------- MODULE Layout -------------------------------
(***************************************************************************)
(* The fixed guest-physical layout of src/layout.rs and the validation of  *)
(* the operator's parameters (Params::new) against it.                     *)
(*                                                                         *)
(* Every address is the address of the source, written as a number of      *)
(* pages times PAGE, so that the page size can be shrunk without moving    *)
(* anything: with PAGE = 4096 these are the literals of layout.rs, and     *)
(* with PAGE = 2 an odd number is an address that is not page-aligned.     *)
(* WORD is 2^64 in the code; a smaller value keeps TLC inside its own      *)
(* integers and wraps at the same place, beyond everything that is mapped. *)
(***************************************************************************)
EXTENDS Integers, Sequences

CONSTANTS
  PAGE,   \* bytes of a page
  WORD    \* one past the largest u64

ASSUME PageAssumption == PAGE \in Nat \ {0}

Max2(a, b) == IF a >= b THEN a ELSE b
Min2(a, b) == IF a <= b THEN a ELSE b

\* Both operands are u64, so one subtraction is the whole reduction.
Wrap(n) == IF n < WORD THEN n ELSE n - WORD

align_up(value, alignment) == ((value + alignment - 1) \div alignment) * alignment

IsMultiple(value, alignment) == value % alignment = 0

-----------------------------------------------------------------------------
(* The layout! block: where the image puts each of its own regions.        *)

ZERO_PAGE              == 7 * PAGE
CMDLINE                == 32 * PAGE
ACPI_BASE              == 224 * PAGE
MAILBOX                == 240 * PAGE
SNP_CPUID              == 240 * PAGE
SNP_SECRETS            == 241 * PAGE
SNP_CC_BLOB            == 242 * PAGE
PAGE_TABLES            == 256 * PAGE
BSP_STACK              == 263 * PAGE
BSP_STACK_SIZE         == 16 * PAGE
SNP_GHCB               == 279 * PAGE
SHIM_BASE              == 288 * PAGE
KERNEL_SETUP_BASE      == 289 * PAGE
KERNEL_SETUP_AREA_SIZE == 47 * PAGE
KERNEL_BASE            == 4096 * PAGE
INITRAMFS_BASE         == 131072 * PAGE
RESET_ALIAS            == 1048575 * PAGE

GIB        == 262144 * PAGE
FOUR_GIB   == 4 * GIB
MAP_LIMIT  == 512 * GIB
Q35_SPLIT  == 720896 * PAGE
Q35_LOWMEM == 2 * GIB
\* Mutant: the RAM that moves above 4 GiB is not accounted for.
MAX_RAM_NoRestack == MAP_LIMIT

MAX_RAM    == MAP_LIMIT - FOUR_GIB + Q35_LOWMEM
SHIM_LIMIT == 64 * PAGE
U32_MAX    == FOUR_GIB - 1

\* One Local APIC entry per processor has to fit what is left of the ACPI page.
MAX_VCPUS == (4096 - 1280 - 44 - 16) \div 8

\* 0x200 bytes into a 4096-byte page.
ENTRY_64_OFFSET == PAGE \div 8

ASSUME WordAssumption == WORD \in Nat /\ WORD > 2 * MAP_LIMIT

-----------------------------------------------------------------------------
(* E820 types, numbered as in boot.rs because spans are sorted by them.    *)

RAM      == 1
RESERVED == 2
ACPI     == 3
ABSENT   == 0

-----------------------------------------------------------------------------
(* Params: what the command line asks for, a request, is one record:       *)
(*   platform          "tdx" or "snp"                                      *)
(*   ram, vcpus, cbit  the numbers given with those options                *)
(*   mmio              the extra apertures, a sequence of <<base, size>>   *)
(*   cmdline, no5lvl   bytes of the trimmed command line, and whether      *)
(*                     no5lvl is one of its words                          *)
(*   ascii             whether every byte of it is ASCII and none is zero  *)
(* and the other fields are the files' (see Builder).                      *)

\* DEFAULT_CMDLINE and REQUIRED_CMDLINE: panic=-1 and no5lvl.
DEFAULT_LEN  == 8
REQUIRED_LEN == 6

\* Bytes of the line once the default has been filled in and no5lvl appended.
CmdlineBytes(r) ==
  IF r.cmdline = 0 THEN DEFAULT_LEN + 1 + REQUIRED_LEN
  ELSE IF r.no5lvl THEN r.cmdline ELSE r.cmdline + 1 + REQUIRED_LEN

Split(r) == r.ram >= Q35_SPLIT

\* Mutant: the SNP map is given the TDX map's aperture.
HoleEnd_AlwaysReset(r) == RESET_ALIAS

\* The TDX shim runs from the reset page, so its aperture stops short of it.
HoleEnd(r) == IF r.platform = "tdx" THEN RESET_ALIAS ELSE FOUR_GIB

MemoryTop(r) == IF Split(r) THEN FOUR_GIB + r.ram - Q35_LOWMEM ELSE r.ram

Apertures(r) ==
  (IF Split(r) THEN << <<Q35_LOWMEM, HoleEnd(r) - Q35_LOWMEM>> >> ELSE <<>>)
     \o r.mmio

ApertureOK(h, memory) ==
  /\ IsMultiple(h[1], PAGE)
  /\ IsMultiple(h[2], PAGE)
  /\ h[2] # 0
  /\ Wrap(h[1] + h[2]) <= memory

ParamsOK(r) ==
  /\ IsMultiple(r.ram, PAGE)
  /\ r.ram > INITRAMFS_BASE
  /\ r.ram <= MAX_RAM
  /\ r.vcpus \in 1 .. MAX_VCPUS
  /\ r.cbit \in 32 .. 63
  /\ r.ascii
  /\ \A i \in DOMAIN Apertures(r) : ApertureOK(Apertures(r)[i], MemoryTop(r))
=============================================================================
