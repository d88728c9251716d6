------------------------------ MODULE Builder -------------------------------
(***************************************************************************)
(* The build-tdx and build-snp commands from the parsed command line to    *)
(* the two files on disk (main.rs, layout.rs, image.rs, snp.rs): the       *)
(* request is checked, the map is laid out, Placement derives the E820 map *)
(* and the accept list from it, and the image and its manifest are written *)
(* one after the other.  Any failing step ends the command with an error   *)
(* and leaves the disk as the steps before it left it.                     *)
(*                                                                         *)
(* Besides the fields of Layout, a request has what the input files turn   *)
(* out to hold: whether the bzImage header is one parse_bzimage accepts    *)
(* (header), the bytes of its setup area, of its protected-mode payload    *)
(* and of the initramfs (setup, kernel, initramfs), the kernel's own       *)
(* init_size and cmdline_max, and of the remaining options whether         *)
(* --config-hash parses (config), the guest SVN, and the ID key ("none",   *)
(* "ok" or "bad").                                                         *)
(***************************************************************************)
EXTENDS Placement, AcpiTables, IdentityMap
Sets == INSTANCE FiniteSetsExt

CONSTANT Requests   \* the requests to start from

U64 == 0 .. WORD - 1

\* What the command line and the files can hold.
Request ==
  [platform: {"tdx", "snp"}, ram: U64, vcpus: Nat, cbit: Nat, mmio: Seq(U64 \X U64),
   cmdline: Nat, no5lvl: BOOLEAN, ascii: BOOLEAN, config: BOOLEAN, svn: Nat,
   key: {"none", "ok", "bad"}, header: BOOLEAN, setup: U64, kernel: U64, init_size: Nat,
   cmdline_max: Nat, initramfs: U64]

ASSUME RequestsAssumption == Requests \subseteq Request

VARIABLES
  req,    \* the request
  disk    \* the output files: each still the old one, torn, or this build's

buildVars == <<req, disk>>
allVars == <<vars, req, disk>>

\* A step that moves on, or stops with an error, and touches nothing else.
Goto(name) == step' = name /\ UNCHANGED <<mapVars, todo, at, e820, accept, buildVars>>

-----------------------------------------------------------------------------
(* Checks before anything is placed.                                       *)

CheckParams ==
  /\ step = "params"
  /\ Goto(IF ~ParamsOK(req) THEN "error"
          ELSE IF req.platform = "snp" THEN "svn" ELSE "config")

\* An SVN reaches the guest only inside a signed ID block.
CheckSvn ==
  /\ step = "svn"
  /\ Goto(IF req.svn # 0 /\ req.key = "none" THEN "error" ELSE "config")

CheckConfig ==
  /\ step = "config"
  /\ Goto(IF req.config THEN "prepare" ELSE "error")

\* parse_bzimage's last check; the ones on header fields are r.header.
BzImageOK(r) == r.header /\ r.kernel > ENTRY_64_OFFSET

\* Mutant: only the size of the file is considered.
InitSizeFits_FileOnly(r) == KERNEL_BASE + r.kernel <= INITRAMFS_BASE

\* The kernel is loaded low and expands to init_size in place.
InitSizeFits(r) == KERNEL_BASE + r.init_size <= INITRAMFS_BASE

PrepareOK(r) ==
  LET initramfs_end == align_up(INITRAMFS_BASE + r.initramfs, PAGE)
  IN  /\ BzImageOK(r)
      /\ align_up(KERNEL_BASE + r.kernel, PAGE) <= INITRAMFS_BASE
      /\ InitSizeFits(r)
      /\ initramfs_end <= MemoryTop(r)
      /\ initramfs_end <= U32_MAX
      /\ r.setup <= KERNEL_SETUP_AREA_SIZE
      /\ CmdlineBytes(r) + 1 <= r.cmdline_max

\* The page the line is measured in: resized to 4096 bytes, cut or filled with zeros.
CMDLINE_ROOM == 4096

\* How much of the line is measured.
Command(r) == Min2(CmdlineBytes(r), CMDLINE_ROOM)

RejectPrepare == step = "prepare" /\ ~PrepareOK(req) /\ Goto("error")

\* A file that cannot be read: the kernel, the initramfs or the ID key.
ReadFails == step \in {"prepare", "sign"} /\ Goto("error")

-----------------------------------------------------------------------------
(* The map of each platform.                                               *)

MmioPlaced(r) == [i \in DOMAIN Apertures(r) |-> Mmio(Apertures(r)[i][1], Apertures(r)[i][2])]

TdxPlaced(r) ==
  << Measured(ZERO_PAGE, RESERVED, PAGE),
     Measured(CMDLINE, RESERVED, PAGE),
     Measured(ACPI_BASE, ACPI, PAGE),
     Measured(MAILBOX, RESERVED, PAGE),
     Measured(PAGE_TABLES, RESERVED, 2 * PAGE),
     Measured(BSP_STACK, RESERVED, BSP_STACK_SIZE),
     Measured(KERNEL_SETUP_BASE, RESERVED, KERNEL_SETUP_AREA_SIZE),
     Measured(KERNEL_BASE, RAM, r.kernel),
     Measured(INITRAMFS_BASE, RAM, r.initramfs),
     Measured(RESET_ALIAS, RESERVED, PAGE) >>

SnpPlaced(r) ==
  << Measured(ZERO_PAGE, RESERVED, PAGE),
     Measured(CMDLINE, RESERVED, PAGE),
     Measured(ACPI_BASE, ACPI, PAGE),
     Host(SNP_CPUID),
     Host(SNP_SECRETS),
     Measured(SNP_CC_BLOB, RAM, PAGE),
     Measured(PAGE_TABLES, RESERVED, 3 * PAGE),
     Measured(BSP_STACK, RESERVED, BSP_STACK_SIZE),
     Measured(SNP_GHCB, RESERVED, PAGE),
     Measured(SHIM_BASE, RESERVED, PAGE),
     Measured(KERNEL_SETUP_BASE, RESERVED, KERNEL_SETUP_AREA_SIZE),
     Measured(KERNEL_BASE, RAM, r.kernel),
     Measured(INITRAMFS_BASE, RAM, r.initramfs) >>

PlacedFor(r) == (IF r.platform = "tdx" THEN TdxPlaced(r) ELSE SnpPlaced(r)) \o MmioPlaced(r)

Place ==
  /\ step = "prepare"
  /\ PrepareOK(req)
  /\ placed' = PlacedFor(req)
  /\ memory' = MemoryTop(req)
  /\ step' = "validate"
  /\ todo' = DOMAIN placed'
  /\ at' = 0
  /\ UNCHANGED <<e820, accept, buildVars>>

-----------------------------------------------------------------------------
(* The launch pages, and the files.                                        *)

\* Where the pages of a region end: an empty one has none.
PagesEnd(p) == p.base + (IF p.fill = "host" THEN PAGE ELSE align_up(p.len, PAGE))

Loaded == { i \in DOMAIN placed : placed[i].fill # "mmio" }

ShimOwned ==
  Sets!MapThenSumSet(LAMBDA i : Span(placed[i]),
    { i \in Loaded : placed[i].base < KERNEL_SETUP_BASE \/ placed[i].base = RESET_ALIAS })

\* validate_pages (snp.rs only), on regions: sorted by address, none runs into the next.
PagesOrdered ==
  \A i, j \in Loaded : Lo(i) < Lo(j) => PagesEnd(placed[i]) <= Lo(j)

\* shim_owned, then the launch pages and their digest.
Assemble ==
  /\ step = "built"
  /\ Goto(IF ShimOwned > SHIM_LIMIT \/ (req.platform = "snp" /\ ~PagesOrdered) THEN "error"
          ELSE IF req.platform = "snp" /\ req.key # "none" THEN "sign" ELSE "write")

\* id_block: the digest is signed, if the key parses.
Sign ==
  /\ step = "sign"
  /\ Goto(IF req.key = "ok" THEN "write" ELSE "error")

\* Mutant: the manifest is written first.
WriteImage_ManifestFirst ==
  /\ step = "write"
  /\ disk' = [disk EXCEPT !.manifest = "new"]
  /\ step' = "manifest"
  /\ UNCHANGED <<mapVars, todo, at, e820, accept, req>>

WriteImage ==
  /\ step = "write"
  /\ disk' = [disk EXCEPT !.image = "new"]
  /\ step' = "manifest"
  /\ UNCHANGED <<mapVars, todo, at, e820, accept, req>>

WriteManifest ==
  /\ step = "manifest"
  /\ disk' = [disk EXCEPT !.manifest = "new"]
  /\ step' = "done"
  /\ UNCHANGED <<mapVars, todo, at, e820, accept, req>>

\* fs::write fails before it truncates the file, or part of the way through it.  An
\* image the IGVM library does not construct or read back is the first case.
WriteFails ==
  /\ \/ step = "write" /\ \E s \in {"old", "torn"} : disk' = [disk EXCEPT !.image = s]
     \/ step = "manifest" /\ \E s \in {"old", "torn"} : disk' = [disk EXCEPT !.manifest = s]
  /\ step' = "error"
  /\ UNCHANGED <<mapVars, todo, at, e820, accept, req>>

-----------------------------------------------------------------------------

BuildInit ==
  /\ req \in Requests
  /\ disk = [image |-> "old", manifest |-> "old"]
  /\ placed = <<>>
  /\ memory = 0
  /\ step = "params"
  /\ todo = {}
  /\ at = 0
  /\ e820 = <<>>
  /\ accept = <<>>

Check   == CheckParams \/ CheckSvn \/ CheckConfig \/ RejectPrepare \/ ReadFails \/ Place
Derive  == (Validate \/ E820 \/ Accept) /\ UNCHANGED buildVars
Publish == Assemble \/ Sign \/ WriteImage \/ WriteManifest \/ WriteFails

Exited == step \in {"done", "error"} /\ UNCHANGED allVars

BuildNext == Check \/ Derive \/ Publish \/ Exited

BuildSpec == BuildInit /\ [][BuildNext]_allVars

-----------------------------------------------------------------------------

BuildSteps == {"params", "svn", "config", "prepare", "validate", "e820", "zero_page",
               "accept", "shim", "built", "sign", "write", "manifest", "done", "error"}

BuildTypeOK ==
  /\ req \in Requests
  /\ disk \in [image: {"old", "torn", "new"}, manifest: {"old", "torn", "new"}]
  /\ placed \in Seq(Region)
  /\ memory \in 0 .. MAP_LIMIT
  /\ step \in BuildSteps
  /\ todo \subseteq DOMAIN placed
  /\ e820 \in Seq([base: Nat, size: Nat, kind: {RAM, RESERVED, ACPI}])
  /\ accept \in Seq(Nat \X Nat)

Mapped == step \in {"built", "sign", "write", "manifest", "done"}

Listed(a, kinds) == \E n \in DOMAIN e820 : EntryCovers(n, a) /\ e820[n].kind \in kinds
Accepted(a) == \E n \in DOMAIN accept : RangeCovers(n, a)
Imported(a) == \E i \in Loaded : Lo(i) <= a /\ a < PagesEnd(placed[i])

InHole(h, a) == h[1] <= a /\ a < h[1] + h[2]
Declared(a) == \E n \in DOMAIN req.mmio : InHole(req.mmio[n], a)

\* Where the machine has RAM: q35 keeps all of it low up to Q35_SPLIT, and
\* otherwise the first Q35_LOWMEM low and the rest from 4 GiB.
MachineRam(r, a) ==
  IF r.ram < Q35_SPLIT THEN a < r.ram
  ELSE a < Q35_LOWMEM \/ (FOUR_GIB <= a /\ a < FOUR_GIB + (r.ram - Q35_LOWMEM))

\* Every byte that Linux is told is RAM is private before Linux runs: imported
\* by the loader or on the shim's accept list, whatever apertures were declared.
\* The one exception is an initramfs of no bytes at all (boot.rs 195, 209).
RamIsPrivate ==
  Mapped /\ NoWrap /\ req.initramfs # 0 =>
    \A a \in Addrs : Listed(a, {RAM}) => Accepted(a) \/ Imported(a)

\* No byte is both imported and on the accept list: accepting a page the loader
\* added is the status the shim dies on (reset.S 71-82, boot.rs 290).
NeverBoth ==
  Mapped /\ NoWrap => \A a \in Addrs : ~(Accepted(a) /\ Imported(a))

\* The image and the machine agree on where memory is: away from the declared
\* apertures an address is accepted or imported exactly if q35 has RAM there, the
\* reset page excepted, and no accept range reaches an aperture (layout.rs 197-222).
AgreesWithMachine ==
  Mapped /\ NoWrap /\ req.initramfs # 0 =>
    \A a \in Addrs :
      /\ Accepted(a) => MachineRam(req, a)
      /\ MachineRam(req, a) /\ ~Declared(a) => Accepted(a) \/ Imported(a)
      /\ Imported(a) => MachineRam(req, a) \/ a >= RESET_ALIAS

\* The area the kernel decompresses itself into holds nothing else the image
\* placed, so Linux cannot overwrite the initramfs it was measured with, and it
\* lies below the top of memory (image.rs 93-98).
InitAreaFree ==
  Mapped =>
    /\ KERNEL_BASE + req.init_size <= memory
    /\ \A i \in Loaded : placed[i].base # KERNEL_BASE =>
         \/ PagesEnd(placed[i]) <= KERNEL_BASE
         \/ Lo(i) >= KERNEL_BASE + req.init_size

\* A manifest is never newer than the image it describes, the command succeeds only with
\* both on disk, and neither file of an earlier build is touched before every check of the
\* request, the map and the limits of both lists has passed (image.rs 86-141, 175-238,
\* snp.rs 110-137, 267-295).
ManifestFollowsImage ==
  /\ disk.manifest # "old" => disk.image = "new"
  /\ step = "done" => disk.image = "new" /\ disk.manifest = "new"
  /\ disk.image # "old" =>
       /\ step \in {"manifest", "done", "error"}
       /\ ParamsOK(req) /\ PrepareOK(req)
       /\ Len(e820) <= E820_MAX /\ ShimBytes(accept) <= SHIM_DATA_SIZE

\* An OS that follows the pointers of the ACPI page finds each table, none running into
\* another or out of the page; its walk over the MADT ends where the header says, with the
\* ID of every processor (of 256, where there are more) and, on TDX only, the page the map
\* has placed as the mailbox (acpi.rs 36-99, image.rs 184-192).
MadtReadsBack ==
  step = "built" =>
    LET wakeup == req.platform = "tdx"
        tables == Tables(req.vcpus, wakeup)
    IN  /\ Reachable(tables) = tables
        /\ \A t, u \in tables : t.at < u.at => t.at + t.len <= u.at
        /\ \A t \in tables : t.at + t.len <= ACPI_PAGE
        /\ WalkMeetsAll(Structures(req.vcpus, wakeup), MadtLen(req.vcpus, wakeup))
        /\ ApicIds(req.vcpus, wakeup) = 0 .. Min2(req.vcpus, 256) - 1
        /\ Mailboxes(req.vcpus, wakeup) = (IF wakeup THEN {MAILBOX} ELSE {})
        /\ wakeup => \E i \in Loaded : placed[i] = Measured(MAILBOX, RESERVED, PAGE)

\* The page tables map every address below 512 GiB, where all of the guest's memory lies,
\* to itself, encrypted on SNP only, except where the C-bit is itself a bit of the address;
\* the slot above them reaches the first GiB shared and nothing else (image.rs 346-361).
IdentityMapped ==
  step = "built" =>
    LET snp == req.platform = "snp"
        c_bit == IF snp THEN req.cbit ELSE 0
        map == identity_map(c_bit, snp)
    IN  /\ memory <= GIBS * GIB
        /\ \A gib \in 0 .. GIBS - 1 :
             \/ c_bit - GIB_SHIFT \in BitsOf(gib)
             \/ Translate(map, c_bit, 0, gib) = Identity(gib, snp)
        /\ \A gib \in 0 .. GIBS - 1 :
             Translate(map, c_bit, 1, gib) =
               IF snp /\ gib = 0 THEN Identity(0, FALSE) ELSE Unmapped

-----------------------------------------------------------------------------
(* What the comments say and some request refutes.                         *)

\* "nothing below the top of memory is left out of either list" (image.rs 557): an
\* address Linux is told is RAM is accepted or imported, with no exception.
NothingLeftOut ==
  Mapped /\ NoWrap =>
    \A a \in Addrs : Listed(a, {RAM}) => Accepted(a) \/ Imported(a)

\* A declared aperture is absent from E820 and accepted by no shim (layout.rs 146).
HolesAbsent ==
  Mapped => \A a \in Addrs : Declared(a) => ~Listed(a, {RAM, RESERVED, ACPI}) /\ ~Accepted(a)

\* The command line is measured whole, to its last byte, which may be that of the no5lvl
\* appended to it (main.rs 33).
CmdlineWhole == Mapped => Command(req) = CmdlineBytes(req)

\* The MADT advertises the processors an image is built for, all of them (main.rs 36,
\* acpi.rs 142): their APIC IDs are different.
EveryProcessorListed ==
  step = "built" =>
    \A i, j \in 0 .. req.vcpus - 1 : i # j => LocalApic(i).apic_id # LocalApic(j).apic_id
=============================================================================
