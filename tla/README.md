# boot-shim in TLA+

`boot-shim` builds an IGVM image that boots Linux directly inside an Intel TDX or
AMD SEV-SNP guest. At build time one *placement map* decides what Linux is told about
memory, what the loader imports and what a one-page assembly shim makes private; at
boot the shim walks its list and jumps to the kernel. Nothing checks the parts against
each other again, so they must add up by construction. This directory models those
parts, model-checks them with TLC and proves the central claims with TLAPS.

Paths below are relative to the repository (`src/src/boot.rs` is written `boot.rs`).

## The system

| Component | State it keeps | Operations | What makes it correct |
| --- | --- | --- | --- |
| Layout and parameters (`layout.rs`) | none; constants and one request | `Params::new`, `align_up` | every accepted request yields a map below 512 GiB that matches where q35 has RAM |
| Placement map (`boot.rs`) | the regions, and the list being derived | `spans`, `validate`, `e820`, `accept_ranges`, `pages`, `fill` | regions disjoint; E820 exact, ordered, coalesced; the accept list the exact complement of the spans |
| bzImage and zero page (`boot.rs`) | none | `parse_bzimage`, `zero_page` | an unsuitable kernel or an oversized E820 map is refused |
| `build-tdx` (`image.rs`, `main.rs`) | the request, two files on disk | `prepare`, `shim`, `shim_owned`, `launch_pages`, `build`, `write_manifest` | RAM is imported or accepted, never both; a refusal leaves the disk alone; a manifest never precedes its image |
| `build-snp` (`snp.rs`, `main.rs`) | the same, and the ID key | the same, `validate_pages`, `id_block`, VMSAs, required memory, digest | the same |
| TDX shim, boot processor (`reset.S`) | registers, the data block, private memory | `accept_next`, `accept_range`, `boot_kernel`, `die` | Linux is entered with exactly the promised memory or not at all |
| TDX shim, other processors (`reset.S`) | the mailbox page, one program counter each | `ap_poll` | only the processor the OS names leaves, and the OS sees it leave |
| SNP shim (`snp_reset.S`) | registers, the GHCB page, validated memory | `validate_range`, `wake_aps`, `send_ipi`, `ghcb_msr`, `die`, the park stub | as on TDX, and the GHCB page is private again before Linux |
| Image file and launch values (`image.rs`, `snp.rs`) | none | `launch_pages`, `page_directive`, `igvm`, `tdx_launch`, `snp_launch`, `id_block` | the loader finds every page, context and span of memory the map promises |
| Launch measurements (`mrtd.rs`, `snp.rs`) | a running digest | `calculate`, `launch_measurement` | what verifies is the image, and the image verifies |
| ACPI tables (`acpi.rs`) | none | `build` | every pointer, length and ID leads an OS to what the layout has placed |
| Identity map (`image.rs`) | none | `identity_map` | each GiB maps to itself under the right key |
| Command line, manifest (`main.rs`, `image.rs`) | none | `parse_size`, `parse_hole`, `Manifest` | data and formatting |
| Shim assembly, QEMU patch, packaging | none | `build.rs`, `qemu-patches/`, Nix | tooling |

How they interact. `main.rs` turns the command line into `Params` and calls one
`build`. It reads two files, lays out the regions, and derives three things from the
same map: the E820 map (which goes into the zero page), the accept list (which goes
into the shim's data block) and the pages of the image. From the pages it computes the
digest a report must show, and writes it into a manifest beside the image. The host
hands the file to a loader, which imports and measures the pages and starts the
processors; the verifier compares the report with the manifest. The boot processor
makes the rest of memory private and enters Linux. The others poll a mailbox page until
Linux claims them (TDX), or park until Linux recreates them (SNP).

What is hard. The builder is sequential; its difficulty is boundaries (sizes at which
q35 splits RAM, regions of no bytes, the reset page above the top of memory, sums that
wrap), two loops that must skip the same things in different ways, and a digest that a
loader and a firmware recompute from a file the host may change. The shims are
concurrent with the host, which may split pages, fail a call or schedule processors
in any order, and their mailbox is three unsynchronised words. The files are written
one after the other, and either write can fail. The list of hazards in `PROJECT.json`
places each of these at its line and names the properties that would catch it.

## The modules

| Module | Models | State and actions |
| --- | --- | --- |
| `Layout` | `layout.rs` | no state: the addresses, `ParamsOK`, `MemoryTop`, `Apertures` |
| `Placement` | `validate`, `e820`, `zero_page`'s limit, `accept_ranges`, `shim`'s limit | `placed` and `memory` are the map, `step` the call `build()` is in, `todo` and `at` the loop's remaining spans and its cursor, `e820` and `accept` the lists. One action per loop iteration, loop exit and error return |
| `Builder` (extends `Placement`, `AcpiTables`, `IdentityMap`) | `run`, `config_field`, `prepare`, both `build`s, `write_manifest` | `req` is the parsed request, `disk` the two output files. One action per check and per write; `WriteFails` leaves a file old or torn |
| `AcpiTables` | `acpi.rs` | no state: `Tables`, the `Structures` of the MADT, and an OS that follows the pointers and walks the lengths |
| `IdentityMap` | `identity_map` | no state: entries as sets of bits, and the walk of a processor (`Translate`) |
| `Image` (extends `Placement`) | from a derived map to a loaded guest: both `build`s past the lists, `mrtd.rs`, `launch_measurement`, `id_block`, `tdx_launch`, `snp_launch`; the host, the loader and firmware, the verifier | `file` and `launch` are what the builder writes, `delivery` what the host hands over, `next` the loader's position, `guest`, `vps`, `log` and `signed` what loader and firmware have taken. `spans` holds the E820 entries run together, from which the SNP file's required memory is cut. Actions `WriteFile`, `CoalesceNext`, `CoalesceDone`, `RequireNext`, `FinishFile`, `Deliver`, `LoadDirective` (one per directive), `Finish` |
| `PrivateMemory` | the abstract promise of a shim | `target`, `private`, `phase`; `MakePrivate`, `EnterKernel`, `Halt` |
| `AcceptList` | the image as either shim finds it | `imported`, `ranges`; the promise the builder makes of the list, and the memory Linux must end up with |
| `TdxShim` | `reset.S` 34-87 and 106-116 | `pc` is the label, `rbp`, `r12`, `r13` the registers, `private` the memory. One action per label; the TDX module is external and may fail or report a size mismatch at any call |
| `SnpShim` | `snp_reset.S` | the same registers, `r15` and `bl` for what PVALIDATE answered and for the step of the wake, `clear` for the frames zeroed, the state of the lent page (`ghcb`), and `ap`, `pend` for the parked processors and the interrupts on their way. One action per label and per step of `wake_aps`; PVALIDATE, KVM and Linux are external. `granted` and `clear` are history variables: no code keeps them |
| `Mailbox` | `reset.S` 6-36 and 89-104 | the three words of the mailbox, a label and a register per processor. One action per load or store; the OS is external and follows the ACPI wakeup protocol |
| `TdxBoot` (extends `Image`) | the whole TDX path | instances of `TdxShim` and `Mailbox`, joined to the file by `Launch` |
| `SnpBoot` (extends `Image`) | the whole SNP path | an instance of `SnpShim`, joined the same way; the lent page is the one the map has placed |
| `MC*` | | constants of the runs only |
| `PlacementProofs`, `TdxShimProofs`, `SnpShimProofs`, `MailboxProofs`, `BuilderProofs`, `ImageProofs`, `TdxBootProofs`, `SnpBootProofs` | | theorems and proofs |

Correspondences worth knowing:

* **Sorting.** `spans()` sorts and each loop iterates. The model takes the least
  unvisited index under the same order (`Precedes`), so no sorted copy is kept. Equal
  spans may be visited in either order, as with an unstable sort.
* **The E820 loop's `break`.** `E820Done` may fire as soon as every span left lies at or
  above the top of memory, which is when the code breaks.
* **The closing `retain`.** `accept_ranges` drops empty ranges at the end; the model
  never appends them (`PushRange`).
* **The order of the pages.** `pages` is stable-sorted by address. A page's place is the
  number of pages `Before` it (`Rank`), which is that order without a sorted copy.
* **Required memory.** `snp.rs` coalesces the E820 entries and then cuts each span into
  pieces of at most `REQUIRED_MEMORY_MAX` bytes. Both loops are actions, one entry and
  one piece at a time, and `spans` is the list between them.
* **Registers.** A processor no context has been given for starts at `reset_vmsa`. So a
  file with a context lost gives a guest that differs from the map.
* **The end of a load.** `SnpBoot`'s `Launch` sets `delivery` back: nothing reads the
  file after the report, and TLC need not tell such states apart.
* **Maps.** `Image` starts from maps, not from requests, and takes each to be built
  (`BuiltMapsAssumption`): whole pages, apertures listed nowhere, the pages it fills
  placed blank. `MapsAreBuilt` of `BuilderProofs` shows that a request gives no other.
* **Data.** In `Builder` the contents of a region are its length, and a file is what the
  checks read of it; whether the bzImage header fields are acceptable is one Boolean. In
  `Image` a page is its region, its number there, and, for the zero page and the shim,
  the list it holds, which is what a guest reads back (`GuestE820`, `GuestAccept`).
* **Hashes.** A digest is the sequence of what was hashed, so two digests are equal
  exactly if the hashed inputs are. A page is hashed in `CHUNKS` pieces on TDX, as
  MR.EXTEND does, and a change of the contents is a change of one piece. SNP hashes a
  CPUID or secrets page by its address alone. A signature is a record with the key.
* **The host.** It may hand over the file as written, with one directive lost, moved
  ahead of the one before it or changed (contents, type or address of a page, the
  registers of a context), or without its ID block, and it chooses policy and host data.
  The model stops at a guest the verifier turns down.
* **Scale.** Addresses are numbers of pages times `PAGE`, with the layout of `layout.rs`
  unchanged. `PAGE = 2` keeps 512 GiB inside TLC's integers and still has misaligned
  addresses (the odd ones). `WORD`, 2^64 in the code, is any bound beyond twice the map;
  sums wrap there as unsigned 64-bit sums do in a release build. `SNP_VMSA` is any
  address above the map. `AcpiTables` and `IdentityMap` count real bytes and real bits.
* **Launch failure.** An image the IGVM library refuses ends the build with the disk as
  it was, which is the `"old"` case of `WriteFails`.

## What TLC checks

Every run is listed in `PROJECT.json` with its properties; each property of a passing
run has a mutant, a plausible bug in one definition, under which TLC finds it violated.

| Run | Question | Bounds | States |
| --- | --- | --- | --- |
| `placement` | are the lists right for any map at all? | every map of up to three regions over five bases, one misaligned and one at or above the smaller top of memory, loaded, host-filled or apertures, of none to two pages, with and without the reset page, two tops of memory; room for 4 E820 entries and 2 ranges, so both limits are hit | 251,502 |
| `builder` | does every request end well? | the real layout and the real limits (128 entries, 1008 bytes); requests at both sides of every edge: sizes of RAM, kernel, initramfs and command line, 17 sets of apertures, 54 and 120 apertures, 0 to 345 processors around 256, 257 and 344, C-bits from 31 to 64, SVN and key | 5,029 |
| `tdx_shim` | does the shim do what the list says whatever the host does? | every well-formed list of up to two ranges over 12 frames and of three ranges between chosen frames, large pages of 4 frames, so ranges start, end and touch on both sides of a large page | 34,208 |
| `snp_shim` | the same question of the SNP shim, and does it wake the others? | the well-formed lists of up to two ranges over 12 frames that start (frame 0 included) and end on and off large pages of 4; every answer of PVALIDATE, a refusal of each step of the wake, two processors with interrupts delivered at any later time | 17,075 |
| `mailbox` | do the processors start? | three processors, so that one can be polling while another is answering and a third is unclaimed | 1,097 |
| `tdx_boot` | do the parts add up, whatever the host does to the file? | eight or nine frames, large pages of 2, maps of two loaded regions, an aperture, the zero page and the reset page, two chunks to a page, two processors besides the boot processor | 160,944 |
| `snp_boot` | the same on SNP, with contexts, required memory and an ID block | the low megabyte of the SNP layout at one byte to a page, with apertures over most of the gaps, a region of variable place, type and length, two tops of memory, large pages of 2, two processors besides the boot processor, signed and unsigned; pieces of required memory of at most 2 bytes, so spans are split | 144,908 |

`placement` and `builder` complement each other: the first has every shape of map and
small limits, the second the real map and real limits. The lists are compared with the
map at every address of the first, and with the imported pages and the machine's RAM at
both ends of every region and aperture of the second, the only places where any of
them can change.

**Properties.**

* Of the derivations, for every map in which no region's end wraps:
  `ValidatedDisjoint`, `E820Exact`, `E820Ordered`, `AcceptExact`, `AcceptOrdered`.
* Of a request: `RamIsPrivate`, `NeverBoth` and `AgreesWithMachine` relate the lists to
  the imported pages and to where q35 puts RAM; `InitAreaFree` keeps the kernel's
  decompression clear of the rest of the image; `ManifestFollowsImage` is about the disk
  (a refusal, a failed write, the order of the two files); `MadtReadsBack` is an OS that
  finds the tables by their pointers, walks the MADT and ends where the header says,
  having met the first 256 processors at most; `IdentityMapped` is a processor that walks
  the page tables at every GiB whose address does not itself have the C-bit set.
* Of the shims: `EntersComplete`, `DiesOnlyOnHostError` and `ShimLeaves` are about the
  walk, and `ImplementsPrivateMemory` shows that it implements the abstract promise. On
  SNP `EntersComplete` includes the lent page, which `ImplementsPrivateMemory` leaves
  out, because it is not private throughout. `ClearsWhatItValidates` says that what the
  walk validated is clear by its end, and that of the image only the lent page is ever
  zeroed: after the host has granted its sharing and registration, and before any
  interrupt goes through it (`snp_reset.S` 82-89). That page is validated again at the end
  (104-110) without being cleared again; it holds the last request then.
  `NeverKillsItself`, `WakesLast` and `ReportTellsWhere` are about what the shim does to a
  page and when, and about the termination code agreeing with how far it came;
  `EveryProcessorCreated` needs the INIT and the SIPIs.
* Of the mailbox: `OneResponder`, `AckMeansRunning`, `EveryoneStarts`.
* Of the whole: `DigestIffImage` says that a guest whose report matches the manifest has
  the map in its memory, page for page, with the derived lists in the zero page and the
  shim and every processor at its measured entry, and that the file as written is never
  turned down. `RequiredMatchesE820` compares the memory the loader is told to find with
  the E820 map. `LinuxOwnsItsRam`, `BuiltListsNeverKill` and `OthersWaitForMemory` join
  builder, file and shim; `BootsOrReports` says that a boot ends.

**Fairness.** The derivation, the loader and the shim are sequential programs: weak
fairness of their steps says they keep running. Each processor and the OS has its own weak
fairness, which is a host that schedules every processor; a host that does not can
always stop a guest, and nothing live holds against it. On SNP the host also delivers
the interrupts it accepted; it need not resume a parked processor early. No fairness is assumed of the
TDX module's answers: it may report a mismatch at every large page and fail at any
call. `Placement`, `Builder` and `SnpBoot` state no fairness, and only safety is checked
of them: that the loops of the derivation end is part of `BootsOrReports`.

**Stopping.** No configuration disables the deadlock check: a finished build, a halted
guest and a guest that is up are explicit stuttering actions (`Finished`, `Exited`,
`ShimLeft`, `SnpLeft`, `AllAwake`, `AtRest`).

### Where the code departs from what it says

Five runs check one sentence of the repository each and find it violated.

* `mailbox_early_leaver` (`WaitsForClaim`, `reset.S` 89-104). A processor that read
  `command = 1` while the OS was starting another one does not read it again. Once the
  OS has named it next, it leaves before its own command is written, possibly with the
  previous processor's vector. Its acknowledgement then precedes the command, and the
  OS waits for ever. `EveryoneStarts` and `BootsOrReports` show that this race is the
  only obstacle: they hold of every behaviour without it.
* `builder_empty_initramfs` (`NothingLeftOut`, `boot.rs` 195, 209, 290). An empty
  initramfs spans a page and imports none. `RamIsPrivate` and `AgreesWithMachine` are
  stated for the other requests.
* `builder_wrapping_hole` (`HolesAbsent`, `layout.rs` 211, `boot.rs` 236). An aperture
  whose end wraps around 64 bits is accepted and ignored. The properties of
  `Placement` exclude wrapping maps (`NoWrap`); type correctness does not.
* `builder_long_cmdline` (`CmdlineWhole`, `image.rs` 117). A line longer than a page is
  cut, if the kernel takes such lines: in the trace 4096 bytes are measured and
  the ` no5lvl` appended to them is not. A line of exactly 4096 bytes keeps them all and
  loses only its NUL, which no document mentions and the property does not ask for.
* `builder_wide_madt` (`EveryProcessorListed`, `acpi.rs` 83). IDs are eight bits wide and
  344 processors are allowed, so from 257 processors on some are listed twice and the
  rest not at all.

Two more limits the properties name: a C-bit from 32 to 38 passes the range check
although it is a bit of addresses the identity map covers, and `IdentityMapped` excepts
those pages; on an SNP guest without an ID key, policy and SVN are the host's until the
verifier compares them, which is why `DigestIffImage` is about the whole report.

## What is proved

Every invariant of the passing runs and both refinements are stated by theorems, for every
value of the constants. Only what is live is left to TLC.

**The lists (`PlacementProofs`).** For every page size, layout word, set of maps, top of
memory and set of addresses, from `PageAssumption`, `WordAssumption`, `MapsAssumption`
and `LimitsAssumption`, which TLC evaluates in every run of a map: `TypeCorrect`,
`Disjointness`, `E820Exactness`, `E820Order`, `AcceptExactness`, `AcceptOrder`,
`LoopInvariants`, all from `PlacementInvariant`.

None of these is inductive. `SortedInv` supplies what is missing: the spans visited
precede the ones left in sort order and end at or below the cursor. While validating
this turns each comparison with a neighbour into disjointness from everything seen
(so a three-way overlap cannot hide), and in the other two loops it says that no span
crosses the gap the cursor is about to jump. `E820Inv` and `AcceptInv` then say each
list is exact below the cursor, at every address and not only at those of `Addrs`.
Three lemmas carry the data: `PushCovers` and `PushRangeHolds` (what one push adds and
that it keeps the order) and `NextSpan` (what lies between the cursor and the end of the
next span). There is one lemma per action.

**The TDX shim (`TdxShimProofs`).** For every large-page size and every well-formed list,
from `HugeAssumption` and `ImagesAssumption`:

* `ShimTypeCorrect`, `AcceptedSoFarAlways`, `EntersCompleteAlways` and
  `DiesOnlyOnHostErrorAlways`, from `ShimInvariant`;
* `Refinement`: the specification of the shim implies `PrivateMemory`'s.

The invariant is `AcceptedSoFar`: at each label the private frames are the imported
ones, the finished ranges and the current range below `R12`. Because the ranges ascend
and avoid the imported frames (`BlockOK`), the page `accept_range` picks next is
always fresh (`RangeIsFresh`), so the module can never answer that a page was already
accepted.

**The SNP shim (`SnpShimProofs`).** For the same lists, any lent page the image imports
and any set of other processors, from those assumptions and `GhcbAssumption`:

* `SnpTypeCorrect`, `ValidatedSoFarAlways`, `EntersCompleteAlways`,
  `ClearsWhatItValidatesAlways`, `NeverKillsItselfAlways`, `WakesLastAlways` and
  `ReportTellsWhereAlways`, from `SnpInvariant`;
* `Refinement`, as on TDX, for all memory but the lent page.

The invariant has two halves. Up to the end of the list it is `ValidatedSoFar`: the same
walk with a second account of what is clear, so that a page validated and not yet
cleared is known by its label. From there on it is `WakeSoFar`: memory is complete, and
at each of the eight labels of the wake the state of the lent page and the number of
steps granted follow from the label. `OnlyLentZeroed` is the third part: the fourth step
zeroes the lent page, granted or not, and no other step of the wake zeroes anything
(`ZeroedByFour`). `CursorIsFirstMissing` gives the termination code
its meaning: the frame the shim dies at is the first that is missing.

**The mailbox (`MailboxProofs`).** For any set of processors and any vectors, from
`APsAssumption` and `VectorAssumption`: `BoxTypeCorrect`, `OneResponderAlways` and
`AckMeansRunningAlways`, from `BoxInvariant`. `OneResponder` is not inductive: a
processor between its loads may hold a stale command. `Protocol` says what its next load
can meet: the mailbox names the OS's target, except between the OS's choice of a new one
and its first store, when it still names a processor that runs already.

**The builder (`BuilderProofs`).** For every request, every page size and every set of
addresses, from `RequestsAssumption` (a request has the types the command line and the
files can give it) and the assumptions of `Placement`: `BuildTypeCorrect`,
`RamIsPrivateAlways`, `NeverBothAlways`, `AgreesWithMachineAlways`,
`InitAreaFreeAlways`, `ManifestFollowsImageAlways`, `MadtReadsBackAlways`,
`IdentityMappedAlways` and `MapsAreBuilt`, from `BuildInvariant`.

The invariant keeps what each check established for the steps after it (`Asked`, `Laid`,
`Fits`), is `PlacementInv` while the lists are derived, and keeps of it afterwards that
the lists are exact (`MapFacts`). The argument then has four parts.

* What a request that passed the checks places: regions in a fixed order, with room for
  their pages and none on another's (`OwnRegions`, `OwnPages`, `OwnOrder`), and the
  apertures (`AperturesOf`, `MapOf`). With exact lists, an address is RAM, accepted or
  imported according to the region it lies in (`Regions`, `Imports`), and `TheHole` says
  that what the machine lacks below the top of memory is exactly the aperture
  `Params::new` adds.
* What every such map is like (`MapsAreBuilt`): built as `Image` takes it to be, with no
  empty region of RAM unless the initramfs is empty, and with no end that wraps unless a
  declared aperture does (`OwnSpans`, `OnlyHolesWrap`). So `NoWrap` and `NoEmptyRam`, the
  premises below, fail only where `builder_wrapping_hole` and `builder_empty_initramfs`
  show the code to depart from what it says.
* The tables: an OS that follows the pointers reaches all of them (`TablesReached`), none
  overlaps another, and the walk by lengths meets each structure of the MADT and ends at
  its end (`MadtWalk`), whatever the number of processors; the IDs it names are the first
  256 at most (`MadtNames`).
* The identity map: the bits of an entry are those of its address and of its flags, and
  no two of these coincide (`SomeBits`, `EntryLeads`), so the walk of a processor leads
  each GiB to itself, unless the C-bit is a bit of its address (`Walk`).

**Image, load and report (`ImageProofs`).** For every built map, every number of
processors and of chunks, and every file the host may hand over, from `ImageAssumption`
and `BuiltMapsAssumption`: `VerifiedGuestIsTheMap` (`DigestIffImage`, if no region
wraps), `RequiredIsListed` and `ImageAligned`, from `ImageInvariant`.

* The pages of the map are ranked without gaps or repetitions (`RankInjective`,
  `RankOnto`), so `LaunchPages` is a sequence of exactly these (`PagesOfMap`).
* A digest determines the pages it is of (`LogInjective`), and taking in one more page
  appends to it what the firmware records of that page (`LogAppended`).
* `LoadInv` then says of a load in progress that memory and log are those of some sequence
  of measured pages, the file's own as far as it has been read if the host left the file
  alone (`Honest`); or, on TDX, that the log has `Diverged`: a page was added and not
  extended, and no promised digest has an addition, or nothing, in the place of a chunk.
  A report equal to the manifest's thus has the map's pages behind it.
* `RequiredInv` says of the two loops that the pieces already written and the spans still
  left cover exactly the E820 entries taken in, so nothing is lost where a span is cut.
* `AlignedInv` keeps every end of every list on a page. A frame is thus in memory, on the
  accept list or in neither, as a whole and never both (`HandedWellFormed`), RAM is in
  one of the two (`RamIsHanded`) and an aperture in neither (`ApertureIsLeftOut`).

**The boots (`TdxBootProofs`, `SnpBootProofs`).** For all of the above at once:
`VerifiedTdxGuest`, `TdxLinuxOwnsItsRam`, `TdxListsNeverKill`, `TdxOthersWait`,
`TdxMailbox`, and `VerifiedSnpGuest`, `SnpRequiredIsListed`, `SnpLinuxOwnsItsRam`,
`SnpListsNeverKill`, `SnpOthersWait`. All but `TdxMailbox` rest on their module's
`BootInvariant`.

That invariant is what is known of the image (`ImagesFacts`) and `HandOver`. On TDX the
first comes from `ImageProofs` as it stands, because each step of the composition is one
of `Image` or leaves it alone (`BootIsImage`); on SNP the launch also forgets `delivery`,
so `ImagesStep` shows that the same invariants survive it. `HandOver` says that a guest is
launched only when verified and that its shim has, from the launch on, the invariant of
its own proofs. Its base is where the parts meet: the list read back from the shim's page
is well formed (`HandedWellFormed`), which is what `ImagesAssumption` asks, and on SNP
the page to lend is one the map has placed, the loader imported and E820 does not call
RAM (`GhcbIsPlaced`, `GhcbIsImported`, `GhcbIsNotRam`). `SnpOthersWait` says what the
shim's `WakesLast` comes to in the terms of the E820 map. Each boot takes the shim's lemmas
through an instance of its proofs with no images of its own. On TDX `HandOver` also has
that no processor has left the poll before Linux runs, hence `TdxOthersWait`.
`TdxMailbox` is `OneResponder` and `AckMeansRunning` in the whole boot (`BoxKeeps`).

All but `SnpRequiredIsListed` and `TdxMailbox` have premises. `NoWrap` leaves out maps
with a region that ends beyond 2^64, and `NoEmptyRam`, needed only where RAM must be
private, those with a RAM region of no bytes; `MapsAreBuilt` says which requests these
are.

**Only model-checked:** everything live (`ShimLeaves`, `EveryoneStarts`,
`EveryProcessorCreated`, `BootsOrReports`), because the prover handles neither fairness
nor `ENABLED`.

## What is not modelled

* `parse_size`, `parse_hole` and the words of the command line: strings. A request
  carries what they return, any number of 64 bits, and the length of the line.
* The bytes of any structure: boot_params but for its E820 map, the bzImage header, GDT,
  VMSA, PAGE_INFO, IGVM encoding, the constant fields and checksums of the ACPI tables,
  JSON. The components of the manifest and their hashes.
* SHA-384 and ECDSA: a digest is what was hashed, a signature a record with its key.
* That IGVM read-back succeeds: a file the library does not read back as the same pages
  ends the build before anything is written, the `"old"` case of `WriteFails`.
* The mode switch at the start of each shim: it has no outcome a property could see.
* A host that claims to have shared the GHCB page and has not: the shim's next access
  then ends the guest, which the model would show as a fault.
* A host that makes two changes to a file at once: each changes the digest by itself.
* Termination codes past 255: the code keeps eight bits of the large page's number, as
  the shim does, but the runs stay below.
* A read of the mailbox vector torn in two: it is one aligned 64-bit load.
* `build.rs` and the compile-time asserts: the generated symbols are the constants of
  `Layout`, and the asserts relate constants only.
* The parts of the QEMU patch that only skip what a TDVF firmware needs, and packaging.
* An aperture declared inside the area the kernel decompresses into; the code does not
  refuse it, and no document says it should.

## What could follow

1. `Builder` and each boot as one specification, so that `MapsAreBuilt` meets
   `BuiltMapsAssumption` in one behaviour and not only in this text.
2. The fields of boot_params and of the bzImage header as records, read back by a kernel
   as the tables of `AcpiTables` are.
