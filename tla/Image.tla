------------------------------- MODULE Image --------------------------------
(***************************************************************************)
(* From a derived placement map to a guest in memory: the IGVM file the    *)
(* builder writes and the launch values its manifest promises (image.rs,   *)
(* snp.rs, mrtd.rs), then the loader that carries the file's directives    *)
(* out, the firmware that measures them, and the verifier that compares    *)
(* the guest's report with the manifest.                                   *)
(*                                                                         *)
(* Loader, firmware and verifier are external.  The host may hand the      *)
(* loader the file as written or one it changed, and it chooses policy     *)
(* and host data itself.  A hash is the sequence of what was hashed, so    *)
(* two digests are equal exactly if the hashed inputs are.                 *)
(***************************************************************************)
EXTENDS Placement, FiniteSets

SE == INSTANCE SequencesExt

CONSTANTS
  Platform,              \* "tdx" or "snp"
  VCPUS,                 \* processors the image is built for
  CHUNKS,                \* pieces in which MR.EXTEND hashes a page
  REQUIRED_MEMORY_MAX,   \* bytes one RequiredMemory directive can state
  Options                \* of the build: [key, svn, config]; no key is ""

ASSUME ImageAssumption ==
  /\ Platform \in {"tdx", "snp"}
  /\ VCPUS \in Nat \ {0}
  /\ CHUNKS \in Nat \ {0}
  /\ REQUIRED_MEMORY_MAX \in Nat \ {0}
  /\ \A o \in Options : o.svn # 0 => o.key # ""

VARIABLES
  opts,       \* the build's options
  phase,      \* none, spans, required, file, loading, verified, rejected, refused or error
  file,       \* the directives of the IGVM file
  spans,      \* the memory that RequiredMemory directives have still to state
  launch,     \* the manifest's launch values
  delivery,   \* what the host gives the loader: [file, policy, config]
  next,       \* the E820 entry or the directive whose turn it is
  guest,      \* the pages in guest memory
  log,        \* the firmware's launch digest
  vps,        \* the context each processor starts from
  signed      \* the signed block given to the firmware, if any

image == <<opts, phase, file, spans, launch, delivery, next, guest, log, vps, signed>>

-----------------------------------------------------------------------------
(* The pages of the map, in ascending order.                               *)

\* The page with the shim and its data block.
SHIM_PAGE == IF Platform = "tdx" THEN RESET_ALIAS ELSE SHIM_BASE

\* The pages both builders place and leave to be filled in, by themselves or by the shim.
Blanks == {ZERO_PAGE, SHIM_PAGE} \cup IF Platform = "snp" THEN {SNP_GHCB} ELSE {}

ASSUME BuiltMapsAssumption == \A m \in Maps : BuiltMap(m.placed, m.memory, Blanks)

\* boot::fill: the first region at an address is given a page of contents, if a page is
\* what it spans.
FirstAt(base, i) == placed[i].base = base /\ \A j \in 1 .. i - 1 : placed[j].base # base

FillOK(base) == \E i \in DOMAIN placed : FirstAt(base, i) /\ Span(placed[i]) = PAGE

Filled(i) ==
  IF FirstAt(ZERO_PAGE, i) \/ FirstAt(SHIM_PAGE, i)
  THEN Measured(placed[i].base, placed[i].e820, PAGE)
  ELSE placed[i]

\* A region as it is placed, and once the zero page and the shim have been filled in.
Blank(i) == [region |-> i, e820 |-> <<>>, accept |-> <<>>]

Data(i) ==
  [region |-> i,
   e820   |-> IF FirstAt(ZERO_PAGE, i) THEN e820 ELSE <<>>,
   accept |-> IF FirstAt(SHIM_PAGE, i) THEN accept ELSE <<>>]

\* One page of a region; `bad' are the chunks somebody changed since.
Contents(i, n) == [data |-> Data(i), page |-> n, bad |-> {}]

Zeros(i) == [data |-> Blank(i), page |-> 0, bad |-> {}]

PageKind(i) ==
  IF Filled(i).fill = "measured" THEN "normal"
  ELSE IF placed[i].base = SNP_CPUID THEN "cpuid" ELSE "secrets"

LaunchPage(gpa, kind, contents) == [gpa |-> gpa, kind |-> kind, contents |-> contents]

\* boot::pages: a region of no bytes has no page, whatever its span.
PageCount(i) ==
  CASE Filled(i).fill = "measured" -> align_up(Filled(i).len, PAGE) \div PAGE
    [] Filled(i).fill = "host" -> 1
    [] OTHER -> 0

PageAddress(i, n) == placed[i].base + (n - 1) * PAGE

RegionPage(i, n) ==
  LaunchPage(PageAddress(i, n), PageKind(i),
             IF PageKind(i) = "normal" THEN Contents(i, n) ELSE Zeros(i))

\* The pages of all regions, the n-th of region i as <<i, n>>, and their order: by the
\* base of the region, stably, and within a region from the first.
PageIds == UNION { {i} \X (1 .. PageCount(i)) : i \in DOMAIN placed }

Before(q, p) ==
  \/ placed[q[1]].base < placed[p[1]].base
  \/ placed[q[1]].base = placed[p[1]].base /\ q[1] < p[1]
  \/ q[1] = p[1] /\ q[2] < p[2]

Rank(p) == Cardinality({ q \in PageIds : Before(q, p) })

LaunchPages ==
  [k \in 1 .. Cardinality(PageIds) |->
     LET p == CHOOSE p \in PageIds : Rank(p) = k - 1
     IN  RegionPage(p[1], p[2])]

\* On TDX every loaded page is measured; on SNP validate_pages looks at neighbours.
PagesOK(pages) ==
  /\ FillOK(ZERO_PAGE) /\ FillOK(SHIM_PAGE)
  /\ IF Platform = "tdx"
     THEN \A k \in DOMAIN pages : pages[k].kind = "normal"
     ELSE \A k \in 1 .. Len(pages) - 1 : pages[k].gpa + PAGE <= pages[k + 1].gpa

-----------------------------------------------------------------------------
(* The launch digest, as the builder computes it.                          *)

Chunk(contents, c) == [contents EXCEPT !.bad = @ \cap {c}]

Add(gpa) == [add |-> gpa]

ExtendBy(gpa, contents, c) == [extend |-> <<gpa, c>>, chunk |-> Chunk(contents, c)]

\* Mutant: a page is added once its chunks have been hashed.
Record_AddsLast(p, c) == IF c = CHUNKS THEN Add(p.gpa) ELSE ExtendBy(p.gpa, p.contents, c + 1)

\* Of each page first its addition, then its chunks.
Record(p, c) == IF c = 0 THEN Add(p.gpa) ELSE ExtendBy(p.gpa, p.contents, c)

\* mrtd::calculate: CHUNKS + 1 records for each page.
Mrtd(pages) ==
  [n \in 1 .. Len(pages) * (CHUNKS + 1) |->
     Record(pages[(n - 1) \div (CHUNKS + 1) + 1], (n - 1) % (CHUNKS + 1))]

\* extend: only NORMAL and VMSA pages are hashed, the others by address alone.
PageInfo(gpa, kind, contents) ==
  [gpa |-> gpa, kind |-> kind,
   contents |-> IF kind \in {"normal", "vmsa"} THEN <<contents>> ELSE <<>>]

\* The architectural address of the contexts, 2^48 - PAGE, is beyond TLC's integers; what
\* matters of it is that it lies above everything the map can hold.
SNP_VMSA == 2 * MAP_LIMIT

\* Where a processor starts that no context is given for.
reset_vmsa == [rip |-> "reset", rsp |-> "0", rsi |-> "0"]

bsp_vmsa == [rip |-> "shim", rsp |-> "stack", rsi |-> "zero_page"]
ap_vmsa == [bsp_vmsa EXCEPT !.rip = "ap_entry", !.rsp = "0", !.rsi = "0"]

Vmsa(vp) == IF vp = 0 THEN bsp_vmsa ELSE ap_vmsa

\* Mutant: the digest has one context, whatever the number of processors.
LaunchMeasurement_OneVmsa(pages) ==
  [k \in DOMAIN pages |-> PageInfo(pages[k].gpa, pages[k].kind, pages[k].contents)]
    \o << PageInfo(SNP_VMSA, "vmsa", bsp_vmsa) >>

LaunchMeasurement(pages) ==
  [k \in DOMAIN pages |-> PageInfo(pages[k].gpa, pages[k].kind, pages[k].contents)]
    \o [vp \in 1 .. VCPUS |-> PageInfo(SNP_VMSA, "vmsa", Vmsa(vp - 1))]

-----------------------------------------------------------------------------
(* The directives of the file.                                             *)

\* Runs of E820 entries that touch, whatever their types.
Coalesce(out, entry) ==
  IF out # <<>> /\ out[Len(out)][2] = entry.base
  THEN [out EXCEPT ![Len(out)][2] = entry.base + entry.size]
  ELSE Append(out, <<entry.base, entry.base + entry.size>>)

Required(gpa, bytes) == [type |-> "required", gpa |-> gpa, bytes |-> bytes]

\* Mutant: the length of a span is stated as it is.
PieceOf_Unsplit(lo, hi) == hi - lo

\* What one directive states of a span: its length has 32 bits.
PieceOf(lo, hi) == Min2(hi - lo, REQUIRED_MEMORY_MAX)

PageData(p) == [type |-> "page", page |-> p]

VpContext(vp) == [type |-> "vp", vp |-> vp, vmsa |-> Vmsa(vp)]

\* The signature covers the digest, the policy and the SVN.
IdBlock(ld) == [type |-> "id", ld |-> ld, policy |-> "SNP_GUEST_POLICY", svn |-> opts.svn, key |-> opts.key]

SnpFile(required, pages) ==
  required
    \o [k \in DOMAIN pages |-> PageData(pages[k])]
    \o [vp \in 1 .. VCPUS |-> VpContext(vp - 1)]
    \o IF opts.key = "" THEN <<>> ELSE << IdBlock(LaunchMeasurement(pages)) >>

\* igvm: no initialization header and no directive but the pages.
TdxFile(pages) == [k \in DOMAIN pages |-> PageData(pages[k])]

\* tdx_launch and snp_launch.
TdxValues(mrtd, mrconfigid, rtmrs) == [mrtd |-> mrtd, mrconfigid |-> mrconfigid, rtmrs |-> rtmrs]

SnpValues(measurement, policy, svn, host_data, id_key_digest) ==
  [measurement |-> measurement, policy |-> policy, guest_svn |-> svn,
   host_data |-> host_data, id_key_digest |-> id_key_digest]

ResetRtmrs == "0"

\* Both build functions, past the accept list: the pages are refused, or the TDX image is
\* finished.
WriteFile ==
  /\ step = "built"
  /\ phase = "none"
  /\ LET pages == LaunchPages
     IN  IF ~PagesOK(pages) THEN phase' = "error" /\ UNCHANGED <<file, launch>>
         ELSE IF Platform = "tdx"
         THEN /\ phase' = "file"
              /\ file' = TdxFile(pages)
              /\ launch' = TdxValues(Mrtd(pages), opts.config, ResetRtmrs)
         ELSE phase' = "spans" /\ UNCHANGED <<file, launch>>
  /\ next' = 1
  /\ UNCHANGED <<opts, spans, delivery, guest, log, vps, signed>>

\* On SNP, one more entry of the E820 map joins the spans.
CoalesceNext ==
  /\ phase = "spans"
  /\ next <= Len(e820)
  /\ spans' = Coalesce(spans, e820[next])
  /\ next' = next + 1
  /\ UNCHANGED <<opts, phase, file, launch, delivery, guest, log, vps, signed>>

CoalesceDone ==
  /\ phase = "spans"
  /\ next > Len(e820)
  /\ phase' = "required"
  /\ UNCHANGED <<opts, file, spans, launch, delivery, next, guest, log, vps, signed>>

\* One directive for what the first span still has, or on to the next span.
RequireNext ==
  /\ phase = "required"
  /\ spans # <<>>
  /\ LET lo == spans[1][1]
         hi == spans[1][2]
     IN  IF lo < hi
         THEN /\ file' = Append(file, Required(lo, PieceOf(lo, hi)))
              /\ spans' = [spans EXCEPT ![1][1] = lo + PieceOf(lo, hi)]
         ELSE file' = file /\ spans' = Tail(spans)
  /\ UNCHANGED <<opts, phase, launch, delivery, next, guest, log, vps, signed>>

\* The pages, the contexts and the ID block follow.
FinishFile ==
  /\ phase = "required"
  /\ spans = <<>>
  /\ phase' = "file"
  /\ file' = SnpFile(file, LaunchPages)
  /\ launch' = SnpValues(LaunchMeasurement(LaunchPages), "SNP_GUEST_POLICY",
                         opts.svn, opts.config, opts.key)
  /\ UNCHANGED <<opts, spans, delivery, next, guest, log, vps, signed>>

-----------------------------------------------------------------------------
(* The host: the file as it is, or with one directive lost, changed or     *)
(* moved ahead of the one before it; and its own policy and host data.     *)

Given(f, policy, config) == [file |-> f, policy |-> policy, config |-> config]

Untouched == Given(file, "SNP_GUEST_POLICY", opts.config)

Dropped == { SE!RemoveAt(file, k) : k \in DOMAIN file }

Swapped == { [file EXCEPT ![k] = file[k + 1], ![k + 1] = file[k]] : k \in 1 .. Len(file) - 1 }

AlteredPage(p) ==
  { [p EXCEPT !.contents.bad = {c}] : c \in 1 .. CHUNKS }
    \cup { [p EXCEPT !.kind = "unmeasured"], [p EXCEPT !.gpa = memory] }

Altered ==
  (UNION { { [file EXCEPT ![k].page = p] : p \in AlteredPage(file[k].page) } :
           k \in { j \in DOMAIN file : file[j].type = "page" } })
    \cup { [file EXCEPT ![k].vmsa = IF file[k].vp = 0 THEN ap_vmsa ELSE bsp_vmsa] :
             k \in { j \in DOMAIN file : file[j].type = "vp" } }

\* A host that takes the block away, the last directive of a signed file, may want another
\* policy; one that does not may too.
Unsigned ==
  IF file # <<>> /\ file[Len(file)].type = "id" THEN SubSeq(file, 1, Len(file) - 1) ELSE file

Deliveries ==
  { Untouched }
    \cup { Given(f, "SNP_GUEST_POLICY", opts.config) : f \in Dropped \cup Swapped \cup Altered }
    \cup { Given(f, policy, config) : f \in {file, Unsigned},
             policy \in {"SNP_GUEST_POLICY", "other"}, config \in {opts.config, "other"} }

Deliver ==
  /\ phase = "file"
  /\ delivery' \in Deliveries
  /\ next' = 1
  /\ phase' = "loading"
  /\ UNCHANGED <<opts, file, spans, launch, guest, log, vps, signed>>

-----------------------------------------------------------------------------
(* The loader and the firmware.                                            *)

\* TDH.MEM.PAGE.ADD and TDH.MR.EXTEND for each measured page, as QEMU asks for them;
\* SNP_LAUNCH_UPDATE.
Measure(p) ==
  IF Platform = "tdx"
  THEN << Add(p.gpa) >>
         \o IF p.kind = "unmeasured" THEN <<>>
            ELSE [c \in 1 .. CHUNKS |-> ExtendBy(p.gpa, p.contents, c)]
  ELSE << PageInfo(p.gpa, p.kind, p.contents) >>

\* The pages the loader or the firmware fills do not keep the file's contents.
InMemory(p) ==
  IF p.kind \in {"cpuid", "secrets"} THEN [p EXCEPT !.contents = Zeros(0)] ELSE p

LoadDirective ==
  /\ phase = "loading"
  /\ next <= Len(delivery.file)
  /\ LET d == delivery.file[next]
     IN  /\ guest' = IF d.type = "page" THEN guest \cup {InMemory(d.page)} ELSE guest
         /\ log' = IF d.type = "page" THEN log \o Measure(d.page) ELSE log
         /\ vps' = IF d.type = "vp" THEN [vps EXCEPT ![d.vp] = d.vmsa] ELSE vps
         /\ signed' = IF d.type = "id" THEN <<d>> ELSE signed
  /\ next' = next + 1
  /\ UNCHANGED <<opts, phase, file, spans, launch, delivery>>

\* KVM measures the contexts last, every processor's, in the order of their indices.
FinalLog == log \o [vp \in 1 .. VCPUS |-> PageInfo(SNP_VMSA, "vmsa", vps[vp - 1])]

Report ==
  IF Platform = "tdx"
  THEN TdxValues(log, delivery.config, ResetRtmrs)
  ELSE SnpValues(FinalLog, delivery.policy, IF signed = <<>> THEN 0 ELSE signed[1].svn,
                 delivery.config, IF signed = <<>> THEN "" ELSE signed[1].key)

\* SNP_LAUNCH_FINISH compares digest and policy with the block it was given.
FinishRefuses ==
  signed # <<>> /\ (signed[1].ld # FinalLog \/ signed[1].policy # delivery.policy)

Finish ==
  /\ phase = "loading"
  /\ next > Len(delivery.file)
  /\ phase' = IF FinishRefuses THEN "refused"
              ELSE IF Report = launch THEN "verified" ELSE "rejected"
  /\ UNCHANGED <<opts, file, spans, launch, delivery, next, guest, log, vps, signed>>

ImageStep ==
  \/ WriteFile \/ CoalesceNext \/ CoalesceDone \/ RequireNext \/ FinishFile
  \/ Deliver \/ LoadDirective \/ Finish

NoDelivery == Given(<<>>, "SNP_GUEST_POLICY", "")

ImageInit ==
  /\ opts \in Options
  /\ phase = "none"
  /\ file = <<>>
  /\ spans = <<>>
  /\ launch = <<>>
  /\ delivery = NoDelivery
  /\ next = 0
  /\ guest = {}
  /\ log = <<>>
  /\ vps = [vp \in 0 .. VCPUS - 1 |-> reset_vmsa]
  /\ signed = <<>>

-----------------------------------------------------------------------------
(* What the guest finds in its own memory.                                 *)

FrameOf(a) == a \div PAGE

GuestFrames == { FrameOf(p.gpa) : p \in guest }

\* The lists in the zero page and in the shim's data block, as loaded.
GuestE820 == (CHOOSE p \in guest : p.gpa = ZERO_PAGE).contents.data.e820
GuestAccept == (CHOOSE p \in guest : p.gpa = SHIM_PAGE).contents.data.accept

GuestRanges ==
  [n \in DOMAIN GuestAccept |-> <<FrameOf(GuestAccept[n][1]), FrameOf(GuestAccept[n][2])>>]

\* The frames of n bytes, the first at `base'.
FramesOf(base, bytes) == { FrameOf(a) : a \in base .. base + bytes - 1 }

RamFrames ==
  UNION { FramesOf(GuestE820[n].base, GuestE820[n].size) :
          n \in { m \in DOMAIN GuestE820 : GuestE820[m].kind = RAM } }

ApertureFrames ==
  UNION { FramesOf(placed[i].base, placed[i].len) :
          i \in { j \in DOMAIN placed : placed[j].fill = "mmio" } }

-----------------------------------------------------------------------------

\* The n-th page of region i, at the address the map has it at.
PageOfMap(p, i, n) ==
  /\ p.gpa = PageAddress(i, n)
  /\ p.kind = PageKind(i)
  /\ p.kind = "normal" => p.contents = Contents(i, n)

GuestIsTheMap ==
  /\ \A p \in guest : \E i \in DOMAIN placed : \E n \in 1 .. PageCount(i) : PageOfMap(p, i, n)
  /\ \A i \in DOMAIN placed : \A n \in 1 .. PageCount(i) : \E p \in guest : PageOfMap(p, i, n)
  /\ GuestE820 = e820 /\ GuestAccept = accept
  /\ Platform = "snp" => vps = [vp \in 0 .. VCPUS - 1 |-> Vmsa(vp)]

\* A guest that reports the values of the manifest has in memory, page for page, the map
\* with the E820 map and the accept list derived from it, and its processors start where
\* the image says, whatever the host did to the file; and the file as written, loaded
\* under the policy it asks for, is never turned down (image.rs 208-237, snp.rs 166-296,
\* mrtd.rs 9-24).
DigestIffImage ==
  /\ phase = "verified" => GuestIsTheMap
  /\ phase \in {"rejected", "refused"} => delivery # Untouched

\* The memory a SNP loader is told to find is what E820 lists, in pieces no longer than
\* the field that states them; nothing of it lies in an aperture (snp.rs 195-216).
RequiredMatchesE820 ==
  phase \in {"file", "loading", "verified", "rejected", "refused"} =>
    LET required == { k \in DOMAIN file : file[k].type = "required" }
    IN  /\ \A k \in required : file[k].bytes \in 1 .. REQUIRED_MEMORY_MAX
        /\ \A a \in Addrs :
             (\E k \in required : file[k].gpa <= a /\ a < file[k].gpa + file[k].bytes)
               <=> \E n \in DOMAIN e820 : EntryCovers(n, a)
=============================================================================
