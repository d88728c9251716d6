---------------------------- MODULE BuilderProofs ----------------------------
(***************************************************************************)
(* Proofs about Builder, for every request the command line and the files  *)
(* can make, every page size and every set of addresses.                   *)
(*                                                                         *)
(* The inductive invariant is BuildInv.  What each check established is    *)
(* kept for the steps after it (Asked, Laid), the three derivations are    *)
(* carried by Placement's own invariant while they run, and what they      *)
(* promise of the finished lists (MapFacts) and of the disk (OnDisk) from  *)
(* then on.  The four properties of the map follow from MapFacts and from  *)
(* where the regions of a request lie, which the first half is about.      *)
(***************************************************************************)
EXTENDS Builder, PlacementProofs, SequenceTheorems, FiniteSetTheorems

-----------------------------------------------------------------------------
(* Rounding up to a page.                                                  *)

\* Dividing by a page leaves less than a page.
LEMMA Divided ==
  ASSUME NEW x \in Nat
  PROVE  /\ x \div PAGE \in Int
         /\ (x \div PAGE) * PAGE <= x
         /\ x < (x \div PAGE) * PAGE + PAGE
BY PageAssumption

\* Rounding up adds less than a page, and leaves no data without one.
LEMMA AlignUp ==
  ASSUME NEW v \in Nat
  PROVE  /\ align_up(v, PAGE) \in Nat
         /\ v <= align_up(v, PAGE) /\ align_up(v, PAGE) < v + PAGE
         /\ v > 0 => align_up(v, PAGE) >= PAGE
<1> DEFINE x == v + PAGE - 1
           q == x \div PAGE
<1>1. x \in Nat /\ q \in Int /\ q * PAGE <= x /\ x < q * PAGE + PAGE
  BY PageAssumption, Divided
<1>2. align_up(v, PAGE) = q * PAGE
  BY DEF align_up
<1>3. q * PAGE \in Int
  BY <1>1, PageAssumption
<1>4. v > 0 => q * PAGE >= PAGE
  <2> HIDE DEF q, x
  <2> SUFFICES ASSUME v > 0, q * PAGE < PAGE PROVE FALSE
    BY <1>3, PageAssumption
  <2>1. q < 1
    BY <1>1, PageAssumption
  <2>2. q * PAGE <= 0
    BY <1>1, <2>1, PageAssumption
  <2>3. x >= PAGE
    BY PageAssumption DEF x
  <2> QED BY <1>1, <1>3, <2>2, <2>3, PageAssumption
<1> QED BY <1>1, <1>2, <1>3, <1>4, PageAssumption

\* Whole pages before the data do not change how it is rounded.
LEMMA AlignBehind ==
  ASSUME NEW n \in Nat, NEW v \in Nat
  PROVE  align_up(n * PAGE + v, PAGE) = n * PAGE + align_up(v, PAGE)
<1> DEFINE x == v + PAGE - 1
           q == x \div PAGE
           y == n * PAGE + x
           p == y \div PAGE
<1>1. x \in Nat /\ y \in Nat
  BY PageAssumption
<1>2. /\ q \in Int /\ q * PAGE <= x /\ x < q * PAGE + PAGE
      /\ p \in Int /\ p * PAGE <= y /\ y < p * PAGE + PAGE
  BY <1>1, Divided
<1>3. p = n + q
  <2> HIDE DEF p, q
  <2>1. (n + q) * PAGE <= y /\ y < (n + q) * PAGE + PAGE
    BY <1>1, <1>2, PageAssumption
  <2>2. ~(p < n + q)
    <3> SUFFICES ASSUME p + 1 <= n + q PROVE FALSE
      BY <1>2
    <3>1. (p + 1) * PAGE <= (n + q) * PAGE
      BY <1>2, PageAssumption
    <3> QED BY <1>1, <1>2, <2>1, <3>1, PageAssumption
  <2>3. ~(n + q < p)
    <3> SUFFICES ASSUME n + q + 1 <= p PROVE FALSE
      BY <1>2
    <3>1. (n + q + 1) * PAGE <= p * PAGE
      BY <1>2, PageAssumption
    <3> QED BY <1>1, <1>2, <2>1, <3>1, PageAssumption
  <2> QED BY <1>2, <2>2, <2>3
<1>4. (n + q) * PAGE = n * PAGE + q * PAGE
  BY <1>2, PageAssumption
<1>5. n * PAGE + v + PAGE - 1 = y
  BY PageAssumption
<1> QED BY <1>3, <1>4, <1>5 DEF align_up

-----------------------------------------------------------------------------
(* The apertures and the regions of a request.                             *)

Hole(r) == <<Q35_LOWMEM, HoleEnd(r) - Q35_LOWMEM>>

\* A request's numbers, and what Params::new makes of its RAM.
LEMMA Numbers ==
  ASSUME NEW r \in Requests, ParamsOK(r)
  PROVE  /\ r.platform \in {"tdx", "snp"} /\ r.mmio \in Seq(U64 \X U64)
         /\ r.ram \in Nat /\ r.ram > INITRAMFS_BASE
         /\ r.kernel \in U64 /\ r.initramfs \in U64 /\ r.init_size \in Nat
         /\ MemoryTop(r) \in Nat /\ MemoryTop(r) <= MAP_LIMIT /\ r.ram <= MemoryTop(r)
         /\ HoleEnd(r) \in Nat /\ Q35_LOWMEM < HoleEnd(r) /\ HoleEnd(r) <= FOUR_GIB
<1>1. r \in Request
  BY RequestsAssumption
<1>2. /\ r.platform \in {"tdx", "snp"} /\ r.mmio \in Seq(U64 \X U64) /\ r.ram \in U64
      /\ r.kernel \in U64 /\ r.initramfs \in U64 /\ r.init_size \in Nat
  BY <1>1 DEF Request
<1>3. r.ram > INITRAMFS_BASE /\ r.ram <= MAX_RAM
  BY DEF ParamsOK
<1>4. /\ Q35_LOWMEM \in Nat /\ Q35_LOWMEM < RESET_ALIAS /\ RESET_ALIAS \in Nat
      /\ RESET_ALIAS <= FOUR_GIB /\ FOUR_GIB \in Nat /\ MAP_LIMIT \in Nat
      /\ MAX_RAM \in Nat /\ MAX_RAM <= MAP_LIMIT /\ MAX_RAM = MAP_LIMIT - FOUR_GIB + Q35_LOWMEM
      /\ Q35_LOWMEM <= Q35_SPLIT /\ Q35_SPLIT <= MAP_LIMIT /\ Q35_SPLIT \in Nat
  BY PageAssumption DEF INITRAMFS_BASE, MAX_RAM, MAP_LIMIT, FOUR_GIB, GIB, Q35_LOWMEM, Q35_SPLIT,
                        RESET_ALIAS
<1>5. r.ram \in Nat
  BY <1>2, WordAssumption DEF U64
<1>6. HoleEnd(r) \in Nat /\ Q35_LOWMEM < HoleEnd(r) /\ HoleEnd(r) <= FOUR_GIB
  BY <1>4 DEF HoleEnd
<1> HIDE DEF Q35_LOWMEM, Q35_SPLIT, FOUR_GIB, MAP_LIMIT, MAX_RAM
<1>7. MemoryTop(r) \in Nat /\ MemoryTop(r) <= MAP_LIMIT /\ r.ram <= MemoryTop(r)
  BY <1>3, <1>4, <1>5, <1>6 DEF MemoryTop, Split
<1> QED BY <1>2, <1>3, <1>5, <1>6, <1>7

\* The apertures are the one a split leaves and the declared ones.
LEMMA AperturesOf ==
  ASSUME NEW r \in Requests, ParamsOK(r)
  PROVE  /\ Apertures(r) \in Seq(U64 \X U64)
         /\ \A n \in DOMAIN Apertures(r) :
              \/ Split(r) /\ Apertures(r)[n] = Hole(r)
              \/ \E k \in DOMAIN r.mmio : Apertures(r)[n] = r.mmio[k]
         /\ Split(r) => \E n \in DOMAIN Apertures(r) : Apertures(r)[n] = Hole(r)
<1>1. r.mmio \in Seq(U64 \X U64)
  BY Numbers
<1>2. Hole(r) \in U64 \X U64
  BY Numbers, PageAssumption, WordAssumption DEF Hole, U64, Q35_LOWMEM, FOUR_GIB, GIB, MAP_LIMIT
<1>3. CASE Split(r)
  <2>1. Apertures(r) = <<Hole(r)>> \o r.mmio
    BY <1>3 DEF Apertures, Hole
  <2>2. <<Hole(r)>> \in Seq(U64 \X U64) /\ Len(<<Hole(r)>>) = 1 /\ <<Hole(r)>>[1] = Hole(r)
    BY <1>2
  <2>3. /\ Apertures(r) \in Seq(U64 \X U64)
        /\ DOMAIN Apertures(r) = 1 .. 1 + Len(r.mmio)
        /\ \A n \in 1 .. 1 + Len(r.mmio) :
             Apertures(r)[n] = IF n <= 1 THEN <<Hole(r)>>[n] ELSE r.mmio[n - 1]
    BY <1>1, <2>1, <2>2, ConcatProperties, LenProperties
  <2>4. Len(r.mmio) \in Nat /\ DOMAIN r.mmio = 1 .. Len(r.mmio)
    BY <1>1, LenProperties
  <2>5. 1 \in DOMAIN Apertures(r) /\ Apertures(r)[1] = Hole(r)
    BY <2>2, <2>3, <2>4
  <2>6. ASSUME NEW n \in DOMAIN Apertures(r), n # 1
        PROVE  n - 1 \in DOMAIN r.mmio /\ Apertures(r)[n] = r.mmio[n - 1]
    BY <2>3, <2>4, <2>6
  <2> QED BY <1>3, <2>3, <2>5, <2>6
<1>4. CASE ~Split(r)
  <2>1. Apertures(r) = r.mmio
    BY <1>1, <1>4 DEF Apertures
  <2> QED BY <1>1, <1>4, <2>1
<1> QED BY <1>3, <1>4

\* The regions an image has of its own, on either platform.
Own(r) ==
  { Measured(ZERO_PAGE, RESERVED, PAGE), Measured(CMDLINE, RESERVED, PAGE),
    Measured(ACPI_BASE, ACPI, PAGE), Measured(MAILBOX, RESERVED, PAGE),
    Host(SNP_CPUID), Host(SNP_SECRETS), Measured(SNP_CC_BLOB, RAM, PAGE),
    Measured(PAGE_TABLES, RESERVED, 2 * PAGE), Measured(PAGE_TABLES, RESERVED, 3 * PAGE),
    Measured(BSP_STACK, RESERVED, BSP_STACK_SIZE), Measured(SNP_GHCB, RESERVED, PAGE),
    Measured(SHIM_BASE, RESERVED, PAGE),
    Measured(KERNEL_SETUP_BASE, RESERVED, KERNEL_SETUP_AREA_SIZE),
    Measured(KERNEL_BASE, RAM, r.kernel), Measured(INITRAMFS_BASE, RAM, r.initramfs),
    Measured(RESET_ALIAS, RESERVED, PAGE) }

OwnPlaced(r) == IF r.platform = "tdx" THEN TdxPlaced(r) ELSE SnpPlaced(r)

\* Those of them that are a blank page: what is written there later is as long.
OwnBlanks(r) ==
  IF r.platform = "tdx" THEN {ZERO_PAGE, MAILBOX, RESET_ALIAS} ELSE {ZERO_PAGE, SNP_GHCB, SHIM_BASE}

\* Each is a region of the map.
LEMMA OwnRegions ==
  ASSUME NEW r \in Requests, ParamsOK(r)
  PROVE  Own(r) \subseteq Region
<1>1. r.kernel \in U64 /\ r.initramfs \in U64
  BY Numbers
<1>2. ASSUME NEW base \in 0 .. RESET_ALIAS, NEW kind \in {ABSENT, RAM, RESERVED, ACPI}, NEW len \in U64
      PROVE  Measured(base, kind, len) \in Region /\ Host(base) \in Region
  BY PageAssumption, WordAssumption
  DEF Measured, Host, Region, U64, RESET_ALIAS, MAP_LIMIT, GIB, ABSENT, RAM, RESERVED, ACPI
<1>3. /\ PAGE \in U64 /\ 2 * PAGE \in U64 /\ 3 * PAGE \in U64
      /\ BSP_STACK_SIZE \in U64 /\ KERNEL_SETUP_AREA_SIZE \in U64
  BY PageAssumption, WordAssumption
  DEF U64, BSP_STACK_SIZE, KERNEL_SETUP_AREA_SIZE, MAP_LIMIT, GIB
<1>4. {ZERO_PAGE, CMDLINE, ACPI_BASE, MAILBOX, SNP_CPUID, SNP_SECRETS, SNP_CC_BLOB, PAGE_TABLES,
       BSP_STACK, SNP_GHCB, SHIM_BASE, KERNEL_SETUP_BASE, KERNEL_BASE, INITRAMFS_BASE, RESET_ALIAS}
        \subseteq 0 .. RESET_ALIAS
  BY PageAssumption
  DEF ZERO_PAGE, CMDLINE, ACPI_BASE, MAILBOX, SNP_CPUID, SNP_SECRETS, SNP_CC_BLOB, PAGE_TABLES,
      BSP_STACK, SNP_GHCB, SHIM_BASE, KERNEL_SETUP_BASE, KERNEL_BASE, INITRAMFS_BASE, RESET_ALIAS
<1> QED BY <1>1, <1>2, <1>3, <1>4 DEF Own

\* The map begins with them.
LEMMA OwnInOrder ==
  ASSUME NEW r \in Requests, ParamsOK(r)
  PROVE  /\ OwnPlaced(r) \in Seq(Own(r))
         /\ OwnPlaced(r) \in Seq(Region)
         /\ \A base \in OwnBlanks(r) :
              \E i \in DOMAIN OwnPlaced(r) : OwnPlaced(r)[i] = Measured(base, RESERVED, PAGE)
<1>1. TdxPlaced(r) \in Seq(Own(r))
  BY DEF TdxPlaced, Own
<1>2. SnpPlaced(r) \in Seq(Own(r))
  BY DEF SnpPlaced, Own
<1>3. \A base \in OwnBlanks(r) :
        \E i \in DOMAIN OwnPlaced(r) : OwnPlaced(r)[i] = Measured(base, RESERVED, PAGE)
  <2>1. /\ 1 \in DOMAIN TdxPlaced(r) /\ TdxPlaced(r)[1] = Measured(ZERO_PAGE, RESERVED, PAGE)
        /\ 4 \in DOMAIN TdxPlaced(r) /\ TdxPlaced(r)[4] = Measured(MAILBOX, RESERVED, PAGE)
        /\ 10 \in DOMAIN TdxPlaced(r) /\ TdxPlaced(r)[10] = Measured(RESET_ALIAS, RESERVED, PAGE)
    BY DEF TdxPlaced
  <2>2. /\ 1 \in DOMAIN SnpPlaced(r) /\ SnpPlaced(r)[1] = Measured(ZERO_PAGE, RESERVED, PAGE)
        /\ 9 \in DOMAIN SnpPlaced(r) /\ SnpPlaced(r)[9] = Measured(SNP_GHCB, RESERVED, PAGE)
        /\ 10 \in DOMAIN SnpPlaced(r) /\ SnpPlaced(r)[10] = Measured(SHIM_BASE, RESERVED, PAGE)
    BY DEF SnpPlaced
  <2> QED BY <2>1, <2>2 DEF OwnPlaced, OwnBlanks
<1>4. OwnPlaced(r) \in Seq(Own(r))
  BY <1>1, <1>2 DEF OwnPlaced
<1>5. OwnPlaced(r) \in Seq(Region)
  BY <1>4, OwnRegions
<1> QED BY <1>3, <1>4, <1>5 DEF OwnPlaced

\* The whole map: those regions, then the apertures, and nothing else.
LEMMA MapOf ==
  ASSUME NEW r \in Requests, ParamsOK(r)
  PROVE  /\ PlacedFor(r) \in Seq(Region)
         /\ \A i \in DOMAIN PlacedFor(r) :
              \/ PlacedFor(r)[i] \in Own(r)
              \/ \E n \in DOMAIN Apertures(r) :
                   PlacedFor(r)[i] = Mmio(Apertures(r)[n][1], Apertures(r)[n][2])
         /\ \A n \in DOMAIN Apertures(r) : \E i \in DOMAIN PlacedFor(r) :
              PlacedFor(r)[i] = Mmio(Apertures(r)[n][1], Apertures(r)[n][2])
         /\ \A base \in OwnBlanks(r) : \E i \in DOMAIN PlacedFor(r) :
              PlacedFor(r)[i] = Measured(base, RESERVED, PAGE)
<1> DEFINE own == OwnPlaced(r)
           holes == MmioPlaced(r)
           all == PlacedFor(r)
<1>1. /\ own \in Seq(Own(r)) /\ own \in Seq(Region)
      /\ Len(own) \in Nat /\ DOMAIN own = 1 .. Len(own)
  BY OwnInOrder, LenProperties
<1>2. ASSUME NEW n \in DOMAIN Apertures(r)
      PROVE  /\ Apertures(r)[n] \in U64 \X U64
             /\ Mmio(Apertures(r)[n][1], Apertures(r)[n][2]) \in Region
  <2>1. Apertures(r)[n] \in U64 \X U64
    BY AperturesOf, ElementOfSeq
  <2>2. Apertures(r)[n][1] \in 0 .. WORD - 1 /\ Apertures(r)[n][2] \in 0 .. WORD - 1
    BY <2>1 DEF U64
  <2> QED BY <2>1, <2>2 DEF Mmio, Region, ABSENT
<1>3. /\ Len(Apertures(r)) \in Nat /\ DOMAIN Apertures(r) = 1 .. Len(Apertures(r))
      /\ DOMAIN holes = DOMAIN Apertures(r)
  BY AperturesOf, LenProperties DEF MmioPlaced
<1>4. /\ holes \in Seq(Region) /\ Len(holes) = Len(Apertures(r))
      /\ \A n \in DOMAIN Apertures(r) :
           holes[n] = Mmio(Apertures(r)[n][1], Apertures(r)[n][2])
  <2>1. holes = [n \in 1 .. Len(Apertures(r)) |-> Mmio(Apertures(r)[n][1], Apertures(r)[n][2])]
    BY <1>3 DEF MmioPlaced
  <2>2. \A n \in 1 .. Len(Apertures(r)) :
          Mmio(Apertures(r)[n][1], Apertures(r)[n][2]) \in Region
    BY <1>2, <1>3
  <2>3. holes \in [1 .. Len(Apertures(r)) -> Region]
    BY <2>1, <2>2
  <2>4. holes \in Seq(Region)
    BY <1>3, <2>3
  <2>5. Len(holes) \in Nat /\ DOMAIN holes = 1 .. Len(holes)
    BY <2>4, LenProperties
  <2> HIDE DEF holes
  <2>6. Len(holes) = Len(Apertures(r))
    BY <1>3, <2>3, <2>5
  <2> QED BY <1>3, <2>1, <2>4, <2>6
<1>5. all = own \o holes
  BY DEF PlacedFor, OwnPlaced
<1> HIDE DEF own, holes, all
<1>6. /\ all \in Seq(Region) /\ DOMAIN all = 1 .. Len(own) + Len(holes)
      /\ \A i \in 1 .. Len(own) + Len(holes) :
           all[i] = IF i <= Len(own) THEN own[i] ELSE holes[i - Len(own)]
  <2>1. all \in Seq(Region) /\ Len(all) = Len(own) + Len(holes)
    BY <1>1, <1>4, <1>5, ConcatProperties
  <2>2. \A i \in 1 .. Len(all) : all[i] = IF i <= Len(own) THEN own[i] ELSE holes[i - Len(own)]
    BY <1>1, <1>4, <1>5, ConcatProperties
  <2> QED BY <2>1, <2>2, LenProperties
<1>7. ASSUME NEW i \in DOMAIN all
      PROVE  \/ all[i] \in Own(r)
             \/ \E n \in DOMAIN Apertures(r) :
                  all[i] = Mmio(Apertures(r)[n][1], Apertures(r)[n][2])
  <2>1. CASE i <= Len(own)
    <3>1. i \in DOMAIN own /\ all[i] = own[i]
      BY <1>1, <1>6, <2>1
    <3> QED BY <1>1, <3>1, ElementOfSeq
  <2>2. CASE ~(i <= Len(own))
    <3>1. i - Len(own) \in DOMAIN Apertures(r) /\ all[i] = holes[i - Len(own)]
      BY <1>1, <1>3, <1>4, <1>6, <2>2
    <3> QED BY <1>4, <3>1
  <2> QED BY <2>1, <2>2
<1>8. ASSUME NEW n \in DOMAIN Apertures(r)
      PROVE  \E i \in DOMAIN all : all[i] = Mmio(Apertures(r)[n][1], Apertures(r)[n][2])
  <2>1. n + Len(own) \in DOMAIN all /\ all[n + Len(own)] = holes[n]
    BY <1>1, <1>3, <1>4, <1>6
  <2> QED BY <1>4, <2>1
<1>9. ASSUME NEW i \in DOMAIN own PROVE i \in DOMAIN all /\ all[i] = own[i]
  BY <1>1, <1>3, <1>4, <1>6
<1>10. \A base \in OwnBlanks(r) : \E i \in DOMAIN all : all[i] = Measured(base, RESERVED, PAGE)
  BY <1>9, OwnInOrder DEF own
<1> QED BY <1>6, <1>7, <1>8, <1>10 DEF all

\* The top of memory is the end of a page.
LEMMA WholeTop ==
  ASSUME NEW r \in Requests, ParamsOK(r)
  PROVE  IsMultiple(MemoryTop(r), PAGE)
<1>1. r.ram \in Nat /\ r.ram % PAGE = 0
  BY Numbers DEF ParamsOK, IsMultiple
<1> DEFINE q == r.ram \div PAGE
<1>2. q \in Nat /\ r.ram = q * PAGE
  BY <1>1, PageAssumption
<1>3. MemoryTop(r) = q * PAGE \/ MemoryTop(r) = (q + 524288) * PAGE
  <2> HIDE DEF q
  <2>1. FOUR_GIB + r.ram - Q35_LOWMEM = (q + 524288) * PAGE
    BY <1>2, PageAssumption DEF FOUR_GIB, Q35_LOWMEM, GIB
  <2> QED BY <1>2, <2>1 DEF MemoryTop
<1>4. \A k \in Nat : (k * PAGE) % PAGE = 0
  BY PageAssumption
<1>5. q + 524288 \in Nat
  BY <1>2
<1> HIDE DEF q
<1> QED BY <1>2, <1>3, <1>4, <1>5 DEF IsMultiple

\* The map of a request is what Placement and Image take every map to be.
LEMMA BuiltFor ==
  ASSUME NEW r \in Requests, ParamsOK(r), PrepareOK(r)
  PROVE  /\ BuiltMap(PlacedFor(r), MemoryTop(r), OwnBlanks(r))
         /\ r.initramfs # 0 =>
              \A i \in DOMAIN PlacedFor(r) : PlacedFor(r)[i].e820 = RAM => PlacedFor(r)[i].len > 0
<1>1. ASSUME NEW i \in DOMAIN PlacedFor(r)
      PROVE  /\ PlacedFor(r)[i].fill = "host" => PlacedFor(r)[i].e820 = RESERVED
             /\ PlacedFor(r)[i].fill = "mmio" =>
                  PlacedFor(r)[i].e820 = ABSENT /\ IsMultiple(PlacedFor(r)[i].len, PAGE)
             /\ r.initramfs # 0 => (PlacedFor(r)[i].e820 = RAM => PlacedFor(r)[i].len > 0)
  <2>1. CASE PlacedFor(r)[i] \in Own(r)
    <3>1. r.kernel > 0 /\ (r.initramfs # 0 => r.initramfs > 0) /\ PAGE > 0
      <4>1. r.kernel > ENTRY_64_OFFSET
        BY DEF PrepareOK, BzImageOK
      <4>2. ENTRY_64_OFFSET \in Nat
        BY PageAssumption DEF ENTRY_64_OFFSET
      <4>3. r.kernel \in Nat /\ r.initramfs \in Nat
        BY Numbers, WordAssumption DEF U64
      <4> QED BY <4>1, <4>2, <4>3, PageAssumption
    <3> QED BY <2>1, <3>1 DEF Own, Measured, Host, RAM, RESERVED, ACPI
  <2>2. CASE PlacedFor(r)[i] \notin Own(r)
    <3>1. PICK n \in DOMAIN Apertures(r) : PlacedFor(r)[i] = Mmio(Apertures(r)[n][1], Apertures(r)[n][2])
      BY <2>2, MapOf
    <3>2. IsMultiple(Apertures(r)[n][2], PAGE)
      BY DEF ParamsOK, ApertureOK
    <3> QED BY <3>1, <3>2 DEF Mmio, ABSENT, RAM
  <2> QED BY <2>1, <2>2
<1>2. \A base \in OwnBlanks(r) :
        \E i \in DOMAIN PlacedFor(r) : PlacedFor(r)[i] = Measured(base, RESERVED, PAGE)
  BY MapOf
<1>3. IsMultiple(MemoryTop(r), PAGE)
  BY WholeTop
<1> QED BY <1>1, <1>2, <1>3 DEF BuiltMap

-----------------------------------------------------------------------------
(* Where the pages of the image lie.                                       *)

\* Where the pages of one of its regions end.
EndOf(p) == p.base + (IF p.fill = "host" THEN PAGE ELSE align_up(p.len, PAGE))

\* The pages of a region stay within its span, and fill it if it has any.
LEMMA OwnPages ==
  ASSUME NEW r \in Requests, ParamsOK(r), PrepareOK(r), NEW p \in Own(r)
  PROVE  /\ p \in Region /\ p.fill \in {"measured", "host"} /\ p.e820 # ABSENT
         /\ EndOf(p) \in Nat
         /\ p.base <= EndOf(p) /\ EndOf(p) <= p.base + Span(p)
         /\ r.initramfs # 0 => EndOf(p) = p.base + Span(p)
<1>1. p \in Region
  BY OwnRegions
<1>2. p.fill \in {"measured", "host"} /\ p.e820 # ABSENT
  BY DEF Own, Measured, Host, ABSENT, RAM, RESERVED, ACPI
<1>3. p.base \in Nat /\ p.len \in Nat
  BY <1>1, WordAssumption DEF Region
<1>4. r.kernel > 0
  BY Numbers, PageAssumption DEF PrepareOK, BzImageOK, ENTRY_64_OFFSET, U64
<1>5. r.initramfs # 0 /\ p.fill = "measured" => p.len > 0
  <2>1. r.initramfs \in Nat
    BY Numbers, WordAssumption DEF U64
  <2>2. PAGE > 0 /\ BSP_STACK_SIZE > 0 /\ KERNEL_SETUP_AREA_SIZE > 0
    BY PageAssumption DEF BSP_STACK_SIZE, KERNEL_SETUP_AREA_SIZE
  <2> QED BY <1>4, <2>1, <2>2, PageAssumption DEF Own, Measured, Host
<1>6. CASE p.fill = "host"
  BY <1>1, <1>2, <1>3, <1>6, PageAssumption DEF EndOf, Span
<1>7. CASE p.fill = "measured"
  <2>1. EndOf(p) = p.base + align_up(p.len, PAGE)
    BY <1>7 DEF EndOf
  <2>2. Span(p) = Max2(align_up(p.len, PAGE), PAGE)
    BY <1>7 DEF Span
  <2>3. align_up(p.len, PAGE) \in Nat /\ (p.len > 0 => align_up(p.len, PAGE) >= PAGE)
    BY <1>3, AlignUp
  <2> QED BY <1>1, <1>2, <1>3, <1>5, <1>7, <2>1, <2>2, <2>3, PageAssumption DEF Max2
<1> QED BY <1>2, <1>6, <1>7

\* The small regions lie below the kernel, the kernel below the initramfs, and that
\* below the top of memory and below 4 GiB; the reset page alone is elsewhere.
LEMMA OwnOrder ==
  ASSUME NEW r \in Requests, ParamsOK(r), PrepareOK(r), NEW p \in Own(r)
  PROVE  \/ EndOf(p) <= KERNEL_BASE
         \/ p.base = KERNEL_BASE /\ EndOf(p) <= INITRAMFS_BASE
         \/ p.base = INITRAMFS_BASE /\ EndOf(p) <= MemoryTop(r) /\ EndOf(p) <= U32_MAX
         \/ p.base = RESET_ALIAS
<1>1. r.kernel \in Nat /\ r.initramfs \in Nat
  BY Numbers, WordAssumption DEF U64
<1>2. CASE p = Measured(KERNEL_BASE, RAM, r.kernel)
  <2>1. align_up(KERNEL_BASE + r.kernel, PAGE) = KERNEL_BASE + align_up(r.kernel, PAGE)
    BY <1>1, AlignBehind DEF KERNEL_BASE
  <2>2. EndOf(p) = KERNEL_BASE + align_up(r.kernel, PAGE) /\ p.base = KERNEL_BASE
    BY <1>2 DEF EndOf, Measured
  <2> QED BY <2>1, <2>2 DEF PrepareOK
<1>3. CASE p = Measured(INITRAMFS_BASE, RAM, r.initramfs)
  <2>1. align_up(INITRAMFS_BASE + r.initramfs, PAGE) = INITRAMFS_BASE + align_up(r.initramfs, PAGE)
    BY <1>1, AlignBehind DEF INITRAMFS_BASE
  <2>2. EndOf(p) = INITRAMFS_BASE + align_up(r.initramfs, PAGE) /\ p.base = INITRAMFS_BASE
    BY <1>3 DEF EndOf, Measured
  <2> QED BY <2>1, <2>2 DEF PrepareOK
<1>4. CASE p = Measured(RESET_ALIAS, RESERVED, PAGE)
  BY <1>4 DEF Measured
<1>5. CASE p.base <= 289 * PAGE /\ p.len <= 47 * PAGE
  <2>1. p.base \in Nat /\ p.len \in Nat /\ EndOf(p) \in Nat
    BY OwnPages, WordAssumption DEF Region
  <2>2. align_up(p.len, PAGE) \in Nat /\ align_up(p.len, PAGE) < p.len + PAGE
    BY <2>1, AlignUp
  <2> QED BY <1>5, <2>1, <2>2, PageAssumption DEF EndOf, KERNEL_BASE
<1>6. \/ p = Measured(KERNEL_BASE, RAM, r.kernel)
      \/ p = Measured(INITRAMFS_BASE, RAM, r.initramfs)
      \/ p = Measured(RESET_ALIAS, RESERVED, PAGE)
      \/ p.base <= 289 * PAGE /\ p.len <= 47 * PAGE
  BY PageAssumption
  DEF Own, Measured, Host, ZERO_PAGE, CMDLINE, ACPI_BASE, MAILBOX, SNP_CPUID, SNP_SECRETS,
      SNP_CC_BLOB, PAGE_TABLES, BSP_STACK, BSP_STACK_SIZE, SNP_GHCB, SHIM_BASE,
      KERNEL_SETUP_BASE, KERNEL_SETUP_AREA_SIZE
<1> QED BY <1>2, <1>3, <1>4, <1>5, <1>6

\* A region of the image's own ends far below 2^64.
LEMMA OwnSpans ==
  ASSUME NEW r \in Requests, ParamsOK(r), PrepareOK(r), NEW p \in Own(r)
  PROVE  p.base + Span(p) < WORD
<1>1. p.base \in Nat /\ p.len \in Nat /\ EndOf(p) \in Nat /\ p.fill \in {"measured", "host"}
  BY OwnPages, WordAssumption DEF Region
<1>2. MemoryTop(r) \in Nat /\ MemoryTop(r) <= MAP_LIMIT
  BY Numbers
<1>3. p.base = RESET_ALIAS => p.len = PAGE
  BY PageAssumption
  DEF Own, Measured, Host, ZERO_PAGE, CMDLINE, ACPI_BASE, MAILBOX, SNP_CPUID, SNP_SECRETS,
      SNP_CC_BLOB, PAGE_TABLES, BSP_STACK, SNP_GHCB, SHIM_BASE, KERNEL_SETUP_BASE,
      KERNEL_BASE, INITRAMFS_BASE, RESET_ALIAS
<1>4. align_up(p.len, PAGE) \in Nat /\ align_up(p.len, PAGE) < p.len + PAGE
  BY <1>1, AlignUp
<1>5. Span(p) \in Nat /\ p.base + Span(p) <= EndOf(p) + PAGE
  BY <1>1, <1>4, PageAssumption DEF Span, EndOf, Max2
<1>6. KERNEL_BASE <= MAP_LIMIT /\ INITRAMFS_BASE <= MAP_LIMIT /\ RESET_ALIAS + 2 * PAGE <= MAP_LIMIT
  BY PageAssumption DEF KERNEL_BASE, INITRAMFS_BASE, RESET_ALIAS, MAP_LIMIT, GIB
<1>7. /\ KERNEL_BASE \in Nat /\ INITRAMFS_BASE \in Nat /\ RESET_ALIAS \in Nat
      /\ MAP_LIMIT \in Nat /\ PAGE < MAP_LIMIT
  BY PageAssumption DEF KERNEL_BASE, INITRAMFS_BASE, RESET_ALIAS, MAP_LIMIT, GIB
<1>8. EndOf(p) <= MAP_LIMIT
  <2>1. CASE p.base = RESET_ALIAS
    <3>1. EndOf(p) <= RESET_ALIAS + 2 * PAGE
      BY <1>1, <1>3, <1>4, <1>7, <2>1, PageAssumption DEF EndOf
    <3> QED BY <1>1, <1>6, <1>7, <3>1, PageAssumption
  <2>2. CASE p.base # RESET_ALIAS
    <3>1. \/ EndOf(p) <= KERNEL_BASE \/ EndOf(p) <= INITRAMFS_BASE \/ EndOf(p) <= MemoryTop(r)
      BY <2>2, OwnOrder
    <3> QED BY <1>1, <1>2, <1>6, <1>7, <3>1
  <2> QED BY <2>1, <2>2
<1> QED BY <1>1, <1>5, <1>7, <1>8, PageAssumption, WordAssumption

\* The end of each declared aperture, in whole numbers.
HolesEnd(r) == \A k \in DOMAIN r.mmio : r.mmio[k][1] + r.mmio[k][2] < WORD

\* So nothing of a map wraps but an aperture that was declared so.
LEMMA OnlyHolesWrap ==
  ASSUME NEW r \in Requests, ParamsOK(r), PrepareOK(r), HolesEnd(r), NEW i \in DOMAIN PlacedFor(r)
  PROVE  PlacedFor(r)[i].base + Span(PlacedFor(r)[i]) < WORD
<1>1. CASE PlacedFor(r)[i] \in Own(r)
  BY <1>1, OwnSpans
<1>2. CASE PlacedFor(r)[i] \notin Own(r)
  <2>1. PICK n \in DOMAIN Apertures(r) : PlacedFor(r)[i] = Mmio(Apertures(r)[n][1], Apertures(r)[n][2])
    BY <1>2, MapOf
  <2>2. /\ PlacedFor(r)[i].base = Apertures(r)[n][1]
        /\ Span(PlacedFor(r)[i]) = Apertures(r)[n][2]
    BY <2>1 DEF Mmio, Span
  <2>3. CASE Apertures(r)[n] = Hole(r)
    <3>1. HoleEnd(r) \in Nat /\ HoleEnd(r) <= FOUR_GIB
      BY Numbers
    <3>2. Apertures(r)[n][1] + Apertures(r)[n][2] = HoleEnd(r)
      BY <2>3, <3>1, PageAssumption DEF Hole, Q35_LOWMEM, GIB
    <3>3. FOUR_GIB \in Nat /\ FOUR_GIB <= MAP_LIMIT /\ MAP_LIMIT \in Nat
      BY PageAssumption DEF FOUR_GIB, MAP_LIMIT, GIB
    <3> QED BY <2>2, <3>1, <3>2, <3>3, WordAssumption
  <2>4. CASE \E k \in DOMAIN r.mmio : Apertures(r)[n] = r.mmio[k]
    BY <2>2, <2>4 DEF HolesEnd
  <2> QED BY <2>3, <2>4, AperturesOf
<1> QED BY <1>1, <1>2

-----------------------------------------------------------------------------
(* The invariant.                                                          *)

Deriving == {"validate", "e820", "zero_page", "accept", "shim"}

\* The checks on the options passed.
Asked == step \notin {"params", "error"} => ParamsOK(req)

\* Nothing is derived before the map is placed.
Unplaced == step \in {"params", "svn", "config", "prepare"} => e820 = <<>> /\ accept = <<>>

\* The checks on the files passed, and the map is that of the request.
Laid ==
  step \in Deriving \/ Mapped =>
    PrepareOK(req) /\ placed = PlacedFor(req) /\ memory = MemoryTop(req)

\* What the derivations promise of the map and of the finished lists.
MapFacts ==
  NoWrap =>
    /\ \A i, j \in DOMAIN placed : i # j => Disjoint(i, j)
    /\ \A a \in Addrs, kind \in {RAM, RESERVED, ACPI} :
         Listed(a, {kind}) <=> a < memory /\ KindAt(a, kind)
    /\ \A a \in Addrs :
         Accepted(a) <=> a < memory /\ ~ \E i \in DOMAIN placed : Covers(i, a)

\* Both lists fit.
Fits ==
  /\ step \in {"accept", "shim"} \/ Mapped => Len(e820) <= E820_MAX
  /\ Mapped => ShimBytes(accept) <= SHIM_DATA_SIZE

\* The files are written one after the other, once everything else is done.
OnDisk ==
  /\ step \notin {"manifest", "done", "error"} => disk.image = "old" /\ disk.manifest = "old"
  /\ step = "manifest" => disk.image = "new" /\ disk.manifest = "old"

BuildInv ==
  /\ BuildTypeOK
  /\ at \in Nat
  /\ Asked
  /\ Unplaced
  /\ Laid
  /\ step \in Deriving => PlacementInv
  /\ Mapped => MapFacts
  /\ Fits
  /\ OnDisk
  /\ ManifestFollowsImage

-----------------------------------------------------------------------------
(* The checks.                                                             *)

\* At the start nothing is checked, placed or written.
LEMMA BuildInitInv == BuildInit => BuildInv
<1> SUFFICES ASSUME BuildInit PROVE BuildInv
  OBVIOUS
<1>1. BuildTypeOK
  BY WordAssumption, PageAssumption
  DEF BuildInit, BuildTypeOK, BuildSteps, MAP_LIMIT, GIB
<1> QED BY <1>1 DEF BuildInit, BuildInv, Asked, Unplaced, Laid, Deriving, Mapped, Fits, OnDisk, ManifestFollowsImage

\* What was promised of the lists is kept as long as they are.
LEMMA SameLists ==
  ASSUME MapFacts, UNCHANGED <<placed, memory, e820, accept>>
  PROVE  MapFacts'
BY DEF MapFacts, NoWrap, Disjoint, Listed, EntryCovers, Accepted, RangeCovers, KindAt, Covers, Hi, Lo

\* A step that only moves on keeps everything, if it moves where its checks allow.
LEMMA GotoInv ==
  ASSUME BuildInv, NEW name \in {"svn", "config", "prepare", "sign", "write", "error"}, Goto(name),
         step \notin {"manifest", "done", "error"},
         name # "error" => ParamsOK(req),
         name \in {"sign", "write"} => Mapped,
         name \in {"svn", "config", "prepare"} => step \in {"params", "svn", "config"}
  PROVE  BuildInv'
<1>1. /\ step' = name /\ UNCHANGED <<placed, memory, todo, at, e820, accept, req, disk>>
      /\ name \in BuildSteps
  BY DEF Goto, mapVars, buildVars, BuildSteps
<1>2. BuildTypeOK' /\ at' \in Nat
  BY <1>1 DEF BuildInv, BuildTypeOK
<1>3. Asked' /\ Unplaced'
  BY <1>1 DEF BuildInv, Asked, Unplaced
<1>4. Mapped' => Mapped
  BY <1>1 DEF Mapped
<1>5. step' \notin Deriving \cup {"manifest", "done", "accept", "shim"}
  BY <1>1 DEF Deriving
<1>6. Laid'
  BY <1>1, <1>4, <1>5 DEF BuildInv, Laid
<1>7. MapFacts => MapFacts'
  BY <1>1, SameLists
<1>8. Fits'
  BY <1>1, <1>4, <1>5 DEF BuildInv, Fits
<1>9. OnDisk' /\ ManifestFollowsImage'
  BY <1>1, <1>5 DEF BuildInv, OnDisk, ManifestFollowsImage
<1> QED BY <1>2, <1>3, <1>4, <1>5, <1>6, <1>7, <1>8, <1>9 DEF BuildInv

\* StartInv, of the state a step leads to.
LEMMA StartInvNext == Start' => PlacementInv'
BY StartInv, PTL

\* The map of a request that passed every check can be derived from.
LEMMA PlaceInv == ASSUME BuildInv, Place PROVE BuildInv'
<1>1. /\ step = "prepare" /\ PrepareOK(req)
      /\ placed' = PlacedFor(req) /\ memory' = MemoryTop(req)
      /\ step' = "validate" /\ todo' = DOMAIN placed' /\ at' = 0
      /\ UNCHANGED <<e820, accept, req, disk>>
  BY DEF Place, buildVars
<1>2. req \in Requests /\ ParamsOK(req)
  BY <1>1 DEF BuildInv, BuildTypeOK, Asked
<1>3. placed' \in Seq(Region) /\ memory' \in Nat /\ memory' <= MAP_LIMIT
  BY <1>1, <1>2, MapOf, Numbers
<1>4. e820 \in Seq([base: Nat, size: Nat, kind: {RAM, RESERVED, ACPI}]) /\ accept \in Seq(Nat \X Nat)
  BY DEF BuildInv, BuildTypeOK
<1>5. memory' \in 0 .. MAP_LIMIT
  BY <1>3, PageAssumption DEF MAP_LIMIT, GIB
<1>6. BuildTypeOK'
  BY <1>1, <1>3, <1>4, <1>5 DEF BuildInv, BuildTypeOK, BuildSteps
<1>7. Start'
  BY <1>1, <1>3, <1>4, <1>6 DEF BuildInv, Unplaced, BuildTypeOK, Start, TypeOK
<1>8. PlacementInv'
  BY <1>7, StartInvNext
<1>9. OnDisk' /\ ManifestFollowsImage'
  BY <1>1 DEF BuildInv, OnDisk, ManifestFollowsImage
<1> QED BY <1>1, <1>2, <1>6, <1>8, <1>9 DEF BuildInv, Asked, Unplaced, Laid, Mapped, Fits

-----------------------------------------------------------------------------
(* The derivations.                                                        *)

\* Where the loops can go, and what they leave alone.
LEMMA DeriveStep ==
  ASSUME Derive
  PROVE  /\ [Next]_vars
         /\ UNCHANGED <<placed, memory, req, disk>>
         /\ step \in Deriving
         /\ step' \in Deriving \cup {"built", "error"}
         /\ step' = "accept" =>
              e820' = e820 /\ (step = "accept" \/ (step = "zero_page" /\ Len(e820) <= E820_MAX))
         /\ step' \in {"shim", "built"} => e820' = e820 /\ step \in {"accept", "shim"}
         /\ step' = "built" => ShimBytes(accept') <= SHIM_DATA_SIZE
<1>1. UNCHANGED <<req, disk>>
  BY DEF Derive, buildVars
<1>2. CASE Validate
  BY <1>1, <1>2
  DEF Validate, ValidateDone, RejectRegion, ValidateNext, RejectOverlap, StartLoop, Next, mapVars,
      Deriving
<1>3. CASE E820
  BY <1>1, <1>3
  DEF E820, E820Done, ZeroPage, RejectE820, E820Next, StartLoop, Next, mapVars, Deriving
<1>4. CASE Accept
  BY <1>1, <1>4
  DEF Accept, AcceptDone, ShimDone, RejectShim, AcceptNext, Next, mapVars, Deriving
<1> QED BY <1>2, <1>3, <1>4 DEF Derive

BothListed == PlacementInv /\ step = "built"

\* Once both lists are finished, the derivations' own invariant says what they are.
LEMMA FinishedFacts == BothListed => MapFacts
<1> SUFFICES ASSUME PlacementInv, step = "built" PROVE MapFacts
  BY DEF BothListed
<1>1. /\ NoWrap => \A i, j \in DOMAIN placed : i # j => Disjoint(i, j)
      /\ NoWrap => \A a \in Addrs, kind \in {RAM, RESERVED, ACPI} :
           (\E n \in DOMAIN e820 : EntryCovers(n, a) /\ e820[n].kind = kind)
             <=> a < memory /\ KindAt(a, kind)
      /\ NoWrap => \A a \in Addrs :
           (\E n \in DOMAIN accept : RangeCovers(n, a))
             <=> a < memory /\ ~ \E i \in DOMAIN placed : Covers(i, a)
  BY LimitsAssumption DEF PlacementInv, Safety, ValidatedDisjoint, E820ExactOn, AcceptExactOn
<1>2. \A a, kind : Listed(a, {kind}) <=>
        \E n \in DOMAIN e820 : EntryCovers(n, a) /\ e820[n].kind = kind
  BY DEF Listed
<1> QED BY <1>1, <1>2 DEF MapFacts, Accepted

\* FinishedFacts, of the state a step leads to.
LEMMA FinishedFactsNext == BothListed' => MapFacts'
BY FinishedFacts, PTL

\* The loops preserve the invariant.
LEMMA DeriveInv == ASSUME BuildInv, Derive PROVE BuildInv'
<1>1. PlacementInv'
  BY DeriveStep, NextInv DEF BuildInv
<1>2. TypeOK' /\ at' \in Nat
  BY <1>1 DEF PlacementInv, TypeOK
<1>3. BuildTypeOK'
  BY <1>2, DeriveStep DEF BuildInv, BuildTypeOK, TypeOK, BuildSteps, Deriving
<1>4. Asked' /\ Unplaced' /\ Laid'
  BY DeriveStep DEF BuildInv, Asked, Unplaced, Laid, Deriving, Mapped
<1>5. Mapped' => MapFacts'
  <2>1. Mapped' => step' = "built"
    BY DeriveStep DEF Mapped, Deriving
  <2> QED BY <1>1, <2>1, FinishedFactsNext DEF BothListed
<1>6. Fits'
  BY DeriveStep DEF BuildInv, Fits, Mapped, Deriving
<1>7. OnDisk' /\ ManifestFollowsImage'
  BY DeriveStep DEF BuildInv, OnDisk, ManifestFollowsImage, Deriving
<1> QED BY <1>1, <1>2, <1>3, <1>4, <1>5, <1>6, <1>7 DEF BuildInv

-----------------------------------------------------------------------------
(* The files.                                                              *)

\* Writing, whole or in part, only happens when everything has been checked.
LEMMA WriteInv ==
  ASSUME BuildInv, WriteImage \/ WriteManifest \/ WriteFails
  PROVE  BuildInv'
<1>1. /\ UNCHANGED <<placed, memory, todo, at, e820, accept, req>>
      /\ \/ step = "write" /\ step' = "manifest" /\ disk' = [disk EXCEPT !.image = "new"]
         \/ step = "manifest" /\ step' = "done" /\ disk' = [disk EXCEPT !.manifest = "new"]
         \/ /\ step = "write" /\ step' = "error"
            /\ \E s \in {"old", "torn"} : disk' = [disk EXCEPT !.image = s]
         \/ /\ step = "manifest" /\ step' = "error"
            /\ \E s \in {"old", "torn"} : disk' = [disk EXCEPT !.manifest = s]
  BY DEF WriteImage, WriteManifest, WriteFails, mapVars
<1>2. disk \in [image: {"old", "torn", "new"}, manifest: {"old", "torn", "new"}]
  BY DEF BuildInv, BuildTypeOK
<1>3. disk' \in [image: {"old", "torn", "new"}, manifest: {"old", "torn", "new"}]
  BY <1>1, <1>2
<1>4. BuildTypeOK' /\ at' \in Nat
  BY <1>1, <1>3 DEF BuildInv, BuildTypeOK, BuildSteps
<1>5. Mapped /\ step' \notin Deriving
  BY <1>1 DEF Mapped, Deriving
<1>6. Asked' /\ Unplaced' /\ Laid'
  BY <1>1, <1>5 DEF BuildInv, Asked, Unplaced, Laid
<1>7. MapFacts'
  BY <1>1, <1>5, SameLists DEF BuildInv
<1>8. Fits'
  BY <1>1, <1>5 DEF BuildInv, Fits
<1>9. OnDisk'
  BY <1>1, <1>2 DEF BuildInv, OnDisk
<1>10. ParamsOK(req) /\ PrepareOK(req) /\ Len(e820) <= E820_MAX /\ ShimBytes(accept) <= SHIM_DATA_SIZE
  BY <1>1, <1>5 DEF BuildInv, Asked, Laid, Fits
<1>11. ManifestFollowsImage'
  BY <1>1, <1>2, <1>10 DEF BuildInv, OnDisk, ManifestFollowsImage
<1> QED BY <1>4, <1>5, <1>6, <1>7, <1>8, <1>9, <1>11 DEF BuildInv

\* Every step of the command preserves the invariant.
LEMMA BuildNextInv == BuildInv /\ [BuildNext]_allVars => BuildInv'
<1> SUFFICES ASSUME BuildInv, [BuildNext]_allVars PROVE BuildInv'
  OBVIOUS
<1>1. CASE CheckParams
  BY <1>1, GotoInv DEF CheckParams
<1>2. CASE CheckSvn
  BY <1>2, GotoInv DEF CheckSvn, BuildInv, Asked
<1>3. CASE CheckConfig
  BY <1>3, GotoInv DEF CheckConfig, BuildInv, Asked
<1>4. CASE RejectPrepare
  BY <1>4, GotoInv DEF RejectPrepare
<1>5. CASE ReadFails
  BY <1>5, GotoInv DEF ReadFails
<1>6. CASE Assemble
  BY <1>6, GotoInv DEF Assemble, Mapped, BuildInv, Asked
<1>7. CASE Sign
  BY <1>7, GotoInv DEF Sign, Mapped, BuildInv, Asked
<1>8. CASE UNCHANGED allVars
  <2>1. UNCHANGED vars /\ UNCHANGED <<placed, memory, step, todo, at, e820, accept, req, disk>>
    BY <1>8 DEF allVars, vars
  <2>2. BuildTypeOK' /\ at' \in Nat /\ Asked' /\ Unplaced' /\ Laid' /\ Fits' /\ OnDisk'
    BY <2>1 DEF BuildInv, BuildTypeOK, Asked, Unplaced, Laid, Fits, OnDisk, Mapped
  <2>3. (step \in Deriving => PlacementInv)'
    BY <2>1, StutterInv DEF BuildInv
  <2>4. (Mapped => MapFacts)'
    BY <2>1, SameLists DEF BuildInv, Mapped
  <2>5. ManifestFollowsImage'
    BY <2>1 DEF BuildInv, ManifestFollowsImage
  <2> QED BY <2>2, <2>3, <2>4, <2>5 DEF BuildInv
<1> QED BY <1>1, <1>2, <1>3, <1>4, <1>5, <1>6, <1>7, <1>8, PlaceInv, DeriveInv, WriteInv
        DEF BuildNext, Check, Publish, Exited

-----------------------------------------------------------------------------
(* The properties of the finished lists.                                   *)

\* A region of the map is one of the image's own, imported page by page, or an aperture.
LEMMA Regions ==
  ASSUME BuildInv, Mapped
  PROVE  /\ req \in Requests /\ ParamsOK(req) /\ PrepareOK(req)
         /\ placed = PlacedFor(req) /\ memory = MemoryTop(req) /\ placed \in Seq(Region)
         /\ \A i \in DOMAIN placed :
              /\ Lo(i) \in Nat /\ Hi(i) \in Nat /\ placed[i].base = Lo(i)
              /\ NoWrap => Hi(i) = Lo(i) + Span(placed[i]) /\ Span(placed[i]) \in Nat
              /\ PagesEnd(placed[i]) = EndOf(placed[i])
              /\ placed[i] \in Own(req) => i \in Loaded
              /\ placed[i] \notin Own(req) =>
                   /\ i \notin Loaded /\ placed[i].e820 = ABSENT
                   /\ \E n \in DOMAIN Apertures(req) :
                        placed[i] = Mmio(Apertures(req)[n][1], Apertures(req)[n][2])
<1>1. /\ req \in Requests /\ ParamsOK(req) /\ PrepareOK(req)
      /\ placed = PlacedFor(req) /\ memory = MemoryTop(req) /\ placed \in Seq(Region)
  BY DEF BuildInv, BuildTypeOK, Asked, Laid, Mapped
<1>2. ASSUME NEW i \in DOMAIN placed
      PROVE  /\ Lo(i) \in Nat /\ Hi(i) \in Nat /\ placed[i].base = Lo(i)
             /\ NoWrap => Hi(i) = Lo(i) + Span(placed[i]) /\ Span(placed[i]) \in Nat
  <2>1. placed[i] \in Region /\ Lo(i) \in Nat /\ Hi(i) \in Nat
    BY <1>1, BoundsType
  <2>2. Span(placed[i]) \in Nat
    BY <2>1, SpanType
  <2> QED BY <2>1, <2>2 DEF NoWrap, Lo, Hi, Wrap
<1>3. ASSUME NEW i \in DOMAIN placed
      PROVE  PagesEnd(placed[i]) = EndOf(placed[i])
  BY DEF PagesEnd, EndOf
<1>4. ASSUME NEW i \in DOMAIN placed, placed[i] \in Own(req)
      PROVE  i \in Loaded
  BY <1>1, <1>4, OwnPages DEF Loaded
<1>5. ASSUME NEW i \in DOMAIN placed, placed[i] \notin Own(req)
      PROVE  /\ i \notin Loaded /\ placed[i].e820 = ABSENT
             /\ \E n \in DOMAIN Apertures(req) :
                  placed[i] = Mmio(Apertures(req)[n][1], Apertures(req)[n][2])
  <2>1. PICK n \in DOMAIN Apertures(req) :
          placed[i] = Mmio(Apertures(req)[n][1], Apertures(req)[n][2])
    BY <1>1, <1>5, MapOf
  <2> QED BY <2>1 DEF Loaded, Mmio
<1> QED BY <1>1, <1>2, <1>3, <1>4, <1>5

\* Without wrapping, what is imported is covered by a region of the image's own, and if
\* there is an initramfs all that such a region covers is imported.
LEMMA Imports ==
  ASSUME BuildInv, Mapped, NoWrap, NEW a \in Addrs
  PROVE  /\ Imported(a) => \E i \in Loaded : Covers(i, a)
         /\ req.initramfs # 0 =>
              \A i \in DOMAIN placed : placed[i] \in Own(req) /\ Covers(i, a) => Imported(a)
<1>1. a \in Nat /\ Loaded \subseteq DOMAIN placed
  BY LimitsAssumption DEF Loaded
<1>2. ASSUME NEW i \in Loaded
      PROVE  /\ Lo(i) \in Nat /\ Hi(i) \in Nat /\ PagesEnd(placed[i]) \in Nat
             /\ PagesEnd(placed[i]) <= Hi(i)
             /\ req.initramfs # 0 => PagesEnd(placed[i]) = Hi(i)
  <2>1. i \in DOMAIN placed
    BY <1>1
  <2>2. placed[i] \in Own(req)
    BY <2>1, Regions
  <2>3. /\ EndOf(placed[i]) \in Nat /\ EndOf(placed[i]) <= placed[i].base + Span(placed[i])
        /\ req.initramfs # 0 => EndOf(placed[i]) = placed[i].base + Span(placed[i])
    BY <2>2, OwnPages, Regions
  <2>4. /\ Lo(i) \in Nat /\ Hi(i) \in Nat /\ placed[i].base = Lo(i)
        /\ Hi(i) = Lo(i) + Span(placed[i]) /\ PagesEnd(placed[i]) = EndOf(placed[i])
    BY <2>1, Regions
  <2> QED BY <2>3, <2>4
<1>3. Imported(a) => \E i \in Loaded : Covers(i, a)
  BY <1>1, <1>2 DEF Imported, Covers
<1>4. ASSUME req.initramfs # 0, NEW i \in DOMAIN placed, placed[i] \in Own(req), Covers(i, a)
      PROVE  Imported(a)
  <2>1. i \in Loaded
    BY <1>4, Regions
  <2> QED BY <1>1, <1>2, <1>4, <2>1 DEF Imported, Covers
<1> QED BY <1>3, <1>4

\* What is listed as RAM lies in a gap, which is accepted, or in a region, which is imported.
LEMMA PrivateRam == BuildInv => RamIsPrivate
<1> SUFFICES ASSUME BuildInv, Mapped, NoWrap, req.initramfs # 0, NEW a \in Addrs, Listed(a, {RAM})
             PROVE  Accepted(a) \/ Imported(a)
  BY DEF RamIsPrivate
<1>1. a < memory /\ KindAt(a, RAM)
  BY DEF BuildInv, MapFacts
<1>2. CASE \E i \in DOMAIN placed : Covers(i, a)
  <2>1. PICK i \in DOMAIN placed : Covers(i, a) /\ placed[i].e820 = RAM
    BY <1>1, <1>2 DEF KindAt
  <2>2. placed[i] \in Own(req)
    BY <2>1, Regions DEF RAM, ABSENT
  <2> QED BY <2>1, <2>2, Imports
<1>3. CASE ~ \E i \in DOMAIN placed : Covers(i, a)
  BY <1>1, <1>3 DEF BuildInv, MapFacts
<1> QED BY <1>2, <1>3

\* What is accepted lies in no region, and what is imported in one.
LEMMA AcceptedOnce == BuildInv => NeverBoth
<1> SUFFICES ASSUME BuildInv, Mapped, NoWrap, NEW a \in Addrs, Accepted(a), Imported(a) PROVE FALSE
  BY DEF NeverBoth
<1>1. ~ \E i \in DOMAIN placed : Covers(i, a)
  BY DEF BuildInv, MapFacts
<1> QED BY <1>1, Imports DEF Loaded

\* Every region ends before the kernel begins or begins where it can no longer reach.
LEMMA KernelHasRoom == BuildInv => InitAreaFree
<1> SUFFICES ASSUME BuildInv, Mapped PROVE InitAreaFree
  BY DEF InitAreaFree
<1>1. req \in Requests /\ ParamsOK(req) /\ PrepareOK(req) /\ memory = MemoryTop(req)
  BY Regions
<1>2. /\ KERNEL_BASE + req.init_size <= INITRAMFS_BASE
      /\ req.init_size \in Nat /\ req.ram \in Nat /\ memory \in Nat
      /\ INITRAMFS_BASE < req.ram /\ req.ram <= memory
  BY <1>1, Numbers DEF PrepareOK, InitSizeFits
<1>3. KERNEL_BASE + req.init_size <= memory
  BY <1>2, PageAssumption DEF KERNEL_BASE, INITRAMFS_BASE
<1>4. ASSUME NEW i \in Loaded, placed[i].base # KERNEL_BASE
      PROVE  PagesEnd(placed[i]) <= KERNEL_BASE \/ Lo(i) >= KERNEL_BASE + req.init_size
  <2>1. i \in DOMAIN placed
    BY DEF Loaded
  <2>2. /\ placed[i] \in Own(req) /\ Lo(i) = placed[i].base
        /\ PagesEnd(placed[i]) = EndOf(placed[i])
    BY <2>1, Regions
  <2>3. EndOf(placed[i]) <= KERNEL_BASE \/ placed[i].base \in {INITRAMFS_BASE, RESET_ALIAS}
    BY <1>1, <1>4, <2>2, OwnOrder
  <2> QED BY <1>2, <2>2, <2>3, PageAssumption DEF KERNEL_BASE, INITRAMFS_BASE, RESET_ALIAS
<1> QED BY <1>3, <1>4 DEF InitAreaFree

\* Where RAM is split the map has an aperture from the low RAM's end to 4 GiB, or to the
\* reset page, which is then placed itself.
LEMMA TheHole ==
  ASSUME BuildInv, Mapped, NoWrap, Split(req)
  PROVE  /\ \E i \in DOMAIN placed :
              i \notin Loaded /\ Lo(i) = Q35_LOWMEM /\ Hi(i) = HoleEnd(req)
         /\ \A a \in Nat : Q35_LOWMEM <= a /\ a < FOUR_GIB => \E i \in DOMAIN placed : Covers(i, a)
<1>1. req \in Requests /\ ParamsOK(req) /\ placed = PlacedFor(req)
  BY Regions
<1>2. HoleEnd(req) \in Nat /\ Q35_LOWMEM < HoleEnd(req) /\ HoleEnd(req) <= FOUR_GIB
  BY <1>1, Numbers
<1>3. PICK n \in DOMAIN Apertures(req) : Apertures(req)[n] = Hole(req)
  BY <1>1, AperturesOf
<1>4. PICK i \in DOMAIN placed : placed[i] = Mmio(Apertures(req)[n][1], Apertures(req)[n][2])
  BY <1>1, MapOf
<1>5. placed[i] = Mmio(Q35_LOWMEM, HoleEnd(req) - Q35_LOWMEM)
  BY <1>3, <1>4 DEF Hole
<1>6. i \notin Loaded /\ placed[i].base = Q35_LOWMEM /\ Span(placed[i]) = HoleEnd(req) - Q35_LOWMEM
  BY <1>5 DEF Loaded, Mmio, Span
<1>7. Lo(i) = Q35_LOWMEM /\ Hi(i) = HoleEnd(req)
  BY <1>2, <1>6, Regions, PageAssumption DEF Q35_LOWMEM, GIB
<1>8. ASSUME NEW a \in Nat, Q35_LOWMEM <= a, a < FOUR_GIB
      PROVE  \E j \in DOMAIN placed : Covers(j, a)
  <2>1. CASE a < HoleEnd(req)
    BY <1>7, <1>8, <2>1 DEF Covers
  <2>2. CASE HoleEnd(req) <= a
    <3>1. req.platform = "tdx" /\ HoleEnd(req) = RESET_ALIAS
      BY <1>8, <2>2, PageAssumption DEF HoleEnd, FOUR_GIB, GIB
    <3>2. PICK j \in DOMAIN placed : placed[j] = Measured(RESET_ALIAS, RESERVED, PAGE)
      BY <1>1, <3>1, MapOf DEF OwnBlanks
    <3>3. Span(placed[j]) \in Nat /\ Span(placed[j]) >= PAGE
      <4>1. Span(placed[j]) = Max2(align_up(PAGE, PAGE), PAGE)
        BY <3>2 DEF Span, Measured
      <4>2. align_up(PAGE, PAGE) \in Nat
        BY PageAssumption, AlignUp
      <4> QED BY <4>1, <4>2, PageAssumption DEF Max2
    <3>4. Lo(j) = RESET_ALIAS /\ Hi(j) = RESET_ALIAS + Span(placed[j])
      <4>1. placed[j].base = RESET_ALIAS
        BY <3>2 DEF Measured
      <4> QED BY <4>1, Regions
    <3> QED BY <1>8, <2>2, <3>1, <3>3, <3>4, PageAssumption DEF Covers, RESET_ALIAS, FOUR_GIB, GIB
  <2> QED BY <1>2, <1>8, <2>1, <2>2
<1> QED BY <1>6, <1>7, <1>8

\* The lists put memory where q35 has it: the hole a split leaves is placed, and so is
\* neither accepted nor open to the initramfs.
LEMMA SameMemory == BuildInv => AgreesWithMachine
<1> SUFFICES ASSUME BuildInv, Mapped, NoWrap, req.initramfs # 0, NEW a \in Addrs
             PROVE  /\ Accepted(a) => MachineRam(req, a)
                    /\ MachineRam(req, a) /\ ~Declared(a) => Accepted(a) \/ Imported(a)
                    /\ Imported(a) => MachineRam(req, a) \/ a >= RESET_ALIAS
  BY DEF AgreesWithMachine
<1>1. /\ a \in Nat /\ req \in Requests /\ ParamsOK(req) /\ PrepareOK(req)
      /\ placed = PlacedFor(req) /\ memory = MemoryTop(req)
      /\ req.ram \in Nat /\ INITRAMFS_BASE < req.ram
      /\ HoleEnd(req) \in Nat /\ Q35_LOWMEM < HoleEnd(req) /\ HoleEnd(req) <= FOUR_GIB
  BY LimitsAssumption, Regions, Numbers
<1>2. Accepted(a) <=> a < memory /\ ~ \E i \in DOMAIN placed : Covers(i, a)
  BY DEF BuildInv, MapFacts
<1>3. ~Split(req) => memory = req.ram /\ req.ram < Q35_SPLIT
  BY <1>1, PageAssumption DEF Split, MemoryTop, Q35_SPLIT
<1>4. Split(req) => memory = FOUR_GIB + (req.ram - Q35_LOWMEM) /\ req.ram >= Q35_SPLIT
  BY <1>1, PageAssumption DEF Split, MemoryTop, FOUR_GIB, GIB, Q35_LOWMEM
<1>5. ASSUME Accepted(a) PROVE MachineRam(req, a)
  <2>1. Split(req) => ~(Q35_LOWMEM <= a /\ a < FOUR_GIB)
    BY <1>1, <1>2, <1>5, TheHole
  <2> QED BY <1>1, <1>2, <1>3, <1>4, <1>5, <2>1, PageAssumption
          DEF MachineRam, Q35_SPLIT, Q35_LOWMEM, FOUR_GIB, GIB
<1>6. ASSUME MachineRam(req, a), ~Declared(a) PROVE Accepted(a) \/ Imported(a)
  <2>1. a < memory
    BY <1>1, <1>3, <1>4, <1>6, PageAssumption DEF MachineRam, Q35_SPLIT, Q35_LOWMEM, FOUR_GIB, GIB
  <2>2. ASSUME NEW i \in DOMAIN placed, Covers(i, a) PROVE placed[i] \in Own(req)
    <3> SUFFICES ASSUME placed[i] \notin Own(req) PROVE FALSE
      OBVIOUS
    <3>1. PICK n \in DOMAIN Apertures(req) :
            placed[i] = Mmio(Apertures(req)[n][1], Apertures(req)[n][2])
      BY Regions
    <3>2. /\ placed[i].base = Apertures(req)[n][1] /\ Span(placed[i]) = Apertures(req)[n][2]
          /\ Lo(i) = placed[i].base /\ Hi(i) = Lo(i) + Span(placed[i])
      BY <3>1, Regions DEF Mmio, Span
    <3>3. InHole(Apertures(req)[n], a)
      BY <2>2, <3>2 DEF InHole, Covers
    <3>4. ~ \E k \in DOMAIN req.mmio : Apertures(req)[n] = req.mmio[k]
      BY <1>6, <3>3 DEF Declared
    <3>5. Split(req) /\ Apertures(req)[n] = Hole(req)
      BY <1>1, <3>4, AperturesOf
    <3>6. Q35_LOWMEM <= a /\ a < HoleEnd(req)
      BY <1>1, <3>3, <3>5, PageAssumption DEF InHole, Hole, Q35_LOWMEM, GIB
    <3> QED BY <1>1, <1>4, <1>6, <3>5, <3>6, PageAssumption
            DEF MachineRam, Q35_SPLIT, Q35_LOWMEM, FOUR_GIB, GIB
  <2> QED BY <1>2, <2>1, <2>2, Imports
<1>7. ASSUME Imported(a) PROVE MachineRam(req, a) \/ a >= RESET_ALIAS
  <2>1. PICK i \in Loaded : Lo(i) <= a /\ a < PagesEnd(placed[i])
    BY <1>7 DEF Imported
  <2>2. i \in DOMAIN placed
    BY DEF Loaded
  <2>3. /\ placed[i] \in Own(req) /\ Lo(i) = placed[i].base /\ Lo(i) \in Nat
        /\ PagesEnd(placed[i]) = EndOf(placed[i]) /\ Hi(i) = Lo(i) + Span(placed[i])
    BY <2>2, Regions
  <2>4. EndOf(placed[i]) \in Nat /\ EndOf(placed[i]) = Hi(i)
    BY <1>1, <2>3, OwnPages
  <2>5. \/ EndOf(placed[i]) <= INITRAMFS_BASE
        \/ Lo(i) = INITRAMFS_BASE /\ EndOf(placed[i]) <= memory
        \/ Lo(i) = RESET_ALIAS
    BY <1>1, <2>3, <2>4, OwnOrder, PageAssumption DEF KERNEL_BASE, INITRAMFS_BASE
  <2>6. CASE EndOf(placed[i]) <= INITRAMFS_BASE
    BY <1>1, <1>3, <2>1, <2>3, <2>4, <2>6, PageAssumption
    DEF MachineRam, INITRAMFS_BASE, Q35_SPLIT, Q35_LOWMEM, GIB
  <2>7. CASE Lo(i) = INITRAMFS_BASE /\ EndOf(placed[i]) <= memory
    <3>1. CASE ~Split(req)
      BY <1>1, <1>3, <2>1, <2>3, <2>4, <2>7, <3>1 DEF MachineRam
    <3>2. CASE Split(req)
      <4>1. PICK j \in DOMAIN placed :
              j \notin Loaded /\ Lo(j) = Q35_LOWMEM /\ Hi(j) = HoleEnd(req)
        BY <3>2, TheHole
      <4>2. Disjoint(i, j)
        BY <2>1, <2>2, <4>1 DEF BuildInv, MapFacts
      <4>3. Hi(i) <= Q35_LOWMEM
        BY <1>1, <2>7, <4>1, <4>2, PageAssumption DEF Disjoint, INITRAMFS_BASE, Q35_LOWMEM, GIB
      <4>4. a < Q35_LOWMEM
        BY <1>1, <2>1, <2>3, <2>4, <4>3, PageAssumption DEF Q35_LOWMEM, GIB
      <4> QED BY <1>1, <1>4, <3>2, <4>4, PageAssumption DEF MachineRam, Q35_SPLIT
    <3> QED BY <3>1, <3>2
  <2> QED BY <1>1, <2>1, <2>5, <2>6, <2>7
<1> QED BY <1>5, <1>6, <1>7

-----------------------------------------------------------------------------
(* The ACPI page.                                                          *)

\* Every table is at the end of pointers that begin at the RSDP.
LEMMA TablesReached ==
  ASSUME NEW cpus, NEW wakeup
  PROVE  Reachable(Tables(cpus, wakeup)) = Tables(cpus, wakeup)
<1> DEFINE tables == Tables(cpus, wakeup)
           rsdp == Table("RSDP", 0, RSDP_LEN, {ACPI_XSDT})
           xsdt == Table("XSDT", ACPI_XSDT, XSDT_LEN, {ACPI_FADT, ACPI_MADT})
           fadt == Table("FACP", ACPI_FADT, FADT_LEN, {ACPI_DSDT})
           dsdt == Table("DSDT", ACPI_DSDT, DSDT_LEN, {})
           madt == Table("APIC", ACPI_MADT, MadtLen(cpus, wakeup), {})
           root == { t \in tables : t.at = 0 }
           second == FollowPointers(tables, root)
           third == FollowPointers(tables, second)
<1>1. tables = {rsdp, xsdt, fadt, dsdt, madt}
  BY DEF Tables
<1>2. /\ rsdp.at = 0 /\ xsdt.at \in rsdp.pointers
      /\ fadt.at \in xsdt.pointers /\ madt.at \in xsdt.pointers /\ dsdt.at \in fadt.pointers
  BY DEF Table
<1>3. Reachable(tables) = root \cup second \cup third \cup FollowPointers(tables, third)
  BY DEF Reachable
<1> HIDE DEF tables, rsdp, xsdt, fadt, dsdt, madt
<1>4. rsdp \in root
  BY <1>1, <1>2
<1>5. xsdt \in second
  BY <1>1, <1>2, <1>4 DEF FollowPointers
<1>6. fadt \in third /\ madt \in third
  BY <1>1, <1>2, <1>5 DEF FollowPointers
<1>7. dsdt \in FollowPointers(tables, third)
  BY <1>1, <1>2, <1>6 DEF FollowPointers
<1>8. root \subseteq tables /\ second \subseteq tables /\ third \subseteq tables
      /\ FollowPointers(tables, third) \subseteq tables
  BY DEF FollowPointers
<1>9. Reachable(tables) = tables
  <2> HIDE DEF root, second, third
  <2> QED BY <1>1, <1>3, <1>4, <1>5, <1>6, <1>7, <1>8
<1> QED BY <1>9 DEF tables

\* Of as many processors as are allowed, the MADT ends inside the page.
LEMMA MadtFits ==
  ASSUME NEW cpus \in 1 .. MAX_VCPUS, NEW wakeup \in BOOLEAN
  PROVE  /\ cpus \in Nat
         /\ MadtLen(cpus, wakeup) \in Nat /\ ACPI_MADT + MadtLen(cpus, wakeup) <= ACPI_PAGE
BY DEF MAX_VCPUS, MadtLen, ACPI_MADT, ACPI_PAGE, MADT_HEADER_LEN, MADT_LAPIC_LEN, MADT_WAKEUP_LEN

\* No table runs into another or out of the page.
LEMMA TablesApart ==
  ASSUME NEW cpus \in 1 .. MAX_VCPUS, NEW wakeup \in BOOLEAN
  PROVE  /\ \A t, u \in Tables(cpus, wakeup) : t.at < u.at => t.at + t.len <= u.at
         /\ \A t \in Tables(cpus, wakeup) : t.at + t.len <= ACPI_PAGE
<1> DEFINE n == MadtLen(cpus, wakeup)
<1>1. n \in Nat /\ ACPI_MADT + n <= ACPI_PAGE
  BY MadtFits
<1> HIDE DEF n
<1>2. \A t \in Tables(cpus, wakeup) :
        \/ t.at = 0 /\ t.len = RSDP_LEN
        \/ t.at = ACPI_XSDT /\ t.len = XSDT_LEN
        \/ t.at = ACPI_FADT /\ t.len = FADT_LEN
        \/ t.at = ACPI_DSDT /\ t.len = DSDT_LEN
        \/ t.at = ACPI_MADT /\ t.len = n
  <2> HIDE DEF n
  <2>1. Tables(cpus, wakeup) =
          { Table("RSDP", 0, RSDP_LEN, {ACPI_XSDT}),
            Table("XSDT", ACPI_XSDT, XSDT_LEN, {ACPI_FADT, ACPI_MADT}),
            Table("FACP", ACPI_FADT, FADT_LEN, {ACPI_DSDT}),
            Table("DSDT", ACPI_DSDT, DSDT_LEN, {}),
            Table("APIC", ACPI_MADT, n, {}) }
    BY DEF Tables, n
  <2> SUFFICES ASSUME NEW t \in Tables(cpus, wakeup)
               PROVE  \/ t.at = 0 /\ t.len = RSDP_LEN
                      \/ t.at = ACPI_XSDT /\ t.len = XSDT_LEN
                      \/ t.at = ACPI_FADT /\ t.len = FADT_LEN
                      \/ t.at = ACPI_DSDT /\ t.len = DSDT_LEN
                      \/ t.at = ACPI_MADT /\ t.len = n
    OBVIOUS
  <2>2. \/ t = Table("RSDP", 0, RSDP_LEN, {ACPI_XSDT})
        \/ t = Table("XSDT", ACPI_XSDT, XSDT_LEN, {ACPI_FADT, ACPI_MADT})
        \/ t = Table("FACP", ACPI_FADT, FADT_LEN, {ACPI_DSDT})
        \/ t = Table("DSDT", ACPI_DSDT, DSDT_LEN, {})
        \/ t = Table("APIC", ACPI_MADT, n, {})
    BY <2>1
  <2> QED BY <2>2 DEF Table
<1> QED BY <1>1, <1>2 DEF ACPI_PAGE, ACPI_XSDT, ACPI_FADT, ACPI_DSDT, ACPI_MADT, RSDP_LEN, XSDT_LEN,
                          FADT_LEN, DSDT_LEN

\* The structures of the MADT lie one behind the other.
LEMMA MadtWalk ==
  ASSUME NEW cpus \in 1 .. MAX_VCPUS, NEW wakeup \in BOOLEAN
  PROVE  WalkMeetsAll(Structures(cpus, wakeup), MadtLen(cpus, wakeup))
<1> DEFINE K == 0 .. (IF wakeup THEN cpus ELSE cpus - 1)
           Str(k) == IF k < cpus THEN LocalApic(k) ELSE Wakeup(cpus)
           End(k) == IF k < cpus THEN 52 + 8 * k ELSE 60 + 8 * k
           all == Structures(cpus, wakeup)
           starts == { s.at : s \in all }
           ends == { s.at + s.len : s \in all }
<1>1. cpus \in Nat /\ cpus >= 1
  BY MadtFits
<1>2. all = { Str(k) : k \in K }
  <2>1. \A k \in 0 .. cpus - 1 : k \in K /\ Str(k) = LocalApic(k)
    BY <1>1
  <2>2. CASE wakeup
    <3>1. K = 0 .. cpus /\ cpus \in K /\ Str(cpus) = Wakeup(cpus)
      BY <1>1, <2>2
    <3>2. \A k \in K : k \in 0 .. cpus - 1 \/ k = cpus
      BY <1>1, <3>1
    <3>3. all = { LocalApic(k) : k \in 0 .. cpus - 1 } \cup {Wakeup(cpus)}
      BY <2>2 DEF Structures
    <3> HIDE DEF K, Str, all
    <3> QED BY <2>1, <3>1, <3>2, <3>3
  <2>3. CASE ~wakeup
    <3>1. K = 0 .. cpus - 1
      BY <2>3
    <3>2. all = { LocalApic(k) : k \in 0 .. cpus - 1 }
      BY <2>3 DEF Structures
    <3> HIDE DEF K, Str, all
    <3> QED BY <2>1, <3>1, <3>2
  <2> QED BY <2>2, <2>3
<1>3. \A k \in K : k \in Nat /\ Str(k).at = 44 + 8 * k /\ Str(k).at + Str(k).len = End(k) /\ Str(k).len > 0
  <2> SUFFICES ASSUME NEW k \in K
               PROVE  k \in Nat /\ Str(k).at = 44 + 8 * k /\ Str(k).at + Str(k).len = End(k) /\ Str(k).len > 0
    OBVIOUS
  <2>1. k \in Nat /\ (k < cpus \/ k = cpus)
    BY <1>1
  <2> QED BY <1>1, <2>1 DEF LocalApic, Wakeup, MADT_HEADER_LEN, MADT_LAPIC_LEN, MADT_WAKEUP_LEN
<1> HIDE DEF Str, all
<1>4. starts = { 44 + 8 * k : k \in K } /\ ends = { End(k) : k \in K }
  <2> HIDE DEF K, End
  <2>1. \A k \in K : Str(k).at = 44 + 8 * k /\ Str(k).at + Str(k).len = End(k)
    BY <1>3
  <2>2. starts = { Str(k).at : k \in K } /\ ends = { Str(k).at + Str(k).len : k \in K }
    BY <1>2, Zenon
  <2>3. { Str(k).at : k \in K } = { 44 + 8 * k : k \in K }
    BY <2>1
  <2>4. { Str(k).at + Str(k).len : k \in K } = { End(k) : k \in K }
    BY <2>1
  <2> QED BY <2>2, <2>3, <2>4
<1>5. Cardinality(starts) = Cardinality(all)
  <2> DEFINE f == [k \in K |-> Str(k)]
             g == [k \in K |-> 44 + 8 * k]
  <2>1. IsFiniteSet(K)
    BY <1>1, FS_Interval
  <2>2. f \in Surjection(K, all)
    BY <1>2 DEF Surjection
  <2>3. f \in Injection(K, all)
    <3>1. \A j, k \in K : Str(j) = Str(k) => j = k
      BY <1>3
    <3> HIDE DEF K
    <3>2. f \in [K -> all] /\ \A k \in K : f[k] = Str(k)
      BY <2>2 DEF Surjection
    <3> HIDE DEF f
    <3> QED BY <3>1, <3>2 DEF Injection, IsInjective
  <2>4. g \in Surjection(K, starts)
    BY <1>4 DEF Surjection
  <2>5. g \in Injection(K, starts)
    <3>1. \A j, k \in K : 44 + 8 * j = 44 + 8 * k => j = k
      BY <1>3
    <3> HIDE DEF K
    <3>2. g \in [K -> starts] /\ \A k \in K : g[k] = 44 + 8 * k
      BY <2>4 DEF Surjection
    <3> HIDE DEF g, starts
    <3> QED BY <3>1, <3>2 DEF Injection, IsInjective
  <2> HIDE DEF f, g, K, starts
  <2>6. Cardinality(all) = Cardinality(K)
    BY <2>1, <2>2, <2>3, FS_Surjection
  <2>7. Cardinality(starts) = Cardinality(K)
    BY <2>1, <2>4, <2>5, FS_Surjection
  <2> QED BY <2>6, <2>7
<1>6. \A s \in all : s.len > 0
  BY <1>2, <1>3
<1>7. starts \ ends = {MADT_HEADER_LEN}
  <2>1. 0 \in K /\ 44 \in starts
    <3>1. 0 \in K /\ 44 = 44 + 8 * 0
      BY <1>1
    <3> HIDE DEF K
    <3> QED BY <1>4, <3>1
  <2>2. 44 \notin ends
    BY <1>1, <1>3, <1>4
  <2>3. ASSUME NEW k \in K, k # 0 PROVE 44 + 8 * k \in ends
    <3>1. k - 1 \in K /\ k - 1 < cpus /\ End(k - 1) = 44 + 8 * k
      BY <1>1, <2>3
    <3> QED BY <1>4, <3>1
  <2> HIDE DEF K, starts, ends
  <2> QED BY <1>4, <2>1, <2>2, <2>3 DEF MADT_HEADER_LEN
<1>8. ends \ starts = {MadtLen(cpus, wakeup)}
  <2> DEFINE last == IF wakeup THEN cpus ELSE cpus - 1
  <2>1. last \in K /\ End(last) = MadtLen(cpus, wakeup)
    BY <1>1 DEF MadtLen, MADT_HEADER_LEN, MADT_LAPIC_LEN, MADT_WAKEUP_LEN
  <2>2. \A k \in K : 44 + 8 * k # End(last)
    BY <1>1
  <2>3. ASSUME NEW k \in K, k # last PROVE End(k) \in starts
    <3>1. k + 1 \in K /\ End(k) = 44 + 8 * (k + 1)
      BY <1>1, <2>3
    <3> QED BY <1>4, <3>1
  <2> HIDE DEF K, starts, ends, last, End
  <2> QED BY <1>4, <2>1, <2>2, <2>3
<1> QED BY <1>5, <1>6, <1>7, <1>8 DEF WalkMeetsAll, all, starts, ends

\* A byte for the APIC ID holds every processor's up to 256.
LEMMA MadtNames ==
  ASSUME NEW cpus \in 1 .. MAX_VCPUS, NEW wakeup \in BOOLEAN
  PROVE  /\ ApicIds(cpus, wakeup) = 0 .. Min2(cpus, 256) - 1
         /\ Mailboxes(cpus, wakeup) = IF wakeup THEN {MAILBOX} ELSE {}
<1>1. cpus \in Nat /\ cpus >= 1
  BY MadtFits
<1>2. \A id : LocalApic(id).type # Wakeup(cpus).type
  BY DEF LocalApic, Wakeup, MADT_LOCAL_APIC, MADT_WAKEUP
<1>3. \A id : LocalApic(id).type = MADT_LOCAL_APIC /\ LocalApic(id).apic_id = U8(id)
  BY DEF LocalApic
<1>4. Wakeup(cpus).type = MADT_WAKEUP /\ Wakeup(cpus).mailbox = MAILBOX
  BY DEF Wakeup
<1>5. ApicIds(cpus, wakeup) = { U8(id) : id \in 0 .. cpus - 1 }
  BY <1>2, <1>3, <1>4 DEF ApicIds, Structures
<1>6. Mailboxes(cpus, wakeup) = IF wakeup THEN {MAILBOX} ELSE {}
  BY <1>2, <1>3, <1>4 DEF Mailboxes, Structures
<1>7. { U8(id) : id \in 0 .. cpus - 1 } = 0 .. Min2(cpus, 256) - 1
  <2>1. \A id \in 0 .. cpus - 1 : U8(id) \in 0 .. Min2(cpus, 256) - 1
    BY <1>1 DEF U8, Min2
  <2>2. \A n \in 0 .. Min2(cpus, 256) - 1 : n \in 0 .. cpus - 1 /\ U8(n) = n
    BY <1>1 DEF U8, Min2
  <2> HIDE DEF Min2, U8
  <2> QED BY <2>1, <2>2
<1> QED BY <1>5, <1>6, <1>7

-----------------------------------------------------------------------------
(* The page tables.                                                        *)

\* The addresses of the two tables the first one points to differ, and GiB 0 has no bit set.
LEMMA SomeBits ==
  /\ \A n : BitsOf(n) \subseteq 0 .. 8
  /\ BitsOf(0) = {} /\ 0 \in BitsOf(1) /\ 0 \notin BitsOf(2)
<1>1. \A n : BitsOf(n) \subseteq 0 .. 8
  BY DEF BitsOf
<1>2. 2^0 = 1
  OBVIOUS
<1>3. 0 \in BitsOf(1) /\ 0 \notin BitsOf(2)
  BY <1>2 DEF BitsOf
<1>4. ASSUME NEW k \in 0 .. 8 PROVE (0 \div 2^k) % 2 # 1
  <2>1. /\ 2^0 = 1 /\ 2^1 = 2 /\ 2^2 = 4 /\ 2^3 = 8 /\ 2^4 = 16 /\ 2^5 = 32 /\ 2^6 = 64
        /\ 2^7 = 128 /\ 2^8 = 256
    OBVIOUS
  <2>2. k \in {0, 1, 2, 3, 4, 5, 6, 7, 8}
    OBVIOUS
  <2>3. 2^k \in {2^0, 2^1, 2^2, 2^3, 2^4, 2^5, 2^6, 2^7, 2^8}
    BY <2>2, Zenon
  <2>4. 2^k \in {1, 2, 4, 8, 16, 32, 64, 128, 256}
    BY <2>1, <2>3, Zenon
  <2>5. \A d \in {1, 2, 4, 8, 16, 32, 64, 128, 256} : (0 \div d) % 2 # 1
    OBVIOUS
  <2> QED BY <2>4, <2>5, Zenon
<1>5. BitsOf(0) = {}
  BY <1>4, Zenon DEF BitsOf
<1> QED BY <1>1, <1>3, <1>5

\* 512 GiB are 512 slots of a table.
LEMMA FullTable == GIBS = 512 /\ GIBS * GIB = MAP_LIMIT
<1>1. GIB \in Nat \ {0} /\ MAP_LIMIT = 512 * GIB
  BY PageAssumption DEF GIB, MAP_LIMIT
<1>2. (512 * GIB) \div GIB = 512
  <2> HIDE DEF GIB
  <2> QED BY <1>1
<1> QED BY <1>1, <1>2 DEF GIBS

\* The processor follows an entry of the first table to the table it is for.
LEMMA EntryLeads ==
  ASSUME NEW c \in {0} \cup (32 .. 63), NEW n \in 1 .. 2
  PROVE  /\ 0 \in TableEntry(n, c)
         /\ (CHOOSE m \in 1 .. 2 : TableAddress(m) = AddressIn(TableEntry(n, c), c)) = n
<1>1. \A m \in 1 .. 2 : TableAddress(m) \subseteq 12 .. 20
  BY SomeBits DEF TableAddress, Shifted
<1>2. 12 \in TableAddress(1) /\ 12 \notin TableAddress(2)
  BY SomeBits DEF TableAddress, Shifted
<1>3. AddressIn(TableEntry(n, c), c) = TableAddress(n)
  BY <1>1 DEF AddressIn, TableEntry, TABLE_FLAGS, FLAG_BITS, Cbit
<1>4. 0 \in TableEntry(n, c)
  BY DEF TableEntry, TABLE_FLAGS
<1>5. \A m \in 1 .. 2 : TableAddress(m) = TableAddress(n) => m = n
  BY <1>2
<1> QED BY <1>3, <1>4, <1>5

\* Below the first slot every GiB is mapped to itself, below the second only the first is,
\* and only with an alias.
LEMMA Walk ==
  ASSUME NEW snp \in BOOLEAN, NEW c, IF snp THEN c \in 32 .. 63 ELSE c = 0,
         NEW gib \in 0 .. GIBS - 1
  PROVE  LET map == identity_map(c, snp)
         IN  /\ \/ c - GIB_SHIFT \in BitsOf(gib)
                \/ Translate(map, c, 0, gib) = Identity(gib, snp)
             /\ Translate(map, c, 1, gib) =
                  IF snp /\ gib = 0 THEN Identity(0, FALSE) ELSE Unmapped
<1> DEFINE map == identity_map(c, snp)
<1>1. c \in {0} \cup (32 .. 63) /\ gib \in Slots /\ gib < GIBS /\ c \in Int
  BY FullTable DEF Slots
<1>2. /\ map[0][0] = TableEntry(1, c)
      /\ map[0][1] = IF snp THEN TableEntry(2, c) ELSE {}
      /\ map[1][gib] = Gib(gib, c)
      /\ snp => map[2][gib] = IF gib = 0 THEN GIB_FLAGS ELSE {}
  <2>1. map[0] = [slot \in Slots |-> IF slot = 0 THEN TableEntry(1, c)
                                    ELSE IF slot = 1 /\ snp THEN TableEntry(2, c) ELSE {}]
    BY DEF identity_map
  <2>2. map[1] = [slot \in Slots |-> IF slot < GIBS THEN Gib(slot, c) ELSE {}]
    BY DEF identity_map
  <2>3. snp => map[2] = [slot \in Slots |-> IF slot = 0 THEN GIB_FLAGS ELSE {}]
    BY DEF identity_map
  <2>4. 0 \in Slots /\ 1 \in Slots
    BY DEF Slots
  <2> HIDE DEF map
  <2>5. 1 # 0
    OBVIOUS
  <2>6. map[0][0] = TableEntry(1, c)
    BY <2>1, <2>4, Zenon
  <2>7. map[0][1] = IF snp THEN TableEntry(2, c) ELSE {}
    BY <2>1, <2>4, <2>5, Zenon
  <2>8. map[1][gib] = Gib(gib, c)
    BY <1>1, <2>2, Zenon
  <2>9. snp => map[2][gib] = IF gib = 0 THEN GIB_FLAGS ELSE {}
    BY <1>1, <2>3, Zenon
  <2> QED BY <2>6, <2>7, <2>8, <2>9, Zenon
<1> HIDE DEF map
<1>3. ASSUME c - GIB_SHIFT \notin BitsOf(gib)
      PROVE  Translate(map, c, 0, gib) = Identity(gib, snp)
  <2>1. 0 \in map[0][0] /\ (CHOOSE n \in 1 .. 2 : TableAddress(n) = AddressIn(map[0][0], c)) = 1
    BY <1>1, <1>2, EntryLeads
  <2>2. 0 \in map[1][gib]
    BY <1>2 DEF Gib, GIB_FLAGS
  <2>3. Shifted(BitsOf(gib), GIB_SHIFT) \subseteq 30 .. 38 /\ c \notin Shifted(BitsOf(gib), GIB_SHIFT)
    BY <1>1, <1>3, SomeBits DEF Shifted, GIB_SHIFT
  <2>4. AddressIn(map[1][gib], c) = Shifted(BitsOf(gib), GIB_SHIFT)
    BY <1>1, <1>2, <2>3 DEF AddressIn, Gib, GIB_FLAGS, FLAG_BITS, Cbit
  <2>5. (Cbit(c) # {} /\ c \in map[1][gib]) = snp
    BY <1>2 DEF Gib, Cbit
  <2>6. Translate(map, c, 0, gib) =
          [gib |-> AddressIn(map[1][gib], c), encrypted |-> Cbit(c) # {} /\ c \in map[1][gib], mapped |-> TRUE]
    BY <2>1, <2>2 DEF Translate
  <2> QED BY <2>4, <2>5, <2>6 DEF Identity
<1>4. CASE ~snp
  BY <1>2, <1>3, <1>4 DEF Translate, map
<1>5. CASE snp
  <2>1. 0 \in map[0][1] /\ (CHOOSE n \in 1 .. 2 : TableAddress(n) = AddressIn(map[0][1], c)) = 2
    BY <1>1, <1>2, <1>5, EntryLeads
  <2>2. CASE gib # 0
    <3>1. Translate(map, c, 1, gib) = Unmapped
      BY <1>2, <1>5, <2>1, <2>2 DEF Translate
    <3> QED BY <1>3, <2>2, <3>1 DEF map
  <2>3. CASE gib = 0
    <3>1. map[2][gib] = GIB_FLAGS /\ 0 \in GIB_FLAGS
      BY <1>2, <1>5, <2>3 DEF GIB_FLAGS
    <3>2. AddressIn(GIB_FLAGS, c) = {} /\ Shifted(BitsOf(0), GIB_SHIFT) = {}
      BY SomeBits DEF AddressIn, GIB_FLAGS, FLAG_BITS, Shifted
    <3>3. (Cbit(c) # {} /\ c \in GIB_FLAGS) = FALSE
      BY <1>5 DEF GIB_FLAGS
    <3>4. Translate(map, c, 1, gib) =
            [gib |-> AddressIn(GIB_FLAGS, c), encrypted |-> Cbit(c) # {} /\ c \in GIB_FLAGS, mapped |-> TRUE]
      BY <2>1, <3>1 DEF Translate
    <3>5. Translate(map, c, 1, gib) = Identity(0, FALSE)
      BY <3>2, <3>3, <3>4 DEF Identity
    <3> QED BY <1>3, <1>5, <2>3, <3>5 DEF map
  <2> QED BY <2>2, <2>3
<1> QED BY <1>4, <1>5

-----------------------------------------------------------------------------
(* What the processor and the OS read.                                     *)

\* A finished map is that of the request.
LEMMA BuiltIs ==
  ASSUME BuildInv, step = "built"
  PROVE  /\ req \in Requests /\ ParamsOK(req) /\ placed = PlacedFor(req) /\ memory = MemoryTop(req)
         /\ req.vcpus \in 1 .. MAX_VCPUS /\ req.cbit \in 32 .. 63 /\ req.platform \in {"tdx", "snp"}
<1>1. req \in Requests /\ ParamsOK(req) /\ placed = PlacedFor(req) /\ memory = MemoryTop(req)
  BY DEF BuildInv, BuildTypeOK, Asked, Laid, Mapped
<1> QED BY <1>1, Numbers DEF ParamsOK

LEMMA OsReadsMadt == BuildInv => MadtReadsBack
<1> SUFFICES ASSUME BuildInv, step = "built" PROVE MadtReadsBack
  BY DEF MadtReadsBack
<1> DEFINE wakeup == req.platform = "tdx"
<1>1. req.vcpus \in 1 .. MAX_VCPUS /\ wakeup \in BOOLEAN
  BY BuiltIs
<1>2. wakeup => \E i \in Loaded : placed[i] = Measured(MAILBOX, RESERVED, PAGE)
  <2> SUFFICES ASSUME wakeup PROVE \E i \in Loaded : placed[i] = Measured(MAILBOX, RESERVED, PAGE)
    OBVIOUS
  <2>1. MAILBOX \in OwnBlanks(req)
    BY DEF OwnBlanks
  <2>2. PICK i \in DOMAIN placed : placed[i] = Measured(MAILBOX, RESERVED, PAGE)
    BY <2>1, BuiltIs, MapOf
  <2> QED BY <2>2 DEF Loaded, Measured
<1> HIDE DEF wakeup
<1>3. Reachable(Tables(req.vcpus, wakeup)) = Tables(req.vcpus, wakeup)
  BY TablesReached
<1>4. /\ \A t, u \in Tables(req.vcpus, wakeup) : t.at < u.at => t.at + t.len <= u.at
      /\ \A t \in Tables(req.vcpus, wakeup) : t.at + t.len <= ACPI_PAGE
  BY <1>1, TablesApart
<1>5. WalkMeetsAll(Structures(req.vcpus, wakeup), MadtLen(req.vcpus, wakeup))
  BY <1>1, MadtWalk
<1>6. /\ ApicIds(req.vcpus, wakeup) = 0 .. Min2(req.vcpus, 256) - 1
      /\ Mailboxes(req.vcpus, wakeup) = IF wakeup THEN {MAILBOX} ELSE {}
  BY <1>1, MadtNames
<1> QED BY <1>2, <1>3, <1>4, <1>5, <1>6 DEF MadtReadsBack, wakeup

LEMMA ProcessorWalks == BuildInv => IdentityMapped
<1> SUFFICES ASSUME BuildInv, step = "built" PROVE IdentityMapped
  BY DEF IdentityMapped
<1> DEFINE snp == req.platform = "snp"
           c == IF snp THEN req.cbit ELSE 0
<1>1. memory <= GIBS * GIB
  BY BuiltIs, Numbers, FullTable
<1>2. snp \in BOOLEAN /\ IF snp THEN c \in 32 .. 63 ELSE c = 0
  BY BuiltIs
<1> HIDE DEF snp, c
<1>3. \A gib \in 0 .. GIBS - 1 :
        /\ \/ c - GIB_SHIFT \in BitsOf(gib)
           \/ Translate(identity_map(c, snp), c, 0, gib) = Identity(gib, snp)
        /\ Translate(identity_map(c, snp), c, 1, gib) =
             IF snp /\ gib = 0 THEN Identity(0, FALSE) ELSE Unmapped
  BY <1>2, Walk
<1> QED BY <1>1, <1>3 DEF IdentityMapped, c, snp

-----------------------------------------------------------------------------
(* The theorems.                                                           *)

\* The invariant holds of every run of the command.
THEOREM BuildInvariant == BuildSpec => []BuildInv
BY BuildInitInv, BuildNextInv, PTL DEF BuildSpec

\* Every variable of the command keeps its type.
THEOREM BuildTypeCorrect == BuildSpec => []BuildTypeOK
<1>1. BuildInv => BuildTypeOK
  BY DEF BuildInv
<1> QED BY <1>1, BuildInvariant, PTL

\* All that Linux is told is RAM is imported or on the shim's list, whatever the request
\* (image.rs 183-206, snp.rs 127-160).
THEOREM RamIsPrivateAlways == BuildSpec => []RamIsPrivate
BY PrivateRam, BuildInvariant, PTL

\* No byte is imported by the loader and accepted by the shim (boot.rs 291-303).
THEOREM NeverBothAlways == BuildSpec => []NeverBoth
BY AcceptedOnce, BuildInvariant, PTL

\* The image has its memory where the machine has it (layout.rs 197-222).
THEOREM AgreesWithMachineAlways == BuildSpec => []AgreesWithMachine
BY SameMemory, BuildInvariant, PTL

\* The kernel's decompression area holds nothing else (image.rs 93-98).
THEOREM InitAreaFreeAlways == BuildSpec => []InitAreaFree
BY KernelHasRoom, BuildInvariant, PTL

\* Nothing is written before everything is checked, and the manifest last (image.rs
\* 86-141, 212-239).
THEOREM ManifestFollowsImageAlways == BuildSpec => []ManifestFollowsImage
<1>1. BuildInv => ManifestFollowsImage
  BY DEF BuildInv
<1> QED BY <1>1, BuildInvariant, PTL

\* Every map that is derived from, and so every image, is built: whole pages, apertures that
\* are listed nowhere, and the blank pages the image fills later; no region of RAM is empty
\* but an empty initramfs, and no region's end wraps but that of an aperture declared so
\* (image.rs 183-202, snp.rs 127-152, layout.rs 197-222).
THEOREM MapsAreBuilt ==
  BuildSpec => [](step \in Deriving \/ Mapped =>
                    /\ BuiltMap(placed, memory, OwnBlanks(req))
                    /\ req.initramfs # 0 => NoEmptyRam
                    /\ HolesEnd(req) => NoWrap)
<1>1. BuildInv => (step \in Deriving \/ Mapped =>
                     /\ BuiltMap(placed, memory, OwnBlanks(req))
                     /\ req.initramfs # 0 => NoEmptyRam
                     /\ HolesEnd(req) => NoWrap)
  <2> SUFFICES ASSUME BuildInv, step \in Deriving \/ Mapped
               PROVE  /\ BuiltMap(placed, memory, OwnBlanks(req))
                      /\ req.initramfs # 0 => NoEmptyRam
                      /\ HolesEnd(req) => NoWrap
    OBVIOUS
  <2>1. /\ req \in Requests /\ ParamsOK(req) /\ PrepareOK(req)
        /\ placed = PlacedFor(req) /\ memory = MemoryTop(req)
    BY DEF BuildInv, BuildTypeOK, Asked, Laid, Mapped, Deriving
  <2>2. HolesEnd(req) => NoWrap
    BY <2>1, OnlyHolesWrap DEF NoWrap
  <2> QED BY <2>1, <2>2, BuiltFor DEF NoEmptyRam
<1> QED BY <1>1, BuildInvariant, PTL

\* What an OS finds on the ACPI page: every table, the mailbox on TDX, and of the processors
\* those whose ID eight bits hold, the first 256 (acpi.rs 36-99).
THEOREM MadtReadsBackAlways == BuildSpec => []MadtReadsBack
BY OsReadsMadt, BuildInvariant, PTL

\* Where the measured page tables lead, for every GiB whose address does not itself have
\* the C-bit set (image.rs 346-361).
THEOREM IdentityMappedAlways == BuildSpec => []IdentityMapped
BY ProcessorWalks, BuildInvariant, PTL
=============================================================================
