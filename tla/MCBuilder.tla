----------------------------- MODULE MCBuilder ------------------------------
(* Requests around every edge of the layout: the sizes at which q35 splits *)
(* its RAM and the map ends, and apertures that fit, touch, overlap, stick *)
(* out, are empty or misaligned, or wrap around the address space.         *)
EXTENDS Builder

Platforms == {"tdx", "snp"}

KernelBytes == 3000 * PAGE + 1

Plain(p) ==
  [platform |-> p, ram |-> 2 * INITRAMFS_BASE, vcpus |-> 4, cbit |-> 51, mmio |-> <<>>,
   cmdline |-> 0, no5lvl |-> FALSE, ascii |-> TRUE, config |-> TRUE, svn |-> 0, key |-> "none",
   header |-> TRUE, setup |-> 6 * PAGE, kernel |-> KernelBytes, init_size |-> 8000 * PAGE,
   cmdline_max |-> 2048, initramfs |-> 5 * PAGE + 1]

Rams == {INITRAMFS_BASE, INITRAMFS_BASE + PAGE, INITRAMFS_BASE + 6 * PAGE, 2 * INITRAMFS_BASE + 1,
         Q35_SPLIT - PAGE, Q35_SPLIT, MAX_RAM, MAX_RAM + PAGE}

KernelEnd == KERNEL_BASE + 3001 * PAGE

\* Apertures, one or two at a time.
Holes ==
  { << <<0, PAGE>> >>,
    << <<KernelEnd, PAGE>> >>,
    << <<KernelEnd - PAGE, PAGE>> >>,
    << <<INITRAMFS_BASE - PAGE, 2 * PAGE>> >>,
    << <<ZERO_PAGE, PAGE>> >>,
    << <<Q35_LOWMEM - PAGE, PAGE>>, <<8 * PAGE, 2 * PAGE>> >>,
    << <<50 * PAGE, 2 * PAGE>>, <<52 * PAGE, PAGE>> >>,
    << <<50 * PAGE, 2 * PAGE>>, <<51 * PAGE, 4 * PAGE>> >>,
    << <<50 * PAGE, 4 * PAGE>>, <<50 * PAGE, PAGE>> >>,
    << <<FOUR_GIB, PAGE>> >>,
    << <<FOUR_GIB - PAGE, 2 * PAGE>> >>,
    << <<50 * PAGE, 0>> >>,
    << <<50 * PAGE + 1, PAGE>> >>,
    << <<50 * PAGE, PAGE + 1>> >>,
    << <<2 * INITRAMFS_BASE - PAGE, PAGE>> >>,
    << <<2 * INITRAMFS_BASE - PAGE, 2 * PAGE>> >>,
    << <<50 * PAGE, WORD - 50 * PAGE>> >> }

\* n one-page apertures with a page between them.
ManyHoles(n) == [i \in 1 .. n |-> <<KernelEnd + 2 * i * PAGE, PAGE>>]

Shapes ==
  { [Plain(p) EXCEPT !.ram = m] : p \in Platforms, m \in Rams }
    \cup { [Plain(p) EXCEPT !.ram = m, !.mmio = h] :
             p \in Platforms, m \in {2 * INITRAMFS_BASE, Q35_SPLIT}, h \in Holes }
    \cup { [Plain("snp") EXCEPT !.mmio = ManyHoles(n)] : n \in {54, 120} }

Options ==
  { [Plain(p) EXCEPT !.vcpus = n] : p \in Platforms, n \in {0, 1, 256, 257, MAX_VCPUS, MAX_VCPUS + 1} }
    \cup { [Plain("snp") EXCEPT !.cbit = n] : n \in {31, 32, 38, 39, 63, 64} }
    \cup { [Plain(p) EXCEPT !.ascii = FALSE] : p \in Platforms }
    \cup { [Plain(p) EXCEPT !.config = FALSE] : p \in Platforms }
    \cup { [Plain("snp") EXCEPT !.svn = n, !.key = k] : n \in {0, 1}, k \in {"none", "ok", "bad"} }

Files ==
  { [Plain(p) EXCEPT !.header = FALSE] : p \in Platforms }
    \cup { [Plain("tdx") EXCEPT !.kernel = n] :
             n \in {0, 1, INITRAMFS_BASE - KERNEL_BASE, INITRAMFS_BASE - KERNEL_BASE + 1} }
    \cup { [Plain("snp") EXCEPT !.init_size = n] :
             n \in {INITRAMFS_BASE - KERNEL_BASE, INITRAMFS_BASE - KERNEL_BASE + 1} }
    \cup { [Plain("tdx") EXCEPT !.ram = m, !.initramfs = n] :
             m \in {2 * INITRAMFS_BASE, MAX_RAM},
             n \in {0, 1, INITRAMFS_BASE, INITRAMFS_BASE + 1, U32_MAX - INITRAMFS_BASE} }
    \cup { [Plain("snp") EXCEPT !.setup = n] :
             n \in {KERNEL_SETUP_AREA_SIZE, KERNEL_SETUP_AREA_SIZE + 1} }
    \cup { [Plain("tdx") EXCEPT !.cmdline = n, !.no5lvl = b, !.cmdline_max = k] :
             n \in {0, 4088, 4089, 4096}, b \in BOOLEAN, k \in {15, 16, 4096, 8192} }

MCRequests == Shapes \cup Options \cup Files

\* Both sides of every edge a region, an aperture or the map can have.
Edges ==
  { ZERO_PAGE, CMDLINE, ACPI_BASE, MAILBOX, SNP_SECRETS, SNP_CC_BLOB, PAGE_TABLES, BSP_STACK, SNP_GHCB,
    SHIM_BASE, KERNEL_SETUP_BASE, KERNEL_BASE, KernelEnd, INITRAMFS_BASE,
    INITRAMFS_BASE + 6 * PAGE, RESET_ALIAS, FOUR_GIB, Q35_LOWMEM, Q35_SPLIT, MAP_LIMIT,
    2 * INITRAMFS_BASE, 50 * PAGE, 52 * PAGE, FOUR_GIB + Q35_SPLIT - Q35_LOWMEM }

MCAddrs == {0} \cup UNION { {e - 1, e, e + PAGE - 1, e + PAGE} : e \in Edges }

NoMaps == {}
=============================================================================
