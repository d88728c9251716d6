----------------------------- MODULE MCSnpBoot ------------------------------
(* The low megabyte and the shim of the SNP layout at one byte to a page,  *)
(* apertures over most of what lies between its regions, and a region of   *)
(* variable place, type and length in the gap below the second of them.    *)
(* Two processors besides the boot processor.                              *)
EXTENDS SnpBoot

MCLoaded == [base: {244, 245}, e820: {RAM, RESERVED}, fill: {"measured"}, len: {1, 2}]

MCMaps ==
  [placed: { << Measured(ZERO_PAGE, RESERVED, PAGE),
                Host(SNP_CPUID), Host(SNP_SECRETS), Measured(SNP_CC_BLOB, RAM, PAGE),
                Measured(SNP_GHCB, RESERVED, PAGE), Measured(SHIM_BASE, RESERVED, PAGE), q,
                Mmio(0, 7), Mmio(8, 232), Mmio(h, SNP_GHCB - h), Mmio(280, 8) >> :
               q \in MCLoaded, h \in {247, 248} },
   memory: {289, 291}]

MCAddrs == {0, 6, 7, 8} \cup 239 .. 292
MCOptions == [key: {""}, svn: {0}, config: {"hash"}] \cup [key: {"k"}, svn: {1}, config: {"hash"}]
=============================================================================
