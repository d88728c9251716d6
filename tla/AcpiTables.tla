----------------------------- MODULE AcpiTables -----------------------------
(***************************************************************************)
(* The page of ACPI tables src/acpi.rs writes, and what an OS finds in it  *)
(* that starts at the RSDP and follows the pointers (external).  Offsets   *)
(* are bytes from ACPI_BASE, whatever PAGE is; signatures stand for the    *)
(* headers, checksums are left out.                                        *)
(***************************************************************************)
EXTENDS Layout, FiniteSets

ACPI_PAGE       == 4096
ACPI_XSDT       == 256
ACPI_FADT       == 512
ACPI_DSDT       == 1024
ACPI_MADT       == 1280
RSDP_LEN        == 36
XSDT_LEN        == 52
FADT_LEN        == 276
DSDT_LEN        == 36
MADT_HEADER_LEN == 44
MADT_LAPIC_LEN  == 8
MADT_WAKEUP_LEN == 16

MADT_LOCAL_APIC == 0
MADT_WAKEUP     == 16

U8(n) == n % 256

-----------------------------------------------------------------------------

\* Mutant: the wakeup structure is written behind the end of the table.
MadtLen_NoWakeup(cpus, wakeup) == MADT_HEADER_LEN + cpus * MADT_LAPIC_LEN

MadtLen(cpus, wakeup) ==
  MADT_HEADER_LEN + cpus * MADT_LAPIC_LEN + (IF wakeup THEN MADT_WAKEUP_LEN ELSE 0)

LocalApic(id) ==
  [at |-> MADT_HEADER_LEN + id * MADT_LAPIC_LEN, type |-> MADT_LOCAL_APIC,
   len |-> MADT_LAPIC_LEN, apic_id |-> U8(id)]

Wakeup(cpus) ==
  [at |-> MADT_HEADER_LEN + cpus * MADT_LAPIC_LEN, type |-> MADT_WAKEUP,
   len |-> MADT_WAKEUP_LEN, mailbox |-> MAILBOX]

\* The structures of the MADT, at offsets from its header.
Structures(cpus, wakeup) ==
  { LocalApic(id) : id \in 0 .. cpus - 1 } \cup (IF wakeup THEN {Wakeup(cpus)} ELSE {})

Table(signature, at, len, pointers) ==
  [signature |-> signature, at |-> at, len |-> len, pointers |-> pointers]

Tables(cpus, wakeup) ==
  { Table("RSDP", 0, RSDP_LEN, {ACPI_XSDT}),
    Table("XSDT", ACPI_XSDT, XSDT_LEN, {ACPI_FADT, ACPI_MADT}),
    Table("FACP", ACPI_FADT, FADT_LEN, {ACPI_DSDT}),
    Table("DSDT", ACPI_DSDT, DSDT_LEN, {}),
    Table("APIC", ACPI_MADT, MadtLen(cpus, wakeup), {}) }

-----------------------------------------------------------------------------
(* The OS.                                                                 *)

\* The tables at the ends of the pointers of those already found.
FollowPointers(tables, found) == { t \in tables : \E f \in found : t.at \in f.pointers }

Reachable(tables) ==
  LET root == { t \in tables : t.at = 0 }
      second == FollowPointers(tables, root)
      third == FollowPointers(tables, second)
  IN  root \cup second \cup third \cup FollowPointers(tables, third)

\* A walk from the header by the lengths of the structures meets all of them and stands
\* at the end the header states: each begins where another ends, and ends where another
\* begins.
WalkMeetsAll(structures, end) ==
  LET starts == { s.at : s \in structures }
      ends == { s.at + s.len : s \in structures }
  IN  /\ Cardinality(starts) = Cardinality(structures)
      /\ \A s \in structures : s.len > 0
      /\ starts \ ends = {MADT_HEADER_LEN}
      /\ ends \ starts = {end}

ApicIds(cpus, wakeup) ==
  { s.apic_id : s \in { t \in Structures(cpus, wakeup) : t.type = MADT_LOCAL_APIC } }

Mailboxes(cpus, wakeup) ==
  { s.mailbox : s \in { t \in Structures(cpus, wakeup) : t.type = MADT_WAKEUP } }
=============================================================================
