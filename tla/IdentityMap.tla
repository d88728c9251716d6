---------------------------- MODULE IdentityMap -----------------------------
(***************************************************************************)
(* The measured page tables of image.rs and the walk of the processor over *)
(* them (external).  An entry is the set of its bits that are one, so that *)
(* `|' is a union; bits are those of the real addresses, whatever PAGE is. *)
(* Page 0 is the PML4, pages 1 and 2 are the PDPTs of its first two slots. *)
(***************************************************************************)
EXTENDS Layout

TABLE_FLAGS == {0, 1}      \* present, writable: 0x3
GIB_FLAGS   == {0, 1, 7}   \* and a page of one GiB: 0x83
FLAG_BITS   == 0 .. 11
GIB_SHIFT   == 30
GIBS        == MAP_LIMIT \div GIB

BitsOf(n) == { k \in 0 .. 8 : (n \div 2^k) % 2 = 1 }

Shifted(bits, by) == { k + by : k \in bits }

\* PAGE_TABLES is 2^20, and its n-th page 2^12 n above it.
TableAddress(n) == {20} \cup Shifted(BitsOf(n), 12)

Cbit(c_bit) == IF c_bit = 0 THEN {} ELSE {c_bit}

\* Mutant: the entries of the second page are not encrypted.
Gib_Plain(gib, c_bit) == Shifted(BitsOf(gib), GIB_SHIFT) \cup GIB_FLAGS

Gib(gib, c_bit) == Shifted(BitsOf(gib), GIB_SHIFT) \cup Cbit(c_bit) \cup GIB_FLAGS

TableEntry(n, c_bit) == TableAddress(n) \cup Cbit(c_bit) \cup TABLE_FLAGS

Slots == 0 .. 511

\* The pages, each a function from slots to entries; without the alias there are two.
identity_map(c_bit, shared_alias) ==
  [page \in 0 .. (IF shared_alias THEN 2 ELSE 1) |->
     [slot \in Slots |->
        CASE page = 0 /\ slot = 0 -> TableEntry(1, c_bit)
          [] page = 0 /\ slot = 1 /\ shared_alias -> TableEntry(2, c_bit)
          [] page = 1 /\ slot < GIBS -> Gib(slot, c_bit)
          [] page = 2 /\ slot = 0 -> GIB_FLAGS
          [] OTHER -> {}]]

-----------------------------------------------------------------------------

\* The processor takes the C-bit out of an address and the flags with it.
AddressIn(bits, c_bit) == bits \ (FLAG_BITS \cup Cbit(c_bit))

Unmapped == [gib |-> {}, encrypted |-> FALSE, mapped |-> FALSE]

\* Where the walk ends for the slot `top' of the PML4 and the slot `gib' below it.
Translate(map, c_bit, top, gib) ==
  LET upper == map[0][top]
      page == CHOOSE n \in 1 .. 2 : TableAddress(n) = AddressIn(upper, c_bit)
      lower == map[page][gib]
  IN  IF 0 \notin upper THEN Unmapped
      ELSE IF 0 \notin lower THEN Unmapped
      ELSE [gib |-> AddressIn(lower, c_bit), encrypted |-> Cbit(c_bit) # {} /\ c_bit \in lower, mapped |-> TRUE]

Identity(gib, encrypted) ==
  [gib |-> Shifted(BitsOf(gib), GIB_SHIFT), encrypted |-> encrypted, mapped |-> TRUE]
=============================================================================
