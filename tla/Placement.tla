----------------------------- MODULE Placement ------------------------------
(***************************************************************************)
(* The placement map of src/boot.rs: the regions an image places, and the  *)
(* three loops that derive from it what Linux is told (e820), what the     *)
(* shim accepts (accept_ranges), and whether the map is usable at all      *)
(* (validate).                                                             *)
(*                                                                         *)
(* Each loop runs over the spans in sorted order.  The sort itself is the  *)
(* choice of the least span not yet visited: `todo' holds the indices that *)
(* are left, and `at' is the loop's cursor.                                *)
(***************************************************************************)
EXTENDS Layout

CONSTANTS
  Maps,             \* the maps to start from: [placed |-> ..., memory |-> ...]
  E820_MAX,         \* entries boot_params has room for
  SHIM_DATA_SIZE,   \* bytes of the shim's data block
  Addrs             \* the addresses the properties quantify over

VARIABLES
  placed,   \* the map: a sequence of regions
  memory,   \* top of the guest-physical map
  step,     \* the part of build() that runs next
  todo,     \* spans the current loop has not visited
  at,       \* cursor of the current loop
  e820,     \* entries [base, size, kind]
  accept    \* ranges <<lo, hi>>

mapVars == <<placed, memory>>
vars == <<placed, memory, step, todo, at, e820, accept>>

-----------------------------------------------------------------------------
(* Regions: `len' is the length of the data, or the size of an aperture.   *)

Measured(base, kind, len) == [base |-> base, e820 |-> kind, fill |-> "measured", len |-> len]
Host(base)                == [base |-> base, e820 |-> RESERVED, fill |-> "host", len |-> 0]
Mmio(base, size)          == [base |-> base, e820 |-> ABSENT, fill |-> "mmio", len |-> size]

Region == [base: 0 .. WORD - 1, e820: {ABSENT, RAM, RESERVED, ACPI},
           fill: {"measured", "host", "mmio"}, len: 0 .. WORD - 1]

ASSUME MapsAssumption ==
  \A m \in Maps : /\ m.placed \in Seq(Region)
                  /\ m.memory \in Nat

ASSUME LimitsAssumption ==
  /\ E820_MAX \in Nat
  /\ SHIM_DATA_SIZE \in Nat
  /\ Addrs \subseteq Nat

\* What both builders make of a request: whole pages up to the top of memory, apertures of
\* whole pages, the types that Placed::host and Placed::mmio give, and the pages of the
\* image's own that are placed blank.
BuiltMap(regions, top, blanks) ==
  /\ IsMultiple(top, PAGE)
  /\ \A i \in DOMAIN regions :
       /\ regions[i].fill = "host" => regions[i].e820 = RESERVED
       /\ regions[i].fill = "mmio" => regions[i].e820 = ABSENT /\ IsMultiple(regions[i].len, PAGE)
  /\ \A base \in blanks : \E i \in DOMAIN regions : regions[i] = Measured(base, RESERVED, PAGE)

Span(p) == IF p.fill = "measured" THEN Max2(align_up(p.len, PAGE), PAGE)
           ELSE IF p.fill = "host" THEN PAGE ELSE p.len

Lo(i) == placed[i].base
Hi(i) == Wrap(placed[i].base + Span(placed[i]))

\* Vec::sort_unstable on (lo, hi, kind).
Precedes(i, j) ==
  \/ Lo(i) < Lo(j)
  \/ Lo(i) = Lo(j) /\ Hi(i) < Hi(j)
  \/ Lo(i) = Lo(j) /\ Hi(i) = Hi(j) /\ placed[i].e820 <= placed[j].e820

IsNext(i) == i \in todo /\ \A j \in todo : Precedes(i, j)

\* Entering a loop over spans(placed).
StartLoop(name) == step' = name /\ todo' = DOMAIN placed /\ at' = 0

-----------------------------------------------------------------------------
(* validate: sorted neighbours may not overlap, and every region is        *)
(* page-aligned and begins inside the map (or is the reset page).          *)

\* Mutant: a region is compared with its neighbour's end.
Overlaps_ComparesEnds(i) == at > Hi(i)

Overlaps(i) == at > Lo(i)

RegionOK(p) ==
  /\ IsMultiple(p.base, PAGE)
  /\ p.base < memory \/ p.base = RESET_ALIAS

ValidateNext(i) ==
  /\ step = "validate"
  /\ IsNext(i)
  /\ ~Overlaps(i)
  /\ todo' = todo \ {i}
  /\ at' = Hi(i)
  /\ UNCHANGED <<mapVars, step, e820, accept>>

RejectOverlap(i) ==
  /\ step = "validate"
  /\ IsNext(i)
  /\ Overlaps(i)
  /\ step' = "error"
  /\ UNCHANGED <<mapVars, todo, at, e820, accept>>

ValidateDone ==
  /\ step = "validate"
  /\ todo = {}
  /\ \A i \in DOMAIN placed : RegionOK(placed[i])
  /\ StartLoop("e820")
  /\ UNCHANGED <<mapVars, e820, accept>>

RejectRegion ==
  /\ step = "validate"
  /\ todo = {}
  /\ \E i \in DOMAIN placed : ~RegionOK(placed[i])
  /\ step' = "error"
  /\ UNCHANGED <<mapVars, todo, at, e820, accept>>

-----------------------------------------------------------------------------
(* e820: each span under its own type, each gap RAM, adjacent runs of one  *)
(* type coalesced, an aperture left out.                                   *)

\* Mutant: runs of different types are coalesced.
Merges_AnyKind(out, base, kind) ==
  /\ out # <<>>
  /\ out[Len(out)].base + out[Len(out)].size = base

\* Mutant: the last entry's base is taken for its end, so nothing is coalesced.
Merges_ComparesBase(out, base, kind) ==
  /\ out # <<>>
  /\ out[Len(out)].base = base
  /\ out[Len(out)].kind = kind

Merges(out, base, kind) ==
  /\ out # <<>>
  /\ out[Len(out)].base + out[Len(out)].size = base
  /\ out[Len(out)].kind = kind

Extend(entry, n) == [base |-> entry.base, size |-> entry.size + n, kind |-> entry.kind]

Push(out, base, end, kind) ==
  IF base >= end THEN out
  ELSE IF Merges(out, base, kind)
       THEN [out EXCEPT ![Len(out)] = Extend(@, end - base)]
       ELSE Append(out, [base |-> base, size |-> end - base, kind |-> kind])

\* Mutant: an aperture is listed like any other span.
PushSpan_ListsApertures(out, i) ==
  Push(out, Max2(Lo(i), at), Min2(Hi(i), memory), placed[i].e820)

\* The span itself, once the gap before it has been pushed.
PushSpan(out, i) ==
  IF placed[i].e820 = ABSENT THEN out
  ELSE Push(out, Max2(Lo(i), at), Min2(Hi(i), memory), placed[i].e820)

E820Next(i) ==
  /\ step = "e820"
  /\ IsNext(i)
  /\ Lo(i) < memory
  /\ e820' = PushSpan(Push(e820, at, Lo(i), RAM), i)
  /\ todo' = todo \ {i}
  /\ at' = Max2(at, Hi(i))
  /\ UNCHANGED <<mapVars, step, accept>>

\* The loop ends, or breaks at the first span that lies above the map, as do then
\* all the spans that are left.
E820Done ==
  /\ step = "e820"
  /\ \A i \in todo : Lo(i) >= memory
  /\ e820' = Push(e820, at, memory, RAM)
  /\ step' = "zero_page"
  /\ UNCHANGED <<mapVars, todo, at, accept>>

\* zero_page refuses a map boot_params cannot hold.
ZeroPage ==
  /\ step = "zero_page"
  /\ Len(e820) <= E820_MAX
  /\ StartLoop("accept")
  /\ UNCHANGED <<mapVars, e820, accept>>

RejectE820 ==
  /\ step = "zero_page"
  /\ Len(e820) > E820_MAX
  /\ step' = "error"
  /\ UNCHANGED <<mapVars, todo, at, e820, accept>>

-----------------------------------------------------------------------------
(* accept_ranges: what is left of [0, memory).  The closing retain drops   *)
(* the empty ranges, which is the same as never pushing them.              *)

\* Mutant: a range of a single page is dropped.
PushRange_DropsOnePage(out, lo, hi) == IF lo + PAGE < hi THEN Append(out, <<lo, hi>>) ELSE out

\* Mutant: an empty range is kept.
PushRange_KeepsEmpty(out, lo, hi) == IF lo <= hi THEN Append(out, <<lo, hi>>) ELSE out

PushRange(out, lo, hi) == IF lo < hi THEN Append(out, <<lo, hi>>) ELSE out

\* Mutant: the cursor does not move past the span.
Advance_Forgets(hi) == at

Advance(hi) == Max2(at, hi)

AcceptNext(i) ==
  /\ step = "accept"
  /\ IsNext(i)
  /\ accept' = PushRange(accept, at, Min2(Lo(i), memory))
  /\ todo' = todo \ {i}
  /\ at' = Advance(Hi(i))
  /\ UNCHANGED <<mapVars, step, e820>>

\* Mutant: what lies above the last span is not accepted.
AcceptDone_NoTail ==
  /\ step = "accept"
  /\ todo = {}
  /\ step' = "shim"
  /\ UNCHANGED <<mapVars, todo, at, e820, accept>>

AcceptDone ==
  /\ step = "accept"
  /\ todo = {}
  /\ accept' = PushRange(accept, at, memory)
  /\ step' = "shim"
  /\ UNCHANGED <<mapVars, todo, at, e820>>

\* The entry point, two words per range and two words of terminator.
ShimBytes(ranges) == 8 + 16 * Len(ranges) + 16

ShimDone ==
  /\ step = "shim"
  /\ ShimBytes(accept) <= SHIM_DATA_SIZE
  /\ step' = "built"
  /\ UNCHANGED <<mapVars, todo, at, e820, accept>>

RejectShim ==
  /\ step = "shim"
  /\ ShimBytes(accept) > SHIM_DATA_SIZE
  /\ step' = "error"
  /\ UNCHANGED <<mapVars, todo, at, e820, accept>>

-----------------------------------------------------------------------------

Init ==
  /\ \E m \in Maps : placed = m.placed /\ memory = m.memory
  /\ step = "validate"
  /\ todo = DOMAIN placed
  /\ at = 0
  /\ e820 = <<>>
  /\ accept = <<>>

Validate == ValidateDone \/ RejectRegion \/ \E i \in todo : ValidateNext(i) \/ RejectOverlap(i)
E820     == E820Done \/ ZeroPage \/ RejectE820 \/ \E i \in todo : E820Next(i)
Accept   == AcceptDone \/ ShimDone \/ RejectShim \/ \E i \in todo : AcceptNext(i)

\* A finished build stays finished.
Finished == step \in {"built", "error"} /\ UNCHANGED vars

Next == Validate \/ E820 \/ Accept \/ Finished

Spec == Init /\ [][Next]_vars

-----------------------------------------------------------------------------
(* What the three derivations promise.  None of it is promised for a map   *)
(* in which a region's end wraps around the address space.                 *)

NoWrap == \A i \in DOMAIN placed : placed[i].base + Span(placed[i]) < WORD

\* Nor is it promised of an empty region of RAM, whose span is a page it does not load,
\* that it is memory.
NoEmptyRam == \A i \in DOMAIN placed : placed[i].e820 = RAM => placed[i].len > 0

Covers(i, a) == Lo(i) <= a /\ a < Hi(i)

Disjoint(i, j) == Hi(i) <= Lo(j) \/ Hi(j) <= Lo(i)

EntryCovers(n, a) == e820[n].base <= a /\ a < e820[n].base + e820[n].size

RangeCovers(n, a) == accept[n][1] <= a /\ a < accept[n][2]

\* The type the map gives an address: its region's, or RAM where there is none.
KindAt(a, kind) ==
  IF \E i \in DOMAIN placed : Covers(i, a)
  THEN \E i \in DOMAIN placed : Covers(i, a) /\ placed[i].e820 = kind
  ELSE kind = RAM

TypeOK ==
  /\ placed \in Seq(Region)
  /\ memory \in Nat
  /\ step \in {"validate", "e820", "zero_page", "accept", "shim", "built", "error"}
  /\ todo \subseteq DOMAIN placed
  /\ at \in Nat
  /\ e820 \in Seq([base: Nat, size: Nat, kind: {RAM, RESERVED, ACPI}])
  /\ accept \in Seq(Nat \X Nat)

\* validate compares sorted neighbours only; once it has passed, no two regions
\* of the whole map overlap (boot.rs 243-261).
ValidatedDisjoint ==
  step \notin {"validate", "error"} /\ NoWrap =>
    \A i, j \in DOMAIN placed : i # j => Disjoint(i, j)

\* On the addresses of S, the finished E820 map is what E820Exact asks for.
E820ExactOn(S) ==
  step \in {"zero_page", "accept", "shim", "built"} /\ NoWrap =>
    \A a \in S, kind \in {RAM, RESERVED, ACPI} :
      (\E n \in DOMAIN e820 : EntryCovers(n, a) /\ e820[n].kind = kind)
        <=> a < memory /\ KindAt(a, kind)

\* Every address below the top of memory is listed by the finished E820 map under
\* exactly the type its region carries, RAM in the gaps, nothing inside an
\* aperture, and no address above the top of memory is listed (boot.rs 264-288).
E820Exact == E820ExactOn(Addrs)

\* The E820 entries ascend, none is empty, none overlaps another, and two entries
\* that touch differ in type: every adjacent run is coalesced (boot.rs 266-274).
E820Ordered ==
  NoWrap =>
    \A n \in DOMAIN e820 :
      /\ e820[n].size > 0
      /\ \A m \in DOMAIN e820 : n < m =>
           /\ e820[n].base + e820[n].size <= e820[m].base
           /\ e820[n].kind = e820[m].kind => e820[n].base + e820[n].size < e820[m].base

\* On the addresses of S, the finished accept list is what AcceptExact asks for.
AcceptExactOn(S) ==
  step \in {"shim", "built"} /\ NoWrap =>
    \A a \in S :
      (\E n \in DOMAIN accept : RangeCovers(n, a))
        <=> a < memory /\ ~ \E i \in DOMAIN placed : Covers(i, a)

\* The ranges the shim accepts are the exact complement of the placed spans in
\* [0, memory): nothing is accepted twice, nothing is left out (boot.rs 291-303).
AcceptExact == AcceptExactOn(Addrs)

\* The accept ranges ascend and none is empty, so none of them is the pair of
\* zeros that ends the list in the shim's data block (boot.rs 301, image.rs 131-135).
AcceptOrdered ==
  NoWrap =>
    \A n \in DOMAIN accept :
      /\ accept[n][1] < accept[n][2]
      /\ \A m \in DOMAIN accept : n < m => accept[n][2] <= accept[m][1]

-----------------------------------------------------------------------------
(* The loop invariants behind those properties.                            *)

Visited == DOMAIN placed \ todo

\* The loops visit the spans in sorted order and stay ahead of what they visited.
SortedInv ==
  step \in {"validate", "e820", "accept"} /\ NoWrap =>
    /\ \A i \in Visited, j \in todo : Precedes(i, j)
    /\ \A i \in Visited : Hi(i) <= at
    /\ step = "validate" => \A i, j \in Visited : i # j => Disjoint(i, j)
    /\ step # "validate" => \A j \in todo : at <= Lo(j)

\* So far the E820 map describes exactly what lies below the cursor.
E820Inv(S) ==
  step = "e820" /\ NoWrap =>
    /\ \A n \in DOMAIN e820 : e820[n].base + e820[n].size <= Min2(at, memory)
    /\ \A a \in S, kind \in {RAM, RESERVED, ACPI} :
         (\E n \in DOMAIN e820 : EntryCovers(n, a) /\ e820[n].kind = kind)
           <=> a < Min2(at, memory) /\ KindAt(a, kind)

\* So far the accept list is the complement of what lies below the cursor.
AcceptInv(S) ==
  step = "accept" /\ NoWrap =>
    /\ \A n \in DOMAIN accept : accept[n][2] <= Min2(at, memory)
    /\ \A a \in S :
         (\E n \in DOMAIN accept : RangeCovers(n, a))
           <=> a < Min2(at, memory) /\ ~ \E i \in DOMAIN placed : Covers(i, a)

\* The strengthening that makes the properties above inductive: the three loop
\* invariants together (boot.rs 243-303).
LoopInv == SortedInv /\ E820Inv(Addrs) /\ AcceptInv(Addrs)
=============================================================================
