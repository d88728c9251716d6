-------------------------- MODULE PlacementProofs ---------------------------
(***************************************************************************)
(* Proofs about Placement, for every page size and every set of maps, and  *)
(* of every address.                                                       *)
(*                                                                         *)
(* The inductive invariant is PlacementInv.  SortedInv carries the sort:   *)
(* what has been visited precedes what is left and ends at or below the    *)
(* cursor.  From it, comparing neighbours makes the whole map disjoint,    *)
(* and each loop's output describes exactly what lies below its cursor     *)
(* (E820Inv, AcceptInv) until the cursor passes the top of memory.         *)
(***************************************************************************)
EXTENDS Placement, SequenceTheorems, TLAPS

Kinds == {RAM, RESERVED, ACPI}

Entry == [base: Nat, size: Nat, kind: Kinds]

-----------------------------------------------------------------------------
(* The spans are numbers, and without wrapping they end after they begin.  *)

\* Rounding up to a page gives a number (layout.rs, align_up).
LEMMA AlignIsInt == ASSUME NEW v \in Nat PROVE align_up(v, PAGE) \in Int
<1>1. (v + PAGE - 1) \div PAGE \in Int
  BY PageAssumption
<1> QED BY <1>1, PageAssumption DEF align_up

\* The span of a region is a number (boot.rs, Placed::span).
LEMMA SpanType == ASSUME NEW p \in Region PROVE Span(p) \in Nat
<1>1. p.len \in Nat /\ align_up(p.len, PAGE) \in Int
  BY AlignIsInt, WordAssumption DEF Region
<1> QED BY <1>1, PageAssumption DEF Span, Max2

\* A region begins and ends at a number, and ends after it begins unless it wraps.
LEMMA BoundsType ==
  ASSUME placed \in Seq(Region), NEW i \in DOMAIN placed
  PROVE  /\ placed[i] \in Region
         /\ Lo(i) \in Nat
         /\ Hi(i) \in Nat
         /\ NoWrap => Lo(i) <= Hi(i)
<1>1. placed[i] \in Region
  OBVIOUS
<1>2. placed[i].base \in Nat /\ placed[i].base < WORD
  BY <1>1, WordAssumption DEF Region
<1>3. Span(placed[i]) \in Nat
  BY <1>1, SpanType
<1> QED BY <1>1, <1>2, <1>3, WordAssumption DEF Lo, Hi, Wrap, NoWrap

\* The map never changes, so neither does anything derived from it alone.
LEMMA SameMap ==
  ASSUME UNCHANGED mapVars
  PROVE  /\ placed' = placed /\ memory' = memory
         /\ NoWrap' <=> NoWrap
         /\ \A i : Lo(i)' = Lo(i) /\ Hi(i)' = Hi(i)
         /\ \A i, j : Precedes(i, j)' <=> Precedes(i, j)
         /\ \A i, j : Disjoint(i, j)' <=> Disjoint(i, j)
         /\ \A i, a : Covers(i, a)' <=> Covers(i, a)
         /\ \A a, kind : KindAt(a, kind)' <=> KindAt(a, kind)
BY DEF mapVars, NoWrap, Lo, Hi, Precedes, Disjoint, Covers, KindAt

-----------------------------------------------------------------------------
(* The two pushes.                                                         *)

Lists(out, a, kind) ==
  \E n \in DOMAIN out : out[n].base <= a /\ a < out[n].base + out[n].size /\ out[n].kind = kind

Ascending(out) ==
  \A n \in DOMAIN out :
    /\ out[n].size > 0
    /\ \A m \in DOMAIN out : n < m =>
         /\ out[n].base + out[n].size <= out[m].base
         /\ out[n].kind = out[m].kind => out[n].base + out[n].size < out[m].base

EndsBy(out, top) == \A n \in DOMAIN out : out[n].base + out[n].size <= top

\* What an Append leaves and adds.
LEMMA Appended ==
  ASSUME NEW S, NEW out \in Seq(S), NEW e \in S
  PROVE  LET new == Append(out, e)
             L == Len(out)
         IN  /\ L \in Nat
             /\ DOMAIN out = 1..L
             /\ DOMAIN new = 1..(L + 1)
             /\ \A n \in 1..L : new[n] = out[n]
             /\ new[L + 1] = e
<1>1. /\ Append(out, e) \in Seq(S)
      /\ Len(Append(out, e)) = Len(out) + 1
      /\ \A n \in 1..Len(out) : Append(out, e)[n] = out[n]
      /\ Append(out, e)[Len(out) + 1] = e
  BY AppendProperties
<1>2. DOMAIN Append(out, e) = 1..(Len(out) + 1)
  BY <1>1, LenProperties
<1>3. Len(out) \in Nat /\ DOMAIN out = 1..Len(out)
  BY LenProperties
<1> QED BY <1>1, <1>2, <1>3

\* Push keeps the type of the list.
LEMMA PushType ==
  ASSUME NEW out \in Seq(Entry), NEW base \in Nat, NEW end \in Nat, NEW kind \in Kinds
  PROVE  Push(out, base, end, kind) \in Seq(Entry)
<1>1. CASE base >= end
  BY <1>1 DEF Push
<1>2. CASE base < end /\ Merges(out, base, kind)
  <2>1. Len(out) \in DOMAIN out /\ out[Len(out)] \in Entry
    BY <1>2 DEF Merges
  <2>2. Extend(out[Len(out)], end - base) \in Entry
    BY <1>2, <2>1 DEF Entry, Extend
  <2> QED BY <1>2, <2>1, <2>2 DEF Push
<1>3. CASE base < end /\ ~Merges(out, base, kind)
  <2>1. [base |-> base, size |-> end - base, kind |-> kind] \in Entry
    BY <1>3 DEF Entry
  <2> QED BY <1>3, <2>1 DEF Push
<1> QED BY <1>1, <1>2, <1>3

\* Pushed above everything listed so far, a span is listed under its kind, nothing
\* else changes, and the list keeps ascending and coalesced.
LEMMA PushCovers ==
  ASSUME NEW out \in Seq(Entry), NEW base \in Nat, NEW end \in Nat, NEW kind \in Kinds,
         base <= end, Ascending(out), EndsBy(out, base)
  PROVE  LET new == Push(out, base, end, kind)
         IN  /\ Ascending(new)
             /\ EndsBy(new, end)
             /\ \A a \in Nat, k \in Kinds :
                  Lists(new, a, k) <=> Lists(out, a, k) \/ (base <= a /\ a < end /\ k = kind)
<1> DEFINE new == Push(out, base, end, kind)
<1>0. \A n \in DOMAIN out : out[n].base \in Nat /\ out[n].size \in Nat
  <2> SUFFICES ASSUME NEW n \in DOMAIN out PROVE out[n].base \in Nat /\ out[n].size \in Nat
    OBVIOUS
  <2>1. out[n] \in Entry
    OBVIOUS
  <2> QED BY <2>1 DEF Entry
<1>1. CASE base = end
  <2>1. new = out
    BY <1>1 DEF Push
  <2> QED BY <1>1, <2>1 DEF EndsBy
<1>2. CASE base < end /\ Merges(out, base, kind)
  <2> DEFINE L == Len(out)
  <2>1. L \in DOMAIN out /\ out[L] \in Entry
    BY <1>2 DEF Merges
  <2>2. out[L].base + out[L].size = base /\ out[L].kind = kind
    BY <1>2 DEF Merges
  <2>3. new = [out EXCEPT ![L] = Extend(out[L], end - base)]
    BY <1>2, <2>1 DEF Push
  <2>4. /\ DOMAIN new = DOMAIN out
        /\ new[L].base = out[L].base /\ new[L].kind = kind
        /\ new[L].size = out[L].size + (end - base)
        /\ \A n \in DOMAIN out : n # L => new[n] = out[n]
    BY <2>1, <2>2, <2>3 DEF Entry, Extend
  <2>5. L \in Nat /\ \A n \in DOMAIN out : n \in Nat /\ (n # L => n < L)
    OBVIOUS
  <2> HIDE DEF new, L
  <2>6. /\ L \in Nat /\ L \in DOMAIN new
        /\ out[L].base \in Nat /\ out[L].size \in Nat
        /\ new[L].base \in Nat /\ new[L].size \in Nat
        /\ new[L].base + new[L].size = end
        /\ out[L].size > 0 /\ new[L].size > 0
    BY <1>0, <1>2, <2>1, <2>2, <2>4, <2>5, SMTT(30) DEF Ascending
  <2>7. \A n \in DOMAIN new : n # L => /\ n \in DOMAIN out /\ n < L /\ new[n] = out[n]
                                      /\ out[n].base \in Nat /\ out[n].size \in Nat
    BY <1>0, <2>4, <2>5
  <2>8. Ascending(new)
    <3> SUFFICES ASSUME NEW n \in DOMAIN new
                 PROVE  /\ new[n].size > 0
                        /\ \A m \in DOMAIN new : n < m =>
                             /\ new[n].base + new[n].size <= new[m].base
                             /\ new[n].kind = new[m].kind =>
                                  new[n].base + new[n].size < new[m].base
      BY DEF Ascending
    <3>1. CASE n = L
      BY <3>1, <2>5, <2>6, <2>7
    <3>2. CASE n # L
      BY <3>2, <2>1, <2>2, <2>4, <2>5, <2>6, <2>7 DEF Ascending
    <3> QED BY <3>1, <3>2
  <2>9. EndsBy(new, end)
    <3> SUFFICES ASSUME NEW n \in DOMAIN new PROVE new[n].base + new[n].size <= end
      BY DEF EndsBy
    <3>1. CASE n = L
      BY <3>1, <2>6
    <3>2. CASE n # L
      BY <1>2, <3>2, <2>7 DEF EndsBy
    <3> QED BY <3>1, <3>2
  <2>10. ASSUME NEW a \in Nat, NEW k \in Kinds
         PROVE  Lists(new, a, k) <=> Lists(out, a, k) \/ (base <= a /\ a < end /\ k = kind)
    <3>1. ASSUME Lists(new, a, k)
          PROVE  Lists(out, a, k) \/ (base <= a /\ a < end /\ k = kind)
      <4>1. PICK n \in DOMAIN new :
              new[n].base <= a /\ a < new[n].base + new[n].size /\ new[n].kind = k
        BY <3>1 DEF Lists
      <4>2. CASE n = L
        BY <4>1, <4>2, <2>1, <2>2, <2>4, <2>6 DEF Lists
      <4>3. CASE n # L
        BY <4>1, <4>3, <2>7 DEF Lists
      <4> QED BY <4>2, <4>3
    <3>2. ASSUME Lists(out, a, k) PROVE Lists(new, a, k)
      <4>1. PICK n \in DOMAIN out :
              out[n].base <= a /\ a < out[n].base + out[n].size /\ out[n].kind = k
        BY <3>2 DEF Lists
      <4>2. CASE n = L
        BY <1>2, <4>1, <4>2, <2>2, <2>4, <2>6 DEF Lists
      <4>3. CASE n # L
        BY <4>1, <4>3, <2>4, <2>7 DEF Lists
      <4> QED BY <4>2, <4>3
    <3>3. ASSUME base <= a, a < end, k = kind PROVE Lists(new, a, k)
      BY <3>3, <2>2, <2>4, <2>6, SMTT(30) DEF Lists
    <3> QED BY <3>1, <3>2, <3>3
  <2> QED BY <2>8, <2>9, <2>10 DEF new
<1>3. CASE base < end /\ ~Merges(out, base, kind)
  <2> DEFINE e == [base |-> base, size |-> end - base, kind |-> kind]
  <2> DEFINE L == Len(out)
  <2>1. new = Append(out, e)
    BY <1>3 DEF Push
  <2>2. e \in Entry
    BY <1>3 DEF Entry
  <2>3. /\ L \in Nat
        /\ DOMAIN out = 1..L
        /\ DOMAIN new = 1..(L + 1)
        /\ \A n \in 1..L : new[n] = out[n]
        /\ new[L + 1] = e
    BY <2>1, <2>2, Appended
  <2>4. e.base = base /\ e.size = end - base /\ e.kind = kind /\ e.base + e.size = end /\ e.size > 0
    BY <1>3
  <2> HIDE DEF new, L, e
  <2>5. \A n \in DOMAIN new : n # L + 1 =>
          /\ n \in DOMAIN out /\ new[n] = out[n]
          /\ out[n].base \in Nat /\ out[n].size \in Nat /\ out[n].base + out[n].size <= base
    BY <1>0, <2>3 DEF EndsBy
  <2>6. L \in DOMAIN out =>
          \A n \in DOMAIN out : out[n].base + out[n].size = base => n = L
    BY <1>0, <2>3, SMTT(30) DEF Ascending, EndsBy
  <2>7. \A n \in DOMAIN out : out[n].kind = kind => out[n].base + out[n].size < base
    <3> SUFFICES ASSUME NEW n \in DOMAIN out, out[n].kind = kind
                 PROVE  out[n].base + out[n].size < base
      OBVIOUS
    <3>0. out[n].base \in Nat /\ out[n].size \in Nat /\ out[n].base + out[n].size <= base
      BY <1>0 DEF EndsBy
    <3> SUFFICES ASSUME out[n].base + out[n].size = base PROVE FALSE
      BY <3>0
    <3>1. n = L /\ L > 0
      BY <2>3, <2>6
    <3> QED BY <1>3, <3>1 DEF Merges, L
  <2>8. Ascending(new)
    <3> SUFFICES ASSUME NEW n \in DOMAIN new
                 PROVE  /\ new[n].size > 0
                        /\ \A m \in DOMAIN new : n < m =>
                             /\ new[n].base + new[n].size <= new[m].base
                             /\ new[n].kind = new[m].kind =>
                                  new[n].base + new[n].size < new[m].base
      BY DEF Ascending
    <3>1. CASE n = L + 1
      BY <3>1, <2>3, <2>4
    <3>2. CASE n # L + 1
      <4>1. n \in DOMAIN out /\ new[n] = out[n] /\ new[n].size > 0
        BY <3>2, <2>5 DEF Ascending
      <4>2. ASSUME NEW m \in DOMAIN new, n < m
            PROVE  /\ new[n].base + new[n].size <= new[m].base
                   /\ new[n].kind = new[m].kind => new[n].base + new[n].size < new[m].base
        <5>1. CASE m = L + 1
          BY <4>1, <5>1, <2>3, <2>4, <2>5, <2>7, <3>2
        <5>2. CASE m # L + 1
          BY <4>1, <4>2, <5>2, <2>5 DEF Ascending
        <5> QED BY <5>1, <5>2
      <4> QED BY <4>1, <4>2
    <3> QED BY <3>1, <3>2
  <2>9. EndsBy(new, end)
    <3> SUFFICES ASSUME NEW n \in DOMAIN new PROVE new[n].base + new[n].size <= end
      BY DEF EndsBy
    <3>1. CASE n = L + 1
      BY <3>1, <2>3, <2>4
    <3>2. CASE n # L + 1
      BY <1>3, <3>2, <2>5
    <3> QED BY <3>1, <3>2
  <2>10. \A a \in Nat, k \in Kinds :
           Lists(new, a, k) <=> Lists(out, a, k) \/ (base <= a /\ a < end /\ k = kind)
    <3>1. ASSUME NEW a \in Nat, NEW k \in Kinds, Lists(new, a, k)
          PROVE  Lists(out, a, k) \/ (base <= a /\ a < end /\ k = kind)
      <4>1. PICK n \in DOMAIN new :
              new[n].base <= a /\ a < new[n].base + new[n].size /\ new[n].kind = k
        BY <3>1 DEF Lists
      <4>2. CASE n = L + 1
        BY <4>1, <4>2, <2>3, <2>4
      <4>3. CASE n # L + 1
        BY <4>1, <4>3, <2>5 DEF Lists
      <4> QED BY <4>2, <4>3
    <3>2. ASSUME NEW a \in Nat, NEW k \in Kinds, Lists(out, a, k) PROVE Lists(new, a, k)
      <4>1. PICK n \in DOMAIN out :
              out[n].base <= a /\ a < out[n].base + out[n].size /\ out[n].kind = k
        BY <3>2 DEF Lists
      <4>2. n \in DOMAIN new /\ new[n] = out[n]
        BY <2>3
      <4> QED BY <4>1, <4>2 DEF Lists
    <3>3. ASSUME NEW a \in Nat, base <= a, a < end PROVE Lists(new, a, kind)
      <4>1. L + 1 \in DOMAIN new /\ new[L + 1] = e
        BY <2>3
      <4> QED BY <3>3, <4>1, <2>4 DEF Lists
    <3> QED BY <3>1, <3>2, <3>3
  <2> QED BY <2>8, <2>9, <2>10 DEF new
<1> QED BY <1>1, <1>2, <1>3

Holds(out, a) == \E n \in DOMAIN out : out[n][1] <= a /\ a < out[n][2]

InOrder(out) ==
  \A n \in DOMAIN out :
    /\ out[n][1] < out[n][2]
    /\ \A m \in DOMAIN out : n < m => out[n][2] <= out[m][1]

UpTo(out, top) == \A n \in DOMAIN out : out[n][2] <= top

\* A range pushed above all others is held and nothing else changes.
LEMMA PushRangeHolds ==
  ASSUME NEW out \in Seq(Nat \X Nat), NEW lo \in Nat, NEW hi \in Nat
  PROVE  LET new == PushRange(out, lo, hi)
         IN  /\ new \in Seq(Nat \X Nat)
             /\ \A a \in Nat : Holds(new, a) <=> Holds(out, a) \/ (lo <= a /\ a < hi)
             /\ InOrder(out) /\ (lo < hi => UpTo(out, lo)) => InOrder(new)
             /\ \A top \in Nat : UpTo(out, top) /\ (lo < hi => hi <= top) => UpTo(new, top)
<1> DEFINE new == PushRange(out, lo, hi)
<1>1. CASE lo >= hi
  <2>1. new = out
    BY <1>1 DEF PushRange
  <2> QED BY <1>1, <2>1
<1>2. CASE lo < hi
  <2> DEFINE L == Len(out)
  <2>1. new = Append(out, <<lo, hi>>) /\ new \in Seq(Nat \X Nat)
    BY <1>2 DEF PushRange
  <2>2. /\ L \in Nat
        /\ DOMAIN out = 1..L
        /\ DOMAIN new = 1..(L + 1)
        /\ \A n \in 1..L : new[n] = out[n]
        /\ new[L + 1] = <<lo, hi>>
    BY <2>1, Appended
  <2>3. \A n \in DOMAIN out : out[n][1] \in Nat /\ out[n][2] \in Nat
    OBVIOUS
  <2> HIDE DEF new, L
  <2>4. /\ DOMAIN new = DOMAIN out \cup {L + 1}
        /\ \A n \in DOMAIN out : n < L + 1 /\ n \in Nat /\ new[n] = out[n]
        /\ new[L + 1][1] = lo /\ new[L + 1][2] = hi
    BY <2>2
  <2>5. \A a \in Nat : Holds(new, a) <=> Holds(out, a) \/ (lo <= a /\ a < hi)
    BY <2>3, <2>4 DEF Holds
  <2>6. InOrder(out) /\ UpTo(out, lo) => InOrder(new)
    <3> SUFFICES ASSUME InOrder(out), UpTo(out, lo), NEW n \in DOMAIN new
                 PROVE  /\ new[n][1] < new[n][2]
                        /\ \A m \in DOMAIN new : n < m => new[n][2] <= new[m][1]
      BY DEF InOrder
    <3>1. CASE n = L + 1
      BY <1>2, <2>2, <2>4, <3>1
    <3>2. CASE n # L + 1
      <4>1. n \in DOMAIN out /\ new[n] = out[n] /\ new[n][2] <= lo
        BY <2>4, <3>2 DEF UpTo
      <4>2. new[n][1] < new[n][2]
        BY <4>1 DEF InOrder
      <4>3. ASSUME NEW m \in DOMAIN new, n < m PROVE new[n][2] <= new[m][1]
        <5>1. CASE m = L + 1
          BY <2>4, <4>1, <5>1
        <5>2. CASE m # L + 1
          BY <2>4, <4>1, <4>3, <5>2 DEF InOrder
        <5> QED BY <5>1, <5>2
      <4> QED BY <4>2, <4>3
    <3> QED BY <3>1, <3>2
  <2>7. \A top \in Nat : UpTo(out, top) /\ hi <= top => UpTo(new, top)
    BY <2>3, <2>4 DEF UpTo
  <2> QED BY <1>2, <2>1, <2>5, <2>6, <2>7 DEF new
<1> QED BY <1>1, <1>2

-----------------------------------------------------------------------------
(* The inductive invariant, over all addresses.                            *)

\* The lists are empty until their loops begin.
NotBegun ==
  /\ step = "validate" => e820 = <<>>
  /\ step \in {"validate", "e820", "zero_page"} => accept = <<>>

Loops == SortedInv /\ E820Inv(Nat) /\ AcceptInv(Nat)

Safety == ValidatedDisjoint /\ E820ExactOn(Nat) /\ E820Ordered /\ AcceptExactOn(Nat) /\ AcceptOrdered

PlacementInv == TypeOK /\ NotBegun /\ Loops /\ Safety

Start == TypeOK /\ step = "validate" /\ todo = DOMAIN placed /\ e820 = <<>> /\ accept = <<>>

\* Before validate has looked at anything, nothing has been derived.
LEMMA StartInv == Start => PlacementInv
<1> SUFFICES ASSUME Start PROVE PlacementInv
  OBVIOUS
<1>1. Visited = {}
  BY DEF Start, Visited
<1> QED BY <1>1 DEF Start, PlacementInv, NotBegun, Loops, SortedInv, E820Inv, AcceptInv, Safety,
                ValidatedDisjoint, E820ExactOn, E820Ordered, AcceptExactOn, AcceptOrdered

\* Every map to start from is one.
LEMMA InitInv == Init => PlacementInv
<1>1. Init => Start
  BY MapsAssumption DEF Init, Start, TypeOK
<1> QED BY <1>1, StartInv

-----------------------------------------------------------------------------
(* validate.                                                               *)

\* A span that begins at or after the cursor is clear of every span visited before.
LEMMA ValidateNextInv == ASSUME PlacementInv, NEW i \in todo, ValidateNext(i) PROVE PlacementInv'
<1> USE DEF PlacementInv
<1>1. /\ UNCHANGED <<mapVars, step, e820, accept>> /\ step = "validate"
      /\ todo' = todo \ {i} /\ at' = Hi(i) /\ IsNext(i) /\ at <= Lo(i)
  <2>1. i \in DOMAIN placed /\ placed \in Seq(Region) /\ at \in Nat
    BY DEF TypeOK
  <2>2. Lo(i) \in Nat
    BY <2>1, BoundsType
  <2> QED BY <2>1, <2>2 DEF ValidateNext, Overlaps
<1>2. TypeOK'
  BY <1>1, BoundsType DEF TypeOK, mapVars
<1>3. Visited' = Visited \cup {i}
  BY <1>1, SameMap DEF Visited, TypeOK
<1>4. SortedInv'
  <2> SUFFICES ASSUME NoWrap
               PROVE  /\ \A j \in Visited', k \in todo' : Precedes(j, k)
                      /\ \A j \in Visited' : Hi(j) <= at'
                      /\ \A j, k \in Visited' : j # k => Disjoint(j, k)
    BY <1>1, SameMap DEF SortedInv
  <2>1. \A j \in Visited, k \in todo : Precedes(j, k)
    BY <1>1 DEF Loops, SortedInv
  <2>2. \A j \in Visited', k \in todo' : Precedes(j, k)
    BY <1>1, <1>3, <2>1 DEF IsNext
  <2>3. \A j \in Visited : Hi(j) \in Nat /\ Hi(j) <= Lo(i)
    <3>1. \A j \in Visited : Hi(j) <= at
      BY <1>1 DEF Loops, SortedInv
    <3>2. \A j \in Visited : Hi(j) \in Nat
      BY BoundsType DEF Visited, TypeOK
    <3>3. Lo(i) \in Nat
      BY BoundsType DEF TypeOK
    <3> QED BY <1>1, <3>1, <3>2, <3>3 DEF TypeOK
  <2>4. Lo(i) \in Nat /\ Hi(i) \in Nat /\ Lo(i) <= Hi(i)
    BY BoundsType DEF TypeOK
  <2>5. \A j \in Visited' : Hi(j) <= at'
    BY <1>1, <1>3, <2>3, <2>4
  <2>6. \A j, k \in Visited : j # k => Disjoint(j, k)
    BY <1>1 DEF Loops, SortedInv
  <2>7. \A j \in Visited : Disjoint(j, i) /\ Disjoint(i, j)
    BY <2>3 DEF Disjoint
  <2>8. \A j, k \in Visited' : j # k => Disjoint(j, k)
    BY <1>3, <2>6, <2>7
  <2> QED BY <2>2, <2>5, <2>8
<1>5. (NotBegun /\ E820Inv(Nat) /\ AcceptInv(Nat))'
  BY <1>1 DEF NotBegun, E820Inv, AcceptInv
<1>6. Safety'
  BY <1>1, SameMap DEF Safety, NotBegun, ValidatedDisjoint, E820ExactOn, E820Ordered,
                       AcceptExactOn, AcceptOrdered
<1> QED BY <1>2, <1>4, <1>5, <1>6 DEF Loops

\* validate has seen every span: the whole map is disjoint, and e820 begins.
LEMMA ValidateDoneInv == ASSUME PlacementInv, ValidateDone PROVE PlacementInv'
<1> USE DEF PlacementInv
<1>1. /\ UNCHANGED <<mapVars, e820, accept>> /\ step = "validate" /\ step' = "e820"
      /\ todo = {} /\ todo' = DOMAIN placed /\ at' = 0 /\ e820 = <<>> /\ accept = <<>>
  BY DEF ValidateDone, StartLoop, NotBegun
<1>2. TypeOK'
  BY <1>1 DEF TypeOK, mapVars
<1>3. NoWrap => \A i, j \in DOMAIN placed : i # j => Disjoint(i, j)
  BY <1>1 DEF Loops, SortedInv, Visited
<1>4. Visited' = {}
  BY <1>1, SameMap DEF Visited
<1>5. SortedInv'
  <2>1. \A j \in todo' : at' <= Lo(j)
    BY <1>1, BoundsType DEF TypeOK
  <2> QED BY <1>1, <1>4, <2>1, SameMap DEF SortedInv
<1>6. E820Inv(Nat)'
  <2>1. Min2(at', memory) = 0
    BY <1>1 DEF Min2, TypeOK
  <2> QED BY <1>1, <2>1, SameMap DEF E820Inv
<1>7. (NotBegun /\ AcceptInv(Nat))'
  BY <1>1 DEF NotBegun, AcceptInv
<1>8. Safety'
  BY <1>1, <1>3, SameMap DEF Safety, ValidatedDisjoint, E820ExactOn, E820Ordered,
                             AcceptExactOn, AcceptOrdered
<1> QED BY <1>2, <1>5, <1>6, <1>7, <1>8 DEF Loops

\* A refused map says nothing further.
LEMMA ErrorInv ==
  ASSUME PlacementInv, step' = "error", UNCHANGED <<mapVars, todo, at, e820, accept>>
  PROVE  PlacementInv'
<1> USE DEF PlacementInv
<1>1. TypeOK'
  BY DEF TypeOK, mapVars
<1>2. (NotBegun /\ Loops)'
  BY DEF NotBegun, Loops, SortedInv, E820Inv, AcceptInv
<1>3. Safety'
  BY SameMap DEF Safety, ValidatedDisjoint, E820ExactOn, E820Ordered, AcceptExactOn, AcceptOrdered
<1> QED BY <1>1, <1>2, <1>3

-----------------------------------------------------------------------------
(* What a visited span leaves for the lists: where it begins, where it     *)
(* ends, and that nothing else lies between the cursor and its end.        *)

\* The span a loop visits next: nothing covers the gap before it, and only it its own addresses.
LEMMA NextSpan ==
  ASSUME PlacementInv, NoWrap, step \in {"e820", "accept"}, NEW i \in todo, IsNext(i)
  PROVE  /\ Lo(i) \in Nat /\ Hi(i) \in Nat /\ at <= Lo(i) /\ Lo(i) <= Hi(i)
         /\ \A j \in Visited : Hi(j) \in Nat /\ Hi(j) <= at
         /\ \A j \in todo \ {i} : Lo(j) \in Nat /\ Hi(i) <= Lo(j)
         /\ \A a \in Nat : at <= a /\ a < Lo(i) => ~ \E j \in DOMAIN placed : Covers(j, a)
         /\ \A a \in Nat : Lo(i) <= a /\ a < Hi(i) =>
              Covers(i, a) /\ \A j \in DOMAIN placed : Covers(j, a) => j = i
<1> USE DEF PlacementInv
<1>1. \A j \in DOMAIN placed : Lo(j) \in Nat /\ Hi(j) \in Nat /\ Lo(j) <= Hi(j)
  BY BoundsType DEF TypeOK
<1>2. i \in DOMAIN placed /\ at \in Nat /\ todo \subseteq DOMAIN placed
  BY DEF TypeOK
<1>3. at <= Lo(i) /\ \A j \in Visited : Hi(j) <= at
  BY DEF Loops, SortedInv
<1>4. \A j \in todo \ {i} : Hi(i) <= Lo(j)
  <2> SUFFICES ASSUME NEW j \in todo \ {i} PROVE Hi(i) <= Lo(j)
    OBVIOUS
  <2>1. Disjoint(i, j)
    BY <1>2 DEF Safety, ValidatedDisjoint
  <2>2. Precedes(i, j)
    BY DEF IsNext
  <2> QED BY <1>1, <1>2, <2>1, <2>2 DEF Disjoint, Precedes
<1>5. \A j \in todo : Lo(i) <= Lo(j)
  BY <1>1, <1>2 DEF IsNext, Precedes
<1>6. \A j \in DOMAIN placed : j \in Visited \/ j = i \/ j \in todo \ {i}
  BY DEF Visited
<1>7. \A a \in Nat : at <= a /\ a < Lo(i) => ~ \E j \in DOMAIN placed : Covers(j, a)
  BY <1>1, <1>2, <1>3, <1>5, <1>6 DEF Covers
<1>8. \A a \in Nat : Lo(i) <= a /\ a < Hi(i) =>
        Covers(i, a) /\ \A j \in DOMAIN placed : Covers(j, a) => j = i
  BY <1>1, <1>2, <1>3, <1>4, <1>6 DEF Covers
<1> QED BY <1>1, <1>2, <1>3, <1>4, <1>7, <1>8 DEF Visited

\* Moving on to the next span keeps the order, in either list's loop.
LEMMA SortedStep ==
  ASSUME PlacementInv, step \in {"e820", "accept"}, NEW i \in todo, IsNext(i),
         todo' = todo \ {i}, at' = Max2(at, Hi(i)), UNCHANGED <<mapVars, step>>
  PROVE  SortedInv'
<1> USE DEF PlacementInv
<1> SUFFICES ASSUME NoWrap
             PROVE  /\ \A j \in Visited', k \in todo' : Precedes(j, k)
                    /\ \A j \in Visited' : Hi(j) <= at'
                    /\ \A k \in todo' : at' <= Lo(k)
  BY SameMap DEF SortedInv
<1>1. Visited' = Visited \cup {i}
  BY SameMap DEF Visited, TypeOK
<1>2. at' = Hi(i) /\ at <= Hi(i)
  BY NextSpan DEF Max2, TypeOK
<1>3. \A j \in Visited, k \in todo : Precedes(j, k)
  BY DEF Loops, SortedInv
<1>4. \A j \in Visited' : Hi(j) <= at'
  BY <1>1, <1>2, NextSpan DEF TypeOK
<1> QED BY <1>1, <1>2, <1>3, <1>4, NextSpan DEF IsNext

-----------------------------------------------------------------------------
(* e820.                                                                   *)

\* A placed region's type is one of the four.
LEMMA KindType == ASSUME placed \in Seq(Region), NEW i \in DOMAIN placed
                  PROVE  placed[i].e820 \in Kinds \cup {ABSENT}
<1>1. placed[i] \in Region
  OBVIOUS
<1> QED BY <1>1 DEF Region, Kinds

\* The two pushes of one iteration extend the list's description to the span's end.
LEMMA SpanListed ==
  ASSUME PlacementInv, NoWrap, NEW i \in todo, E820Next(i)
  PROVE  LET top == Min2(Hi(i), memory)
         IN  /\ Ascending(e820')
             /\ EndsBy(e820', top)
             /\ \A a \in Nat, kind \in Kinds :
                  Lists(e820', a, kind) <=> a < top /\ KindAt(a, kind)
<1> USE DEF PlacementInv
<1> DEFINE top == Min2(Hi(i), memory)
<1> DEFINE gap == Push(e820, at, Lo(i), RAM)
<1>1. step = "e820" /\ IsNext(i) /\ Lo(i) < memory /\ e820' = PushSpan(gap, i)
  BY DEF E820Next
<1>2. /\ i \in DOMAIN placed /\ at \in Nat /\ memory \in Nat /\ e820 \in Seq(Entry)
  BY DEF TypeOK, Entry, Kinds
<1>3. Lo(i) \in Nat /\ Hi(i) \in Nat /\ at <= Lo(i) /\ Lo(i) <= Hi(i)
  BY <1>1, NextSpan
<1>4. Min2(at, memory) = at
  BY <1>1, <1>2, <1>3 DEF Min2
<1>5. top \in Nat /\ Lo(i) <= top /\ top <= Hi(i) /\ top <= memory
  BY <1>1, <1>2, <1>3 DEF Min2
<1>6. /\ Ascending(e820) /\ EndsBy(e820, at)
      /\ \A a \in Nat, kind \in Kinds : Lists(e820, a, kind) <=> a < at /\ KindAt(a, kind)
  BY <1>1, <1>4 DEF Loops, E820Inv, Safety, E820Ordered, Ascending, EndsBy, Lists, EntryCovers, Kinds
<1>7. RAM \in Kinds
  BY DEF Kinds
<1>8. /\ gap \in Seq(Entry) /\ Ascending(gap) /\ EndsBy(gap, Lo(i))
      /\ \A a \in Nat, kind \in Kinds :
           Lists(gap, a, kind) <=> Lists(e820, a, kind) \/ (at <= a /\ a < Lo(i) /\ kind = RAM)
  BY <1>2, <1>3, <1>6, <1>7, PushType, PushCovers
<1> HIDE DEF gap
<1>9. \A a \in Nat, kind \in Kinds : Lists(gap, a, kind) <=> a < Lo(i) /\ KindAt(a, kind)
  <2> SUFFICES ASSUME NEW a \in Nat, NEW kind \in Kinds
               PROVE  Lists(gap, a, kind) <=> a < Lo(i) /\ KindAt(a, kind)
    OBVIOUS
  <2>1. a \in Nat
    OBVIOUS
  <2>2. at <= a /\ a < Lo(i) => (KindAt(a, kind) <=> kind = RAM)
    BY <1>1, <2>1, NextSpan DEF KindAt
  <2> QED BY <1>2, <1>3, <1>6, <1>8, <2>1, <2>2
<1>10. \A a \in Nat, kind \in Kinds :
         Lo(i) <= a /\ a < Hi(i) => (KindAt(a, kind) <=> kind = placed[i].e820)
  <2> SUFFICES ASSUME NEW a \in Nat, NEW kind \in Kinds, Lo(i) <= a, a < Hi(i)
               PROVE  KindAt(a, kind) <=> kind = placed[i].e820
    OBVIOUS
  <2>1. Covers(i, a) /\ \A j \in DOMAIN placed : Covers(j, a) => j = i
    BY <1>1, LimitsAssumption, NextSpan
  <2> QED BY <1>2, <2>1 DEF KindAt
<1>11. CASE placed[i].e820 = ABSENT
  <2>1. e820' = gap
    BY <1>1, <1>11 DEF PushSpan
  <2>2. EndsBy(gap, top)
    <3> SUFFICES ASSUME NEW n \in DOMAIN gap PROVE gap[n].base + gap[n].size <= top
      BY DEF EndsBy
    <3>1. gap[n] \in Entry
      BY <1>8
    <3> QED BY <1>3, <1>5, <1>8, <3>1 DEF EndsBy, Entry
  <2>3. ABSENT \notin Kinds
    BY DEF ABSENT, Kinds, RAM, RESERVED, ACPI
  <2>4. \A a \in Nat, kind \in Kinds : Lists(gap, a, kind) <=> a < top /\ KindAt(a, kind)
    BY <1>3, <1>5, <1>9, <1>10, <1>11, <2>3, LimitsAssumption
  <2> QED BY <1>8, <2>1, <2>2, <2>4
<1>12. CASE placed[i].e820 # ABSENT
  <2> DEFINE kind == placed[i].e820
  <2>1. kind \in Kinds
    BY <1>2, <1>12, KindType DEF TypeOK
  <2>2. Max2(Lo(i), at) = Lo(i)
    BY <1>2, <1>3 DEF Max2
  <2>3. e820' = Push(gap, Lo(i), top, kind)
    BY <1>1, <1>12, <2>2 DEF PushSpan
  <2>4. /\ Ascending(e820') /\ EndsBy(e820', top)
        /\ \A a \in Nat, k \in Kinds :
             Lists(e820', a, k) <=> Lists(gap, a, k) \/ (Lo(i) <= a /\ a < top /\ k = kind)
    BY <1>3, <1>5, <1>8, <2>1, <2>3, PushCovers
  <2>5. \A a \in Nat, k \in Kinds : Lists(e820', a, k) <=> a < top /\ KindAt(a, k)
    BY <1>3, <1>5, <1>9, <1>10, <2>4, LimitsAssumption
  <2> QED BY <2>4, <2>5
<1> QED BY <1>11, <1>12

\* A span and the gap before it are listed: the map is exact up to the new cursor.
LEMMA E820NextInv == ASSUME PlacementInv, NEW i \in todo, E820Next(i) PROVE PlacementInv'
<1> USE DEF PlacementInv
<1>1. /\ UNCHANGED <<mapVars, step, accept>> /\ step = "e820" /\ IsNext(i)
      /\ todo' = todo \ {i} /\ at' = Max2(at, Hi(i)) /\ Lo(i) < memory
      /\ e820' = PushSpan(Push(e820, at, Lo(i), RAM), i)
  BY DEF E820Next
<1>2. i \in DOMAIN placed /\ at \in Nat /\ memory \in Nat /\ e820 \in Seq(Entry)
  BY DEF TypeOK, Entry, Kinds
<1>3. Lo(i) \in Nat /\ Hi(i) \in Nat
  BY <1>2, BoundsType DEF TypeOK
<1>4. e820' \in Seq(Entry)
  <2>1. Push(e820, at, Lo(i), RAM) \in Seq(Entry)
    BY <1>2, <1>3, PushType DEF Kinds
  <2>2. Max2(Lo(i), at) \in Nat /\ Min2(Hi(i), memory) \in Nat
    BY <1>2, <1>3 DEF Max2, Min2
  <2>3. placed[i].e820 # ABSENT => placed[i].e820 \in Kinds
    BY <1>2, KindType DEF TypeOK
  <2> QED BY <1>1, <2>1, <2>2, <2>3, PushType DEF PushSpan
<1>5. TypeOK'
  BY <1>1, <1>2, <1>3, <1>4 DEF TypeOK, mapVars, Max2, Entry, Kinds
<1>6. SortedInv'
  BY <1>1, SortedStep
<1>7. ASSUME NoWrap
      PROVE  /\ Ascending(e820')
             /\ EndsBy(e820', Min2(at', memory))
             /\ \A a \in Nat, kind \in Kinds :
                  Lists(e820', a, kind) <=> a < Min2(at', memory) /\ KindAt(a, kind)
  <2>1. at' = Hi(i)
    BY <1>1, <1>2, <1>3, <1>7, NextSpan DEF Max2
  <2> QED BY <1>7, <2>1, SpanListed
<1>8. E820Inv(Nat)'
  BY <1>1, <1>7, SameMap DEF E820Inv, EndsBy, Lists, EntryCovers, Kinds
<1>9. E820Ordered'
  BY <1>1, <1>7, SameMap DEF E820Ordered, Ascending
<1>10. (NotBegun /\ AcceptInv(Nat))'
  BY <1>1 DEF NotBegun, AcceptInv
<1>11. (ValidatedDisjoint /\ E820ExactOn(Nat) /\ AcceptExactOn(Nat) /\ AcceptOrdered)'
  BY <1>1, SameMap DEF Safety, ValidatedDisjoint, E820ExactOn, AcceptExactOn, AcceptOrdered
<1> QED BY <1>5, <1>6, <1>8, <1>9, <1>10, <1>11 DEF Loops, Safety

\* The last gap is listed: the map is exact up to the top of memory.
LEMMA E820DoneInv == ASSUME PlacementInv, E820Done PROVE PlacementInv'
<1> USE DEF PlacementInv
<1>1. /\ UNCHANGED <<mapVars, todo, at, accept>> /\ step = "e820" /\ step' = "zero_page"
      /\ e820' = Push(e820, at, memory, RAM) /\ \A i \in todo : Lo(i) >= memory
  BY DEF E820Done
<1>2. at \in Nat /\ memory \in Nat /\ e820 \in Seq(Entry) /\ RAM \in Kinds
  BY DEF TypeOK, Entry, Kinds
<1>3. e820' \in Seq(Entry)
  BY <1>1, <1>2, PushType
<1>4. TypeOK'
  BY <1>1, <1>3 DEF TypeOK, mapVars, Entry, Kinds
<1>5. ASSUME NoWrap
      PROVE  /\ Ascending(e820')
             /\ \A a \in Nat, kind \in Kinds :
                  Lists(e820', a, kind) <=> a < memory /\ KindAt(a, kind)
  <2>1. /\ Ascending(e820) /\ EndsBy(e820, Min2(at, memory))
        /\ \A a \in Nat, kind \in Kinds :
             Lists(e820, a, kind) <=> a < Min2(at, memory) /\ KindAt(a, kind)
    BY <1>1, <1>5 DEF Loops, E820Inv, Safety, E820Ordered, Ascending, EndsBy, Lists,
                      EntryCovers, Kinds
  <2>2. CASE at >= memory
    <3>1. e820' = e820 /\ Min2(at, memory) = memory
      BY <1>1, <1>2, <2>2 DEF Push, Min2
    <3> QED BY <2>1, <3>1
  <2>3. CASE at < memory
    <3>1. Min2(at, memory) = at
      BY <1>2, <2>3 DEF Min2
    <3>2. /\ Ascending(e820')
          /\ \A a \in Nat, kind \in Kinds :
               Lists(e820', a, kind) <=> Lists(e820, a, kind) \/ (at <= a /\ a < memory /\ kind = RAM)
      BY <1>1, <1>2, <2>1, <2>3, <3>1, PushCovers
    <3>3. ASSUME NEW a \in Nat, at <= a, a < memory
          PROVE  ~ \E j \in DOMAIN placed : Covers(j, a)
      <4> SUFFICES ASSUME NEW j \in DOMAIN placed PROVE ~Covers(j, a)
        OBVIOUS
      <4>1. Lo(j) \in Nat /\ Hi(j) \in Nat
        BY BoundsType DEF TypeOK
      <4>2. CASE j \in todo
        BY <1>1, <1>2, <3>3, <4>1, <4>2 DEF Covers
      <4>3. CASE j \notin todo
        <5>1. Hi(j) <= at
          BY <1>1, <1>5, <4>3 DEF Loops, SortedInv, Visited
        <5> QED BY <1>2, <3>3, <4>1, <5>1 DEF Covers
      <4> QED BY <4>2, <4>3
    <3>4. \A a \in Nat, kind \in Kinds :
            at <= a /\ a < memory => (KindAt(a, kind) <=> kind = RAM)
      BY <3>3 DEF KindAt
    <3> QED BY <1>2, <2>1, <2>3, <3>1, <3>2, <3>4, LimitsAssumption
  <2> QED BY <1>2, <2>2, <2>3
<1>6. (E820ExactOn(Nat) /\ E820Ordered)'
  BY <1>1, <1>5, SameMap DEF E820ExactOn, E820Ordered, Ascending, Lists, EntryCovers, Kinds
<1>7. (NotBegun /\ Loops)'
  BY <1>1 DEF NotBegun, Loops, SortedInv, E820Inv, AcceptInv
<1>8. (ValidatedDisjoint /\ AcceptExactOn(Nat) /\ AcceptOrdered)'
  BY <1>1, SameMap DEF Safety, ValidatedDisjoint, AcceptExactOn, AcceptOrdered
<1> QED BY <1>4, <1>6, <1>7, <1>8 DEF Safety

\* A map boot_params has room for goes on to the accept list.
LEMMA ZeroPageInv == ASSUME PlacementInv, ZeroPage PROVE PlacementInv'
<1> USE DEF PlacementInv
<1>1. /\ UNCHANGED <<mapVars, e820, accept>> /\ step = "zero_page" /\ step' = "accept"
      /\ todo' = DOMAIN placed /\ at' = 0 /\ accept = <<>>
  BY DEF ZeroPage, StartLoop, NotBegun
<1>2. TypeOK'
  BY <1>1 DEF TypeOK, mapVars
<1>3. Visited' = {}
  BY <1>1, SameMap DEF Visited
<1>4. SortedInv'
  <2>1. \A j \in todo' : at' <= Lo(j)
    BY <1>1, BoundsType DEF TypeOK
  <2> QED BY <1>1, <1>3, <2>1, SameMap DEF SortedInv
<1>5. AcceptInv(Nat)'
  <2>1. Min2(at', memory) = 0
    BY <1>1 DEF Min2, TypeOK
  <2> QED BY <1>1, <2>1, SameMap DEF AcceptInv
<1>6. (NotBegun /\ E820Inv(Nat))'
  BY <1>1 DEF NotBegun, E820Inv
<1>7. Safety'
  BY <1>1, SameMap DEF Safety, ValidatedDisjoint, E820ExactOn, E820Ordered, AcceptExactOn, AcceptOrdered,
                       EntryCovers, RangeCovers
<1> QED BY <1>2, <1>4, <1>5, <1>6, <1>7 DEF Loops

-----------------------------------------------------------------------------
(* accept_ranges.                                                          *)

Uncovered(a) == ~ \E i \in DOMAIN placed : Covers(i, a)

\* The gap before a span is accepted: the list is exact up to the new cursor.
LEMMA AcceptNextInv == ASSUME PlacementInv, NEW i \in todo, AcceptNext(i) PROVE PlacementInv'
<1> USE DEF PlacementInv
<1> DEFINE top == Min2(Lo(i), memory)
<1>1. /\ UNCHANGED <<mapVars, step, e820>> /\ step = "accept" /\ IsNext(i)
      /\ todo' = todo \ {i} /\ at' = Max2(at, Hi(i)) /\ accept' = PushRange(accept, at, top)
  BY DEF AcceptNext, Advance
<1>2. i \in DOMAIN placed /\ at \in Nat /\ memory \in Nat /\ accept \in Seq(Nat \X Nat)
  BY DEF TypeOK
<1>3. Lo(i) \in Nat /\ Hi(i) \in Nat /\ top \in Nat
  BY <1>2, BoundsType DEF TypeOK, Min2
<1>4. /\ accept' \in Seq(Nat \X Nat)
      /\ \A a \in Nat : Holds(accept', a) <=> Holds(accept, a) \/ (at <= a /\ a < top)
      /\ InOrder(accept) /\ (at < top => UpTo(accept, at)) => InOrder(accept')
      /\ \A b \in Nat : UpTo(accept, b) /\ (at < top => top <= b) => UpTo(accept', b)
  BY <1>1, <1>2, <1>3, PushRangeHolds
<1> HIDE DEF top
<1>5. TypeOK'
  BY <1>1, <1>2, <1>3, <1>4 DEF TypeOK, mapVars, Max2
<1>6. SortedInv'
  BY <1>1, SortedStep
<1>7. ASSUME NoWrap
      PROVE  /\ InOrder(accept')
             /\ UpTo(accept', Min2(at', memory))
             /\ \A a \in Nat : Holds(accept', a) <=> a < Min2(at', memory) /\ Uncovered(a)
  <2>1. at <= Lo(i) /\ Lo(i) <= Hi(i)
    BY <1>1, <1>7, NextSpan
  <2>2. at' = Hi(i)
    BY <1>1, <1>2, <1>3, <2>1 DEF Max2
  <2>3. /\ InOrder(accept) /\ UpTo(accept, Min2(at, memory))
        /\ \A a \in Nat : Holds(accept, a) <=> a < Min2(at, memory) /\ Uncovered(a)
    BY <1>1, <1>7 DEF Loops, AcceptInv, Safety, AcceptOrdered, InOrder, UpTo, Holds,
                      RangeCovers, Uncovered
  <2>4. at < top => Min2(at, memory) = at
    BY <1>2, <1>3 DEF Min2, top
  <2>5. InOrder(accept')
    BY <1>4, <2>3, <2>4
  <2>6. /\ Min2(at', memory) \in Nat /\ Min2(at, memory) \in Nat
        /\ Min2(at, memory) <= Min2(at', memory)
        /\ top <= Min2(at', memory)
    BY <1>2, <1>3, <2>1, <2>2 DEF Min2, top
  <2>7. UpTo(accept, Min2(at', memory))
    <3> SUFFICES ASSUME NEW n \in DOMAIN accept PROVE accept[n][2] <= Min2(at', memory)
      BY DEF UpTo
    <3>1. accept[n][2] \in Nat /\ accept[n][2] <= Min2(at, memory)
      BY <1>2, <2>3 DEF UpTo
    <3> QED BY <2>6, <3>1
  <2>8. UpTo(accept', Min2(at', memory))
    BY <1>4, <2>6, <2>7
  <2>9. ASSUME NEW a \in Nat
        PROVE  Holds(accept', a) <=> a < Min2(at', memory) /\ Uncovered(a)
    <3>1. a \in Nat
      OBVIOUS
    <3>2. at <= a /\ a < Lo(i) => Uncovered(a)
      BY <1>1, <1>7, <3>1, NextSpan DEF Uncovered
    <3>3. Lo(i) <= a /\ a < Hi(i) => ~Uncovered(a)
      BY <1>1, <1>2, <1>7, <3>1, NextSpan DEF Uncovered
    <3>4. Holds(accept', a) <=> (a < Min2(at, memory) /\ Uncovered(a)) \/ (at <= a /\ a < top)
      BY <1>4, <2>3, <3>1
    <3>5. a < Min2(at', memory) <=> a < Hi(i) /\ a < memory
      BY <1>2, <1>3, <2>2, <3>1 DEF Min2
    <3>6. a < Min2(at, memory) <=> a < at /\ a < memory
      BY <1>2, <3>1 DEF Min2
    <3>7. a < top <=> a < Lo(i) /\ a < memory
      BY <1>2, <1>3, <3>1 DEF Min2, top
    <3> QED BY <1>2, <1>3, <2>1, <3>1, <3>2, <3>3, <3>4, <3>5, <3>6, <3>7
  <2> QED BY <2>5, <2>8, <2>9
<1>8. AcceptInv(Nat)'
  BY <1>1, <1>7, SameMap DEF AcceptInv, UpTo, Holds, RangeCovers, Uncovered
<1>9. AcceptOrdered'
  BY <1>1, <1>7, SameMap DEF AcceptOrdered, InOrder
<1>10. (NotBegun /\ E820Inv(Nat))'
  BY <1>1 DEF NotBegun, E820Inv
<1>11. (ValidatedDisjoint /\ E820ExactOn(Nat) /\ E820Ordered /\ AcceptExactOn(Nat))'
  BY <1>1, SameMap DEF Safety, ValidatedDisjoint, E820ExactOn, E820Ordered, AcceptExactOn, EntryCovers
<1> QED BY <1>5, <1>6, <1>8, <1>9, <1>10, <1>11 DEF Loops, Safety

\* The last gap is accepted: the list is exact up to the top of memory.
LEMMA AcceptDoneInv == ASSUME PlacementInv, AcceptDone PROVE PlacementInv'
<1> USE DEF PlacementInv
<1>1. /\ UNCHANGED <<mapVars, todo, at, e820>> /\ step = "accept" /\ step' = "shim"
      /\ todo = {} /\ accept' = PushRange(accept, at, memory)
  BY DEF AcceptDone
<1>2. at \in Nat /\ memory \in Nat /\ accept \in Seq(Nat \X Nat)
  BY DEF TypeOK
<1>3. /\ accept' \in Seq(Nat \X Nat)
      /\ \A a \in Nat : Holds(accept', a) <=> Holds(accept, a) \/ (at <= a /\ a < memory)
      /\ InOrder(accept) /\ (at < memory => UpTo(accept, at)) => InOrder(accept')
  BY <1>1, <1>2, PushRangeHolds
<1>4. TypeOK'
  BY <1>1, <1>3 DEF TypeOK, mapVars
<1>5. ASSUME NoWrap
      PROVE  /\ InOrder(accept')
             /\ \A a \in Nat : Holds(accept', a) <=> a < memory /\ Uncovered(a)
  <2>1. /\ InOrder(accept) /\ UpTo(accept, Min2(at, memory))
        /\ \A a \in Nat : Holds(accept, a) <=> a < Min2(at, memory) /\ Uncovered(a)
    BY <1>1, <1>5 DEF Loops, AcceptInv, Safety, AcceptOrdered, InOrder, UpTo, Holds,
                      RangeCovers, Uncovered
  <2>2. InOrder(accept')
    BY <1>2, <1>3, <2>1 DEF Min2
  <2>3. ASSUME NEW a \in Nat, at <= a PROVE Uncovered(a)
    <3> SUFFICES ASSUME NEW j \in DOMAIN placed PROVE ~Covers(j, a)
      BY DEF Uncovered
    <3>1. Hi(j) \in Nat
      BY BoundsType DEF TypeOK
    <3>2. Hi(j) <= at
      BY <1>1, <1>5 DEF Loops, SortedInv, Visited
    <3> QED BY <1>2, <2>3, <3>1, <3>2 DEF Covers
  <2>4. ASSUME NEW a \in Nat PROVE Holds(accept', a) <=> a < memory /\ Uncovered(a)
    <3>1. a \in Nat
      OBVIOUS
    <3>2. a < Min2(at, memory) <=> a < at /\ a < memory
      BY <1>2, <3>1 DEF Min2
    <3> QED BY <1>2, <1>3, <2>1, <2>3, <3>1, <3>2
  <2> QED BY <2>2, <2>4
<1>6. (AcceptExactOn(Nat) /\ AcceptOrdered)'
  BY <1>1, <1>5, SameMap DEF AcceptExactOn, AcceptOrdered, InOrder, Holds, RangeCovers, Uncovered
<1>7. (NotBegun /\ Loops)'
  BY <1>1 DEF NotBegun, Loops, SortedInv, E820Inv, AcceptInv
<1>8. (ValidatedDisjoint /\ E820ExactOn(Nat) /\ E820Ordered)'
  BY <1>1, SameMap DEF Safety, ValidatedDisjoint, E820ExactOn, E820Ordered, EntryCovers
<1> QED BY <1>4, <1>6, <1>7, <1>8 DEF Safety

\* Packing the list into the data block changes neither list.
LEMMA ShimDoneInv == ASSUME PlacementInv, ShimDone PROVE PlacementInv'
<1> USE DEF PlacementInv
<1>1. UNCHANGED <<mapVars, todo, at, e820, accept>> /\ step = "shim" /\ step' = "built"
  BY DEF ShimDone
<1>2. TypeOK'
  BY <1>1 DEF TypeOK, mapVars
<1>3. (NotBegun /\ Loops)'
  BY <1>1 DEF NotBegun, Loops, SortedInv, E820Inv, AcceptInv
<1>4. Safety'
  BY <1>1, SameMap DEF Safety, ValidatedDisjoint, E820ExactOn, E820Ordered, AcceptExactOn, AcceptOrdered,
                       EntryCovers, RangeCovers
<1> QED BY <1>2, <1>3, <1>4

\* A finished build stays as it is.
LEMMA StutterInv == ASSUME PlacementInv, UNCHANGED vars PROVE PlacementInv'
<1> USE DEF PlacementInv
<1>1. UNCHANGED <<mapVars, step, todo, at, e820, accept>>
  BY DEF vars, mapVars
<1>2. TypeOK'
  BY <1>1 DEF TypeOK, mapVars
<1>3. NotBegun'
  BY <1>1 DEF NotBegun
<1>4. SortedInv'
  BY <1>1, SameMap DEF Loops, SortedInv, Visited
<1>5. (E820Inv(Nat) /\ AcceptInv(Nat))'
  BY <1>1, SameMap DEF Loops, E820Inv, AcceptInv, EntryCovers, RangeCovers
<1>6. Safety'
  BY <1>1, SameMap DEF Safety, ValidatedDisjoint, E820ExactOn, E820Ordered, AcceptExactOn, AcceptOrdered,
                       EntryCovers, RangeCovers
<1> QED BY <1>2, <1>3, <1>4, <1>5, <1>6 DEF Loops

-----------------------------------------------------------------------------
(* The theorems.                                                           *)

\* Every step of the three loops of boot.rs preserves the invariant.
LEMMA NextInv == PlacementInv /\ [Next]_vars => PlacementInv'
<1> SUFFICES ASSUME PlacementInv, [Next]_vars PROVE PlacementInv'
  OBVIOUS
<1>1. CASE Validate
  <2>1. CASE ValidateDone
    BY <2>1, ValidateDoneInv
  <2>2. CASE RejectRegion
    BY <2>2, ErrorInv DEF RejectRegion
  <2>3. ASSUME NEW i \in todo, ValidateNext(i) PROVE PlacementInv'
    BY <2>3, ValidateNextInv
  <2>4. ASSUME NEW i \in todo, RejectOverlap(i) PROVE PlacementInv'
    BY <2>4, ErrorInv DEF RejectOverlap
  <2> QED BY <1>1, <2>1, <2>2, <2>3, <2>4 DEF Validate
<1>2. CASE E820
  <2>1. CASE E820Done
    BY <2>1, E820DoneInv
  <2>2. CASE ZeroPage
    BY <2>2, ZeroPageInv
  <2>3. CASE RejectE820
    BY <2>3, ErrorInv DEF RejectE820
  <2>4. ASSUME NEW i \in todo, E820Next(i) PROVE PlacementInv'
    BY <2>4, E820NextInv
  <2> QED BY <1>2, <2>1, <2>2, <2>3, <2>4 DEF E820
<1>3. CASE Accept
  <2>1. CASE AcceptDone
    BY <2>1, AcceptDoneInv
  <2>2. CASE ShimDone
    BY <2>2, ShimDoneInv
  <2>3. CASE RejectShim
    BY <2>3, ErrorInv DEF RejectShim
  <2>4. ASSUME NEW i \in todo, AcceptNext(i) PROVE PlacementInv'
    BY <2>4, AcceptNextInv
  <2> QED BY <1>3, <2>1, <2>2, <2>3, <2>4 DEF Accept
<1>4. CASE Finished \/ UNCHANGED vars
  BY <1>4, StutterInv DEF Finished
<1> QED BY <1>1, <1>2, <1>3, <1>4 DEF Next

\* The inductive invariant of the three loops of boot.rs.
THEOREM PlacementInvariant == Spec => []PlacementInv
BY InitInv, NextInv, PTL DEF Spec

\* Every variable of the derivation keeps its type, for a wrapping map too.
THEOREM TypeCorrect == Spec => []TypeOK
<1>1. PlacementInv => TypeOK
  BY DEF PlacementInv
<1> QED BY <1>1, PlacementInvariant, PTL

\* Comparing sorted neighbours, as validate does, makes the whole map disjoint.
THEOREM Disjointness == Spec => []ValidatedDisjoint
<1>1. PlacementInv => ValidatedDisjoint
  BY DEF PlacementInv, Safety
<1> QED BY <1>1, PlacementInvariant, PTL

\* The E820 map gives every address exactly the type the placement map gives it.
THEOREM E820Exactness == Spec => []E820Exact
<1>1. PlacementInv => E820Exact
  BY LimitsAssumption DEF PlacementInv, Safety, E820Exact, E820ExactOn
<1> QED BY <1>1, PlacementInvariant, PTL

\* The E820 map ascends and every adjacent run of one type is one entry.
THEOREM E820Order == Spec => []E820Ordered
<1>1. PlacementInv => E820Ordered
  BY DEF PlacementInv, Safety
<1> QED BY <1>1, PlacementInvariant, PTL

\* The accept list is the exact complement of the placed spans.
THEOREM AcceptExactness == Spec => []AcceptExact
<1>1. PlacementInv => AcceptExact
  BY LimitsAssumption DEF PlacementInv, Safety, AcceptExact, AcceptExactOn
<1> QED BY <1>1, PlacementInvariant, PTL

\* The accept list ascends and has no empty range, as TdxShim assumes of it.
THEOREM AcceptOrder == Spec => []AcceptOrdered
<1>1. PlacementInv => AcceptOrdered
  BY DEF PlacementInv, Safety
<1> QED BY <1>1, PlacementInvariant, PTL

\* The loop invariants hold at every step of the three loops.
THEOREM LoopInvariants == Spec => []LoopInv
<1>1. PlacementInv => LoopInv
  BY LimitsAssumption DEF PlacementInv, Loops, LoopInv, E820Inv, AcceptInv
<1> QED BY <1>1, PlacementInvariant, PTL
=============================================================================
