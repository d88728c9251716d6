---------------------------- MODULE ImageProofs -----------------------------
(***************************************************************************)
(* Proofs about Image, for every map, every number of processors and every *)
(* file, not only those TLC enumerates.                                    *)
(*                                                                         *)
(* The pages of the map are a sequence without gaps or repetitions, and    *)
(* the digest of a sequence of pages determines the sequence (LogInjective)*)
(* and is what the firmware computes as it loads them (LogAppended).  The  *)
(* invariant LoadInv says of a load in progress that its log is that of    *)
(* some sequence of pages, the file's own if the host left the file alone, *)
(* or that it has Diverged, which the report will show.  So a report equal *)
(* to the promised values is that of the map's pages, and a load of the    *)
(* file as written gives such a report.                                    *)
(*                                                                         *)
(* The last sections follow a verified guest to its start.  What a builder *)
(* places is whole pages (BuiltMapsAssumption) and so is all that is       *)
(* derived from it (AlignedInv); hence a frame is in memory or on the      *)
(* accept list, as a whole and never both, and RAM is what these two have  *)
(* in common with the E820 map (HandedWellFormed, RamIsHanded).            *)
(***************************************************************************)
EXTENDS Image, PlacementProofs, FiniteSetTheorems

\* Rounded up, a length is a number of whole pages.
LEMMA Rounded ==
  ASSUME NEW v \in Nat
  PROVE  LET q == (v + PAGE - 1) \div PAGE
         IN  q \in Nat /\ q * PAGE \in Nat /\ (q * PAGE) \div PAGE = q
<1> DEFINE q == (v + PAGE - 1) \div PAGE
<1>1. q \in Nat
  BY PageAssumption
<1>2. (q * PAGE) \div PAGE = q /\ q * PAGE \in Nat
  BY <1>1, PageAssumption
<1> QED BY <1>1, <1>2

\* A page has a length and every region's page count is a number (boot.rs, pages).
LEMMA CountType ==
  ASSUME placed \in Seq(Region), NEW i \in DOMAIN placed
  PROVE  PageCount(i) \in Nat
<1>1. placed[i] \in Region /\ (Filled(i) = placed[i] \/ Filled(i).len = PAGE)
  BY BoundsType DEF Filled, Measured
<1>2. Filled(i).len \in Nat
  BY <1>1, PageAssumption, WordAssumption DEF Region
<1> DEFINE q == (Filled(i).len + PAGE - 1) \div PAGE
<1>3. q \in Nat /\ (q * PAGE) \div PAGE = q
  BY <1>2, Rounded
<1>4. align_up(Filled(i).len, PAGE) \div PAGE \in Nat
  BY <1>3 DEF align_up
<1> QED BY <1>4 DEF PageCount

\* There are finitely many pages.
LEMMA PagesFinite == placed \in Seq(Region) => IsFiniteSet(PageIds)
<1> SUFFICES ASSUME placed \in Seq(Region) PROVE IsFiniteSet(PageIds)
  OBVIOUS
<1> DEFINE Of(i) == {i} \X (1 .. PageCount(i))
           All == { Of(i) : i \in DOMAIN placed }
           f == [i \in DOMAIN placed |-> Of(i)]
<1>1. DOMAIN placed = 1 .. Len(placed) /\ Len(placed) \in Nat
  BY LenProperties
<1>2. IsFiniteSet(DOMAIN placed)
  BY <1>1, FS_Interval
<1>3. f \in Surjection(DOMAIN placed, All)
  BY DEF Surjection
<1>4. IsFiniteSet(All)
  BY <1>2, <1>3, FS_Surjection
<1>5. ASSUME NEW T \in All PROVE IsFiniteSet(T)
  <2>1. PICK i \in DOMAIN placed : T = Of(i)
    OBVIOUS
  <2>2. IsFiniteSet(1 .. PageCount(i))
    BY CountType, FS_Interval
  <2>3. IsFiniteSet({i})
    BY FS_Singleton
  <2> QED BY <2>1, <2>2, <2>3, FS_Product
<1>6. IsFiniteSet(UNION All)
  BY <1>4, <1>5, FS_UNION
<1> QED BY <1>6 DEF PageIds

\* A page comes before every other or after it: sort_by_key is a total order of the pages.
LEMMA BeforeTotal ==
  ASSUME placed \in Seq(Region), NEW p \in PageIds, NEW q \in PageIds
  PROVE  /\ p # q => Before(p, q) \/ Before(q, p)
         /\ ~Before(p, p)
         /\ \A r \in PageIds : Before(r, p) /\ Before(p, q) => Before(r, q)
<1>1. ASSUME NEW r \in PageIds
      PROVE  r = <<r[1], r[2]>> /\ r[1] \in Nat /\ r[2] \in Nat /\ placed[r[1]].base \in Nat
  <2>1. PICK i \in DOMAIN placed : r \in {i} \X (1 .. PageCount(i))
    BY DEF PageIds
  <2>2. i \in Nat /\ placed[i].base \in Nat
    BY BoundsType DEF Lo
  <2> QED BY <2>1, <2>2
<1>2. p # q => p[1] # q[1] \/ p[2] # q[2]
  BY <1>1
<1>3. (p # q => Before(p, q) \/ Before(q, p)) /\ ~Before(p, p)
  BY <1>1, <1>2 DEF Before
<1>4. ASSUME NEW r \in PageIds, Before(r, p), Before(p, q) PROVE Before(r, q)
  <2> DEFINE a == placed[r[1]].base
             b == placed[p[1]].base
             c == placed[q[1]].base
             i == r[1]
             j == p[1]
             h == q[1]
             k == r[2]
             l == p[2]
             m == q[2]
  <2>1. /\ a \in Nat /\ b \in Nat /\ c \in Nat /\ (i = j => a = b) /\ (j = h => b = c)
        /\ i \in Nat /\ j \in Nat /\ h \in Nat /\ k \in Nat /\ l \in Nat /\ m \in Nat
    BY <1>1
  <2>2. /\ a < b \/ (a = b /\ i < j) \/ (i = j /\ k < l)
        /\ b < c \/ (b = c /\ j < h) \/ (j = h /\ l < m)
    BY <1>4 DEF Before
  <2> HIDE DEF a, b, c, i, j, h, k, l, m
  <2>3. a < c \/ (a = c /\ i < h) \/ (i = h /\ k < m)
    BY <2>1, <2>2
  <2> QED BY <2>3 DEF Before, a, c, i, h, k, m
<1> QED BY <1>3, <1>4

\* A rank is a number below the number of pages, and no two pages have the same.
LEMMA RankInjective ==
  ASSUME placed \in Seq(Region)
  PROVE  [p \in PageIds |-> Rank(p)] \in Injection(PageIds, 0 .. Cardinality(PageIds) - 1)
<1> DEFINE N == Cardinality(PageIds)
           Below(p) == { q \in PageIds : Before(q, p) }
           rank == [p \in PageIds |-> Rank(p)]
<1>0. IsFiniteSet(PageIds) /\ N \in Nat
  BY PagesFinite, FS_CardinalityType
<1>1. ASSUME NEW p \in PageIds
      PROVE  IsFiniteSet(Below(p)) /\ Rank(p) \in Nat /\ Rank(p) < N
  <2>1. Below(p) \in SUBSET PageIds /\ p \notin Below(p)
    BY BeforeTotal
  <2>2. IsFiniteSet(Below(p)) /\ Cardinality(Below(p)) <= N /\ (N = Cardinality(Below(p)) => PageIds = Below(p))
    BY <1>0, <2>1, FS_Subset
  <2>3. Cardinality(Below(p)) \in Nat
    BY <2>2, FS_CardinalityType
  <2> QED BY <1>0, <2>1, <2>2, <2>3 DEF Rank
<1>2. ASSUME NEW p \in PageIds, NEW q \in PageIds, Before(p, q) PROVE Rank(p) < Rank(q)
  <2>1. Below(p) \in SUBSET Below(q) /\ p \in Below(q) /\ p \notin Below(p)
    BY <1>2, BeforeTotal
  <2>2. Cardinality(Below(p)) <= Cardinality(Below(q))
        /\ (Cardinality(Below(q)) = Cardinality(Below(p)) => Below(q) = Below(p))
    BY <1>1, <2>1, FS_Subset
  <2>3. Below(q) # Below(p)
    BY <2>1
  <2> HIDE DEF Below
  <2>4. Rank(p) = Cardinality(Below(p)) /\ Rank(q) = Cardinality(Below(q))
    BY DEF Rank, Below
  <2> QED BY <1>1, <2>2, <2>3, <2>4
<1>3. ASSUME NEW p \in PageIds, NEW q \in PageIds, Rank(p) = Rank(q) PROVE p = q
  <2> HIDE DEF Below, N
  <2>1. Rank(p) \in Nat /\ ~(Rank(p) < Rank(q)) /\ ~(Rank(q) < Rank(p))
    <3>1. Rank(p) \in Nat
      BY <1>1
    <3>2. \A x \in Nat : ~(x < x)
      OBVIOUS
    <3> QED BY <3>1, <3>2, <1>3
  <2> QED BY <1>2, <2>1, BeforeTotal
<1>4. rank \in [PageIds -> 0 .. N - 1]
  <2> HIDE DEF N, Below
  <2>1. ASSUME NEW p \in PageIds PROVE Rank(p) \in 0 .. N - 1
    <3>1. Rank(p) \in Nat /\ Rank(p) < N
      BY <1>1
    <3> QED BY <3>1, <1>0
  <2> QED BY <2>1
<1> QED BY <1>3, <1>4 DEF Injection, IsInjective

\* Every place in the file has its page, and every page its place.
LEMMA RankOnto ==
  ASSUME placed \in Seq(Region)
  PROVE  /\ Cardinality(PageIds) \in Nat
         /\ \A k \in 1 .. Cardinality(PageIds) : \E p \in PageIds : Rank(p) = k - 1
         /\ \A p \in PageIds : Rank(p) \in Nat /\ Rank(p) + 1 \in 1 .. Cardinality(PageIds)
         /\ \A p, q \in PageIds : Rank(p) = Rank(q) => p = q
<1> DEFINE N == Cardinality(PageIds)
           rank == [p \in PageIds |-> Rank(p)]
<1>1. N \in Nat
  BY PagesFinite, FS_CardinalityType
<1>2. IsFiniteSet(0 .. N - 1) /\ Cardinality(0 .. N - 1) = N
  <2>1. 0 \in Int /\ N - 1 \in Int /\ ~(0 > N - 1 /\ N # 0) /\ N - 1 - 0 + 1 = N /\ (0 > N - 1 <=> N = 0)
    BY <1>1
  <2> HIDE DEF N
  <2>2. IsFiniteSet(0 .. N - 1) /\ Cardinality(0 .. N - 1) = IF 0 > N - 1 THEN 0 ELSE N - 1 - 0 + 1
    BY <2>1, FS_Interval
  <2> QED BY <2>1, <2>2
<1>3. rank \in Injection(PageIds, 0 .. N - 1)
  BY RankInjective
<1>4. rank \in Surjection(PageIds, 0 .. N - 1)
  BY <1>2, <1>3, FS_Injection
<1>5. \A k \in 1 .. N : k - 1 \in 0 .. N - 1
  BY <1>1
<1>6. \A k \in 1 .. N : \E p \in PageIds : rank[p] = k - 1
  BY <1>4, <1>5 DEF Surjection
<1>7. \A p \in PageIds : rank[p] \in 0 .. N - 1
  BY <1>3 DEF Injection
<1>8. \A p, q \in PageIds : rank[p] = rank[q] => p = q
  BY <1>3 DEF Injection, IsInjective
<1> QED BY <1>1, <1>6, <1>7, <1>8

\* The pages of the file are those of the map, each in its place (image.rs, launch_pages).
LEMMA PagesOfMap ==
  ASSUME placed \in Seq(Region)
  PROVE  /\ Cardinality(PageIds) \in Nat
         /\ DOMAIN LaunchPages = 1 .. Cardinality(PageIds)
         /\ \A k \in DOMAIN LaunchPages : \E i \in DOMAIN placed : \E n \in 1 .. PageCount(i) :
              LaunchPages[k] = RegionPage(i, n)
         /\ \A i \in DOMAIN placed : \A n \in 1 .. PageCount(i) : \E k \in DOMAIN LaunchPages :
              LaunchPages[k] = RegionPage(i, n)
<1> DEFINE N == Cardinality(PageIds)
<1>1. \A p : p \in PageIds <=> \E i \in DOMAIN placed : \E n \in 1 .. PageCount(i) : p = <<i, n>>
  BY DEF PageIds
<1>2. N \in Nat /\ DOMAIN LaunchPages = 1 .. N
  BY RankOnto DEF LaunchPages
<1>3. ASSUME NEW k \in 1 .. N
      PROVE  \E p \in PageIds : Rank(p) = k - 1 /\ LaunchPages[k] = RegionPage(p[1], p[2])
  <2> DEFINE p == CHOOSE p \in PageIds : Rank(p) = k - 1
  <2>1. p \in PageIds /\ Rank(p) = k - 1
    BY RankOnto
  <2>2. LaunchPages[k] = RegionPage(p[1], p[2])
    BY DEF LaunchPages
  <2> QED BY <2>1, <2>2
<1>4. ASSUME NEW k \in 1 .. N
      PROVE  \E i \in DOMAIN placed : \E n \in 1 .. PageCount(i) : LaunchPages[k] = RegionPage(i, n)
  BY <1>1, <1>3
<1>5. ASSUME NEW i \in DOMAIN placed, NEW n \in 1 .. PageCount(i)
      PROVE  \E k \in 1 .. N : LaunchPages[k] = RegionPage(i, n)
  <2>1. <<i, n>> \in PageIds
    BY <1>1
  <2>2. PICK k \in 1 .. N : k - 1 = Rank(<<i, n>>)
    <3>1. Rank(<<i, n>>) + 1 \in 1 .. N
      BY <2>1, RankOnto
    <3>2. (Rank(<<i, n>>) + 1) - 1 = Rank(<<i, n>>)
      BY <2>1, RankOnto
    <3> QED BY <3>1, <3>2
  <2>3. PICK p \in PageIds : Rank(p) = k - 1 /\ LaunchPages[k] = RegionPage(p[1], p[2])
    BY <1>3
  <2>4. p = <<i, n>>
    BY <2>1, <2>2, <2>3, RankOnto
  <2> QED BY <2>3, <2>4
<1> QED BY <1>2, <1>4, <1>5

-----------------------------------------------------------------------------
(* The pages of a region lie in its span.                                  *)

\* A multiple of PAGE is followed by the next one a page later.
LEMMA Multiples ==
  ASSUME NEW a \in Nat, NEW b \in Nat, a < b
  PROVE  a * PAGE \in Nat /\ b * PAGE \in Nat /\ a * PAGE + PAGE <= b * PAGE
<1>1. PICK d \in Nat : b = a + 1 + d
  <2>1. b - a - 1 \in Nat /\ b = a + 1 + (b - a - 1)
    OBVIOUS
  <2> QED BY <2>1
<1>2. a * PAGE \in Nat /\ d * PAGE \in Nat /\ PAGE \in Nat
  BY PageAssumption
<1>3. (a + 1 + d) * PAGE = a * PAGE + PAGE + d * PAGE
  BY PageAssumption
<1> QED BY <1>1, <1>2, <1>3

\* The two regions that fill() replaces have been found, each a page long.
Full == FillOK(ZERO_PAGE) /\ FillOK(SHIM_PAGE)

\* Only one region is the first at an address.
LEMMA FirstIsOne ==
  ASSUME placed \in Seq(Region), NEW base, NEW i \in DOMAIN placed, NEW j \in DOMAIN placed,
         FirstAt(base, i), FirstAt(base, j)
  PROVE  i = j
<1>1. i \in Nat \ {0} /\ j \in Nat \ {0}
  OBVIOUS
<1>2. ~(i < j) /\ ~(j < i)
  BY <1>1 DEF FirstAt
<1> QED BY <1>1, <1>2

\* What fill() put in place of a region has the region's span (boot.rs, fill).
LEMMA FilledSpan ==
  ASSUME placed \in Seq(Region), Full, NEW i \in DOMAIN placed,
         FirstAt(ZERO_PAGE, i) \/ FirstAt(SHIM_PAGE, i)
  PROVE  Span(placed[i]) = PAGE /\ Filled(i) = Measured(placed[i].base, placed[i].e820, PAGE)
BY FirstIsOne DEF Full, FillOK, Filled

\* A whole page holds one page.
LEMMA OnePage == align_up(PAGE, PAGE) \div PAGE = 1
<1>1. PAGE + PAGE - 1 = 1 * PAGE + (PAGE - 1) /\ PAGE - 1 \in 0 .. PAGE - 1
  BY PageAssumption
<1>2. (PAGE + PAGE - 1) \div PAGE = 1
  BY <1>1, PageAssumption
<1> QED BY <1>2, PageAssumption DEF align_up

\* The kinds of fill decide how many pages a region has.
LEMMA Count ==
  ASSUME placed \in Seq(Region), NEW i \in DOMAIN placed
  PROVE  /\ Filled(i).fill \in {"measured", "host", "mmio"}
         /\ Filled(i).fill = "measured" => PageCount(i) = align_up(Filled(i).len, PAGE) \div PAGE
         /\ Filled(i).fill = "host" => PageCount(i) = 1
         /\ Filled(i).fill = "mmio" => PageCount(i) = 0
<1>1. placed[i] \in Region /\ (Filled(i) = placed[i] \/ Filled(i).fill = "measured")
  BY BoundsType DEF Filled, Measured
<1> QED BY <1>1 DEF PageCount, Region

\* The pages of a region fit its span: boot::pages cuts up what span() rounds up.
LEMMA PagesFit ==
  ASSUME placed \in Seq(Region), Full, NEW i \in DOMAIN placed
  PROVE  PageCount(i) * PAGE <= Span(placed[i])
<1>1. PageCount(i) \in Nat /\ placed[i] \in Region /\ PAGE \in Nat \ {0}
  BY CountType, BoundsType, PageAssumption
<1>2. CASE FirstAt(ZERO_PAGE, i) \/ FirstAt(SHIM_PAGE, i)
  <2>1. Span(placed[i]) = PAGE /\ Filled(i).fill = "measured" /\ Filled(i).len = PAGE
    BY <1>2, FilledSpan DEF Measured
  <2>2. PageCount(i) = 1
    BY <2>1, Count, OnePage
  <2> QED BY <1>1, <2>1, <2>2
<1>3. CASE ~(FirstAt(ZERO_PAGE, i) \/ FirstAt(SHIM_PAGE, i))
  <2>1. Filled(i) = placed[i]
    BY <1>3 DEF Filled
  <2>2. CASE placed[i].fill = "measured"
    <3> DEFINE q == (placed[i].len + PAGE - 1) \div PAGE
    <3>0. placed[i].len \in Nat
      BY <1>1, WordAssumption DEF Region
    <3>1. q \in Nat
      BY <3>0, Rounded
    <3>2. (q * PAGE) \div PAGE = q /\ q * PAGE \in Nat
      BY <3>0, Rounded
    <3>3. align_up(placed[i].len, PAGE) = q * PAGE
      BY DEF align_up
    <3>4. PageCount(i) = q
      BY <2>1, <2>2, <3>2, <3>3, Count
    <3> HIDE DEF q
    <3> QED BY <1>1, <2>2, <3>2, <3>3, <3>4 DEF Span, Max2
  <2>3. CASE placed[i].fill = "host"
    BY <1>1, <2>1, <2>3, Count DEF Span
  <2>4. CASE placed[i].fill = "mmio"
    <3>1. PageCount(i) = 0 /\ Span(placed[i]) \in Nat
      BY <1>1, <2>1, <2>4, Count, SpanType
    <3> QED BY <1>1, <3>1
  <2> QED BY <2>1, <2>2, <2>3, <2>4, Count
<1> QED BY <1>2, <1>3

\* Each of its pages lies in the span of its region.
LEMMA PageInSpan ==
  ASSUME placed \in Seq(Region), NoWrap, Full, NEW i \in DOMAIN placed, NEW n \in 1 .. PageCount(i)
  PROVE  /\ PageAddress(i, n) \in Nat
         /\ Lo(i) <= PageAddress(i, n)
         /\ PageAddress(i, n) + PAGE <= Hi(i)
         /\ n = 1 <=> PageAddress(i, n) = Lo(i)
<1>1. /\ PageCount(i) \in Nat /\ PAGE \in Nat \ {0} /\ n - 1 \in Nat /\ n - 1 < PageCount(i)
      /\ Lo(i) \in Nat /\ Span(placed[i]) \in Nat
  BY CountType, BoundsType, SpanType, PageAssumption
<1>2. (n - 1) * PAGE \in Nat /\ (n - 1) * PAGE + PAGE <= PageCount(i) * PAGE
      /\ PageCount(i) * PAGE \in Nat
  BY <1>1, Multiples
<1>3. Hi(i) = Lo(i) + Span(placed[i])
  BY <1>1 DEF Hi, Lo, NoWrap, Wrap
<1>4. PageCount(i) * PAGE <= Span(placed[i])
  BY PagesFit
<1>5. PageAddress(i, n) = Lo(i) + (n - 1) * PAGE
  BY DEF PageAddress, Lo
<1>6. n = 1 => (n - 1) * PAGE = 0
  BY <1>1
<1>7. n # 1 => (n - 1) * PAGE >= PAGE
  <2>1. n # 1 => 0 < n - 1 /\ 0 * PAGE = 0
    BY <1>1
  <2> QED BY <1>1, <2>1, Multiples
<1> DEFINE x == (n - 1) * PAGE
           y == PageCount(i) * PAGE
<1>8. /\ x \in Nat /\ y \in Nat /\ x + PAGE <= y /\ y <= Span(placed[i]) /\ PageAddress(i, n) = Lo(i) + x
      /\ (n = 1 => x = 0) /\ (n # 1 => x >= PAGE)
  BY <1>2, <1>4, <1>5, <1>6, <1>7
<1> HIDE DEF x, y
<1> QED BY <1>1, <1>3, <1>8

-----------------------------------------------------------------------------
(* A guest with the pages of the file in memory has the map in memory.     *)

\* No two regions overlap (Placement!ValidatedDisjoint).
AllDisjoint == \A i, j \in DOMAIN placed : i # j => Disjoint(i, j)

AllLoaded == guest = { InMemory(LaunchPages[k]) : k \in DOMAIN LaunchPages }

\* A page of the guest is a page of the map, filled where the loader fills it.
LEMMA LoadedPage ==
  ASSUME NEW i, NEW n
  PROVE  PageOfMap(InMemory(RegionPage(i, n)), i, n)
BY DEF PageOfMap, InMemory, RegionPage, LaunchPage, PageKind

\* The page that fill() gave contents is the one the guest finds at its address.
LEMMA FilledPage ==
  ASSUME placed \in Seq(Region), NoWrap, Full, AllDisjoint, AllLoaded,
         NEW B \in {ZERO_PAGE, SHIM_PAGE}
  PROVE  \E i \in DOMAIN placed :
           /\ FirstAt(B, i)
           /\ (CHOOSE p \in guest : p.gpa = B).contents = Contents(i, 1)
<1>1. PICK i \in DOMAIN placed : FirstAt(B, i) /\ Span(placed[i]) = PAGE
  BY DEF Full, FillOK
<1>2. Filled(i).fill = "measured" /\ Filled(i).len = PAGE
  BY <1>1, FilledSpan DEF Measured
<1>3. PageCount(i) = 1 /\ PageKind(i) = "normal"
  BY <1>2, Count, OnePage DEF PageKind
<1>4. Lo(i) = B
  BY <1>1 DEF FirstAt, Lo
<1>5. \E p \in guest : p.gpa = B
  <2>1. PICK k \in DOMAIN LaunchPages : LaunchPages[k] = RegionPage(i, 1)
    BY <1>3, PagesOfMap
  <2>2. InMemory(RegionPage(i, 1)).gpa = PageAddress(i, 1)
    BY LoadedPage DEF PageOfMap
  <2>3. PageAddress(i, 1) = B
    BY <1>3, <1>4, PageInSpan
  <2> QED BY <2>1, <2>2, <2>3 DEF AllLoaded
<1> DEFINE p == CHOOSE p \in guest : p.gpa = B
<1>6. p \in guest /\ p.gpa = B
  BY <1>5
<1> HIDE DEF p
<1>7. PICK j \in DOMAIN placed : \E n \in 1 .. PageCount(j) : PageOfMap(p, j, n)
  <2>1. PICK k \in DOMAIN LaunchPages : p = InMemory(LaunchPages[k])
    BY <1>6 DEF AllLoaded
  <2> QED BY <2>1, PagesOfMap, LoadedPage
<1>8. PICK n \in 1 .. PageCount(j) : PageOfMap(p, j, n)
  BY <1>7
<1>9. PageAddress(j, n) = B
  BY <1>6, <1>8 DEF PageOfMap
<1>10. j = i
  <2>1. B \in Nat /\ Lo(j) \in Nat /\ Hi(j) \in Nat /\ Hi(i) \in Nat /\ PAGE \in Nat \ {0}
    BY <1>4, BoundsType, PageAssumption
  <2>2. Lo(j) <= B /\ B + PAGE <= Hi(j) /\ B + PAGE <= Hi(i)
    <3>1. PageAddress(i, 1) = B
      BY <1>3, <1>4, PageInSpan
    <3> QED BY <1>3, <1>9, <3>1, PageInSpan
  <2> QED BY <1>4, <2>1, <2>2 DEF AllDisjoint, Disjoint
<1>11. n = 1
  BY <1>3, <1>10
<1>12. p.contents = Contents(i, 1)
  BY <1>3, <1>8, <1>10, <1>11 DEF PageOfMap
<1> QED BY <1>1, <1>12 DEF p

\* The guest has the map, the E820 map and the accept list in memory.
LEMMA MapInGuest ==
  ASSUME placed \in Seq(Region), NoWrap, Full, AllDisjoint, AllLoaded
  PROVE  /\ \A p \in guest : \E i \in DOMAIN placed : \E n \in 1 .. PageCount(i) : PageOfMap(p, i, n)
         /\ \A i \in DOMAIN placed : \A n \in 1 .. PageCount(i) : \E p \in guest : PageOfMap(p, i, n)
         /\ GuestE820 = e820 /\ GuestAccept = accept
<1>1. ASSUME NEW p \in guest
      PROVE  \E i \in DOMAIN placed : \E n \in 1 .. PageCount(i) : PageOfMap(p, i, n)
  <2>1. PICK k \in DOMAIN LaunchPages : p = InMemory(LaunchPages[k])
    BY DEF AllLoaded
  <2> QED BY <2>1, PagesOfMap, LoadedPage
<1>2. ASSUME NEW i \in DOMAIN placed, NEW n \in 1 .. PageCount(i)
      PROVE  \E p \in guest : PageOfMap(p, i, n)
  <2>1. PICK k \in DOMAIN LaunchPages : LaunchPages[k] = RegionPage(i, n)
    BY PagesOfMap
  <2> QED BY <2>1, LoadedPage DEF AllLoaded
<1>3. GuestE820 = e820
  <2>1. PICK i \in DOMAIN placed : FirstAt(ZERO_PAGE, i) /\ (CHOOSE p \in guest : p.gpa = ZERO_PAGE).contents = Contents(i, 1)
    BY FilledPage
  <2>2. Contents(i, 1).data.e820 = e820
    BY <2>1 DEF Contents, Data
  <2> QED BY <2>1, <2>2 DEF GuestE820
<1>4. GuestAccept = accept
  <2>1. PICK i \in DOMAIN placed : FirstAt(SHIM_PAGE, i) /\ (CHOOSE p \in guest : p.gpa = SHIM_PAGE).contents = Contents(i, 1)
    BY FilledPage
  <2>2. Contents(i, 1).data.accept = accept
    BY <2>1 DEF Contents, Data
  <2> QED BY <2>1, <2>2 DEF GuestAccept
<1> QED BY <1>1, <1>2, <1>3, <1>4

-----------------------------------------------------------------------------
(* The launch digest of a sequence of pages.                               *)

Chunks == [data: [region: Nat, e820: Seq(Entry), accept: Seq(Nat \X Nat)],
           page: Nat, bad: SUBSET (1 .. CHUNKS)]

Page == [gpa: Nat, kind: {"normal", "cpuid", "secrets", "unmeasured"}, contents: Chunks]

\* On TDX a page is measured with its contents or it is not measured.
PageOfPlatform(p) == Platform = "tdx" => p.kind \in {"normal", "unmeasured"}

InfoOf(p) == PageInfo(p.gpa, p.kind, p.contents)

LogEntry ==
  { Record(p, c) : p \in Page, c \in 0 .. CHUNKS } \cup { InfoOf(p) : p \in Page }
    \cup { PageInfo(SNP_VMSA, "vmsa", v) : v \in {reset_vmsa, bsp_vmsa, ap_vmsa} }

\* What the firmware's digest is when the pages G have been loaded.
LogOf(G) == IF Platform = "tdx" THEN Mrtd(G) ELSE [k \in DOMAIN G |-> InfoOf(G[k])]

\* The number of records a page leaves in MRTD.
W == CHUNKS + 1

\* A function on 1 .. n is a sequence.
LEMMA SequenceOf ==
  ASSUME NEW S, NEW n \in Nat, NEW f, f \in [1 .. n -> S]
  PROVE  f \in Seq(S) /\ Len(f) = n
OBVIOUS

\* Division with remainder by a positive number.
LEMMA DivMod ==
  ASSUME NEW w \in Nat \ {0}, NEW q \in Nat, NEW c \in 0 .. w - 1
  PROVE  (q * w + c) \div w = q /\ (q * w + c) % w = c
<1> DEFINE x == q * w + c
           d == x \div w
           r == x % w
<1>1. x \in Nat /\ q * w \in Nat
  OBVIOUS
<1>2. d \in Nat /\ r \in 0 .. w - 1 /\ x = d * w + r /\ d * w \in Nat
  <2> HIDE DEF x
  <2> QED BY <1>1
<1>3. d = q
  <2> HIDE DEF d, r
  <2>1. ~(d < q)
    <3> SUFFICES ASSUME d + 1 <= q PROVE FALSE
      BY <1>2
    <3>1. (d + 1) * w <= q * w /\ (d + 1) * w = d * w + w
      BY <1>2
    <3> QED BY <1>1, <1>2, <3>1
  <2>2. ~(q < d)
    <3> SUFFICES ASSUME q + 1 <= d PROVE FALSE
      BY <1>2
    <3>1. (q + 1) * w <= d * w /\ (q + 1) * w = q * w + w
      BY <1>2
    <3> QED BY <1>1, <1>2, <3>1
  <2> QED BY <1>2, <2>1, <2>2
<1>4. r = c
  <2> HIDE DEF d, r
  <2> QED BY <1>1, <1>2, <1>3
<1> QED BY <1>3, <1>4

\* A place in a list of m groups of w is a place in one of the groups.
LEMMA GroupOf ==
  ASSUME NEW w \in Nat \ {0}, NEW m \in Nat, NEW n \in 1 .. m * w
  PROVE  \E q \in 0 .. m - 1, c \in 0 .. w - 1 :
           n = q * w + c + 1 /\ (n - 1) \div w = q /\ (n - 1) % w = c
<1> DEFINE top == m * w
           q == (n - 1) \div w
           c == (n - 1) % w
<1>0. top \in Nat
  OBVIOUS
<1>1. n \in 1 .. top
  OBVIOUS
<1> HIDE DEF top
<1>2. n - 1 \in Nat
  BY <1>0, <1>1
<1>3. q \in Nat /\ c \in 0 .. w - 1 /\ n - 1 = q * w + c /\ q * w \in Nat
  BY <1>2
<1> HIDE DEF q, c
<1>4. q < m
  <2> SUFFICES ASSUME m <= q PROVE FALSE
    BY <1>3
  <2>1. m * w <= q * w
    BY <1>3
  <2> QED BY <1>0, <1>1, <1>3, <2>1 DEF top
<1>5. q \in 0 .. m - 1
  BY <1>3, <1>4
<1>6. n = q * w + c + 1
  <2> DEFINE x == q * w
  <2>1. x \in Nat /\ n - 1 = x + c
    BY <1>3
  <2> HIDE DEF x
  <2>2. n = x + c + 1
    BY <1>0, <1>1, <1>3, <2>1
  <2> QED BY <2>2 DEF x
<1> QED BY <1>3, <1>5, <1>6 DEF q, c

\* And each place in a group is a place in the list.
LEMMA InGroup ==
  ASSUME NEW w \in Nat \ {0}, NEW m \in Nat, NEW q \in 0 .. m - 1, NEW c \in 0 .. w - 1
  PROVE  /\ q * w + c + 1 \in 1 .. m * w
         /\ (q * w + c + 1 - 1) \div w = q /\ (q * w + c + 1 - 1) % w = c
<1> DEFINE x == q * w
           top == m * w
<1>1. x \in Nat /\ top \in Nat /\ q \in Nat
  OBVIOUS
<1>2. (q + 1) * w <= top /\ (q + 1) * w = x + w
  BY <1>1
<1>3. (x + c) \div w = q /\ (x + c) % w = c
  BY <1>1, DivMod
<1> HIDE DEF x, top
<1>4. x + c + 1 - 1 = x + c /\ x + c + 1 \in 1 .. top
  BY <1>1, <1>2
<1> QED BY <1>3, <1>4 DEF x, top

\* The records of one page: its addition and its chunks (mrtd.rs).
LEMMA WType == W \in Nat \ {0} /\ W = CHUNKS + 1 /\ W - 1 = CHUNKS
<1>1. CHUNKS \in Nat \ {0}
  BY ImageAssumption, Zenon
<1> QED BY <1>1 DEF W

\* MRTD record by record (mrtd.rs, calculate).
LEMMA MrtdRecords ==
  ASSUME NEW G \in Seq(Page)
  PROVE  /\ Mrtd(G) \in Seq(LogEntry) /\ Len(Mrtd(G)) = Len(G) * W /\ Len(G) * W \in Nat
         /\ \A q \in 0 .. Len(G) - 1, c \in 0 .. CHUNKS :
              Mrtd(G)[q * W + c + 1] = Record(G[q + 1], c)
<1> DEFINE m == Len(G)
<1>1. Mrtd(G) = [n \in 1 .. m * W |-> Record(G[(n - 1) \div W + 1], (n - 1) % W)]
  BY DEF Mrtd, W
<1> HIDE DEF W
<1>2. m \in Nat
  OBVIOUS
<1>3. m * W \in Nat
  <2> HIDE DEF m
  <2> QED BY <1>2, WType
<1>4. ASSUME NEW n \in 1 .. m * W
      PROVE  Record(G[(n - 1) \div W + 1], (n - 1) % W) \in LogEntry
  <2>1. PICK q \in 0 .. m - 1, c \in 0 .. CHUNKS : (n - 1) \div W = q /\ (n - 1) % W = c
    <3> HIDE DEF m
    <3>1. \E q \in 0 .. m - 1, c \in 0 .. W - 1 : (n - 1) \div W = q /\ (n - 1) % W = c
      <4>1. W \in Nat \ {0}
        BY WType
      <4> HIDE DEF W
      <4>2. \E q \in 0 .. m - 1, c \in 0 .. W - 1 :
              n = q * W + c + 1 /\ (n - 1) \div W = q /\ (n - 1) % W = c
        BY <1>2, <4>1, GroupOf
      <4> QED BY <4>2
    <3> QED BY <3>1, WType
  <2>2. G[q + 1] \in Page
    BY <1>2
  <2> QED BY <2>1, <2>2 DEF LogEntry
<1>5. Mrtd(G) \in [1 .. m * W -> LogEntry]
  BY <1>1, <1>4
<1>6. Mrtd(G) \in Seq(LogEntry) /\ Len(Mrtd(G)) = m * W
  BY <1>3, <1>5, SequenceOf
<1>7. ASSUME NEW q \in 0 .. m - 1, NEW c \in 0 .. CHUNKS
      PROVE  Mrtd(G)[q * W + c + 1] = Record(G[q + 1], c)
  <2> DEFINE n == q * W + c + 1
  <2>1. n \in 1 .. m * W /\ (n - 1) \div W = q /\ (n - 1) % W = c
    <3> HIDE DEF m
    <3>1. c \in 0 .. W - 1 /\ W \in Nat \ {0}
      BY WType
    <3> HIDE DEF W
    <3> QED BY <1>2, <3>1, InGroup
  <2> HIDE DEF n
  <2>2. Mrtd(G)[n] = Record(G[q + 1], c)
    BY <1>1, <2>1
  <2> QED BY <2>2 DEF n
<1> QED BY <1>3, <1>6, <1>7

\* What an element of two sequences put together is.
LEMMA Joined ==
  ASSUME NEW S, NEW s \in Seq(S), NEW t \in Seq(S)
  PROVE  /\ s \o t \in Seq(S) /\ Len(s \o t) = Len(s) + Len(t)
         /\ \A k \in 1 .. Len(s) : (s \o t)[k] = s[k]
         /\ \A k \in 1 .. Len(t) : (s \o t)[Len(s) + k] = t[k]
BY ConcatProperties

\* One page is measured as its addition and its chunks, or by its info.
LEMMA MeasuredPage ==
  ASSUME NEW p \in Page
  PROVE  /\ Measure(p) \in Seq(LogEntry)
         /\ Platform = "tdx" /\ p.kind = "unmeasured" => Len(Measure(p)) = 1
         /\ Platform = "tdx" => Len(Measure(p)) >= 1 /\ Measure(p)[1] = Add(p.gpa)
         /\ Platform = "tdx" /\ p.kind # "unmeasured" =>
              Len(Measure(p)) = W /\ \A c \in 0 .. CHUNKS : Measure(p)[c + 1] = Record(p, c)
         /\ Platform # "tdx" => Measure(p) = << InfoOf(p) >>
<1>0. CHUNKS \in Nat \ {0}
  BY ImageAssumption, Zenon
<1>1. CASE Platform # "tdx"
  <2>1. Measure(p) = << InfoOf(p) >> /\ InfoOf(p) \in LogEntry
    BY <1>1 DEF Measure, InfoOf, LogEntry
  <2> QED BY <1>1, <2>1
<1>2. CASE Platform = "tdx"
  <2> DEFINE rest == IF p.kind = "unmeasured" THEN <<>>
                     ELSE [c \in 1 .. CHUNKS |-> ExtendBy(p.gpa, p.contents, c)]
  <2>1. Measure(p) = << Add(p.gpa) >> \o rest
    BY <1>2 DEF Measure
  <2>2. Add(p.gpa) = Record(p, 0) /\ \A c \in 1 .. CHUNKS : ExtendBy(p.gpa, p.contents, c) = Record(p, c)
    BY <1>0 DEF Record
  <2>3. \A c \in 0 .. CHUNKS : Record(p, c) \in LogEntry
    BY DEF LogEntry
  <2>4. << Add(p.gpa) >> \in Seq(LogEntry) /\ Len(<< Add(p.gpa) >>) = 1 /\ << Add(p.gpa) >>[1] = Add(p.gpa)
    BY <1>0, <2>2, <2>3
  <2>5. p.kind # "unmeasured" => rest \in [1 .. CHUNKS -> LogEntry]
    BY <1>0, <2>2, <2>3
  <2>6. /\ rest \in Seq(LogEntry)
        /\ p.kind = "unmeasured" => Len(rest) = 0
        /\ p.kind # "unmeasured" => Len(rest) = CHUNKS /\ \A c \in 1 .. CHUNKS : rest[c] = Record(p, c)
    <3>1. CASE p.kind = "unmeasured"
      BY <3>1
    <3>2. CASE p.kind # "unmeasured"
      <4>1. rest \in Seq(LogEntry) /\ Len(rest) = CHUNKS
        BY <1>0, <2>5, <3>2, SequenceOf
      <4> QED BY <2>2, <3>2, <4>1
    <3> QED BY <3>1, <3>2
  <2> HIDE DEF rest
  <2>7. /\ Measure(p) \in Seq(LogEntry) /\ Len(Measure(p)) = 1 + Len(rest) /\ Measure(p)[1] = Add(p.gpa)
        /\ \A c \in 1 .. Len(rest) : Measure(p)[1 + c] = rest[c]
    BY <2>1, <2>4, <2>6, Joined
  <2>8. ASSUME p.kind # "unmeasured", NEW c \in 0 .. CHUNKS PROVE Measure(p)[c + 1] = Record(p, c)
    <3>1. CASE c = 0
      BY <2>2, <2>7, <3>1
    <3>2. CASE c # 0
      <4>1. c \in 1 .. CHUNKS /\ 1 + c = c + 1
        BY <1>0, <3>2
      <4> QED BY <2>6, <2>7, <2>8, <4>1
    <3> QED BY <3>1, <3>2
  <2>9. W = 1 + CHUNKS
    BY <1>0 DEF W
  <2> QED BY <1>0, <1>2, <2>6, <2>7, <2>8, <2>9
<1> QED BY <1>1, <1>2

\* The digest of pages is a sequence of records.
LEMMA LogType ==
  ASSUME NEW G \in Seq(Page)
  PROVE  /\ LogOf(G) \in Seq(LogEntry)
         /\ Platform # "tdx" => Len(LogOf(G)) = Len(G) /\ \A k \in 1 .. Len(G) : LogOf(G)[k] = InfoOf(G[k])
<1>1. CASE Platform = "tdx"
  BY <1>1, MrtdRecords DEF LogOf
<1>2. CASE Platform # "tdx"
  <2>1. LogOf(G) \in [1 .. Len(G) -> LogEntry]
    BY <1>2 DEF LogOf, LogEntry
  <2>2. LogOf(G) \in Seq(LogEntry) /\ Len(LogOf(G)) = Len(G)
    BY <2>1, SequenceOf
  <2> QED BY <1>2, <2>2 DEF LogOf
<1> QED BY <1>1, <1>2

\* Loading one more page puts its records behind the others.
LEMMA LogAppended ==
  ASSUME NEW G \in Seq(Page), NEW p \in Page, Platform = "tdx" => p.kind # "unmeasured"
  PROVE  LogOf(Append(G, p)) = LogOf(G) \o Measure(p)
<1> DEFINE m == Len(G)
           H == Append(G, p)
           L == LogOf(G) \o Measure(p)
<1>1. H \in Seq(Page) /\ Len(H) = m + 1 /\ H[m + 1] = p /\ (\A k \in 1 .. m : H[k] = G[k]) /\ m \in Nat
  OBVIOUS
<1> HIDE DEF H, m
<1>2. LogOf(G) \in Seq(LogEntry) /\ LogOf(H) \in Seq(LogEntry) /\ Measure(p) \in Seq(LogEntry)
  BY <1>1, LogType, MeasuredPage
<1>3. /\ L \in Seq(LogEntry) /\ Len(L) = Len(LogOf(G)) + Len(Measure(p))
      /\ \A k \in 1 .. Len(LogOf(G)) : L[k] = LogOf(G)[k]
      /\ \A k \in 1 .. Len(Measure(p)) : L[Len(LogOf(G)) + k] = Measure(p)[k]
  BY <1>2, Joined
<1> HIDE DEF L
<1>4. CASE Platform # "tdx"
  <2>1. Measure(p) = << InfoOf(p) >> /\ Len(Measure(p)) = 1 /\ Measure(p)[1] = InfoOf(p)
    BY <1>4, MeasuredPage
  <2>2. /\ Len(LogOf(G)) = m /\ \A k \in 1 .. m : LogOf(G)[k] = InfoOf(G[k])
    BY <1>4, LogType DEF m
  <2>3. /\ Len(LogOf(H)) = m + 1 /\ \A k \in 1 .. m + 1 : LogOf(H)[k] = InfoOf(H[k])
    BY <1>1, <1>4, LogType
  <2>4. \A k \in 1 .. m + 1 : LogOf(H)[k] = L[k]
    BY <1>1, <1>3, <2>1, <2>2, <2>3
  <2>5. LogOf(H) = L
    BY <1>2, <1>3, <2>1, <2>2, <2>3, <2>4, SeqEqual
  <2> QED BY <2>5 DEF H, L
<1>5. CASE Platform = "tdx"
  <2>1. Len(Measure(p)) = W /\ \A c \in 0 .. CHUNKS : Measure(p)[c + 1] = Record(p, c)
    BY <1>5, MeasuredPage
  <2>2. /\ Len(LogOf(G)) = m * W /\ m * W \in Nat
        /\ \A q \in 0 .. m - 1, c \in 0 .. CHUNKS : LogOf(G)[q * W + c + 1] = Record(G[q + 1], c)
    BY <1>5, MrtdRecords DEF m, LogOf
  <2>3. /\ Len(LogOf(H)) = (m + 1) * W
        /\ \A q \in 0 .. m, c \in 0 .. CHUNKS : LogOf(H)[q * W + c + 1] = Record(H[q + 1], c)
    <3>1. Len(H) - 1 = m
      BY <1>1
    <3> QED BY <1>1, <1>5, <3>1, MrtdRecords DEF LogOf
  <2>4. (m + 1) * W = m * W + W
    <3> HIDE DEF W
    <3> QED BY <1>1, WType
  <2>5. ASSUME NEW n \in 1 .. (m + 1) * W PROVE LogOf(H)[n] = L[n]
    <3>1. PICK q \in 0 .. m, c \in 0 .. CHUNKS : n = q * W + c + 1
      <4>1. W \in Nat \ {0} /\ m + 1 \in Nat /\ m + 1 - 1 = m /\ W - 1 = CHUNKS
        BY <1>1, WType
      <4> HIDE DEF W
      <4> DEFINE M == m + 1
      <4>2. M \in Nat /\ n \in 1 .. M * W
        BY <4>1
      <4> HIDE DEF M
      <4>3. \E q \in 0 .. M - 1, c \in 0 .. W - 1 :
              n = q * W + c + 1 /\ (n - 1) \div W = q /\ (n - 1) % W = c
        BY <4>1, <4>2, GroupOf
      <4>4. M - 1 = m
        BY <1>1 DEF M
      <4> QED BY <4>1, <4>3, <4>4
    <3>2. LogOf(H)[n] = Record(H[q + 1], c)
      BY <2>3, <3>1
    <3>3. CASE q = m
      <4>1. L[m * W + (c + 1)] = Measure(p)[c + 1]
        <5>1. c + 1 \in 1 .. W
          BY WType
        <5> HIDE DEF W
        <5> QED BY <1>3, <2>1, <2>2, <5>1
      <4>2. m * W + (c + 1) = n
        <5> HIDE DEF W
        <5> QED BY <2>2, <3>1, <3>3
      <4> QED BY <1>1, <2>1, <3>2, <3>3, <4>1, <4>2
    <3>4. CASE q # m
      <4>1. q \in 0 .. m - 1
        BY <1>1, <3>4
      <4>2. n \in 1 .. m * W
        <5>1. c \in 0 .. W - 1 /\ W \in Nat \ {0}
          BY WType
        <5> HIDE DEF W
        <5> QED BY <1>1, <3>1, <4>1, <5>1, InGroup
      <4>3. L[n] = LogOf(G)[n]
        BY <1>3, <2>2, <4>2
      <4>4. LogOf(G)[n] = Record(G[q + 1], c)
        BY <2>2, <3>1, <4>1
      <4>5. H[q + 1] = G[q + 1]
        BY <1>1, <4>1
      <4> QED BY <3>2, <4>3, <4>4, <4>5
    <3> QED BY <3>3, <3>4
  <2>6. Len(L) = (m + 1) * W
    BY <1>3, <2>1, <2>2, <2>4
  <2>7. LogOf(H) = L
    BY <1>2, <1>3, <2>3, <2>5, <2>6, SeqEqual
  <2> QED BY <2>7 DEF H, L
<1> QED BY <1>4, <1>5

\* Pages are what their address, kind and contents are.
LEMMA SamePage ==
  ASSUME NEW p \in Page, NEW q \in Page, p.gpa = q.gpa, p.kind = q.kind
  PROVE  /\ p.contents = q.contents => p = q
         /\ p.kind \in {"cpuid", "secrets"} => InMemory(p) = InMemory(q)
<1>1. p = [gpa |-> p.gpa, kind |-> p.kind, contents |-> p.contents]
  BY DEF Page
<1>2. q = [gpa |-> q.gpa, kind |-> q.kind, contents |-> q.contents]
  BY DEF Page
<1>3. ASSUME NEW r \in {p, q}, p.kind \in {"cpuid", "secrets"}
      PROVE  InMemory(r) = [gpa |-> p.gpa, kind |-> p.kind, contents |-> Zeros(0)]
  <2>1. InMemory(r) = [r EXCEPT !.contents = Zeros(0)]
    BY <1>3 DEF InMemory
  <2> QED BY <2>1 DEF Page
<1> QED BY <1>1, <1>2, <1>3

\* Sets of chunks that agree on each chunk are the same.
LEMMA SameBad ==
  ASSUME NEW n, NEW A \in SUBSET (1 .. n), NEW B \in SUBSET (1 .. n),
         \A c \in 1 .. n : A \cap {c} = B \cap {c}
  PROVE  A = B
<1>1. ASSUME NEW c \in 1 .. n PROVE c \in A <=> c \in B
  BY <1>1
<1> QED BY <1>1

\* Equal digests are digests of pages that are the same once in memory.
LEMMA LogInjective ==
  ASSUME NEW G \in Seq(Page), NEW L \in Seq(Page),
         \A k \in 1 .. Len(G) : Platform = "tdx" => G[k].kind = "normal",
         \A k \in 1 .. Len(L) : L[k].kind # "unmeasured" /\ (Platform = "tdx" => L[k].kind = "normal"),
         LogOf(G) = LogOf(L)
  PROVE  Len(G) = Len(L) /\ \A k \in 1 .. Len(G) : InMemory(G[k]) = InMemory(L[k])
<1>1. CASE Platform # "tdx"
  <2>1. Len(G) = Len(L) /\ Len(G) \in Nat
    BY <1>1, LogType
  <2>2. ASSUME NEW k \in 1 .. Len(G) PROVE InMemory(G[k]) = InMemory(L[k])
    <3>1. InfoOf(G[k]) = InfoOf(L[k]) /\ k \in 1 .. Len(L)
      BY <1>1, <2>1, LogType
    <3>2. G[k] \in Page /\ L[k] \in Page
      BY <2>1
    <3>3. G[k].gpa = L[k].gpa /\ G[k].kind = L[k].kind /\ (L[k].kind = "normal" => << G[k].contents >> = << L[k].contents >>)
      BY <3>1 DEF InfoOf, PageInfo
    <3>4. L[k].kind = "normal" => G[k].contents = L[k].contents
      BY <3>3
    <3>5. L[k].kind = "normal" \/ L[k].kind \in {"cpuid", "secrets"}
      BY <3>1, <3>2 DEF Page
    <3> QED BY <3>2, <3>3, <3>4, <3>5, SamePage
  <2> QED BY <2>1, <2>2
<1>2. CASE Platform = "tdx"
  <2>1. Len(G) * W = Len(L) * W /\ Len(G) \in Nat /\ Len(L) \in Nat
    BY <1>2, MrtdRecords DEF LogOf
  <2>2. Len(G) = Len(L)
    <3>0. W \in Nat \ {0}
      BY WType
    <3> HIDE DEF W
    <3>1. (Len(G) * W) \div W = Len(G) /\ (Len(L) * W) \div W = Len(L)
      <4>1. \A q \in Nat : (q * W + 0) \div W = q /\ q * W + 0 = q * W
        BY <3>0, DivMod
      <4> QED BY <2>1, <4>1
    <3> QED BY <2>1, <3>1
  <2>3. ASSUME NEW k \in 1 .. Len(G) PROVE G[k] = L[k]
    <3>1. k - 1 \in 0 .. Len(G) - 1 /\ k - 1 + 1 = k /\ k \in 1 .. Len(L)
      BY <2>1, <2>2
    <3>2. \A c \in 0 .. CHUNKS : Record(G[k], c) = Record(L[k], c)
      <4> SUFFICES ASSUME NEW c \in 0 .. CHUNKS PROVE Record(G[k], c) = Record(L[k], c)
        OBVIOUS
      <4> DEFINE q == k - 1
                 n == q * W + c + 1
      <4>1. q \in 0 .. Len(G) - 1 /\ q \in 0 .. Len(L) - 1 /\ q + 1 = k
        BY <2>2, <3>1
      <4> HIDE DEF q
      <4>2. Mrtd(G)[n] = Record(G[q + 1], c) /\ Mrtd(L)[n] = Record(L[q + 1], c)
        BY <4>1, MrtdRecords
      <4> QED BY <1>2, <4>1, <4>2 DEF LogOf
    <3>3. G[k] \in Page /\ L[k] \in Page /\ G[k].kind = L[k].kind
      BY <1>2, <2>1, <3>1
    <3>4. CHUNKS \in Nat \ {0}
      BY ImageAssumption, Zenon
    <3>5. G[k].gpa = L[k].gpa
      <4>1. Add(G[k].gpa) = Add(L[k].gpa)
        BY <3>2, <3>4 DEF Record
      <4> QED BY <4>1 DEF Add
    <3>6. \A c \in 1 .. CHUNKS : Chunk(G[k].contents, c) = Chunk(L[k].contents, c)
      <4>1. \A c \in 1 .. CHUNKS : ExtendBy(G[k].gpa, G[k].contents, c) = ExtendBy(L[k].gpa, L[k].contents, c)
        BY <3>2, <3>4 DEF Record
      <4> QED BY <4>1 DEF ExtendBy
    <3>7. G[k].contents = L[k].contents
      <4> DEFINE x == G[k].contents
                 y == L[k].contents
      <4>1. x \in Chunks /\ y \in Chunks
        BY <3>3 DEF Page
      <4> HIDE DEF x, y
      <4>2. \A c \in 1 .. CHUNKS : x.data = y.data /\ x.page = y.page /\ x.bad \cap {c} = y.bad \cap {c}
        BY <3>6, <4>1 DEF Chunk, Chunks, x, y
      <4>3. x.data = y.data /\ x.page = y.page
        BY <3>4, <4>2
      <4>4. x.bad = y.bad
        <5>1. x.bad \in SUBSET (1 .. CHUNKS) /\ y.bad \in SUBSET (1 .. CHUNKS)
          BY <4>1 DEF Chunks
        <5>2. \A c \in 1 .. CHUNKS : x.bad \cap {c} = y.bad \cap {c}
          BY <4>2
        <5>3. \A A, B \in SUBSET (1 .. CHUNKS) : (\A c \in 1 .. CHUNKS : A \cap {c} = B \cap {c}) => A = B
          BY SameBad
        <5> QED BY <5>1, <5>2, <5>3
      <4>5. x = y
        BY <4>1, <4>3, <4>4 DEF Chunks
      <4> QED BY <4>5 DEF x, y
    <3> QED BY <3>3, <3>5, <3>7, SamePage
  <2> QED BY <2>2, <2>3
<1> QED BY <1>1, <1>2

-----------------------------------------------------------------------------
(* The pages of a finished derivation.                                     *)

\* Neither the map nor what was derived from it changes any more.
LEMMA SamePages ==
  ASSUME UNCHANGED vars
  PROVE  /\ placed' = placed /\ e820' = e820 /\ accept' = accept /\ step' = step /\ memory' = memory
         /\ \A i : PageCount(i)' = PageCount(i)
         /\ \A i, n : RegionPage(i, n)' = RegionPage(i, n)
         /\ \A p, i, n : PageOfMap(p, i, n)' <=> PageOfMap(p, i, n)
         /\ LaunchPages' = LaunchPages
         /\ Full' <=> Full
         /\ NoWrap' <=> NoWrap
         /\ AllDisjoint' <=> AllDisjoint
<1>1. placed' = placed /\ e820' = e820 /\ accept' = accept /\ memory' = memory /\ step' = step
  BY DEF vars
<1>2. \A b, i : FirstAt(b, i)' <=> FirstAt(b, i)
  BY <1>1 DEF FirstAt
<1>3. \A i : Filled(i)' = Filled(i)
  BY <1>1, <1>2 DEF Filled
<1>4. \A i : PageCount(i)' = PageCount(i)
  BY <1>3 DEF PageCount
<1>5. \A i : PageKind(i)' = PageKind(i)
  BY <1>1, <1>3 DEF PageKind
<1>6. \A i, n : PageAddress(i, n)' = PageAddress(i, n)
  BY <1>1 DEF PageAddress
<1>7. \A i, n : Contents(i, n)' = Contents(i, n) /\ Zeros(i)' = Zeros(i)
  BY <1>1, <1>2 DEF Contents, Zeros, Data, Blank
<1>8. \A i, n : RegionPage(i, n)' = RegionPage(i, n)
  BY <1>5, <1>6, <1>7 DEF RegionPage
<1>9. \A p, i, n : PageOfMap(p, i, n)' <=> PageOfMap(p, i, n)
  BY <1>5, <1>6, <1>7 DEF PageOfMap
<1>10. PageIds' = PageIds
  BY <1>1, <1>4 DEF PageIds
<1>11. \A p : Rank(p)' = Rank(p)
  BY <1>1, <1>10 DEF Rank, Before
<1>12. LaunchPages' = LaunchPages
  <2>1. ASSUME NEW k PROVE (CHOOSE p \in PageIds : Rank(p) = k - 1)' = (CHOOSE p \in PageIds : Rank(p) = k - 1)
    BY <1>10, <1>11
  <2> DEFINE At(k) == CHOOSE p \in PageIds : Rank(p) = k - 1
  <2>2. \A k : At(k)' = At(k)
    BY <2>1
  <2>3. PICK nth : nth = [k \in 1 .. Cardinality(PageIds) |-> At(k)]
    OBVIOUS
  <2>4. LaunchPages = [k \in DOMAIN nth |-> RegionPage(nth[k][1], nth[k][2])]
    BY <2>3 DEF LaunchPages
  <2>5. nth = [k \in 1 .. Cardinality(PageIds') |-> At(k)']
    <3> HIDE DEF At
    <3> QED BY <1>10, <2>2, <2>3
  <2>6. LaunchPages' = [k \in DOMAIN nth |-> RegionPage(nth[k][1], nth[k][2])']
    BY <2>5 DEF LaunchPages
  <2> QED BY <1>8, <2>4, <2>6
<1>13. Full' <=> Full
  BY <1>1, <1>2 DEF Full, FillOK
<1>14. (NoWrap' <=> NoWrap) /\ (AllDisjoint' <=> AllDisjoint)
  <2>1. UNCHANGED mapVars
    BY <1>1 DEF mapVars
  <2> QED BY <1>1, <2>1, SameMap DEF AllDisjoint
<1> QED BY <1>1, <1>4, <1>8, <1>9, <1>12, <1>13, <1>14

\* The pages of a map have their type, and are measured all of them.
LEMMA LaunchPagesType ==
  ASSUME TypeOK
  PROVE  /\ LaunchPages \in Seq(Page)
         /\ \A k \in 1 .. Len(LaunchPages) : LaunchPages[k].kind # "unmeasured" /\ LaunchPages[k].contents.bad = {}
<1>1. placed \in Seq(Region) /\ e820 \in Seq(Entry) /\ accept \in Seq(Nat \X Nat)
  BY DEF TypeOK, Entry, Kinds
<1>2. ASSUME NEW i \in DOMAIN placed, NEW n \in 1 .. PageCount(i)
      PROVE  RegionPage(i, n) \in Page /\ RegionPage(i, n).kind # "unmeasured" /\ RegionPage(i, n).contents.bad = {}
  <2>1. i \in Nat /\ placed[i].base \in Nat /\ n \in Nat /\ n - 1 \in Nat
    BY <1>1, BoundsType, CountType DEF Lo
  <2>2. PageAddress(i, n) \in Nat
    <3>1. (n - 1) * PAGE \in Nat
      BY <2>1, PageAssumption
    <3> DEFINE x == (n - 1) * PAGE
    <3> HIDE DEF x
    <3>2. placed[i].base + x \in Nat
      BY <2>1, <3>1 DEF x
    <3> QED BY <3>2 DEF PageAddress, x
  <2>3. Contents(i, n) \in Chunks /\ Zeros(i) \in Chunks /\ Contents(i, n).bad = {} /\ Zeros(i).bad = {}
    <3>1. <<>> \in Seq(Entry) /\ <<>> \in Seq(Nat \X Nat)
      OBVIOUS
    <3>2. Data(i) \in [region: Nat, e820: Seq(Entry), accept: Seq(Nat \X Nat)]
      BY <1>1, <2>1, <3>1 DEF Data
    <3>3. Blank(i) \in [region: Nat, e820: Seq(Entry), accept: Seq(Nat \X Nat)]
      BY <2>1, <3>1 DEF Blank
    <3> QED BY <2>1, <3>2, <3>3 DEF Contents, Zeros, Chunks
  <2>4. PageKind(i) \in {"normal", "cpuid", "secrets"}
    BY DEF PageKind
  <2> QED BY <2>2, <2>3, <2>4 DEF RegionPage, LaunchPage, Page
<1>3. Cardinality(PageIds) \in Nat /\ DOMAIN LaunchPages = 1 .. Cardinality(PageIds)
  BY <1>1, PagesOfMap
<1>4. \A k \in DOMAIN LaunchPages :
        LaunchPages[k] \in Page /\ LaunchPages[k].kind # "unmeasured" /\ LaunchPages[k].contents.bad = {}
  <2> SUFFICES ASSUME NEW k \in DOMAIN LaunchPages
               PROVE  LaunchPages[k] \in Page /\ LaunchPages[k].kind # "unmeasured" /\ LaunchPages[k].contents.bad = {}
    OBVIOUS
  <2>1. PICK i \in DOMAIN placed : \E n \in 1 .. PageCount(i) : LaunchPages[k] = RegionPage(i, n)
    BY <1>1, PagesOfMap
  <2> QED BY <2>1, <1>2
<1>5. LaunchPages \in [1 .. Cardinality(PageIds) -> Page]
  <2>1. LaunchPages = [k \in DOMAIN LaunchPages |-> LaunchPages[k]]
    BY DEF LaunchPages
  <2> QED BY <1>3, <1>4, <2>1
<1>6. LaunchPages \in Seq(Page) /\ Len(LaunchPages) = Cardinality(PageIds)
  BY <1>3, <1>5, SequenceOf
<1> QED BY <1>3, <1>4, <1>6

-----------------------------------------------------------------------------
(* The directives of a file and the order they are in.                     *)

Contexts == {reset_vmsa, bsp_vmsa, ap_vmsa}

\* The digest that the manifest promises and the ID block signs.
Promised == LaunchMeasurement(LaunchPages)

Directive ==
  { PageData(p) : p \in { q \in Page : PageOfPlatform(q) } }
    \cup { Required(a, n) : a \in Nat, n \in Nat }
    \cup { [type |-> "vp", vp |-> v, vmsa |-> c] : v \in 0 .. VCPUS - 1, c \in Contexts }
    \cup { IdBlock(Promised) }

\* How many contexts and how many signed blocks a file has.
VpCount == IF Platform = "tdx" THEN 0 ELSE VCPUS
IdCount == IF Platform = "tdx" \/ opts.key = "" THEN 0 ELSE 1

\* The file as written: R statements of required memory, the pages, the contexts and the
\* signed block.
Shape(f, R) ==
  /\ f \in Seq(Directive)
  /\ Len(f) = R + Len(LaunchPages) + VpCount + IdCount
  /\ \A k \in 1 .. R : f[k].type = "required"
  /\ \A k \in 1 .. Len(LaunchPages) : f[R + k] = PageData(LaunchPages[k])
  /\ \A v \in 1 .. VpCount : f[R + Len(LaunchPages) + v] = VpContext(v - 1)
  /\ IdCount = 1 => f[R + Len(LaunchPages) + VpCount + 1] = IdBlock(Promised)

FileShape(R) == Shape(file, R)

\* The pages of a map that pages() and validate_pages() let through on TDX.
AllNormal == Platform = "tdx" => \A k \in DOMAIN LaunchPages : LaunchPages[k].kind = "normal"

Promise ==
  launch = IF Platform = "tdx" THEN TdxValues(Mrtd(LaunchPages), opts.config, ResetRtmrs)
           ELSE SnpValues(Promised, "SNP_GUEST_POLICY", opts.svn, opts.config, opts.key)

\* What the directives are told apart by (image.rs, tdx_file and snp.rs, igvm_file).
LEMMA DirectiveKinds ==
  ASSUME NEW d \in Directive
  PROVE  /\ d.type \in {"page", "required", "vp", "id"}
         /\ d.type = "page" => d.page \in Page /\ PageOfPlatform(d.page) /\ d = PageData(d.page)
         /\ d.type = "vp" => d.vp \in 0 .. VCPUS - 1 /\ d.vmsa \in Contexts
                             /\ d = [type |-> "vp", vp |-> d.vp, vmsa |-> d.vmsa]
         /\ d.type = "id" => d = IdBlock(Promised)
<1>1. CASE d \in { PageData(p) : p \in { q \in Page : PageOfPlatform(q) } }
  <2>1. PICK p \in Page : PageOfPlatform(p) /\ d = PageData(p)
    BY <1>1
  <2> QED BY <2>1 DEF PageData
<1>2. CASE d \in { Required(a, n) : a \in Nat, n \in Nat }
  BY <1>2 DEF Required
<1>3. CASE d \in { [type |-> "vp", vp |-> v, vmsa |-> c] : v \in 0 .. VCPUS - 1, c \in Contexts }
  BY <1>3
<1>4. CASE d = IdBlock(Promised)
  BY <1>4 DEF IdBlock
<1> QED BY <1>1, <1>2, <1>3, <1>4 DEF Directive

\* How many directives of each kind the file has (snp.rs, igvm).
LEMMA CountTypes == VCPUS \in Nat \ {0} /\ VpCount \in Nat /\ IdCount \in {0, 1}
<1>1. VCPUS \in Nat \ {0}
  BY ImageAssumption, Zenon
<1> QED BY <1>1 DEF VpCount, IdCount

\* A page and a context of the image are directives.
LEMMA ImageDirectives ==
  ASSUME TypeOK, AllNormal
  PROVE  /\ \A k \in 1 .. Len(LaunchPages) : PageData(LaunchPages[k]) \in Directive
         /\ \A v \in 1 .. VCPUS : VpContext(v - 1) \in Directive
         /\ IdBlock(Promised) \in Directive
<1>1. ASSUME NEW k \in 1 .. Len(LaunchPages) PROVE PageData(LaunchPages[k]) \in Directive
  <2>1. LaunchPages[k] \in Page /\ k \in DOMAIN LaunchPages
    BY LaunchPagesType
  <2>2. PageOfPlatform(LaunchPages[k])
    BY <2>1 DEF AllNormal, PageOfPlatform
  <2> QED BY <2>1, <2>2 DEF Directive
<1>2. ASSUME NEW v \in 1 .. VCPUS PROVE VpContext(v - 1) \in Directive
  <2>1. v - 1 \in 0 .. VCPUS - 1 /\ Vmsa(v - 1) \in Contexts
    BY CountTypes DEF Vmsa, Contexts
  <2>2. VpContext(v - 1) = [type |-> "vp", vp |-> v - 1, vmsa |-> Vmsa(v - 1)]
    BY DEF VpContext
  <2>3. \A w \in 0 .. VCPUS - 1, c \in Contexts : [type |-> "vp", vp |-> w, vmsa |-> c] \in Directive
    BY DEF Directive
  <2> QED BY <2>1, <2>2, <2>3
<1>3. IdBlock(Promised) \in Directive
  BY DEF Directive
<1> QED BY <1>1, <1>2, <1>3

\* A TDX file is its pages (image.rs, tdx_file).
LEMMA TdxShape ==
  ASSUME TypeOK, AllNormal, Platform = "tdx", NEW f, f = TdxFile(LaunchPages)
  PROVE  Shape(f, 0)
<1> DEFINE N == Len(LaunchPages)
<1>1. N \in Nat /\ DOMAIN LaunchPages = 1 .. N
  BY LaunchPagesType
<1>2. f = [k \in 1 .. N |-> PageData(LaunchPages[k])]
  BY <1>1 DEF TdxFile
<1>3. \A k \in 1 .. N : PageData(LaunchPages[k]) \in Directive
  BY ImageDirectives
<1>4. VpCount = 0 /\ IdCount = 0
  BY DEF VpCount, IdCount
<1> HIDE DEF N
<1>5. f \in Seq(Directive) /\ Len(f) = N
  <2>1. f \in [1 .. N -> Directive]
    BY <1>2, <1>3
  <2> QED BY <1>1, <2>1, SequenceOf
<1>6. 0 + N + 0 + 0 = N /\ \A k \in 1 .. N : 0 + k = k
  BY <1>1
<1>7. Shape(f, 0)
  BY <1>2, <1>4, <1>5, <1>6 DEF Shape, N
<1> QED BY <1>7

\* A SNP file is what it requires, its pages, its contexts and its block (snp.rs, igvm_file).
LEMMA SnpShape ==
  ASSUME TypeOK, AllNormal, Platform # "tdx", NEW required \in Seq(Directive),
         \A k \in 1 .. Len(required) : required[k].type = "required",
         NEW f, f = SnpFile(required, LaunchPages)
  PROVE  /\ Shape(f, Len(required))
         /\ \A k \in 1 .. Len(required) : f[k] = required[k]
<1> DEFINE R == Len(required)
           N == Len(LaunchPages)
           P == [k \in DOMAIN LaunchPages |-> PageData(LaunchPages[k])]
           C == [vp \in 1 .. VCPUS |-> VpContext(vp - 1)]
           I == IF opts.key = "" THEN <<>> ELSE << IdBlock(Promised) >>
<1>0. \A s, t \in Seq(Directive) :
        /\ s \o t \in Seq(Directive) /\ Len(s \o t) = Len(s) + Len(t)
        /\ \A k \in 1 .. Len(s) : (s \o t)[k] = s[k]
        /\ \A k \in 1 .. Len(t) : (s \o t)[Len(s) + k] = t[k]
  BY Joined
<1>1. N \in Nat /\ R \in Nat /\ DOMAIN LaunchPages = 1 .. N /\ VCPUS \in Nat
  BY LaunchPagesType, CountTypes
<1>2. P \in Seq(Directive) /\ Len(P) = N
  <2>1. P \in [1 .. N -> Directive]
    BY <1>1, ImageDirectives
  <2> QED BY <1>1, <2>1, SequenceOf
<1>3. C \in Seq(Directive) /\ Len(C) = VCPUS
  <2>1. C \in [1 .. VCPUS -> Directive]
    BY ImageDirectives
  <2> QED BY <1>1, <2>1, SequenceOf
<1>4. I \in Seq(Directive) /\ Len(I) = IdCount /\ (IdCount = 1 => I[1] = IdBlock(Promised))
  <2>1. IdBlock(Promised) \in Directive
    BY ImageDirectives
  <2> DEFINE b == IdBlock(Promised)
  <2> HIDE DEF b
  <2>2. << b >> \in Seq(Directive) /\ Len(<< b >>) = 1 /\ << b >>[1] = b
    BY <2>1 DEF b
  <2>3. opts.key = "" => I = <<>> /\ IdCount = 0
    BY DEF IdCount
  <2>4. opts.key # "" => I = << b >> /\ IdCount = 1
    BY DEF IdCount, b
  <2>5. <<>> \in Seq(Directive) /\ Len(<<>>) = 0
    OBVIOUS
  <2> HIDE DEF I
  <2>6. CASE opts.key = ""
    <3>1. I \in Seq(Directive) /\ Len(I) = 0
      BY <2>3, <2>5, <2>6
    <3>2. IdCount = 0
      BY <2>3, <2>6
    <3> QED BY <3>1, <3>2
  <2>7. CASE opts.key # ""
    BY <2>2, <2>4, <2>7 DEF b
  <2> QED BY <2>6, <2>7
<1>5. f = ((required \o P) \o C) \o I
  BY DEF SnpFile, Promised
<1>6. \A k \in 1 .. N : P[k] = PageData(LaunchPages[k])
  BY <1>1
<1>7. \A v \in 1 .. VCPUS : C[v] = VpContext(v - 1)
  OBVIOUS
<1>8. VpCount = VCPUS /\ IdCount \in {0, 1}
  BY CountTypes DEF VpCount
<1> HIDE DEF P, C, I, N
<1> DEFINE A == required \o P
           B == A \o C
<1>9. /\ A \in Seq(Directive) /\ Len(A) = R + N
      /\ \A k \in 1 .. R : A[k] = required[k]
      /\ \A k \in 1 .. N : A[R + k] = P[k]
  <2>1. /\ A \in Seq(Directive) /\ Len(A) = Len(required) + Len(P)
        /\ \A k \in 1 .. Len(required) : A[k] = required[k]
        /\ \A k \in 1 .. Len(P) : A[Len(required) + k] = P[k]
    BY <1>0, <1>2
  <2> QED BY <1>2, <2>1
<1>10. f = B \o I
  BY <1>5
<1> HIDE DEF A
<1>11. /\ B \in Seq(Directive) /\ Len(B) = R + N + VCPUS
       /\ \A k \in 1 .. R + N : B[k] = A[k]
       /\ \A v \in 1 .. VCPUS : B[R + N + v] = C[v]
  <2>1. /\ B \in Seq(Directive) /\ Len(B) = Len(A) + Len(C)
        /\ \A k \in 1 .. Len(A) : B[k] = A[k]
        /\ \A k \in 1 .. Len(C) : B[Len(A) + k] = C[k]
    BY <1>0, <1>3, <1>9
  <2> QED BY <1>3, <1>9, <2>1
<1> HIDE DEF B
<1>12. /\ f \in Seq(Directive) /\ Len(f) = R + N + VCPUS + IdCount
       /\ \A k \in 1 .. R + N + VCPUS : f[k] = B[k]
       /\ \A k \in 1 .. IdCount : f[R + N + VCPUS + k] = I[k]
  <2>1. /\ B \o I \in Seq(Directive) /\ Len(B \o I) = Len(B) + Len(I)
        /\ \A k \in 1 .. Len(B) : (B \o I)[k] = B[k]
        /\ \A k \in 1 .. Len(I) : (B \o I)[Len(B) + k] = I[k]
    BY <1>0, <1>4, <1>11
  <2> QED BY <1>4, <1>10, <1>11, <2>1
<1>13. \A k \in 1 .. R : f[k] = required[k]
  BY <1>1, <1>9, <1>11, <1>12
<1>14. \A k \in 1 .. N : f[R + k] = PageData(LaunchPages[k])
  <2>1. \A k \in 1 .. N : R + k \in 1 .. R + N /\ R + k \in 1 .. R + N + VCPUS
    BY <1>1
  <2> QED BY <1>6, <1>9, <1>11, <1>12, <2>1
<1>15. \A v \in 1 .. VCPUS : f[R + N + v] = VpContext(v - 1)
  <2>1. \A v \in 1 .. VCPUS : R + N + v \in 1 .. R + N + VCPUS
    BY <1>1
  <2> QED BY <1>7, <1>11, <1>12, <2>1
<1>16. IdCount = 1 => f[R + N + VCPUS + 1] = IdBlock(Promised)
  BY <1>4, <1>12
<1>17. Shape(f, R)
  BY <1>8, <1>12, <1>13, <1>14, <1>15, <1>16 DEF Shape, N
<1> QED BY <1>13, <1>17

-----------------------------------------------------------------------------
(* Whatever the host gives the loader is a sequence of directives.         *)

\* One element changed.
LEMMA OneChanged ==
  ASSUME file \in Seq(Directive), NEW k \in DOMAIN file, NEW d \in Directive
  PROVE  [file EXCEPT ![k] = d] \in Seq(Directive)
OBVIOUS

\* A page that the host changed is still a page.
LEMMA AlteredPageType ==
  ASSUME TypeOK, NEW p \in Page, PageOfPlatform(p), NEW q \in AlteredPage(p)
  PROVE  q \in Page /\ PageOfPlatform(q)
<1>1. memory \in Nat
  BY DEF TypeOK
<1>2. CASE q \in { [p EXCEPT !.contents.bad = {c}] : c \in 1 .. CHUNKS }
  <2>1. PICK c \in 1 .. CHUNKS : q = [p EXCEPT !.contents.bad = {c}]
    BY <1>2
  <2>2. p.contents \in Chunks
    BY DEF Page
  <2>3. [p.contents EXCEPT !.bad = {c}] \in Chunks
    BY <2>2 DEF Chunks
  <2>4. q = [p EXCEPT !.contents = [p.contents EXCEPT !.bad = {c}]]
    BY <2>1
  <2>5. \A x \in Chunks : [p EXCEPT !.contents = x] \in Page /\ [p EXCEPT !.contents = x].kind = p.kind
    BY DEF Page
  <2> QED BY <2>3, <2>4, <2>5 DEF PageOfPlatform
<1>3. CASE q = [p EXCEPT !.kind = "unmeasured"]
  BY <1>3 DEF Page, PageOfPlatform
<1>4. CASE q = [p EXCEPT !.gpa = memory]
  BY <1>1, <1>4 DEF Page, PageOfPlatform
<1> QED BY <1>2, <1>3, <1>4 DEF AlteredPage

\* What is left of a file that has lost a directive is a file.
LEMMA DroppedType ==
  ASSUME file \in Seq(Directive), NEW f \in Dropped
  PROVE  f \in Seq(Directive)
<1>1. PICK k \in DOMAIN file : f = SubSeq(file, 1, k - 1) \o SubSeq(file, k + 1, Len(file))
  BY DEF Dropped, SE!RemoveAt
<1>2. k \in 1 .. Len(file) /\ Len(file) \in Nat
  OBVIOUS
<1>3. SubSeq(file, 1, k - 1) \in Seq(Directive) /\ SubSeq(file, k + 1, Len(file)) \in Seq(Directive)
  BY <1>2
<1>4. \A s, t \in Seq(Directive) : s \o t \in Seq(Directive)
  OBVIOUS
<1> QED BY <1>1, <1>3, <1>4

\* So is a file with two neighbours exchanged.
LEMMA SwappedType ==
  ASSUME file \in Seq(Directive), NEW f \in Swapped
  PROVE  f \in Seq(Directive)
<1>1. PICK k \in 1 .. Len(file) - 1 : f = [file EXCEPT ![k] = file[k + 1], ![k + 1] = file[k]]
  BY DEF Swapped
<1>2. k \in DOMAIN file /\ k + 1 \in DOMAIN file /\ DOMAIN file = 1 .. Len(file) /\ Len(file) \in Nat
  OBVIOUS
<1>3. \A j \in DOMAIN file : f[j] \in Directive
  BY <1>1, <1>2
<1>4. f \in [1 .. Len(file) -> Directive]
  BY <1>1, <1>2, <1>3
<1> QED BY <1>2, <1>4, SequenceOf

\* So is a file with one directive changed.
LEMMA AlteredType ==
  ASSUME TypeOK, file \in Seq(Directive), NEW f \in Altered
  PROVE  f \in Seq(Directive)
<1> DEFINE K == { j \in DOMAIN file : file[j].type = "page" }
           V == { j \in DOMAIN file : file[j].type = "vp" }
           Of(k) == { [file EXCEPT ![k].page = p] : p \in AlteredPage(file[k].page) }
           At(k) == [file EXCEPT ![k].vmsa = IF file[k].vp = 0 THEN ap_vmsa ELSE bsp_vmsa]
<1>1. CASE \E k \in K : f \in Of(k)
  <2>1. PICK k \in DOMAIN file :
          file[k].type = "page" /\ \E p \in AlteredPage(file[k].page) : f = [file EXCEPT ![k].page = p]
    BY <1>1
  <2>2. PICK p \in AlteredPage(file[k].page) : f = [file EXCEPT ![k].page = p]
    BY <2>1
  <2> DEFINE d == file[k]
  <2>3. d \in Directive
    OBVIOUS
  <2>4. d.page \in Page /\ PageOfPlatform(d.page) /\ d = PageData(d.page)
    BY <2>1, <2>3, DirectiveKinds
  <2>5. p \in Page /\ PageOfPlatform(p)
    BY <2>2, <2>4, AlteredPageType
  <2>6. [d EXCEPT !.page = p] = PageData(p)
    BY <2>4 DEF PageData
  <2>7. PageData(p) \in Directive
    BY <2>5 DEF Directive
  <2>8. f = [file EXCEPT ![k] = [d EXCEPT !.page = p]]
    BY <2>2
  <2> QED BY <2>6, <2>7, <2>8, OneChanged
<1>2. CASE \E k \in V : f = At(k)
  <2>1. PICK k \in DOMAIN file :
          file[k].type = "vp" /\ f = [file EXCEPT ![k].vmsa = IF file[k].vp = 0 THEN ap_vmsa ELSE bsp_vmsa]
    BY <1>2
  <2> DEFINE d == file[k]
             c == IF d.vp = 0 THEN ap_vmsa ELSE bsp_vmsa
  <2>2. d \in Directive
    OBVIOUS
  <2>3. d.vp \in 0 .. VCPUS - 1 /\ d = [type |-> "vp", vp |-> d.vp, vmsa |-> d.vmsa]
    BY <2>1, <2>2, DirectiveKinds
  <2>4. f = [file EXCEPT ![k] = [d EXCEPT !.vmsa = c]]
    BY <2>1
  <2>5. c \in Contexts
    BY DEF Contexts
  <2> HIDE DEF c, d
  <2>6. [d EXCEPT !.vmsa = c] = [type |-> "vp", vp |-> d.vp, vmsa |-> c]
    BY <2>3
  <2>7. \A w \in 0 .. VCPUS - 1, x \in Contexts : [type |-> "vp", vp |-> w, vmsa |-> x] \in Directive
    BY DEF Directive
  <2>8. [d EXCEPT !.vmsa = c] \in Directive
    BY <2>3, <2>5, <2>6, <2>7
  <2> QED BY <2>4, <2>8, OneChanged
<1>3. f \in (UNION { Of(k) : k \in K }) \cup { At(k) : k \in V }
  BY DEF Altered
<1> HIDE DEF K, V, Of, At
<1>4. (\E k \in K : f \in Of(k)) \/ (\E k \in V : f = At(k))
  BY <1>3
<1> QED BY <1>1, <1>2, <1>4

\* So is a file without its signed block.
LEMMA UnsignedType ==
  ASSUME file \in Seq(Directive)
  PROVE  Unsigned \in Seq(Directive)
<1>1. CASE file # <<>>
  <2>1. Len(file) \in Nat /\ SubSeq(file, 1, Len(file) - 1) \in Seq(Directive)
    OBVIOUS
  <2> QED BY <2>1 DEF Unsigned
<1>2. CASE file = <<>>
  BY <1>2 DEF Unsigned
<1> QED BY <1>1, <1>2

\* Each delivery is directives (the IGVM file a host can hand to QEMU).
LEMMA DeliveryType ==
  ASSUME TypeOK, file \in Seq(Directive), NEW x \in Deliveries
  PROVE  x.file \in Seq(Directive)
<1>1. CASE x = Untouched
  BY <1>1 DEF Untouched, Given
<1>2. CASE x \in { Given(f, "SNP_GUEST_POLICY", opts.config) : f \in Dropped \cup Swapped \cup Altered }
  <2>1. PICK f \in Dropped \cup Swapped \cup Altered : x = Given(f, "SNP_GUEST_POLICY", opts.config)
    BY <1>2
  <2>2. x.file = f
    BY <2>1 DEF Given
  <2> QED BY <2>1, <2>2, DroppedType, SwappedType, AlteredType
<1>3. CASE x \in { Given(f, policy, config) : f \in {file, Unsigned},
                   policy \in {"SNP_GUEST_POLICY", "other"}, config \in {opts.config, "other"} }
  <2>1. PICK f \in {file, Unsigned}, policy \in {"SNP_GUEST_POLICY", "other"}, config \in {opts.config, "other"} :
          x = Given(f, policy, config)
    BY <1>3
  <2>2. x.file = f
    BY <2>1 DEF Given
  <2> QED BY <2>1, <2>2, UnsignedType
<1> QED BY <1>1, <1>2, <1>3 DEF Deliveries

-----------------------------------------------------------------------------
(* What the loader has done so far.  Either memory and digest are those of *)
(* a sequence G of measured pages, or, on TDX, a page was added without    *)
(* being extended and the digest shows it.                                 *)

Loaded(G) ==
  /\ log = LogOf(G)
  /\ guest = { InMemory(G[k]) : k \in 1 .. Len(G) }
  /\ Platform = "tdx" => \A k \in 1 .. Len(G) : G[k].kind = "normal"

\* How far the loader has come in a file that nobody changed.
Honest(R, G) ==
  LET done == next - 1
      pages == Len(LaunchPages)
  IN  /\ Len(G) = IF done <= R THEN 0 ELSE IF done <= R + pages THEN done - R ELSE pages
      /\ \A k \in 1 .. Len(G) : G[k] = LaunchPages[k]
      /\ \A v \in 1 .. VpCount : R + pages + v <= done => vps[v - 1] = Vmsa(v - 1)
      /\ signed = IF R + pages + VpCount < done THEN << IdBlock(Promised) >> ELSE <<>>

\* Where the chunks of a page should be in the digest is the addition of another page, or
\* nothing at all.
Diverged ==
  /\ Platform = "tdx"
  /\ delivery # Untouched
  /\ log \in Seq(LogEntry)
  /\ \E m \in Nat :
       \/ Len(log) = m * W + 1
       \/ Len(log) >= m * W + 2 /\ \E gpa \in Nat : log[m * W + 2] = Add(gpa)

Progress(R) ==
  \/ Diverged
  \/ \E G \in Seq(Page) : Loaded(G) /\ (delivery = Untouched => Honest(R, G))

LoadInv ==
  /\ delivery.file \in Seq(Directive)
  /\ next \in 1 .. Len(delivery.file) + 1
  /\ vps \in [0 .. VCPUS - 1 -> Contexts]
  /\ \E R \in Nat : FileShape(R) /\ Progress(R)

\* A page that an unchanged file gives is a page of the map, in its place.
LEMMA HonestPage ==
  ASSUME LaunchPages \in Seq(Page), NEW R \in Nat, FileShape(R), NEW G \in Seq(Page), Honest(R, G),
         next \in 1 .. Len(file), file[next].type = "page"
  PROVE  Len(G) + 1 \in 1 .. Len(LaunchPages) /\ next = R + Len(G) + 1
         /\ file[next].page = LaunchPages[Len(G) + 1]
<1> DEFINE N == Len(LaunchPages)
<1>1. N \in Nat /\ VpCount \in Nat /\ IdCount \in {0, 1} /\ next \in Nat \ {0}
  BY CountTypes DEF FileShape, Shape
<1> HIDE DEF N
<1>2. /\ Len(file) = R + N + VpCount + IdCount
      /\ \A k \in 1 .. R : file[k].type = "required"
      /\ \A k \in 1 .. N : file[R + k] = PageData(LaunchPages[k])
      /\ \A v \in 1 .. VpCount : file[R + N + v] = VpContext(v - 1)
      /\ IdCount = 1 => file[R + N + VpCount + 1] = IdBlock(Promised)
  BY DEF FileShape, Shape, N
<1>3. ~(next <= R)
  BY <1>1, <1>2
<1>4. ~(next > R + N /\ next <= R + N + VpCount)
  <2> SUFFICES ASSUME next > R + N, next <= R + N + VpCount PROVE FALSE
    OBVIOUS
  <2>1. next - R - N \in 1 .. VpCount /\ R + N + (next - R - N) = next
    BY <1>1
  <2>2. PICK v \in 1 .. VpCount : R + N + v = next
    BY <2>1
  <2>3. file[R + N + v] = VpContext(v - 1)
    BY <1>2
  <2> QED BY <2>2, <2>3 DEF VpContext
<1>5. ~(next > R + N + VpCount)
  <2> SUFFICES ASSUME next > R + N + VpCount PROVE FALSE
    OBVIOUS
  <2>1. IdCount = 1 /\ next = R + N + VpCount + 1
    BY <1>1, <1>2
  <2>2. file[next] = IdBlock(Promised)
    BY <1>2, <2>1
  <2> QED BY <2>2 DEF IdBlock
<1>6. next - R \in 1 .. N /\ R + (next - R) = next
  BY <1>1, <1>3, <1>4, <1>5
<1>7. file[next] = PageData(LaunchPages[next - R])
  BY <1>2, <1>6
<1>8. Len(G) = IF next - 1 <= R THEN 0 ELSE IF next - 1 <= R + N THEN next - 1 - R ELSE N
  BY DEF Honest, N
<1>9. Len(G) + 1 = next - R
  BY <1>1, <1>6, <1>8
<1> QED BY <1>1, <1>6, <1>7, <1>9 DEF PageData, N

\* A file and its pages stay what they are once they have been written.
LEMMA SameFile ==
  ASSUME UNCHANGED <<vars, opts>>
  PROVE  /\ Promised' = Promised /\ IdBlock(Promised)' = IdBlock(Promised)
         /\ Directive' = Directive /\ IdCount' = IdCount
         /\ AllNormal' <=> AllNormal
         /\ \A f, R : Shape(f, R)' <=> Shape(f, R)
         /\ file' = file => \A R : FileShape(R)' <=> FileShape(R)
         /\ launch' = launch => (Promise' <=> Promise)
<1>1. UNCHANGED vars /\ opts' = opts
  OBVIOUS
<1>2. LaunchPages' = LaunchPages
  BY <1>1, SamePages
<1>3. Promised' = Promised
  BY <1>2 DEF Promised, LaunchMeasurement
<1>4. IdBlock(Promised)' = IdBlock(Promised)
  BY <1>1, <1>3 DEF IdBlock
<1>5. Directive' = Directive
  BY <1>4 DEF Directive
<1>6. IdCount' = IdCount
  BY <1>1 DEF IdCount
<1>7. AllNormal' <=> AllNormal
  BY <1>2 DEF AllNormal
<1>8. \A f, R : Shape(f, R)' <=> Shape(f, R)
  BY <1>2, <1>4, <1>5, <1>6 DEF Shape
<1>9. file' = file => \A R : FileShape(R)' <=> FileShape(R)
  BY <1>8 DEF FileShape
<1>10. launch' = launch => (Promise' <=> Promise)
  BY <1>1, <1>2, <1>3 DEF Promise
<1> QED BY <1>3, <1>4, <1>5, <1>6, <1>7, <1>8, <1>9, <1>10

\* The pages loaded once directive d has been carried out.
After(G, d) == IF d.type = "page" THEN Append(G, d.page) ELSE G

\* One directive of an unchanged file carried out.
LEMMA HonestStep ==
  ASSUME LaunchPages \in Seq(Page), NEW R \in Nat, FileShape(R), NEW G \in Seq(Page), Honest(R, G),
         vps \in [0 .. VCPUS - 1 -> Contexts], next \in Nat \ {0}, delivery.file = file,
         LoadDirective, UNCHANGED vars, NEW H, H = After(G, file[next])
  PROVE  Honest(R, H)'
<1> DEFINE N == Len(LaunchPages)
<1>0. /\ next \in 1 .. Len(file) /\ UNCHANGED <<vars, opts, file>> /\ next' = next + 1
      /\ vps' = IF file[next].type = "vp" THEN [vps EXCEPT ![file[next].vp] = file[next].vmsa] ELSE vps
      /\ signed' = IF file[next].type = "id" THEN << file[next] >> ELSE signed
      /\ H = IF file[next].type = "page" THEN Append(G, file[next].page) ELSE G
  BY DEF LoadDirective, FileShape, Shape, After
<1>1. /\ N \in Nat /\ VpCount \in Nat /\ IdCount \in {0, 1} /\ next \in Nat \ {0} /\ Len(G) \in Nat
      /\ VCPUS \in Nat \ {0} /\ (VpCount = 0 \/ VpCount = VCPUS)
  BY <1>0, CountTypes DEF FileShape, Shape, VpCount
<1>2. LaunchPages' = LaunchPages /\ IdBlock(Promised)' = IdBlock(Promised)
  BY <1>0, SamePages, SameFile
<1> HIDE DEF N
<1>3. /\ Len(file) = R + N + VpCount + IdCount
      /\ \A k \in 1 .. R : file[k].type = "required"
      /\ \A k \in 1 .. N : file[R + k] = PageData(LaunchPages[k])
      /\ \A v \in 1 .. VpCount : file[R + N + v] = VpContext(v - 1)
      /\ IdCount = 1 => file[R + N + VpCount + 1] = IdBlock(Promised)
  BY DEF FileShape, Shape, N
<1>4. /\ Len(G) = IF next - 1 <= R THEN 0 ELSE IF next - 1 <= R + N THEN next - 1 - R ELSE N
      /\ \A k \in 1 .. Len(G) : G[k] = LaunchPages[k]
      /\ \A v \in 1 .. VpCount : R + N + v <= next - 1 => vps[v - 1] = Vmsa(v - 1)
      /\ signed = IF R + N + VpCount < next - 1 THEN << IdBlock(Promised) >> ELSE <<>>
  BY DEF Honest, N
<1>5. SUFFICES
        /\ Len(H) = IF next <= R THEN 0 ELSE IF next <= R + N THEN next - R ELSE N
        /\ \A k \in 1 .. Len(H) : H[k] = LaunchPages[k]
        /\ \A v \in 1 .. VpCount : R + N + v <= next => vps'[v - 1] = Vmsa(v - 1)
        /\ signed' = IF R + N + VpCount < next THEN << IdBlock(Promised) >> ELSE <<>>
  <2>1. next' - 1 = next
    BY <1>0, <1>1
  <2>2. Honest(R, H)' <=>
        (/\ Len(H) = IF next' - 1 <= R THEN 0 ELSE IF next' - 1 <= R + N THEN next' - 1 - R ELSE N
         /\ \A k \in 1 .. Len(H) : H[k] = LaunchPages[k]
         /\ \A v \in 1 .. VpCount : R + N + v <= next' - 1 => vps'[v - 1] = Vmsa(v - 1)
         /\ signed' = IF R + N + VpCount < next' - 1 THEN << IdBlock(Promised) >> ELSE <<>>)
    BY <1>2 DEF Honest, N
  <2> QED BY <2>1, <2>2
<1>6. CASE next <= R
  <2>1. file[next].type = "required"
    BY <1>1, <1>3, <1>6
  <2>2. H = G /\ Len(G) = 0
    BY <1>0, <1>1, <1>4, <1>6, <2>1
  <2>3. \A v \in 1 .. VpCount : ~(R + N + v <= next)
    BY <1>1, <1>6
  <2>4. ~(R + N + VpCount < next - 1) /\ ~(R + N + VpCount < next)
    BY <1>1, <1>6
  <2>5. signed' = <<>>
    BY <1>0, <1>4, <2>1, <2>4
  <2> QED BY <1>6, <2>2, <2>3, <2>4, <2>5
<1>7. CASE R < next /\ next <= R + N
  <2>1. next - R \in 1 .. N /\ R + (next - R) = next
    BY <1>1, <1>7
  <2>2. file[next] = PageData(LaunchPages[next - R])
    BY <1>3, <2>1
  <2>3. file[next].type = "page" /\ file[next].page = LaunchPages[next - R]
    BY <2>2 DEF PageData
  <2>4. Len(G) + 1 = next - R
    BY <1>1, <1>4, <1>7
  <2>5. LaunchPages[next - R] \in Page
    BY <2>1 DEF N
  <2>6. H = Append(G, LaunchPages[Len(G) + 1]) /\ LaunchPages[Len(G) + 1] \in Page
    BY <1>0, <2>3, <2>4, <2>5
  <2>7. Len(H) = next - R /\ \A k \in 1 .. Len(H) : H[k] = LaunchPages[k]
    <3>1. Len(H) = Len(G) + 1 /\ H[Len(G) + 1] = LaunchPages[Len(G) + 1] /\ \A k \in 1 .. Len(G) : H[k] = G[k]
      BY <2>6
    <3>2. \A k \in 1 .. Len(H) : k = Len(G) + 1 \/ k \in 1 .. Len(G)
      BY <1>1, <3>1
    <3> QED BY <1>4, <2>4, <3>1, <3>2
  <2>8. \A v \in 1 .. VpCount : ~(R + N + v <= next)
    BY <1>1, <1>7
  <2>9. ~(R + N + VpCount < next - 1) /\ ~(R + N + VpCount < next)
    BY <1>1, <1>7
  <2>10. signed' = <<>>
    BY <1>0, <1>4, <2>3, <2>9
  <2> QED BY <1>1, <1>7, <2>7, <2>8, <2>9, <2>10
<1>8. CASE R + N < next /\ next <= R + N + VpCount
  <2>1. next - R - N \in 1 .. VpCount /\ R + N + (next - R - N) = next /\ VpCount = VCPUS
    BY <1>1, <1>8
  <2>2. file[next] = VpContext(next - R - N - 1)
    BY <1>3, <2>1
  <2>3. file[next].type = "vp" /\ file[next].vp = next - R - N - 1 /\ file[next].vmsa = Vmsa(next - R - N - 1)
    BY <2>2 DEF VpContext
  <2>4. H = G /\ Len(G) = N
    <3>1. Len(G) = N
      BY <1>1, <1>4, <1>8
    <3> QED BY <1>0, <2>3, <3>1
  <2>5. ~(R + N + VpCount < next - 1) /\ ~(R + N + VpCount < next)
    BY <1>1, <1>8
  <2>6. signed' = <<>>
    BY <1>0, <1>4, <2>3, <2>5
  <2>7. vps' = [vps EXCEPT ![next - R - N - 1] = Vmsa(next - R - N - 1)]
    BY <1>0, <2>3
  <2>8. ASSUME NEW v \in 1 .. VpCount, R + N + v <= next PROVE vps'[v - 1] = Vmsa(v - 1)
    <3>1. v - 1 \in 0 .. VCPUS - 1
      BY <1>1, <2>1
    <3>2. CASE v = next - R - N
      BY <2>7, <3>1, <3>2
    <3>3. CASE v # next - R - N
      <4>1. R + N + v <= next - 1 /\ v - 1 # next - R - N - 1
        BY <1>1, <2>8, <3>3
      <4> QED BY <1>4, <2>7, <3>1, <4>1
    <3> QED BY <3>2, <3>3
  <2> QED BY <1>1, <1>4, <1>8, <2>4, <2>5, <2>6, <2>8
<1>9. CASE R + N + VpCount < next
  <2>1. IdCount = 1 /\ next = R + N + VpCount + 1
    BY <1>0, <1>1, <1>3, <1>9
  <2>2. file[next] = IdBlock(Promised)
    BY <1>3, <2>1
  <2>3. file[next].type = "id"
    BY <2>2 DEF IdBlock
  <2>4. H = G /\ Len(G) = N /\ vps' = vps
    BY <1>0, <1>1, <1>4, <1>9, <2>1, <2>3
  <2>5. \A v \in 1 .. VpCount : R + N + v <= next - 1
    BY <1>1, <2>1
  <2>6. signed' = << IdBlock(Promised) >>
    BY <1>0, <2>2, <2>3
  <2>7. ~(next <= R) /\ (next <= R + N => next - R = N)
    BY <1>1, <1>9
  <2> QED BY <1>4, <1>9, <2>4, <2>5, <2>6, <2>7
<1>10. next <= R \/ (R < next /\ next <= R + N) \/ (R + N < next /\ next <= R + N + VpCount) \/ R + N + VpCount < next
  BY <1>1
<1> QED BY <1>6, <1>7, <1>8, <1>9, <1>10

\* The records of a page that was added but not extended show in the digest for good.
LEMMA StaysDiverged ==
  ASSUME NEW s \in Seq(LogEntry), NEW p \in Page, NEW m \in Nat, Platform = "tdx",
         \/ Len(s) = m * W + 1
         \/ Len(s) >= m * W + 2 /\ \E gpa \in Nat : s[m * W + 2] = Add(gpa)
  PROVE  LET t == s \o Measure(p)
         IN  t \in Seq(LogEntry) /\ Len(t) >= m * W + 2 /\ \E gpa \in Nat : t[m * W + 2] = Add(gpa)
<1> DEFINE t == s \o Measure(p)
           x == m * W
<1>1. x \in Nat
  <2> HIDE DEF W
  <2> QED BY WType
<1>2. Measure(p) \in Seq(LogEntry) /\ Len(Measure(p)) >= 1 /\ Measure(p)[1] = Add(p.gpa) /\ p.gpa \in Nat
  BY MeasuredPage DEF Page
<1>3. /\ t \in Seq(LogEntry) /\ Len(t) = Len(s) + Len(Measure(p))
      /\ \A k \in 1 .. Len(s) : t[k] = s[k]
      /\ \A k \in 1 .. Len(Measure(p)) : t[Len(s) + k] = Measure(p)[k]
  BY <1>2, Joined
<1>4. Len(s) = x + 1 \/ (Len(s) >= x + 2 /\ \E gpa \in Nat : s[x + 2] = Add(gpa))
  OBVIOUS
<1> HIDE DEF t, x
<1>5. Len(s) \in Nat /\ Len(Measure(p)) \in Nat
  BY <1>2
<1>6. CASE Len(s) = x + 1
  <2>1. t[Len(s) + 1] = Measure(p)[1] /\ Len(s) + 1 = x + 2 /\ Len(t) >= x + 2
    BY <1>1, <1>2, <1>3, <1>5, <1>6
  <2> QED BY <1>2, <1>3, <2>1 DEF t, x
<1>7. CASE Len(s) >= x + 2 /\ \E gpa \in Nat : s[x + 2] = Add(gpa)
  <2>1. x + 2 \in 1 .. Len(s) /\ Len(t) >= x + 2
    BY <1>1, <1>3, <1>5, <1>7
  <2> QED BY <1>3, <1>7, <2>1 DEF t, x
<1> QED BY <1>4, <1>6, <1>7

\* And a page that is only added now starts to.
LEMMA StartsDiverging ==
  ASSUME NEW G \in Seq(Page), NEW p \in Page, Platform = "tdx", p.kind = "unmeasured"
  PROVE  /\ LogOf(G) \o Measure(p) \in Seq(LogEntry)
         /\ Len(LogOf(G) \o Measure(p)) = Len(G) * W + 1
<1>1. LogOf(G) \in Seq(LogEntry) /\ Len(LogOf(G)) = Len(G) * W
  BY MrtdRecords DEF LogOf
<1>2. Measure(p) \in Seq(LogEntry) /\ Len(Measure(p)) = 1
  BY MeasuredPage
<1> DEFINE s == LogOf(G)
           t == Measure(p)
<1>3. s \in Seq(LogEntry) /\ t \in Seq(LogEntry)
  BY <1>1, <1>2
<1> HIDE DEF s, t
<1>4. s \o t \in Seq(LogEntry) /\ Len(s \o t) = Len(s) + Len(t)
  BY <1>3
<1> HIDE DEF W
<1> QED BY <1>1, <1>2, <1>4 DEF s, t

\* Each page of the file that is loaded adds itself to memory and to the digest.
LEMMA LoadedStep ==
  ASSUME NEW G \in Seq(Page), Loaded(G), NEW d, LoadDirective, d = delivery.file[next],
         d.type = "page" => d.page \in Page /\ PageOfPlatform(d.page),
         ~(Platform = "tdx" /\ d.type = "page" /\ d.page.kind = "unmeasured")
  PROVE  After(G, d) \in Seq(Page) /\ Loaded(After(G, d))'
<1>1. CASE d.type # "page"
  <2>1. After(G, d) = G /\ log' = log /\ guest' = guest
    BY <1>1 DEF After, LoadDirective
  <2> QED BY <2>1 DEF Loaded
<1>2. CASE d.type = "page"
  <2> DEFINE p == d.page
             H == Append(G, p)
  <2>1. p \in Page /\ (Platform = "tdx" => p.kind = "normal")
    BY <1>2 DEF PageOfPlatform
  <2>2. After(G, d) = H /\ log' = log \o Measure(p) /\ guest' = guest \cup {InMemory(p)}
    BY <1>2 DEF After, LoadDirective
  <2> HIDE DEF p
  <2>3. H \in Seq(Page) /\ Len(H) = Len(G) + 1 /\ H[Len(G) + 1] = p /\ (\A k \in 1 .. Len(G) : H[k] = G[k]) /\ Len(G) \in Nat
    BY <2>1
  <2>4. LogOf(H) = LogOf(G) \o Measure(p)
    BY <2>1, LogAppended
  <2> HIDE DEF H
  <2>5. log = LogOf(G) /\ guest = { InMemory(G[k]) : k \in 1 .. Len(G) }
        /\ (Platform = "tdx" => \A k \in 1 .. Len(G) : G[k].kind = "normal")
    BY DEF Loaded
  <2>6. \A k \in 1 .. Len(H) : k = Len(G) + 1 \/ k \in 1 .. Len(G)
    BY <2>3
  <2>7. 1 .. Len(G) \subseteq 1 .. Len(H) /\ Len(G) + 1 \in 1 .. Len(H)
    BY <2>3
  <2>8. guest' = { InMemory(H[k]) : k \in 1 .. Len(H) }
    <3>1. \A q : q \in guest' <=> q = InMemory(p) \/ \E k \in 1 .. Len(G) : q = InMemory(G[k])
      BY <2>2, <2>5
    <3>2. \A q : (\E k \in 1 .. Len(H) : q = InMemory(H[k])) <=> q = InMemory(p) \/ \E k \in 1 .. Len(G) : q = InMemory(G[k])
      BY <2>3, <2>6, <2>7
    <3> QED BY <3>1, <3>2
  <2>9. Platform = "tdx" => \A k \in 1 .. Len(H) : H[k].kind = "normal"
    BY <2>1, <2>3, <2>5, <2>6
  <2> QED BY <2>2, <2>3, <2>4, <2>5, <2>8, <2>9 DEF Loaded
<1> QED BY <1>1, <1>2

\* A directive carried out leaves the loader's invariant true.
LEMMA LoadDirectiveInv ==
  ASSUME TypeOK, AllNormal, LoadInv, LoadDirective, UNCHANGED vars
  PROVE  LoadInv'
<1> DEFINE d == delivery.file[next]
<1>1. /\ UNCHANGED <<vars, opts, file, delivery>> /\ next' = next + 1 /\ next <= Len(delivery.file)
      /\ vps' = IF d.type = "vp" THEN [vps EXCEPT ![d.vp] = d.vmsa] ELSE vps
      /\ log' = IF d.type = "page" THEN log \o Measure(d.page) ELSE log
  BY DEF LoadDirective
<1>2. /\ delivery.file \in Seq(Directive) /\ next \in 1 .. Len(delivery.file) + 1
      /\ vps \in [0 .. VCPUS - 1 -> Contexts]
  BY DEF LoadInv
<1>3. next \in 1 .. Len(delivery.file) /\ next + 1 \in 1 .. Len(delivery.file) + 1 /\ next \in Nat \ {0}
  BY <1>1, <1>2
<1>4. d \in Directive
  BY <1>2, <1>3
<1>5. /\ d.type = "page" => d.page \in Page /\ PageOfPlatform(d.page) /\ d = PageData(d.page)
      /\ d.type = "vp" => d.vp \in 0 .. VCPUS - 1 /\ d.vmsa \in Contexts
  BY <1>4, DirectiveKinds
<1>6. Directive' = Directive /\ Untouched' = Untouched /\ \A R : FileShape(R)' <=> FileShape(R)
  BY <1>1, SameFile DEF Untouched
<1>7. PICK R \in Nat : FileShape(R) /\ Progress(R)
  BY DEF LoadInv
<1>8. vps' \in [0 .. VCPUS - 1 -> Contexts]
  BY <1>1, <1>2, <1>5
<1>9. LaunchPages \in Seq(Page) /\ \A k \in 1 .. Len(LaunchPages) : LaunchPages[k].kind # "unmeasured"
  BY LaunchPagesType
<1> HIDE DEF d
<1>10. Progress(R)'
  <2>1. CASE Diverged
    <3>1. CASE d.type # "page"
      <4>1. log' = log
        BY <1>1, <3>1
      <4> QED BY <1>1, <1>6, <2>1, <4>1 DEF Diverged, Progress
    <3>2. CASE d.type = "page"
      <4>1. PICK m \in Nat : \/ Len(log) = m * W + 1
                             \/ Len(log) >= m * W + 2 /\ \E gpa \in Nat : log[m * W + 2] = Add(gpa)
        BY <2>1 DEF Diverged
      <4>2. log \in Seq(LogEntry) /\ Platform = "tdx" /\ delivery # Untouched
        BY <2>1 DEF Diverged
      <4>3. log' = log \o Measure(d.page) /\ d.page \in Page
        BY <1>1, <1>5, <3>2
      <4>4. log' \in Seq(LogEntry) /\ Len(log') >= m * W + 2 /\ \E gpa \in Nat : log'[m * W + 2] = Add(gpa)
        BY <4>1, <4>2, <4>3, StaysDiverged
      <4>5. delivery' # Untouched'
        BY <1>1, <1>6, <4>2
      <4> QED BY <4>2, <4>4, <4>5 DEF Diverged, Progress
    <3> QED BY <3>1, <3>2
  <2>2. CASE \E G \in Seq(Page) : Loaded(G) /\ (delivery = Untouched => Honest(R, G))
    <3>1. PICK G \in Seq(Page) : Loaded(G) /\ (delivery = Untouched => Honest(R, G))
      BY <2>2
    <3>2. CASE Platform = "tdx" /\ d.type = "page" /\ d.page.kind = "unmeasured"
      <4>1. delivery # Untouched
        <5> SUFFICES ASSUME delivery = Untouched PROVE FALSE
          OBVIOUS
        <5>1. delivery.file = file /\ Honest(R, G)
          BY <3>1 DEF Untouched, Given
        <5>2. d = file[next] /\ next \in 1 .. Len(file)
          BY <1>3, <5>1 DEF d
        <5>3. Len(G) + 1 \in 1 .. Len(LaunchPages) /\ d.page = LaunchPages[Len(G) + 1]
          BY <1>7, <1>9, <3>2, <5>1, <5>2, HonestPage
        <5> QED BY <1>9, <3>2, <5>3
      <4>2. log' = LogOf(G) \o Measure(d.page) /\ d.page \in Page
        BY <1>1, <1>5, <3>1, <3>2 DEF Loaded
      <4>3. log' \in Seq(LogEntry) /\ Len(log') = Len(G) * W + 1 /\ Len(G) \in Nat
        BY <3>2, <4>2, StartsDiverging
      <4>4. delivery' # Untouched'
        BY <1>1, <1>6, <4>1
      <4> QED BY <3>2, <4>3, <4>4 DEF Diverged, Progress
    <3>3. CASE ~(Platform = "tdx" /\ d.type = "page" /\ d.page.kind = "unmeasured")
      <4>1. \E H \in Seq(Page) : H = After(G, d) /\ Loaded(H)'
        <5>1. PICK e : e = d
          OBVIOUS
        <5>2. After(G, e) \in Seq(Page) /\ Loaded(After(G, e))'
          BY <1>5, <3>1, <3>3, <5>1, LoadedStep DEF d
        <5> QED BY <5>1, <5>2
      <4>2. PICK H \in Seq(Page) : H = After(G, d) /\ Loaded(H)'
        BY <4>1
      <4>3. ASSUME delivery' = Untouched' PROVE Honest(R, H)'
        <5>1. delivery = Untouched /\ delivery.file = file
          BY <1>1, <1>6, <4>3 DEF Untouched, Given
        <5>2. Honest(R, G)
          BY <3>1, <5>1
        <5>3. H = After(G, file[next])
          BY <4>2, <5>1 DEF d
        <5> QED BY <1>2, <1>3, <1>7, <1>9, <5>1, <5>2, <5>3, HonestStep
      <4> QED BY <4>2, <4>3 DEF Progress
    <3> QED BY <3>2, <3>3
  <2> QED BY <1>7, <2>1, <2>2 DEF Progress
<1>11. delivery'.file \in Seq(Directive') /\ next' \in 1 .. Len(delivery'.file) + 1
  BY <1>1, <1>2, <1>3, <1>6
<1>12. FileShape(R)'
  BY <1>6, <1>7
<1> QED BY <1>8, <1>10, <1>11, <1>12 DEF LoadInv

-----------------------------------------------------------------------------
(* What the verifier can conclude from a report.                           *)

\* Two lists put together are told apart if the second parts are as long.
LEMMA JoinedEqual ==
  ASSUME NEW S, NEW s \in Seq(S), NEW u \in Seq(S), NEW t \in Seq(S), NEW v \in Seq(S),
         Len(t) = Len(v), s \o t = u \o v
  PROVE  s = u /\ t = v
<1>0. \A p, q \in Seq(S) :
        /\ p \o q \in Seq(S) /\ Len(p \o q) = Len(p) + Len(q)
        /\ \A k \in 1 .. Len(p) : (p \o q)[k] = p[k]
        /\ \A k \in 1 .. Len(q) : (p \o q)[Len(p) + k] = q[k]
  BY Joined
<1> DEFINE x == s \o t
           y == u \o v
<1>1. /\ Len(x) = Len(s) + Len(t) /\ Len(y) = Len(u) + Len(v)
      /\ \A k \in 1 .. Len(s) : x[k] = s[k]
      /\ \A k \in 1 .. Len(t) : x[Len(s) + k] = t[k]
      /\ \A k \in 1 .. Len(u) : y[k] = u[k]
      /\ \A k \in 1 .. Len(v) : y[Len(u) + k] = v[k]
  BY <1>0, Zenon
<1>2. x = y
  OBVIOUS
<1> HIDE DEF x, y
<1>3. Len(s) \in Nat /\ Len(u) \in Nat /\ Len(t) \in Nat /\ Len(s) = Len(u)
  BY <1>2, <1>1
<1>4. \A k \in 1 .. Len(s) : s[k] = u[k]
  BY <1>2, <1>1, <1>3
<1>5. \A k \in 1 .. Len(t) : t[k] = v[k]
  BY <1>2, <1>1, <1>3
<1> QED BY <1>3, <1>4, <1>5, SeqEqual

\* A digest in which a page was added and not extended is not that of a map.
LEMMA DivergedShows ==
  ASSUME LaunchPages \in Seq(Page), Diverged
  PROVE  log # LogOf(LaunchPages)
<1> SUFFICES ASSUME log = LogOf(LaunchPages) PROVE FALSE
  OBVIOUS
<1> DEFINE N == Len(LaunchPages)
<1>0. CHUNKS \in Nat \ {0} /\ Platform = "tdx"
  BY ImageAssumption, Zenon DEF Diverged
<1>1. Platform = "tdx" /\ N \in Nat /\ W \in Nat \ {0} /\ CHUNKS \in Nat \ {0} /\ W = CHUNKS + 1
  BY <1>0, WType
<1>2. /\ Len(log) = N * W
      /\ \A q \in 0 .. N - 1, c \in 0 .. CHUNKS : log[q * W + c + 1] = Record(LaunchPages[q + 1], c)
  BY <1>1, MrtdRecords DEF LogOf
<1>3. PICK m \in Nat : \/ Len(log) = m * W + 1
                       \/ Len(log) >= m * W + 2 /\ \E gpa \in Nat : log[m * W + 2] = Add(gpa)
  BY DEF Diverged
<1> HIDE DEF N, W
<1>4. CASE Len(log) = m * W + 1
  <2>1. 1 \in 0 .. W - 1 /\ 0 \in 0 .. W - 1
    BY <1>1
  <2>2. (m * W + 1) % W = 1 /\ (N * W + 0) % W = 0
    BY <1>1, <2>1, DivMod
  <2>3. N * W + 0 = N * W
    BY <1>1
  <2> QED BY <1>2, <1>4, <2>2, <2>3
<1>5. CASE Len(log) >= m * W + 2 /\ \E gpa \in Nat : log[m * W + 2] = Add(gpa)
  <2>1. m < N
    <3> SUFFICES ASSUME N <= m PROVE FALSE
      BY <1>1
    <3>1. N * W <= m * W /\ N * W \in Nat /\ m * W \in Nat
      BY <1>1
    <3> QED BY <1>2, <1>5, <3>1
  <2>2. m \in 0 .. N - 1 /\ 1 \in 0 .. CHUNKS /\ m * W \in Nat
    BY <1>1, <2>1
  <2>3. log[m * W + 1 + 1] = Record(LaunchPages[m + 1], 1)
    BY <1>2, <2>2
  <2>4. m * W + 1 + 1 = m * W + 2
    BY <2>2
  <2>5. PICK gpa \in Nat : Record(LaunchPages[m + 1], 1) = Add(gpa)
    BY <1>5, <2>3, <2>4
  <2>6. Record(LaunchPages[m + 1], 1) = ExtendBy(LaunchPages[m + 1].gpa, LaunchPages[m + 1].contents, 1)
    BY DEF Record
  <2>7. \A a, b, x : [extend |-> a, chunk |-> b] # [add |-> x]
    OBVIOUS
  <2> QED BY <2>5, <2>6, <2>7 DEF ExtendBy, Add
<1> QED BY <1>3, <1>4, <1>5

\* The contexts as SNP measures them.
ContextInfos == [vp \in 1 .. VCPUS |-> PageInfo(SNP_VMSA, "vmsa", Vmsa(vp - 1))]

\* The digest the builder promises on SNP is that of the pages, then that of the contexts
\* (snp.rs, launch_measurement).
LEMMA PromisedIs == Platform # "tdx" => Promised = LogOf(LaunchPages) \o ContextInfos
BY DEF Promised, LaunchMeasurement, LogOf, InfoOf, ContextInfos

\* One record of the digest for each processor (snp.rs, launch_measurement).
LEMMA InfosType ==
  ASSUME NEW f \in [0 .. VCPUS - 1 -> Contexts]
  PROVE  LET s == [vp \in 1 .. VCPUS |-> PageInfo(SNP_VMSA, "vmsa", f[vp - 1])]
         IN  s \in Seq(LogEntry) /\ Len(s) = VCPUS
<1>1. VCPUS \in Nat
  BY CountTypes
<1>2. \A vp \in 1 .. VCPUS : f[vp - 1] \in Contexts
  BY <1>1
<1>3. \A c \in Contexts : PageInfo(SNP_VMSA, "vmsa", c) \in LogEntry
  BY DEF LogEntry, Contexts
<1> QED BY <1>1, <1>2, <1>3, SequenceOf

\* A report that equals the manifest's values is of this digest and these contexts.
LEMMA ReportTells ==
  ASSUME LaunchPages \in Seq(Page), Promise, log \in Seq(LogEntry),
         vps \in [0 .. VCPUS - 1 -> Contexts], Report = launch
  PROVE  /\ log = LogOf(LaunchPages)
         /\ Platform # "tdx" => vps = [vp \in 0 .. VCPUS - 1 |-> Vmsa(vp)]
<1>1. CASE Platform = "tdx"
  <2>1. TdxValues(log, delivery.config, ResetRtmrs) = TdxValues(Mrtd(LaunchPages), opts.config, ResetRtmrs)
    BY <1>1 DEF Report, Promise
  <2> QED BY <1>1, <2>1 DEF TdxValues, LogOf
<1>2. CASE Platform # "tdx"
  <2> DEFINE V == [vp \in 1 .. VCPUS |-> PageInfo(SNP_VMSA, "vmsa", vps[vp - 1])]
  <2>1. SnpValues(FinalLog, delivery.policy, IF signed = <<>> THEN 0 ELSE signed[1].svn,
                  delivery.config, IF signed = <<>> THEN "" ELSE signed[1].key)
        = SnpValues(Promised, "SNP_GUEST_POLICY", opts.svn, opts.config, opts.key)
    BY <1>2 DEF Report, Promise
  <2> DEFINE svn == IF signed = <<>> THEN 0 ELSE signed[1].svn
             key == IF signed = <<>> THEN "" ELSE signed[1].key
  <2>2. SnpValues(FinalLog, delivery.policy, svn, delivery.config, key)
        = SnpValues(Promised, "SNP_GUEST_POLICY", opts.svn, opts.config, opts.key)
    BY <2>1
  <2> HIDE DEF svn, key
  <2>3. FinalLog = Promised
    BY <2>2 DEF SnpValues
  <2>4. log \o V = LogOf(LaunchPages) \o ContextInfos
    BY <1>2, <2>3, PromisedIs DEF FinalLog
  <2>5. V \in Seq(LogEntry) /\ Len(V) = VCPUS
    BY InfosType
  <2>6. ContextInfos \in Seq(LogEntry) /\ Len(ContextInfos) = VCPUS
    <3> DEFINE f == [vp \in 0 .. VCPUS - 1 |-> Vmsa(vp)]
    <3>1. f \in [0 .. VCPUS - 1 -> Contexts]
      BY DEF Vmsa, Contexts
    <3>2. ContextInfos = [vp \in 1 .. VCPUS |-> PageInfo(SNP_VMSA, "vmsa", f[vp - 1])]
      <4>1. \A vp \in 1 .. VCPUS : vp - 1 \in 0 .. VCPUS - 1
        BY CountTypes
      <4> QED BY <4>1 DEF ContextInfos
    <3> HIDE DEF f
    <3> QED BY <3>1, <3>2, InfosType
  <2>7. LogOf(LaunchPages) \in Seq(LogEntry)
    BY LogType
  <2> HIDE DEF V
  <2>8. log = LogOf(LaunchPages) /\ V = ContextInfos
    BY <2>4, <2>5, <2>6, <2>7, JoinedEqual
  <2>9. ASSUME NEW v \in 0 .. VCPUS - 1 PROVE vps[v] = Vmsa(v)
    <3>1. v + 1 \in 1 .. VCPUS /\ v + 1 - 1 = v
      BY CountTypes
    <3>2. PageInfo(SNP_VMSA, "vmsa", vps[v]) = PageInfo(SNP_VMSA, "vmsa", Vmsa(v))
      BY <2>8, <3>1 DEF V, ContextInfos
    <3>3. PageInfo(SNP_VMSA, "vmsa", vps[v]).contents = << vps[v] >>
      BY DEF PageInfo
    <3>4. PageInfo(SNP_VMSA, "vmsa", Vmsa(v)).contents = << Vmsa(v) >>
      BY DEF PageInfo
    <3>5. << vps[v] >> = << Vmsa(v) >>
      BY <3>2, <3>3, <3>4
    <3> QED BY <3>5
  <2> QED BY <2>8, <2>9
<1> QED BY <1>1, <1>2

\* A guest that reports what the manifest promises has the map in memory.
LEMMA VerifiedIsTheMap ==
  ASSUME TypeOK, NoWrap, AllDisjoint, Full, AllNormal, Promise, LoadInv, Report = launch
  PROVE  GuestIsTheMap
<1>1. LaunchPages \in Seq(Page) /\ \A k \in 1 .. Len(LaunchPages) : LaunchPages[k].kind # "unmeasured"
  BY LaunchPagesType
<1>2. vps \in [0 .. VCPUS - 1 -> Contexts] /\ \E R \in Nat : Progress(R)
  BY DEF LoadInv
<1>3. log \in Seq(LogEntry)
  BY <1>2, LogType DEF Progress, Diverged, Loaded
<1>4. log = LogOf(LaunchPages) /\ (Platform # "tdx" => vps = [vp \in 0 .. VCPUS - 1 |-> Vmsa(vp)])
  BY <1>1, <1>2, <1>3, ReportTells
<1>5. ~Diverged
  BY <1>1, <1>4, DivergedShows
<1>6. PICK G \in Seq(Page) : Loaded(G)
  BY <1>2, <1>5 DEF Progress
<1>7. Len(G) = Len(LaunchPages) /\ \A k \in 1 .. Len(G) : InMemory(G[k]) = InMemory(LaunchPages[k])
  <2>1. LogOf(G) = LogOf(LaunchPages) /\ (Platform = "tdx" => \A k \in 1 .. Len(G) : G[k].kind = "normal")
    BY <1>4, <1>6 DEF Loaded
  <2>2. \A k \in 1 .. Len(LaunchPages) :
          LaunchPages[k].kind # "unmeasured" /\ (Platform = "tdx" => LaunchPages[k].kind = "normal")
    BY <1>1 DEF AllNormal
  <2> QED BY <1>1, <2>1, <2>2, LogInjective
<1>8. AllLoaded
  <2>1. guest = { InMemory(G[k]) : k \in 1 .. Len(G) } /\ DOMAIN LaunchPages = 1 .. Len(G)
    BY <1>1, <1>6, <1>7 DEF Loaded
  <2> QED BY <1>7, <2>1 DEF AllLoaded
<1>9. placed \in Seq(Region)
  BY DEF TypeOK
<1>10. Platform = "snp" => vps = [vp \in 0 .. VCPUS - 1 |-> Vmsa(vp)]
  BY <1>4
<1> QED BY <1>8, <1>9, <1>10, MapInGuest DEF GuestIsTheMap

\* The file as it was written is accepted and reports what the manifest promises.
LEMMA HonestAccepted ==
  ASSUME TypeOK, opts \in Options, Promise, LoadInv, next > Len(delivery.file), delivery = Untouched
  PROVE  Report = launch /\ ~FinishRefuses
<1> DEFINE N == Len(LaunchPages)
<1>1. LaunchPages \in Seq(Page)
  BY LaunchPagesType
<1>2. delivery.file = file /\ delivery.policy = "SNP_GUEST_POLICY" /\ delivery.config = opts.config
  BY DEF Untouched, Given
<1>3. PICK R \in Nat : FileShape(R) /\ Progress(R)
  BY DEF LoadInv
<1>4. PICK G \in Seq(Page) : Loaded(G) /\ Honest(R, G)
  BY <1>3 DEF Progress, Diverged
<1>5. /\ N \in Nat /\ VpCount \in Nat /\ IdCount \in {0, 1} /\ Len(G) \in Nat /\ Len(file) \in Nat
      /\ Len(file) = R + N + VpCount + IdCount
  BY <1>1, <1>3, CountTypes DEF FileShape, Shape
<1>6. next - 1 = R + N + VpCount + IdCount
  <2>1. next \in 1 .. Len(file) + 1 /\ next > Len(file)
    BY <1>2 DEF LoadInv
  <2> QED BY <1>5, <2>1
<1>7. /\ Len(G) = IF next - 1 <= R THEN 0 ELSE IF next - 1 <= R + N THEN next - 1 - R ELSE N
      /\ \A k \in 1 .. Len(G) : G[k] = LaunchPages[k]
      /\ \A v \in 1 .. VpCount : R + N + v <= next - 1 => vps[v - 1] = Vmsa(v - 1)
      /\ signed = IF R + N + VpCount < next - 1 THEN << IdBlock(Promised) >> ELSE <<>>
  BY <1>4 DEF Honest
<1> HIDE DEF N
<1>8. Len(G) = N
  BY <1>5, <1>6, <1>7
<1>9. G = LaunchPages
  BY <1>1, <1>7, <1>8, SeqEqual DEF N
<1>10. log = LogOf(LaunchPages)
  BY <1>4, <1>9 DEF Loaded
<1>11. CASE Platform = "tdx"
  <2>1. signed = <<>>
    <3>1. IdCount = 0
      BY <1>11 DEF IdCount
    <3>2. ~(R + N + VpCount < next - 1)
      BY <1>5, <1>6, <3>1
    <3> QED BY <1>7, <3>2
  <2>2. Report = TdxValues(log, delivery.config, ResetRtmrs)
    BY <1>11 DEF Report
  <2>3. launch = TdxValues(Mrtd(LaunchPages), opts.config, ResetRtmrs)
    BY <1>11 DEF Promise
  <2>4. log = Mrtd(LaunchPages)
    BY <1>10, <1>11 DEF LogOf
  <2> QED BY <1>2, <2>1, <2>2, <2>3, <2>4 DEF FinishRefuses
<1>12. CASE Platform # "tdx"
  <2>1. VpCount = VCPUS /\ \A v \in 1 .. VCPUS : vps[v - 1] = Vmsa(v - 1)
    <3>1. VpCount = VCPUS
      BY <1>12 DEF VpCount
    <3>2. \A v \in 1 .. VpCount : R + N + v <= next - 1
      BY <1>5, <1>6
    <3> QED BY <1>7, <3>1, <3>2
  <2>2. FinalLog = Promised
    BY <1>10, <1>12, <2>1, PromisedIs DEF FinalLog, ContextInfos
  <2>3. launch = SnpValues(Promised, "SNP_GUEST_POLICY", opts.svn, opts.config, opts.key)
    BY <1>12 DEF Promise
  <2>4. CASE opts.key = ""
    <3>1. IdCount = 0
      BY <2>4 DEF IdCount
    <3>2. ~(R + N + VpCount < next - 1)
      BY <1>5, <1>6, <3>1
    <3>3. signed = <<>>
      BY <1>7, <3>2
    <3>4. opts.svn = 0
      <4>1. \A o \in Options : o.svn # 0 => o.key # ""
        BY ImageAssumption, Zenon
      <4> QED BY <2>4, <4>1
    <3>5. Report = SnpValues(FinalLog, delivery.policy, 0, delivery.config, "")
      BY <1>12, <3>3 DEF Report
    <3> QED BY <1>2, <2>2, <2>3, <2>4, <3>3, <3>4, <3>5 DEF FinishRefuses
  <2>5. CASE opts.key # ""
    <3>1. IdCount = 1
      BY <1>12, <2>5 DEF IdCount
    <3>2. R + N + VpCount < next - 1
      BY <1>5, <1>6, <3>1
    <3>3. signed = << IdBlock(Promised) >>
      BY <1>7, <3>2
    <3>4. signed # <<>> /\ signed[1] = IdBlock(Promised)
      BY <3>3
    <3>5. /\ signed[1].ld = Promised /\ signed[1].policy = "SNP_GUEST_POLICY"
          /\ signed[1].svn = opts.svn /\ signed[1].key = opts.key
      BY <3>4 DEF IdBlock
    <3>6. Report = SnpValues(FinalLog, delivery.policy, signed[1].svn, delivery.config, signed[1].key)
      BY <1>12, <3>4 DEF Report
    <3>7. Report = launch
      BY <1>2, <2>2, <2>3, <3>5, <3>6
    <3> QED BY <1>2, <2>2, <3>5, <3>7 DEF FinishRefuses
  <2> QED BY <2>4, <2>5
<1> QED BY <1>11, <1>12

-----------------------------------------------------------------------------
(* The inductive invariant of builder, loader, firmware and verifier.      *)

LoaderInit ==
  /\ guest = {} /\ log = <<>> /\ signed = <<>>
  /\ vps = [vp \in 0 .. VCPUS - 1 |-> reset_vmsa]

Phases == {"none", "spans", "required", "file", "loading", "verified", "rejected", "refused", "error"}

ImageInv ==
  /\ opts \in Options
  /\ phase \in Phases
  /\ phase # "none" => step = "built"
  /\ phase \in {"none", "spans", "required", "file"} => LoaderInit
  /\ phase \in {"spans", "required"} => Platform # "tdx"
  /\ phase \notin {"none", "error"} => Full /\ AllNormal
  /\ phase \in {"none", "spans"} => file = <<>>
  /\ phase = "spans" => next \in Nat \ {0}
  /\ spans \in Seq(Nat \X Nat)
  /\ phase = "required" => file \in Seq(Directive) /\ \A k \in 1 .. Len(file) : file[k].type = "required"
  /\ phase = "file" => Promise /\ \E R \in Nat : FileShape(R)
  /\ phase = "loading" => Promise /\ LoadInv
  /\ NoWrap => DigestIffImage

\* The guest stays what it is while map and memory do.
LEMMA SameGuest ==
  ASSUME UNCHANGED <<vars, guest, vps>>
  PROVE  GuestIsTheMap' <=> GuestIsTheMap
<1>1. UNCHANGED vars /\ guest' = guest /\ vps' = vps
  OBVIOUS
<1>2. /\ placed' = placed /\ e820' = e820 /\ accept' = accept
      /\ \A i : PageCount(i)' = PageCount(i)
      /\ \A p, i, n : PageOfMap(p, i, n)' <=> PageOfMap(p, i, n)
  BY <1>1, SamePages
<1>3. GuestE820' = GuestE820 /\ GuestAccept' = GuestAccept
  BY <1>1 DEF GuestE820, GuestAccept
<1>4. (\A p \in guest' : \E i \in DOMAIN placed' : \E n \in 1 .. PageCount(i)' : PageOfMap(p, i, n)')
        <=> (\A p \in guest : \E i \in DOMAIN placed : \E n \in 1 .. PageCount(i) : PageOfMap(p, i, n))
  BY <1>1, <1>2
<1>5. (\A i \in DOMAIN placed' : \A n \in 1 .. PageCount(i)' : \E p \in guest' : PageOfMap(p, i, n)')
        <=> (\A i \in DOMAIN placed : \A n \in 1 .. PageCount(i) : \E p \in guest : PageOfMap(p, i, n))
  BY <1>1, <1>2
<1> QED BY <1>1, <1>2, <1>3, <1>4, <1>5 DEF GuestIsTheMap

\* Nothing has been written, loaded or promised before the derivation is finished.
LEMMA ImageInitInv == ImageInit => ImageInv
BY DEF ImageInit, ImageInv, LoaderInit, Phases, DigestIffImage

\* Loading goes on where it was.
LEMMA SameLoading ==
  ASSUME UNCHANGED <<vars, opts, file, delivery, next, guest, log, vps, signed>>
  PROVE  LoadInv' <=> LoadInv
<1>1. UNCHANGED vars /\ UNCHANGED <<opts, file, delivery, next, guest, log, vps, signed>>
  OBVIOUS
<1>2. /\ LaunchPages' = LaunchPages /\ IdBlock(Promised)' = IdBlock(Promised) /\ Directive' = Directive
      /\ \A R : FileShape(R)' <=> FileShape(R)
  BY <1>1, SamePages, SameFile
<1>3. Untouched' = Untouched
  BY <1>1 DEF Untouched
<1>4. \A R, G : Honest(R, G)' <=> Honest(R, G)
  BY <1>1, <1>2 DEF Honest
<1>5. \A G : Loaded(G)' <=> Loaded(G)
  BY <1>1 DEF Loaded
<1>6. Diverged' <=> Diverged
  BY <1>1, <1>3 DEF Diverged
<1>7. \A R : Progress(R)' <=> Progress(R)
  BY <1>1, <1>3, <1>4, <1>5, <1>6 DEF Progress
<1> QED BY <1>1, <1>2, <1>7 DEF LoadInv

\* While nothing happens nothing changes.
LEMMA ImageStutter ==
  ASSUME ImageInv, UNCHANGED <<vars, image>>
  PROVE  ImageInv'
<1>1. UNCHANGED vars
  OBVIOUS
<1>2. UNCHANGED <<opts, phase, file, spans, launch, delivery, next, guest, log, vps, signed>>
  BY DEF image
<1>3. /\ step' = step /\ Directive' = Directive /\ (Full' <=> Full) /\ (NoWrap' <=> NoWrap)
      /\ (AllNormal' <=> AllNormal) /\ (Promise' <=> Promise)
      /\ \A R : FileShape(R)' <=> FileShape(R)
  BY <1>1, <1>2, SamePages, SameFile
<1>4. (LoadInv' <=> LoadInv) /\ (GuestIsTheMap' <=> GuestIsTheMap)
  BY <1>1, <1>2, SameLoading, SameGuest
<1>5. Untouched' = Untouched
  BY <1>2 DEF Untouched
<1>6. DigestIffImage' <=> DigestIffImage
  BY <1>2, <1>4, <1>5 DEF DigestIffImage
<1> QED BY <1>2, <1>3, <1>4, <1>6 DEF ImageInv, LoaderInit

\* The derivation runs before the first step of the image (boot.rs before image.rs).
LEMMA DerivationInv ==
  ASSUME ImageInv, Next, UNCHANGED image
  PROVE  ImageInv'
<1>1. CASE UNCHANGED vars
  BY <1>1, ImageStutter
<1>2. CASE step # "built"
  <2>1. phase = "none" /\ opts \in Options /\ LoaderInit /\ file = <<>> /\ spans \in Seq(Nat \X Nat)
    BY <1>2 DEF ImageInv
  <2>2. UNCHANGED <<opts, phase, file, spans, launch, delivery, next, guest, log, vps, signed>>
    BY DEF image
  <2> QED BY <2>1, <2>2 DEF ImageInv, LoaderInit, Phases, DigestIffImage
<1>3. step = "built" => UNCHANGED vars
  BY DEF Next, Validate, E820, Accept, Finished, ValidateDone, RejectRegion, ValidateNext, RejectOverlap,
         E820Done, ZeroPage, RejectE820, E820Next, AcceptDone, ShimDone, RejectShim, AcceptNext
<1> QED BY <1>1, <1>2, <1>3

\* Both build functions check their pages before they write anything.
LEMMA WriteFileInv ==
  ASSUME TypeOK, ImageInv, WriteFile, UNCHANGED vars
  PROVE  ImageInv'
<1>1. /\ step = "built" /\ phase = "none" /\ next' = 1
      /\ UNCHANGED <<opts, spans, delivery, guest, log, vps, signed>>
  BY DEF WriteFile
<1>2. LoaderInit' /\ opts' \in Options /\ spans' \in Seq(Nat \X Nat) /\ file = <<>>
  BY <1>1 DEF ImageInv, LoaderInit
<1>3. step' = "built" /\ (Full' <=> Full) /\ (AllNormal' <=> AllNormal) /\ LaunchPages' = LaunchPages /\ Promised' = Promised
  BY <1>1, SamePages, SameFile
<1>4. CASE ~PagesOK(LaunchPages)
  <2>1. phase' = "error"
    BY <1>4 DEF WriteFile
  <2> QED BY <1>2, <1>3, <2>1 DEF ImageInv, Phases, DigestIffImage
<1>5. CASE PagesOK(LaunchPages) /\ Platform # "tdx"
  <2>1. phase' = "spans" /\ file' = file
    BY <1>5 DEF WriteFile
  <2>2. Full /\ AllNormal
    BY <1>5 DEF PagesOK, Full, AllNormal
  <2> QED BY <1>1, <1>2, <1>3, <1>5, <2>1, <2>2 DEF ImageInv, Phases, DigestIffImage
<1>6. CASE PagesOK(LaunchPages) /\ Platform = "tdx"
  <2>1. /\ phase' = "file" /\ file' = TdxFile(LaunchPages)
        /\ launch' = TdxValues(Mrtd(LaunchPages), opts.config, ResetRtmrs)
    BY <1>6 DEF WriteFile
  <2>2. Full /\ AllNormal
    BY <1>6 DEF PagesOK, Full, AllNormal
  <2>3. PICK f : f = TdxFile(LaunchPages)
    OBVIOUS
  <2>4. Shape(f, 0)
    BY <1>6, <2>2, <2>3, TdxShape
  <2>5. Shape(f, 0)' /\ file' = f
    BY <1>1, <2>1, <2>3, <2>4, SameFile
  <2>6. FileShape(0)'
    BY <2>5 DEF FileShape
  <2>7. Promise'
    BY <1>1, <1>3, <1>6, <2>1 DEF Promise
  <2>8. \E R \in Nat : FileShape(R)'
    BY <2>6
  <2> QED BY <1>2, <1>3, <1>6, <2>1, <2>2, <2>7, <2>8 DEF ImageInv, Phases, DigestIffImage
<1> QED BY <1>4, <1>5, <1>6

\* The spans are ranges of numbers, however the entries touch (snp.rs, coalesce).
LEMMA CoalesceType ==
  ASSUME NEW out \in Seq(Nat \X Nat), NEW entry \in Entry
  PROVE  Coalesce(out, entry) \in Seq(Nat \X Nat)
<1>1. entry.base \in Nat /\ entry.size \in Nat /\ entry.base + entry.size \in Nat
  BY DEF Entry
<1>2. CASE out # <<>> /\ out[Len(out)][2] = entry.base
  <2>1. Len(out) \in DOMAIN out /\ out[Len(out)] \in Nat \X Nat
    BY <1>2
  <2>2. [out[Len(out)] EXCEPT ![2] = entry.base + entry.size] \in Nat \X Nat
    <3>1. \A r \in Nat \X Nat, x \in Nat : [r EXCEPT ![2] = x] \in Nat \X Nat
      OBVIOUS
    <3> QED BY <1>1, <2>1, <3>1
  <2>3. Coalesce(out, entry) = [out EXCEPT ![Len(out)] = [out[Len(out)] EXCEPT ![2] = entry.base + entry.size]]
    BY <1>2 DEF Coalesce
  <2> QED BY <2>1, <2>2, <2>3
<1>3. CASE ~(out # <<>> /\ out[Len(out)][2] = entry.base)
  BY <1>1, <1>3 DEF Coalesce
<1> QED BY <1>2, <1>3

\* While the E820 map is coalesced nothing else happens (snp.rs, required_memory).
LEMMA CoalesceInv ==
  ASSUME TypeOK, ImageInv, CoalesceNext \/ CoalesceDone, UNCHANGED vars
  PROVE  ImageInv'
<1>1. /\ phase = "spans" /\ UNCHANGED <<opts, file, guest, log, vps, signed>>
      /\ \/ phase' = "spans" /\ next' = next + 1 /\ next <= Len(e820) /\ spans' = Coalesce(spans, e820[next])
         \/ phase' = "required" /\ spans' = spans
  BY DEF CoalesceNext, CoalesceDone
<1>2. /\ LoaderInit /\ opts \in Options /\ step = "built" /\ Platform # "tdx" /\ Full /\ AllNormal /\ file = <<>>
      /\ next \in Nat \ {0} /\ spans \in Seq(Nat \X Nat)
  BY <1>1 DEF ImageInv
<1>3. step' = "built" /\ Full' /\ AllNormal' /\ Directive' = Directive
  BY <1>1, <1>2, SamePages, SameFile
<1>4. LoaderInit'
  BY <1>1, <1>2 DEF LoaderInit
<1>5. spans' \in Seq(Nat \X Nat)
  <2>1. CASE next <= Len(e820) /\ spans' = Coalesce(spans, e820[next])
    <3>1. e820 \in Seq(Entry)
      BY DEF TypeOK, Entry, Kinds
    <3>2. e820[next] \in Entry
      BY <1>2, <2>1, <3>1
    <3> QED BY <1>2, <2>1, <3>2, CoalesceType
  <2>2. CASE spans' = spans
    BY <1>2, <2>2
  <2> QED BY <1>1, <2>1, <2>2
<1>6. file' = <<>> /\ file' \in Seq(Directive') /\ \A k \in 1 .. Len(file') : file'[k].type = "required"
  <2>1. file' = <<>> /\ Len(file') = 0
    BY <1>1, <1>2
  <2>2. <<>> \in Seq(Directive')
    OBVIOUS
  <2> QED BY <2>1, <2>2
<1>7. phase' = "spans" => next' \in Nat \ {0}
  BY <1>1, <1>2
<1> QED BY <1>1, <1>2, <1>3, <1>4, <1>5, <1>6, <1>7 DEF ImageInv, Phases, DigestIffImage

\* Of each span as much is required as one directive can state.
LEMMA RequireInv ==
  ASSUME TypeOK, ImageInv, RequireNext, UNCHANGED vars
  PROVE  ImageInv'
<1>1. phase = "required" /\ phase' = "required" /\ spans # <<>> /\ UNCHANGED <<opts, guest, log, vps, signed>>
  BY DEF RequireNext
<1>2. /\ LoaderInit /\ opts \in Options /\ step = "built" /\ Platform # "tdx" /\ Full /\ AllNormal
      /\ file \in Seq(Directive) /\ (\A k \in 1 .. Len(file) : file[k].type = "required") /\ spans \in Seq(Nat \X Nat)
  BY <1>1 DEF ImageInv
<1>3. step' = "built" /\ Full' /\ AllNormal' /\ Directive' = Directive
  BY <1>1, <1>2, SamePages, SameFile
<1>4. LoaderInit'
  BY <1>1, <1>2 DEF LoaderInit
<1> DEFINE lo == spans[1][1]
           hi == spans[1][2]
<1>5. spans[1] \in Nat \X Nat /\ lo \in Nat /\ hi \in Nat /\ 1 \in DOMAIN spans
  BY <1>1, <1>2
<1>6. CASE lo < hi
  <2>1. PieceOf(lo, hi) \in Nat
    <3>1. REQUIRED_MEMORY_MAX \in Nat
      BY ImageAssumption, Zenon
    <3> HIDE DEF lo, hi
    <3> QED BY <1>5, <1>6, <3>1 DEF PieceOf, Min2
  <2>2. file' = Append(file, Required(lo, PieceOf(lo, hi))) /\ spans' = [spans EXCEPT ![1][1] = lo + PieceOf(lo, hi)]
    BY <1>6 DEF RequireNext
  <2>3. PICK r : r = Required(lo, PieceOf(lo, hi))
    OBVIOUS
  <2>4. r \in Directive /\ r.type = "required"
    BY <1>5, <2>1, <2>3 DEF Directive, Required
  <2>5. file' \in Seq(Directive) /\ \A k \in 1 .. Len(file') : file'[k].type = "required"
    <3>1. file' = Append(file, r)
      BY <2>2, <2>3
    <3> QED BY <1>2, <2>4, <3>1
  <2>6. spans' \in Seq(Nat \X Nat)
    <3> DEFINE x == lo + PieceOf(lo, hi)
    <3>1. x \in Nat
      BY <1>5, <2>1
    <3>2. spans' = [spans EXCEPT ![1] = [spans[1] EXCEPT ![1] = x]]
      BY <2>2
    <3> HIDE DEF x
    <3>3. [spans[1] EXCEPT ![1] = x] \in Nat \X Nat
      BY <1>5, <3>1
    <3> QED BY <1>2, <1>5, <3>2, <3>3
  <2> QED BY <1>1, <1>2, <1>3, <1>4, <2>5, <2>6 DEF ImageInv, Phases, DigestIffImage
<1>7. CASE ~(lo < hi)
  <2>1. file' = file /\ spans' = Tail(spans)
    BY <1>7 DEF RequireNext
  <2>2. spans' \in Seq(Nat \X Nat)
    BY <1>1, <1>2, <2>1
  <2> QED BY <1>1, <1>2, <1>3, <1>4, <2>1, <2>2 DEF ImageInv, Phases, DigestIffImage
<1> QED BY <1>6, <1>7

\* The finished SNP file has the shape its digest is promised for (snp.rs, igvm).
LEMMA FinishFileInv ==
  ASSUME TypeOK, ImageInv, FinishFile, UNCHANGED vars
  PROVE  ImageInv'
<1>1. /\ phase = "required" /\ phase' = "file" /\ UNCHANGED <<opts, spans, guest, log, vps, signed>>
      /\ file' = SnpFile(file, LaunchPages)
      /\ launch' = SnpValues(Promised, "SNP_GUEST_POLICY", opts.svn, opts.config, opts.key)
  BY DEF FinishFile, Promised
<1>2. /\ LoaderInit /\ opts \in Options /\ step = "built" /\ Platform # "tdx" /\ Full /\ AllNormal
      /\ file \in Seq(Directive) /\ (\A k \in 1 .. Len(file) : file[k].type = "required") /\ spans \in Seq(Nat \X Nat)
  BY <1>1 DEF ImageInv
<1>3. step' = "built" /\ Full' /\ AllNormal' /\ Promised' = Promised
  BY <1>1, <1>2, SamePages, SameFile
<1>4. LoaderInit'
  BY <1>1, <1>2 DEF LoaderInit
<1>5. PICK f : f = SnpFile(file, LaunchPages)
  OBVIOUS
<1>6. PICK R \in Nat : R = Len(file)
  BY <1>2
<1>7. Shape(f, R)
  BY <1>2, <1>5, <1>6, SnpShape
<1>8. Shape(f, R)' /\ file' = f
  BY <1>1, <1>5, <1>7, SameFile
<1>9. \E S \in Nat : FileShape(S)'
  BY <1>8 DEF FileShape
<1>10. Promise'
  BY <1>1, <1>2, <1>3 DEF Promise
<1> QED BY <1>1, <1>2, <1>3, <1>4, <1>9, <1>10 DEF ImageInv, Phases, DigestIffImage

\* Nothing has been loaded when the host hands the file over.
LEMMA DeliverInv ==
  ASSUME TypeOK, ImageInv, Deliver, UNCHANGED vars
  PROVE  ImageInv'
<1>1. /\ phase = "file" /\ phase' = "loading" /\ next' = 1 /\ delivery' \in Deliveries
      /\ UNCHANGED <<opts, file, spans, launch, guest, log, vps, signed>>
  BY DEF Deliver
<1>2. /\ LoaderInit /\ opts \in Options /\ step = "built" /\ Full /\ AllNormal /\ Promise
      /\ spans \in Seq(Nat \X Nat) /\ \E R \in Nat : FileShape(R)
  BY <1>1 DEF ImageInv
<1>3. PICK R \in Nat : FileShape(R)
  BY <1>2
<1>4. /\ step' = "built" /\ Full' /\ AllNormal' /\ Promise' /\ Directive' = Directive /\ FileShape(R)'
      /\ LaunchPages' = LaunchPages
  BY <1>1, <1>2, <1>3, SamePages, SameFile
<1>5. delivery'.file \in Seq(Directive)
  BY <1>1, <1>3, DeliveryType DEF FileShape, Shape
<1>6. vps' \in [0 .. VCPUS - 1 -> Contexts]
  BY <1>1, <1>2 DEF LoaderInit, Contexts
<1>7. log' = <<>> /\ guest' = {} /\ signed' = <<>>
  BY <1>1, <1>2 DEF LoaderInit
<1>8. LogOf(<<>>) = <<>>
  <2>1. <<>> \in Seq(Page) /\ Len(<<>>) = 0
    OBVIOUS
  <2>2. Platform = "tdx" => Len(LogOf(<<>>)) = 0 * W
    BY <2>1, MrtdRecords DEF LogOf
  <2>3. Platform # "tdx" => Len(LogOf(<<>>)) = 0
    BY <2>1, LogType
  <2>4. 0 * W = 0
    BY WType
  <2>5. LogOf(<<>>) \in Seq(LogEntry)
    BY <2>1, LogType
  <2>6. Len(LogOf(<<>>)) = 0
    BY <2>2, <2>3, <2>4
  <2> QED BY <2>5, <2>6
<1>9. Loaded(<<>>)'
  BY <1>7, <1>8 DEF Loaded
<1>10. Honest(R, <<>>)'
  <2> DEFINE N == Len(LaunchPages)
  <2>1. N \in Nat /\ VpCount \in Nat
    BY LaunchPagesType, CountTypes
  <2> HIDE DEF N
  <2>2. /\ next' - 1 = 0 /\ 0 <= R /\ ~(R + N + VpCount < 0)
        /\ \A v \in 1 .. VpCount : ~(R + N + v <= 0)
    BY <1>1, <2>1
  <2>3. N = Len(LaunchPages')
    BY <1>4 DEF N
  <2> QED BY <1>7, <2>2, <2>3 DEF Honest
<1>11. Progress(R)'
  <2>1. <<>> \in Seq(Page)
    OBVIOUS
  <2> QED BY <1>9, <1>10, <2>1 DEF Progress
<1>12. next' \in 1 .. Len(delivery'.file) + 1
  BY <1>1, <1>5
<1>13. LoadInv'
  BY <1>4, <1>5, <1>6, <1>11, <1>12 DEF LoadInv
<1> QED BY <1>1, <1>2, <1>4, <1>13 DEF ImageInv, Phases, DigestIffImage

\* One directive more is carried out (the loader; snp.rs and image.rs write the directives).
LEMMA LoadingInv ==
  ASSUME TypeOK, ImageInv, LoadDirective, UNCHANGED vars
  PROVE  ImageInv'
<1>1. phase = "loading" /\ UNCHANGED <<opts, phase, file, spans, launch, delivery>>
  BY DEF LoadDirective
<1>2. /\ opts \in Options /\ step = "built" /\ Full /\ AllNormal /\ Promise /\ LoadInv /\ spans \in Seq(Nat \X Nat)
  BY <1>1 DEF ImageInv
<1>3. step' = "built" /\ Full' /\ AllNormal' /\ Promise'
  BY <1>1, <1>2, SamePages, SameFile
<1>4. LoadInv'
  BY <1>2, LoadDirectiveInv
<1> QED BY <1>1, <1>2, <1>3, <1>4 DEF ImageInv, Phases, DigestIffImage

\* The verifier's verdict (main.rs prints the values it compares with).
LEMMA FinishInv ==
  ASSUME TypeOK, ValidatedDisjoint, ImageInv, Finish, UNCHANGED vars
  PROVE  ImageInv'
<1>1. /\ phase = "loading" /\ next > Len(delivery.file)
      /\ phase' = IF FinishRefuses THEN "refused" ELSE IF Report = launch THEN "verified" ELSE "rejected"
      /\ UNCHANGED <<opts, file, spans, launch, delivery, next, guest, log, vps, signed>>
  BY DEF Finish
<1>2. /\ opts \in Options /\ step = "built" /\ Full /\ AllNormal /\ Promise /\ LoadInv /\ spans \in Seq(Nat \X Nat)
  BY <1>1 DEF ImageInv
<1>3. step' = "built" /\ Full' /\ AllNormal' /\ (NoWrap' <=> NoWrap)
  BY <1>1, <1>2, SamePages, SameFile
<1>4. (GuestIsTheMap' <=> GuestIsTheMap) /\ Untouched' = Untouched
  BY <1>1, SameGuest DEF Untouched
<1>5. ASSUME NoWrap', phase' = "verified" PROVE GuestIsTheMap'
  <2>1. Report = launch
    BY <1>1, <1>5
  <2>2. NoWrap /\ AllDisjoint
    BY <1>2, <1>3, <1>5 DEF ValidatedDisjoint, AllDisjoint
  <2> QED BY <1>2, <1>4, <2>1, <2>2, VerifiedIsTheMap
<1>6. ASSUME phase' \in {"rejected", "refused"} PROVE delivery' # Untouched'
  <2>1. Report # launch \/ FinishRefuses
    BY <1>1, <1>6
  <2> QED BY <1>1, <1>2, <1>4, <2>1, HonestAccepted
<1>7. phase' \in {"verified", "rejected", "refused"}
  BY <1>1
<1> QED BY <1>1, <1>2, <1>3, <1>5, <1>6, <1>7 DEF ImageInv, Phases, DigestIffImage

\* Every step of the image leaves the invariant true.
LEMMA ImageStepInv ==
  ASSUME TypeOK, ValidatedDisjoint, ImageInv, ImageStep, UNCHANGED vars
  PROVE  ImageInv'
BY WriteFileInv, CoalesceInv, RequireInv, FinishFileInv, DeliverInv, LoadingInv, FinishInv DEF ImageStep

-----------------------------------------------------------------------------

\* Builder, loader, firmware and verifier, over every derivation of Placement.
ImageSpec ==
  /\ Init /\ ImageInit
  /\ [][ \/ Next /\ UNCHANGED image
         \/ ImageStep /\ UNCHANGED vars ]_<<vars, image>>

\* The inductive invariant holds throughout: the file keeps its shape, what has been loaded is
\* either what the file says or shows in the log, and the verdict follows from the log
\* (image.rs, snp.rs, mrtd.rs).
THEOREM ImageInvariant == ImageSpec => [](PlacementInv /\ ImageInv)
<1>1. Init /\ ImageInit => PlacementInv /\ ImageInv
  BY InitInv, ImageInitInv
<1>2. ASSUME PlacementInv, ImageInv,
             [ \/ Next /\ UNCHANGED image
               \/ ImageStep /\ UNCHANGED vars ]_<<vars, image>>
      PROVE  PlacementInv' /\ ImageInv'
  <2>1. TypeOK /\ ValidatedDisjoint
    BY <1>2 DEF PlacementInv, Safety
  <2>2. CASE Next /\ UNCHANGED image
    BY <1>2, <2>2, NextInv, DerivationInv
  <2>3. CASE ImageStep /\ UNCHANGED vars
    BY <1>2, <2>1, <2>3, NextInv, ImageStepInv
  <2>4. CASE UNCHANGED <<vars, image>>
    BY <1>2, <2>4, NextInv, ImageStutter
  <2> QED BY <1>2, <2>2, <2>3, <2>4
<1> QED BY <1>1, <1>2, PTL DEF ImageSpec

-----------------------------------------------------------------------------
(* What a SNP loader is told to find (snp.rs, required_memory).            *)

RequiredDirective == { Required(a, n) : a \in Nat, n \in 1 .. REQUIRED_MEMORY_MAX }

SpanCovers(a) == \E k \in DOMAIN spans : spans[k][1] <= a /\ a < spans[k][2]

\* What the directives of f require.
Requires(f, a) ==
  \E k \in DOMAIN f : f[k].type = "required" /\ f[k].gpa <= a /\ a < f[k].gpa + f[k].bytes

Listed(a) == \E n \in DOMAIN e820 : EntryCovers(n, a)

\* The memory still in spans and the memory already required are, together, what has been
\* read of the E820 map.
RequiredInv ==
  /\ phase = "none" => spans = <<>>
  /\ phase = "spans" =>
       /\ next \in 1 .. Len(e820) + 1
       /\ \A k \in DOMAIN spans : spans[k][1] <= spans[k][2]
       /\ \A a \in Nat : SpanCovers(a) <=> \E n \in 1 .. next - 1 : EntryCovers(n, a)
  /\ phase = "required" =>
       /\ file \in Seq(RequiredDirective)
       /\ \A a \in Nat : Requires(file, a) \/ SpanCovers(a) <=> Listed(a)
  /\ Platform # "tdx" /\ phase \in {"file", "loading", "verified", "rejected", "refused"} =>
       /\ \A k \in DOMAIN file : file[k].type = "required" => file[k].bytes \in 1 .. REQUIRED_MEMORY_MAX
       /\ \A a \in Nat : Requires(file, a) <=> Listed(a)

\* What follows the statements of required memory states none.
LEMMA RequiredFirst ==
  ASSUME LaunchPages \in Seq(Page), NEW R \in Nat, NEW f, Shape(f, R), NEW k \in DOMAIN f
  PROVE  f[k].type = "required" <=> k <= R
<1> DEFINE N == Len(LaunchPages)
<1>1. /\ N \in Nat /\ VpCount \in Nat /\ IdCount \in {0, 1} /\ f \in Seq(Directive)
      /\ Len(f) = R + N + VpCount + IdCount
      /\ \A j \in 1 .. R : f[j].type = "required"
      /\ \A j \in 1 .. N : f[R + j] = PageData(LaunchPages[j])
      /\ \A v \in 1 .. VpCount : f[R + N + v] = VpContext(v - 1)
      /\ IdCount = 1 => f[R + N + VpCount + 1] = IdBlock(Promised)
  BY CountTypes DEF Shape
<1> HIDE DEF N
<1>2. k \in 1 .. R + N + VpCount + IdCount
  BY <1>1
<1>3. CASE k <= R
  BY <1>1, <1>2, <1>3
<1>4. CASE R < k /\ k <= R + N
  <2>1. k - R \in 1 .. N /\ R + (k - R) = k
    BY <1>1, <1>2, <1>4
  <2>2. f[k] = PageData(LaunchPages[k - R])
    BY <1>1, <2>1
  <2> QED BY <1>2, <1>4, <2>2 DEF PageData
<1>5. CASE R + N < k /\ k <= R + N + VpCount
  <2>1. k - R - N \in 1 .. VpCount /\ R + N + (k - R - N) = k /\ ~(k <= R)
    BY <1>1, <1>2, <1>5
  <2>2. f[k] = VpContext(k - R - N - 1)
    BY <1>1, <2>1
  <2> QED BY <2>1, <2>2 DEF VpContext
<1>6. CASE R + N + VpCount < k
  <2>1. IdCount = 1 /\ k = R + N + VpCount + 1 /\ ~(k <= R)
    BY <1>1, <1>2, <1>6
  <2>2. f[k] = IdBlock(Promised)
    BY <1>1, <2>1
  <2> QED BY <2>1, <2>2 DEF IdBlock
<1>7. k <= R \/ (R < k /\ k <= R + N) \/ (R + N < k /\ k <= R + N + VpCount) \/ R + N + VpCount < k
  BY <1>1, <1>2
<1> QED BY <1>3, <1>4, <1>5, <1>6, <1>7

\* An entry joins the spans: what they cover grows by what it covers (snp.rs, coalesce).
LEMMA CoalesceCovers ==
  ASSUME NEW out \in Seq(Nat \X Nat), NEW entry \in Entry,
         \A k \in DOMAIN out : out[k][1] <= out[k][2],
         NEW res, res = Coalesce(out, entry)
  PROVE  /\ \A k \in DOMAIN res : res[k][1] <= res[k][2]
         /\ \A a \in Nat :
              (\E k \in DOMAIN res : res[k][1] <= a /\ a < res[k][2])
                <=> \/ \E k \in DOMAIN out : out[k][1] <= a /\ a < out[k][2]
                    \/ entry.base <= a /\ a < entry.base + entry.size
<1> DEFINE b == entry.base
           e == entry.base + entry.size
           m == Len(out)
<1>1. b \in Nat /\ e \in Nat /\ b <= e /\ m \in Nat /\ DOMAIN out = 1 .. m
  BY DEF Entry
<1>2. \A k \in DOMAIN out : out[k] \in Nat \X Nat /\ out[k][1] \in Nat /\ out[k][2] \in Nat
  OBVIOUS
<1>3. CASE out # <<>> /\ out[m][2] = b
  <2>1. m \in DOMAIN out /\ m \in 1 .. m
    BY <1>1, <1>3
  <2>2. res = [out EXCEPT ![m] = [out[m] EXCEPT ![2] = e]]
    BY <1>3 DEF Coalesce
  <2> HIDE DEF b, e, m
  <2>3. [out[m] EXCEPT ![2] = e][1] = out[m][1] /\ [out[m] EXCEPT ![2] = e][2] = e
    BY <1>2, <2>1
  <2>4. /\ DOMAIN res = DOMAIN out
        /\ \A k \in DOMAIN out : k # m => res[k] = out[k]
        /\ res[m][1] = out[m][1] /\ res[m][2] = e
    BY <2>1, <2>2, <2>3
  <2>5. out[m][1] <= b
    BY <1>3, <2>1
  <2>6. ASSUME NEW k \in DOMAIN res PROVE res[k][1] <= res[k][2]
    <3>1. CASE k = m
      BY <1>1, <1>2, <2>1, <2>4, <2>5, <3>1
    <3>2. CASE k # m
      BY <2>4, <3>2
    <3> QED BY <3>1, <3>2
  <2>7. ASSUME NEW a \in Nat
        PROVE  (\E k \in DOMAIN res : res[k][1] <= a /\ a < res[k][2])
                 <=> (\E k \in DOMAIN out : out[k][1] <= a /\ a < out[k][2]) \/ (b <= a /\ a < e)
    <3>1. res[m][1] <= a /\ a < res[m][2] <=> (out[m][1] <= a /\ a < out[m][2]) \/ (b <= a /\ a < e)
      BY <1>1, <1>2, <1>3, <2>1, <2>4, <2>5
    <3> QED BY <2>1, <2>4, <3>1
  <2> QED BY <2>6, <2>7 DEF b, e
<1>4. CASE ~(out # <<>> /\ out[m][2] = b)
  <2>1. res = Append(out, <<b, e>>)
    BY <1>4 DEF Coalesce
  <2> HIDE DEF b, e, m
  <2>2. /\ DOMAIN res = 1 .. m + 1 /\ (\A k \in 1 .. m : res[k] = out[k]) /\ res[m + 1] = <<b, e>>
    BY <1>1, <2>1 DEF m
  <2>3. res[m + 1][1] = b /\ res[m + 1][2] = e
    BY <2>2
  <2>4. \A k : k \in DOMAIN res <=> k \in DOMAIN out \/ k = m + 1
    BY <1>1, <2>2
  <2> QED BY <1>1, <2>2, <2>3, <2>4 DEF b, e
<1> QED BY <1>3, <1>4

\* Of the first span as much is required as one directive states; the rest stays a span.
LEMMA RequireCovers ==
  ASSUME RequireNext, spans \in Seq(Nat \X Nat), file \in Seq(RequiredDirective)
  PROVE  /\ file' \in Seq(RequiredDirective)
         /\ \A a \in Nat : Requires(file', a) \/ SpanCovers(a)' <=> Requires(file, a) \/ SpanCovers(a)
<1> DEFINE lo == spans[1][1]
           hi == spans[1][2]
           n == PieceOf(lo, hi)
<1>1. spans # <<>> /\ spans[1] \in Nat \X Nat /\ lo \in Nat /\ hi \in Nat /\ 1 \in DOMAIN spans
  BY DEF RequireNext
<1>2. \A k \in DOMAIN file : file[k] \in RequiredDirective
  OBVIOUS
<1>3. CASE lo < hi
  <2>1. n \in 1 .. REQUIRED_MEMORY_MAX /\ lo + n <= hi /\ lo + n \in Nat
    <3>1. REQUIRED_MEMORY_MAX \in Nat \ {0}
      BY ImageAssumption, Zenon
    <3> HIDE DEF lo, hi
    <3> QED BY <1>1, <1>3, <3>1 DEF PieceOf, Min2
  <2>2. file' = Append(file, Required(lo, n)) /\ spans' = [spans EXCEPT ![1] = [spans[1] EXCEPT ![1] = lo + n]]
    BY <1>3 DEF RequireNext
  <2> HIDE DEF n
  <2>3. PICK r : r = Required(lo, n)
    OBVIOUS
  <2>4. r \in RequiredDirective /\ r.type = "required" /\ r.gpa = lo /\ r.bytes = n
    BY <1>1, <2>1, <2>3 DEF RequiredDirective, Required
  <2>5. PICK t : t = [spans[1] EXCEPT ![1] = lo + n]
    OBVIOUS
  <2>6. t[1] = lo + n /\ t[2] = hi
    BY <1>1, <2>5
  <2> HIDE DEF lo, hi
  <2>7. file' = Append(file, r) /\ spans' = [spans EXCEPT ![1] = t]
    BY <2>2, <2>3, <2>5
  <2>8. /\ file' \in Seq(RequiredDirective) /\ DOMAIN file' = 1 .. Len(file) + 1 /\ DOMAIN file = 1 .. Len(file)
        /\ (\A k \in DOMAIN file : file'[k] = file[k]) /\ file'[Len(file) + 1] = r /\ Len(file) \in Nat
    BY <2>4, <2>7
  <2>9. /\ DOMAIN spans' = DOMAIN spans /\ spans'[1] = t /\ \A k \in DOMAIN spans : k # 1 => spans'[k] = spans[k]
    BY <1>1, <2>7
  <2>10. ASSUME NEW a \in Nat PROVE Requires(file', a) <=> Requires(file, a) \/ (lo <= a /\ a < lo + n)
    <3>1. \A k : k \in DOMAIN file' <=> k \in DOMAIN file \/ k = Len(file) + 1
      BY <2>8
    <3> QED BY <2>4, <2>8, <3>1 DEF Requires
  <2>11. ASSUME NEW a \in Nat PROVE SpanCovers(a) <=> SpanCovers(a)' \/ (lo <= a /\ a < lo + n)
    <3>1. lo <= a /\ a < hi <=> (lo + n <= a /\ a < hi) \/ (lo <= a /\ a < lo + n)
      BY <1>1, <2>1
    <3>2. spans[1][1] = lo /\ spans[1][2] = hi
      BY DEF lo, hi
    <3> QED BY <1>1, <2>6, <2>9, <3>1, <3>2 DEF SpanCovers
  <2> QED BY <2>8, <2>10, <2>11
<1>4. CASE ~(lo < hi)
  <2>1. file' = file /\ spans' = Tail(spans)
    BY <1>4 DEF RequireNext
  <2>2. ASSUME NEW a \in Nat PROVE SpanCovers(a)' <=> SpanCovers(a)
    <3>1. /\ Len(spans) \in Nat \ {0} /\ DOMAIN spans = 1 .. Len(spans) /\ DOMAIN spans' = 1 .. Len(spans) - 1
          /\ \A k \in 1 .. Len(spans) - 1 : spans'[k] = spans[k + 1]
      BY <1>1, <2>1
    <3>2. ~(spans[1][1] <= a /\ a < spans[1][2])
      BY <1>1, <1>4
    <3>3. \A k \in DOMAIN spans : k = 1 \/ (k - 1 \in DOMAIN spans' /\ k - 1 + 1 = k)
      <4>1. \A l \in Nat \ {0} : \A k \in 1 .. l : k = 1 \/ (k - 1 \in 1 .. l - 1 /\ k - 1 + 1 = k)
        OBVIOUS
      <4> QED BY <3>1, <4>1
    <3>4. \A k \in DOMAIN spans' : k + 1 \in DOMAIN spans
      <4>1. \A l \in Nat \ {0} : \A k \in 1 .. l - 1 : k + 1 \in 1 .. l
        OBVIOUS
      <4> QED BY <3>1, <4>1
    <3>5. ASSUME SpanCovers(a) PROVE SpanCovers(a)'
      <4>1. PICK k \in DOMAIN spans : spans[k][1] <= a /\ a < spans[k][2]
        BY <3>5 DEF SpanCovers
      <4>2. k - 1 \in DOMAIN spans' /\ spans'[k - 1] = spans[k]
        BY <3>1, <3>2, <3>3, <4>1
      <4> QED BY <4>1, <4>2 DEF SpanCovers
    <3>6. ASSUME SpanCovers(a)' PROVE SpanCovers(a)
      <4>1. PICK k \in DOMAIN spans' : spans'[k][1] <= a /\ a < spans'[k][2]
        BY <3>6 DEF SpanCovers
      <4>2. k + 1 \in DOMAIN spans /\ spans'[k] = spans[k + 1]
        BY <3>1, <3>4, <4>1
      <4> QED BY <4>1, <4>2 DEF SpanCovers
    <3> QED BY <3>5, <3>6
  <2> QED BY <2>1, <2>2
<1> QED BY <1>3, <1>4

\* Each step of snp.rs on the list of required memory; on TDX there is none.
LEMMA RequiredInit == ImageInit => RequiredInv
BY DEF ImageInit, RequiredInv

\* What the entries cover, and which directives there can be, does not change with the image.
LEMMA SameListed ==
  ASSUME UNCHANGED e820
  PROVE  /\ \A n, a : EntryCovers(n, a)' <=> EntryCovers(n, a)
         /\ \A a : Listed(a)' <=> Listed(a)
BY DEF EntryCovers, Listed

\* While spans, file and map stay what they are so does what is required of the loader.
LEMMA RequiredStays ==
  ASSUME RequiredInv, UNCHANGED <<e820, file, spans>>, phase' # "none" \/ phase = "none",
         \/ phase' = phase /\ next' = next
         \/ /\ phase \in {"file", "loading"}
            /\ phase' \in {"file", "loading", "verified", "rejected", "refused"}
         \/ phase' \in {"none", "error"}
  PROVE  RequiredInv'
<1>1. /\ UNCHANGED e820 /\ file' = file /\ spans' = spans
  OBVIOUS
<1>2. /\ \A n, a : EntryCovers(n, a)' <=> EntryCovers(n, a)
      /\ \A a : Listed(a)' <=> Listed(a)
      /\ \A a : SpanCovers(a)' <=> SpanCovers(a)
      /\ \A a : Requires(file', a) <=> Requires(file, a)
  BY <1>1, SameListed DEF SpanCovers
<1> QED BY <1>1, <1>2 DEF RequiredInv

\* The pages have been checked and nothing is required yet.
LEMMA RequiredWrite ==
  ASSUME TypeOK, ImageInv, RequiredInv, WriteFile, UNCHANGED vars
  PROVE  RequiredInv'
<1>1. /\ phase = "none" /\ spans' = spans /\ next' = 1 /\ e820' = e820
      /\ phase' \in {"error", "file", "spans"} /\ (phase' = "file" => Platform = "tdx")
  BY DEF WriteFile, vars
<1>2. spans' = <<>>
  BY <1>1 DEF RequiredInv
<1>3. ASSUME phase' = "spans"
      PROVE  /\ next' \in 1 .. Len(e820') + 1
             /\ \A k \in DOMAIN spans' : spans'[k][1] <= spans'[k][2]
             /\ \A a \in Nat : SpanCovers(a)' <=> \E n \in 1 .. next' - 1 : EntryCovers(n, a)'
  <2>1. Len(e820) \in Nat /\ DOMAIN spans' = {} /\ 1 .. next' - 1 = {}
    BY <1>1, <1>2 DEF TypeOK
  <2>2. \A a : ~SpanCovers(a)'
    BY <2>1 DEF SpanCovers
  <2> QED BY <1>1, <2>1, <2>2
<1> QED BY <1>1, <1>2, <1>3 DEF RequiredInv

\* One more entry of the map joins the spans.
LEMMA RequiredCoalesce ==
  ASSUME TypeOK, ImageInv, RequiredInv, CoalesceNext, UNCHANGED vars
  PROVE  RequiredInv'
<1>1. /\ phase = "spans" /\ phase' = "spans" /\ next <= Len(e820) /\ next' = next + 1
      /\ spans' = Coalesce(spans, e820[next]) /\ e820' = e820
  BY DEF CoalesceNext, vars
<1>2. /\ next \in 1 .. Len(e820) + 1 /\ (\A k \in DOMAIN spans : spans[k][1] <= spans[k][2])
      /\ \A a \in Nat : SpanCovers(a) <=> \E n \in 1 .. next - 1 : EntryCovers(n, a)
  BY <1>1 DEF RequiredInv
<1>3. spans \in Seq(Nat \X Nat) /\ e820 \in Seq(Entry) /\ Len(e820) \in Nat
  BY DEF ImageInv, TypeOK, Entry, Kinds
<1>4. e820[next] \in Entry
  BY <1>1, <1>2, <1>3
<1>5. PICK s : s = spans
  OBVIOUS
<1>6. PICK entry \in Entry : entry = e820[next]
  BY <1>4
<1>7. PICK res : res = Coalesce(s, entry)
  OBVIOUS
<1>8. /\ \A k \in DOMAIN res : res[k][1] <= res[k][2]
      /\ \A a \in Nat :
           (\E k \in DOMAIN res : res[k][1] <= a /\ a < res[k][2])
             <=> \/ \E k \in DOMAIN s : s[k][1] <= a /\ a < s[k][2]
                 \/ entry.base <= a /\ a < entry.base + entry.size
  <2>1. s \in Seq(Nat \X Nat) /\ \A k \in DOMAIN s : s[k][1] <= s[k][2]
    BY <1>2, <1>3, <1>5
  <2> QED BY <1>7, <2>1, CoalesceCovers
<1>9. spans' = res
  BY <1>1, <1>5, <1>6, <1>7
<1>10. \A n, a : EntryCovers(n, a)' <=> EntryCovers(n, a)
  BY <1>1, SameListed
<1>11. ASSUME NEW a \in Nat
       PROVE  SpanCovers(a)' <=> \E n \in 1 .. next' - 1 : EntryCovers(n, a)'
  <2>1. SpanCovers(a)' <=> SpanCovers(a) \/ EntryCovers(next, a)
    BY <1>5, <1>6, <1>8, <1>9 DEF SpanCovers, EntryCovers
  <2>2. \A n : n \in 1 .. next' - 1 <=> n \in 1 .. next - 1 \/ n = next
    BY <1>1, <1>2, <1>3
  <2> QED BY <1>2, <1>10, <2>1, <2>2
<1>12. next' \in 1 .. Len(e820') + 1
  BY <1>1, <1>2, <1>3
<1>13. \A k \in DOMAIN spans' : spans'[k][1] <= spans'[k][2]
  BY <1>8, <1>9
<1> QED BY <1>1, <1>11, <1>12, <1>13 DEF RequiredInv

\* All entries have.
LEMMA RequiredCoalesced ==
  ASSUME TypeOK, ImageInv, RequiredInv, CoalesceDone, UNCHANGED vars
  PROVE  RequiredInv'
<1>1. /\ phase = "spans" /\ phase' = "required" /\ next > Len(e820) /\ spans' = spans /\ file' = file /\ e820' = e820
  BY DEF CoalesceDone, vars
<1>2. /\ next \in 1 .. Len(e820) + 1
      /\ \A a \in Nat : SpanCovers(a) <=> \E n \in 1 .. next - 1 : EntryCovers(n, a)
  BY <1>1 DEF RequiredInv
<1>3. file = <<>> /\ Len(e820) \in Nat /\ DOMAIN e820 = 1 .. Len(e820)
  BY <1>1 DEF ImageInv, TypeOK
<1>4. 1 .. next - 1 = DOMAIN e820
  <2>1. next - 1 = Len(e820)
    BY <1>1, <1>2, <1>3
  <2> QED BY <1>3, <2>1
<1>5. \A a \in Nat : SpanCovers(a) <=> Listed(a)
  BY <1>2, <1>4 DEF Listed
<1>6. file' \in Seq(RequiredDirective) /\ \A a : ~Requires(file', a)
  BY <1>1, <1>3 DEF Requires
<1>7. \A a : (SpanCovers(a)' <=> SpanCovers(a)) /\ (Listed(a)' <=> Listed(a))
  BY <1>1, SameListed DEF SpanCovers
<1> QED BY <1>1, <1>5, <1>6, <1>7 DEF RequiredInv

\* One directive states what is left of the first span, or as much of it as it can.
LEMMA RequiredRequire ==
  ASSUME TypeOK, ImageInv, RequiredInv, RequireNext, UNCHANGED vars
  PROVE  RequiredInv'
<1>1. phase = "required" /\ phase' = "required" /\ e820' = e820
  BY DEF RequireNext, vars
<1>2. file \in Seq(RequiredDirective) /\ spans \in Seq(Nat \X Nat)
      /\ \A a \in Nat : Requires(file, a) \/ SpanCovers(a) <=> Listed(a)
  BY <1>1 DEF RequiredInv, ImageInv
<1>3. /\ file' \in Seq(RequiredDirective)
      /\ \A a \in Nat : Requires(file', a) \/ SpanCovers(a)' <=> Requires(file, a) \/ SpanCovers(a)
  BY <1>2, RequireCovers
<1>4. \A a : Listed(a)' <=> Listed(a)
  BY <1>1, SameListed
<1> QED BY <1>1, <1>2, <1>3, <1>4 DEF RequiredInv

\* No span is left, and what follows requires no memory.
LEMMA RequiredFinish ==
  ASSUME TypeOK, ImageInv, RequiredInv, FinishFile, UNCHANGED vars
  PROVE  RequiredInv'
<1>1. /\ phase = "required" /\ phase' = "file" /\ spans = <<>> /\ e820' = e820
      /\ file' = SnpFile(file, LaunchPages)
  BY DEF FinishFile, vars
<1>2. /\ file \in Seq(RequiredDirective) /\ file \in Seq(Directive) /\ Platform # "tdx" /\ AllNormal
      /\ (\A k \in 1 .. Len(file) : file[k].type = "required")
      /\ \A a \in Nat : Requires(file, a) \/ SpanCovers(a) <=> Listed(a)
  BY <1>1 DEF RequiredInv, ImageInv
<1>3. PICK f : f = SnpFile(file, LaunchPages)
  OBVIOUS
<1>4. PICK r : r = file
  OBVIOUS
<1>5. PICK R \in Nat : R = Len(file)
  BY <1>2
<1>6. Shape(f, R) /\ \A k \in 1 .. R : f[k] = r[k]
  BY <1>2, <1>3, <1>4, <1>5, SnpShape
<1>7. \A k \in DOMAIN f : f[k].type = "required" <=> k <= R
  BY <1>5, <1>6, RequiredFirst, LaunchPagesType
<1>8. DOMAIN r = 1 .. R /\ 1 .. R \subseteq DOMAIN f /\ \A k \in DOMAIN f : k \in Nat \ {0}
  <2>1. /\ f \in Seq(Directive) /\ Len(f) = R + Len(LaunchPages) + VpCount + IdCount
        /\ Len(LaunchPages) \in Nat /\ VpCount \in Nat /\ IdCount \in {0, 1}
    BY <1>6, CountTypes, LaunchPagesType DEF Shape
  <2>2. DOMAIN f = 1 .. Len(f) /\ Len(f) \in Nat /\ R <= Len(f)
    BY <2>1
  <2>3. DOMAIN r = 1 .. R
    BY <1>2, <1>4, <1>5
  <2> QED BY <2>2, <2>3
<1>9. \A k \in DOMAIN f : f[k].type = "required" => k \in 1 .. R
  BY <1>7, <1>8
<1>10. \A k \in 1 .. R : r[k] \in RequiredDirective /\ r[k].type = "required"
  BY <1>2, <1>4, <1>8
<1>11. \A k \in DOMAIN f : f[k].type = "required" => f[k].bytes \in 1 .. REQUIRED_MEMORY_MAX
  <2>1. \A d \in RequiredDirective : d.bytes \in 1 .. REQUIRED_MEMORY_MAX
    BY DEF RequiredDirective, Required
  <2> QED BY <1>6, <1>9, <1>10, <2>1
<1>12. \A a \in Nat : Requires(f, a) <=> Requires(r, a)
  BY <1>6, <1>8, <1>9, <1>10 DEF Requires
<1>13. \A a : ~SpanCovers(a)
  BY <1>1 DEF SpanCovers
<1>14. \A a : Listed(a)' <=> Listed(a)
  BY <1>1, SameListed
<1>15. \A a \in Nat : Requires(file', a) <=> Listed(a)'
  <2>1. \A a \in Nat : Requires(f, a) <=> Listed(a)
    BY <1>2, <1>4, <1>12, <1>13
  <2>2. file' = f
    BY <1>1, <1>3
  <2> QED BY <1>14, <2>1, <2>2
<1>16. \A k \in DOMAIN file' : file'[k].type = "required" => file'[k].bytes \in 1 .. REQUIRED_MEMORY_MAX
  BY <1>1, <1>3, <1>11
<1> QED BY <1>1, <1>15, <1>16 DEF RequiredInv

\* Every step of the image, or of the derivation before it.
LEMMA RequiredStep ==
  ASSUME TypeOK, ImageInv, RequiredInv,
         \/ Next /\ UNCHANGED image
         \/ ImageStep /\ UNCHANGED vars
         \/ UNCHANGED <<vars, image>>
  PROVE  RequiredInv'
<1>1. CASE UNCHANGED <<vars, image>>
  <2>1. UNCHANGED <<e820, file, spans>> /\ phase' = phase /\ next' = next
    BY <1>1 DEF vars, image
  <2> QED BY <2>1, RequiredStays
<1>2. CASE Next /\ UNCHANGED image
  <2>1. CASE UNCHANGED vars
    BY <1>1, <1>2, <2>1
  <2>2. CASE step # "built"
    <3>1. phase = "none" /\ phase' = "none" /\ spans' = spans
      BY <1>2, <2>2 DEF ImageInv, image
    <3> QED BY <3>1 DEF RequiredInv
  <2>3. step = "built" => UNCHANGED vars
    BY <1>2 DEF Next, Validate, E820, Accept, Finished, ValidateDone, RejectRegion, ValidateNext, RejectOverlap,
         E820Done, ZeroPage, RejectE820, E820Next, AcceptDone, ShimDone, RejectShim, AcceptNext
  <2> QED BY <2>1, <2>2, <2>3
<1>3. CASE ImageStep /\ UNCHANGED vars
  <2>1. e820' = e820
    BY <1>3 DEF vars
  <2>2. CASE Deliver \/ LoadDirective \/ Finish
    <3>1. /\ phase \in {"file", "loading"} /\ phase' \in {"loading", "verified", "rejected", "refused"}
          /\ UNCHANGED <<file, spans>>
      BY <2>2 DEF Deliver, LoadDirective, Finish
    <3> QED BY <2>1, <3>1, RequiredStays
  <2> QED BY <1>3, <2>2, RequiredWrite, RequiredCoalesce, RequiredCoalesced, RequiredRequire, RequiredFinish
        DEF ImageStep
<1> QED BY <1>1, <1>2, <1>3

-----------------------------------------------------------------------------

\* The loader of a SNP image is told to find the memory the E820 map lists, no more and no
\* less, in pieces whose length the directive has room for (snp.rs, required_memory).
THEOREM RequiredIsListed == ImageSpec => [](Platform = "snp" => RequiredMatchesE820)
<1>1. Init /\ ImageInit => RequiredInv
  BY RequiredInit
<1>2. ASSUME PlacementInv, ImageInv, RequiredInv,
             [ \/ Next /\ UNCHANGED image
               \/ ImageStep /\ UNCHANGED vars ]_<<vars, image>>
      PROVE  RequiredInv'
  <2>1. TypeOK
    BY <1>2 DEF PlacementInv
  <2> QED BY <1>2, <2>1, RequiredStep
<1>3. RequiredInv => (Platform = "snp" => RequiredMatchesE820)
  <2>1. Addrs \subseteq Nat
    BY LimitsAssumption
  <2> QED BY <2>1 DEF RequiredInv, RequiredMatchesE820, Requires, Listed
<1>4. ImageSpec => [](PlacementInv /\ ImageInv)
  BY ImageInvariant
<1> QED BY <1>1, <1>2, <1>3, <1>4, PTL DEF ImageSpec

\* A guest whose report is the manifest's has the map in its memory, whatever the host did
\* to the file; and the file as it was written is never turned down (image.rs, main.rs).
THEOREM VerifiedGuestIsTheMap == ImageSpec => [](NoWrap => DigestIffImage)
<1>1. ImageInv => (NoWrap => DigestIffImage)
  BY DEF ImageInv
<1> QED BY <1>1, ImageInvariant, PTL

-----------------------------------------------------------------------------
(* Everything the derivation makes of a built map is whole pages.          *)

\* A whole number of pages.
Whole(a) == \E f \in Nat : a = f * PAGE

\* A number of bytes is whole pages if dividing it leaves nothing.
LEMMA WholeIs ==
  ASSUME NEW a \in Nat, IsMultiple(a, PAGE)
  PROVE  Whole(a)
<1> DEFINE q == a \div PAGE
           r == a % PAGE
<1>1. q \in Nat /\ r \in Nat /\ a = q * PAGE + r /\ q * PAGE \in Nat
  BY PageAssumption
<1>2. r = 0
  BY DEF IsMultiple
<1> HIDE DEF q, r
<1>3. a = q * PAGE
  BY <1>1, <1>2
<1> QED BY <1>1, <1>3 DEF Whole

\* Whole pages after whole pages are whole pages.
LEMMA WholeSum ==
  ASSUME NEW a, NEW b, Whole(a), Whole(b)
  PROVE  Whole(a + b)
<1>1. PICK f \in Nat : a = f * PAGE
  BY DEF Whole
<1>2. PICK g \in Nat : b = g * PAGE
  BY DEF Whole
<1>3. f + g \in Nat /\ a + b = (f + g) * PAGE
  BY <1>1, <1>2, PageAssumption
<1> QED BY <1>3 DEF Whole

\* One page, and none.
LEMMA WholePage == Whole(0) /\ Whole(PAGE)
<1>1. 0 = 0 * PAGE /\ PAGE = 1 * PAGE
  BY PageAssumption
<1> QED BY <1>1 DEF Whole

\* The span of a built region is whole pages, and where it ends too unless it wraps.
LEMMA WholeBounds ==
  ASSUME placed \in Seq(Region), BuiltMap(placed, memory, Blanks), NEW i \in DOMAIN placed
  PROVE  /\ Whole(Span(placed[i]))
         /\ RegionOK(placed[i]) => Whole(Lo(i))
         /\ RegionOK(placed[i]) /\ NoWrap => Whole(Hi(i))
<1>1. placed[i] \in Region /\ placed[i].base \in Nat /\ placed[i].len \in Nat /\ Span(placed[i]) \in Nat
  BY BoundsType, SpanType, WordAssumption DEF Region
<1>2. Whole(Span(placed[i]))
  <2>1. CASE placed[i].fill = "measured"
    <3> DEFINE q == (placed[i].len + PAGE - 1) \div PAGE
    <3>1. q \in Nat /\ align_up(placed[i].len, PAGE) = q * PAGE
      BY <1>1, Rounded DEF align_up
    <3>2. Whole(align_up(placed[i].len, PAGE))
      BY <3>1 DEF Whole
    <3> HIDE DEF q
    <3> QED BY <2>1, <3>2, WholePage DEF Span, Max2
  <2>2. CASE placed[i].fill = "host"
    BY <2>2, WholePage DEF Span
  <2>3. CASE placed[i].fill = "mmio"
    <3>1. IsMultiple(placed[i].len, PAGE)
      BY <2>3 DEF BuiltMap
    <3> QED BY <1>1, <2>3, <3>1, WholeIs DEF Span
  <2> QED BY <1>1, <2>1, <2>2, <2>3 DEF Region
<1>3. RegionOK(placed[i]) => Whole(Lo(i))
  BY <1>1, WholeIs DEF RegionOK, Lo
<1>4. NoWrap => Hi(i) = Lo(i) + Span(placed[i])
  BY <1>1 DEF Hi, Lo, NoWrap, Wrap
<1> QED BY <1>2, <1>3, <1>4, WholeSum

\* The cursor and the list are whole pages while accept_ranges runs, and after it.
AlignedInv ==
  /\ BuiltMap(placed, memory, Blanks)
  /\ step \notin {"validate", "error"} => \A i \in DOMAIN placed : RegionOK(placed[i])
  /\ NoWrap =>
       /\ step = "accept" => Whole(at)
       /\ \A n \in DOMAIN accept : Whole(accept[n][1]) /\ Whole(accept[n][2])

\* The maps are built.
LEMMA AlignedInit == Init => AlignedInv
<1> SUFFICES ASSUME Init PROVE AlignedInv
  OBVIOUS
<1>1. BuiltMap(placed, memory, Blanks)
  BY BuiltMapsAssumption DEF Init
<1>2. step = "validate" /\ accept = <<>>
  BY DEF Init
<1> QED BY <1>1, <1>2 DEF AlignedInv

\* A range between whole pages is whole pages.
LEMMA WholeRange ==
  ASSUME accept \in Seq(Nat \X Nat), NEW lo \in Nat, NEW hi \in Nat,
         \A n \in DOMAIN accept : Whole(accept[n][1]) /\ Whole(accept[n][2]),
         Whole(lo), Whole(hi), accept' = PushRange(accept, lo, hi)
  PROVE  \A n \in DOMAIN accept' : Whole(accept'[n][1]) /\ Whole(accept'[n][2])
<1>1. CASE lo < hi
  <2>1. accept' = Append(accept, <<lo, hi>>)
    BY <1>1 DEF PushRange
  <2> SUFFICES ASSUME NEW n \in DOMAIN accept' PROVE Whole(accept'[n][1]) /\ Whole(accept'[n][2])
    OBVIOUS
  <2>2. \/ n \in DOMAIN accept /\ accept'[n] = accept[n]
        \/ accept'[n] = <<lo, hi>>
    BY <2>1
  <2> QED BY <2>2
<1>2. CASE ~(lo < hi)
  BY <1>2 DEF PushRange
<1> QED BY <1>1, <1>2

\* Every step of the derivation keeps to whole pages.
LEMMA AlignedStep ==
  ASSUME PlacementInv, AlignedInv, Next
  PROVE  AlignedInv'
<1>1. TypeOK
  BY DEF PlacementInv
<1>2. UNCHANGED mapVars
  BY DEF Next, Validate, E820, Accept, Finished, ValidateDone, RejectRegion, ValidateNext, RejectOverlap,
         E820Done, ZeroPage, RejectE820, E820Next, AcceptDone, ShimDone, RejectShim, AcceptNext, vars, mapVars
<1>3. /\ placed' = placed /\ memory' = memory /\ (NoWrap' <=> NoWrap) /\ BuiltMap(placed, memory, Blanks)'
      /\ \A i : RegionOK(placed[i])' <=> RegionOK(placed[i])
  BY <1>2, SameMap DEF AlignedInv, RegionOK
<1>4. memory \in Nat /\ Whole(memory)
  BY <1>1, WholeIs DEF AlignedInv, BuiltMap, TypeOK
<1>5. step' \notin {"validate", "error"} => \A i \in DOMAIN placed : RegionOK(placed[i])
  BY DEF AlignedInv, Next, Validate, E820, Accept, Finished, ValidateDone, RejectRegion, ValidateNext, RejectOverlap,
         E820Done, ZeroPage, RejectE820, E820Next, AcceptDone, ShimDone, RejectShim, AcceptNext, vars, StartLoop
<1>6. ASSUME NoWrap
      PROVE  /\ step' = "accept" => Whole(at')
             /\ \A n \in DOMAIN accept' : Whole(accept'[n][1]) /\ Whole(accept'[n][2])
  <2>1. \A n \in DOMAIN accept : Whole(accept[n][1]) /\ Whole(accept[n][2])
    BY <1>6 DEF AlignedInv
  <2>2. CASE \E i \in todo : AcceptNext(i)
    <3>1. PICK i \in todo : AcceptNext(i)
      BY <2>2
    <3>2. /\ step = "accept" /\ accept' = PushRange(accept, at, Min2(Lo(i), memory)) /\ at' = Max2(at, Hi(i))
      BY <3>1 DEF AcceptNext, Advance
    <3>3. i \in DOMAIN placed /\ at \in Nat /\ accept \in Seq(Nat \X Nat) /\ placed \in Seq(Region)
      BY <1>1 DEF TypeOK
    <3>4. Lo(i) \in Nat /\ Hi(i) \in Nat /\ Min2(Lo(i), memory) \in Nat
      BY <1>4, <3>3, BoundsType DEF Min2
    <3>5. Whole(at) /\ Whole(Lo(i)) /\ Whole(Hi(i)) /\ Whole(Min2(Lo(i), memory))
      <4>1. RegionOK(placed[i])
        BY <3>2, <3>3 DEF AlignedInv
      <4>2. Whole(Lo(i)) /\ Whole(Hi(i))
        BY <1>6, <3>3, <4>1, WholeBounds DEF AlignedInv
      <4> QED BY <1>4, <1>6, <3>2, <4>2 DEF AlignedInv, Min2
    <3>6. Whole(at')
      BY <3>2, <3>5 DEF Max2
    <3> QED BY <2>1, <3>2, <3>3, <3>4, <3>5, <3>6, WholeRange
  <2>3. CASE AcceptDone
    <3>1. step = "accept" /\ step' = "shim" /\ accept' = PushRange(accept, at, memory)
      BY <2>3 DEF AcceptDone
    <3>2. at \in Nat /\ accept \in Seq(Nat \X Nat) /\ Whole(at)
      BY <1>1, <1>6, <3>1 DEF TypeOK, AlignedInv
    <3> QED BY <1>4, <2>1, <3>1, <3>2, WholeRange
  <2>4. CASE Validate \/ E820 \/ ShimDone \/ RejectShim \/ Finished
    <3>1. /\ accept' = accept
          /\ step' = "accept" => at' = 0 \/ (step = "accept" /\ at' = at)
      BY <2>4 DEF Validate, E820, Finished, ValidateDone, RejectRegion, ValidateNext, RejectOverlap,
         E820Done, ZeroPage, RejectE820, E820Next, ShimDone, RejectShim, vars, StartLoop
    <3> QED BY <1>6, <2>1, <3>1, WholePage DEF AlignedInv
  <2> QED BY <2>2, <2>3, <2>4 DEF Next, Accept
<1> QED BY <1>3, <1>5, <1>6 DEF AlignedInv

\* The map, the step, the cursor and the list alone decide.
LEMMA AlignedStays == ASSUME AlignedInv, UNCHANGED vars PROVE AlignedInv'
<1>1. UNCHANGED mapVars /\ step' = step /\ at' = at /\ accept' = accept
  BY DEF vars, mapVars
<1>2. placed' = placed /\ memory' = memory /\ (NoWrap' <=> NoWrap)
  BY <1>1, SameMap
<1> QED BY <1>1, <1>2 DEF AlignedInv, RegionOK

\* Every map an image is made of, and every list derived from one, keeps to whole pages
\* (layout.rs 176-213, boot.rs 243-303).
THEOREM ImageAligned == ImageSpec => []AlignedInv
<1>1. Init /\ ImageInit => AlignedInv
  BY AlignedInit
<1>2. ASSUME PlacementInv, AlignedInv,
             [ \/ Next /\ UNCHANGED image
               \/ ImageStep /\ UNCHANGED vars ]_<<vars, image>>
      PROVE  AlignedInv'
  <2>1. CASE Next
    BY <1>2, <2>1, AlignedStep
  <2>2. CASE UNCHANGED vars
    BY <1>2, <2>2, AlignedStays
  <2> QED BY <1>2, <2>1, <2>2
<1>3. ImageSpec => []PlacementInv
  BY ImageInvariant, PTL
<1> QED BY <1>1, <1>2, <1>3, PTL DEF ImageSpec

-----------------------------------------------------------------------------
(* Frames and the addresses in them.                                       *)

\* An address lies in its frame.
LEMMA InFrame ==
  ASSUME NEW a \in Nat
  PROVE  /\ FrameOf(a) \in Nat
         /\ FrameOf(a) * PAGE \in Nat
         /\ FrameOf(a) * PAGE <= a /\ a < FrameOf(a) * PAGE + PAGE
<1> DEFINE q == a \div PAGE
           r == a % PAGE
<1>1. q \in Nat /\ r \in 0 .. PAGE - 1 /\ a = q * PAGE + r /\ q * PAGE \in Nat
  BY PageAssumption
<1> DEFINE x == q * PAGE
<1>2. x \in Nat /\ r \in Nat /\ r < PAGE /\ PAGE \in Nat /\ a = x + r
  BY <1>1, PageAssumption
<1>3. x <= a /\ a < x + PAGE
  <2> HIDE DEF x, r
  <2> QED BY <1>2
<1> QED BY <1>1, <1>3 DEF FrameOf

\* The frame that begins at a page.
LEMMA FrameAt ==
  ASSUME NEW f \in Nat
  PROVE  f * PAGE \in Nat /\ FrameOf(f * PAGE) = f
<1>1. PAGE \in Nat \ {0} /\ 0 \in 0 .. PAGE - 1 /\ f * PAGE \in Nat /\ f * PAGE + 0 = f * PAGE
  BY PageAssumption
<1>2. (f * PAGE + 0) \div PAGE = f
  BY <1>1, DivMod
<1> QED BY <1>1, <1>2 DEF FrameOf

\* Frames begin in their order, a page apart at least.
LEMMA FrameOrder ==
  ASSUME NEW f \in Nat, NEW g \in Nat
  PROVE  /\ f * PAGE \in Nat /\ g * PAGE \in Nat
         /\ f < g <=> f * PAGE < g * PAGE
         /\ f < g <=> f * PAGE + PAGE <= g * PAGE
<1>1. f * PAGE \in Nat /\ g * PAGE \in Nat /\ PAGE \in Nat \ {0}
  BY PageAssumption
<1>2. f < g => f * PAGE + PAGE <= g * PAGE
  BY Multiples
<1>3. g < f => g * PAGE + PAGE <= f * PAGE
  BY Multiples
<1> DEFINE x == f * PAGE
           y == g * PAGE
<1>4. x \in Nat /\ y \in Nat /\ (f < g => x + PAGE <= y) /\ (g < f => y + PAGE <= x) /\ (f = g => x = y)
  BY <1>1, <1>2, <1>3
<1> HIDE DEF x, y
<1>5. (f < g <=> x < y) /\ (f < g <=> x + PAGE <= y)
  BY <1>1, <1>4
<1> QED BY <1>1, <1>5 DEF x, y

\* Whole pages hold all of a frame or none of it.
LEMMA FrameInside ==
  ASSUME NEW lo \in Nat, NEW hi \in Nat, Whole(lo), Whole(hi), NEW a \in Nat
  PROVE  /\ FrameOf(lo) \in Nat /\ FrameOf(hi) \in Nat
         /\ lo <= a <=> lo <= FrameOf(a) * PAGE
         /\ a < hi <=> FrameOf(a) * PAGE < hi
         /\ a < hi <=> FrameOf(a) * PAGE + PAGE <= hi
         /\ lo <= a <=> FrameOf(lo) <= FrameOf(a)
         /\ a < hi <=> FrameOf(a) < FrameOf(hi)
         /\ lo < hi <=> FrameOf(lo) < FrameOf(hi)
         /\ lo <= hi <=> FrameOf(lo) <= FrameOf(hi)
<1>1. PICK l \in Nat : lo = l * PAGE
  BY DEF Whole
<1>2. PICK h \in Nat : hi = h * PAGE
  BY DEF Whole
<1>3. FrameOf(lo) = l /\ FrameOf(hi) = h
  BY <1>1, <1>2, FrameAt
<1> DEFINE f == FrameOf(a)
           x == f * PAGE
<1>4. f \in Nat /\ x \in Nat /\ x <= a /\ a < x + PAGE /\ PAGE \in Nat \ {0}
  BY InFrame, PageAssumption
<1> HIDE DEF f
<1>5. /\ f < h <=> x < hi
      /\ f < h <=> x + PAGE <= hi
  BY <1>2, <1>4, FrameOrder
<1>6. /\ f < l <=> x < lo
      /\ f < l <=> x + PAGE <= lo
  BY <1>1, <1>4, FrameOrder
<1>7. /\ l < h <=> lo < hi
      /\ h < l <=> hi < lo
  BY <1>1, <1>2, FrameOrder
<1> HIDE DEF x
<1>8. /\ a < hi <=> x < hi
      /\ a < hi <=> x + PAGE <= hi
      /\ a < hi <=> f < h
  BY <1>4, <1>5
<1>9. /\ lo <= a <=> lo <= x
      /\ lo <= a <=> l <= f
  BY <1>4, <1>6
<1>10. lo <= hi <=> l <= h
  BY <1>7
<1> QED BY <1>3, <1>7, <1>8, <1>9, <1>10 DEF f, x

-----------------------------------------------------------------------------
(* What a guest is launched with.                                          *)

\* The frames of the accept list as the guest finds it.
ListedFrames == UNION { GuestRanges[n][1] .. GuestRanges[n][2] - 1 : n \in DOMAIN GuestRanges }

\* Everything known of a map that has been launched and verified.
Verified ==
  /\ TypeOK /\ NoWrap /\ Full /\ AllDisjoint /\ GuestIsTheMap
  /\ BuiltMap(placed, memory, Blanks)
  /\ \A i \in DOMAIN placed : RegionOK(placed[i])
  /\ \A n \in DOMAIN accept :
       /\ Whole(accept[n][1]) /\ Whole(accept[n][2])
       /\ accept[n][1] < accept[n][2]
       /\ \A m \in DOMAIN accept : n < m => accept[n][2] <= accept[m][1]
  /\ \A a \in Nat :
       (\E n \in DOMAIN accept : RangeCovers(n, a))
         <=> a < memory /\ ~ \E i \in DOMAIN placed : Covers(i, a)
  /\ \A a \in Nat, kind \in {RAM, RESERVED, ACPI} :
       (\E n \in DOMAIN e820 : EntryCovers(n, a) /\ e820[n].kind = kind)
         <=> a < memory /\ KindAt(a, kind)

\* A guest whose report the verifier accepted is one.
LEMMA VerifiedIs ==
  ASSUME PlacementInv, ImageInv, AlignedInv, phase = "verified", NoWrap
  PROVE  Verified
<1>1. step = "built" /\ Full /\ GuestIsTheMap
  BY DEF ImageInv, DigestIffImage
<1>2. TypeOK /\ ValidatedDisjoint /\ E820ExactOn(Nat) /\ AcceptExactOn(Nat) /\ AcceptOrdered
  BY DEF PlacementInv, Safety
<1>3. AllDisjoint
  BY <1>1, <1>2 DEF ValidatedDisjoint, AllDisjoint
<1> QED BY <1>1, <1>2, <1>3 DEF Verified, AlignedInv, E820ExactOn, AcceptExactOn, AcceptOrdered

\* A region that has pages is none of the apertures: what fill() replaces is a page the
\* builder placed for it.
LEMMA NoPagesInApertures ==
  ASSUME Verified, NEW i \in DOMAIN placed, placed[i].fill = "mmio"
  PROVE  PageCount(i) = 0
<1>1. placed \in Seq(Region) /\ placed[i].len \in Nat /\ PAGE \in Nat \ {0}
  BY BoundsType, WordAssumption, PageAssumption DEF Verified, TypeOK, Region
<1>2. ASSUME NEW B \in {ZERO_PAGE, SHIM_PAGE}, FirstAt(B, i) PROVE FALSE
  <2>1. PICK j \in DOMAIN placed : placed[j] = Measured(B, RESERVED, PAGE)
    BY DEF Verified, BuiltMap, Blanks
  <2>2. i # j /\ Lo(j) = B /\ Lo(i) = B
    BY <1>2, <2>1 DEF Measured, FirstAt, Lo
  <2>3. Span(placed[i]) = PAGE
    BY <1>1, <1>2, FilledSpan DEF Verified
  <2>4. Span(placed[j]) >= PAGE
    <3>1. align_up(PAGE, PAGE) \in Int
      BY <1>1, AlignIsInt
    <3> QED BY <1>1, <2>1, <3>1 DEF Span, Measured, Max2
  <2>5. Hi(i) = Lo(i) + Span(placed[i]) /\ Hi(j) = Lo(j) + Span(placed[j])
    BY DEF Verified, NoWrap, Hi, Lo, Wrap
  <2>6. Lo(i) \in Nat /\ Lo(j) \in Nat /\ Span(placed[j]) \in Nat
    BY <1>1, BoundsType, SpanType
  <2>7. Hi(i) <= Lo(j) \/ Hi(j) <= Lo(i)
    BY <2>2 DEF Verified, AllDisjoint, Disjoint
  <2> QED BY <1>1, <2>2, <2>3, <2>4, <2>5, <2>6, <2>7
<1>3. Filled(i) = placed[i]
  BY <1>2 DEF Filled
<1> QED BY <1>1, <1>3, Count

\* The page n of a region is the frame n - 1 behind the region's first.
LEMMA PageIsFrame ==
  ASSUME Verified, NEW i \in DOMAIN placed, NEW n \in 1 .. PageCount(i)
  PROVE  /\ FrameOf(PageAddress(i, n)) \in Nat
         /\ PageAddress(i, n) = FrameOf(PageAddress(i, n)) * PAGE
         /\ Lo(i) <= PageAddress(i, n) /\ PageAddress(i, n) + PAGE <= Hi(i)
<1>1. placed \in Seq(Region) /\ PageCount(i) \in Nat /\ n - 1 \in Nat
  BY CountType DEF Verified, TypeOK
<1>2. Whole(Lo(i))
  BY <1>1, WholeBounds DEF Verified
<1>3. PICK f \in Nat : Lo(i) = f * PAGE
  BY <1>2 DEF Whole
<1>4. PageAddress(i, n) = (f + (n - 1)) * PAGE
  <2>1. PageAddress(i, n) = f * PAGE + (n - 1) * PAGE
    BY <1>3 DEF PageAddress, Lo
  <2> QED BY <1>1, <2>1, PageAssumption
<1>5. f + (n - 1) \in Nat
  BY <1>1
<1>6. FrameOf(PageAddress(i, n)) = f + (n - 1)
  BY <1>4, <1>5, FrameAt
<1> QED BY <1>1, <1>4, <1>5, <1>6, PageInSpan DEF Verified

\* The frames in memory are those of the pages of the map.
LEMMA GuestFramesAre ==
  ASSUME Verified, NEW f
  PROVE  f \in GuestFrames <=>
           \E i \in DOMAIN placed : \E n \in 1 .. PageCount(i) : f = FrameOf(PageAddress(i, n))
<1>1. ASSUME f \in GuestFrames
      PROVE  \E i \in DOMAIN placed : \E n \in 1 .. PageCount(i) : f = FrameOf(PageAddress(i, n))
  <2>1. PICK p \in guest : f = FrameOf(p.gpa)
    BY <1>1 DEF GuestFrames
  <2>2. PICK i \in DOMAIN placed : \E n \in 1 .. PageCount(i) : PageOfMap(p, i, n)
    BY DEF Verified, GuestIsTheMap
  <2> QED BY <2>1, <2>2 DEF PageOfMap
<1>2. ASSUME NEW i \in DOMAIN placed, NEW n \in 1 .. PageCount(i), f = FrameOf(PageAddress(i, n))
      PROVE  f \in GuestFrames
  <2>1. PICK p \in guest : PageOfMap(p, i, n)
    BY DEF Verified, GuestIsTheMap
  <2> QED BY <1>2, <2>1 DEF PageOfMap, GuestFrames
<1> QED BY <1>1, <1>2

\* A frame in memory is a frame of one region that is not an aperture.
LEMMA ImportedFrame ==
  ASSUME Verified, NEW f \in GuestFrames
  PROVE  /\ f \in Nat /\ f * PAGE \in Nat
         /\ \E i \in DOMAIN placed : placed[i].fill # "mmio" /\ Covers(i, f * PAGE)
<1>0. PICK i \in DOMAIN placed : \E n \in 1 .. PageCount(i) : f = FrameOf(PageAddress(i, n))
  BY GuestFramesAre
<1>1. PICK n \in 1 .. PageCount(i) : f = FrameOf(PageAddress(i, n))
  BY <1>0
<1>2. f \in Nat /\ PageAddress(i, n) = f * PAGE /\ Lo(i) <= f * PAGE /\ f * PAGE + PAGE <= Hi(i)
  BY <1>1, PageIsFrame
<1>3. f * PAGE \in Nat /\ Lo(i) \in Nat /\ Hi(i) \in Nat /\ PAGE \in Nat \ {0}
  BY <1>2, FrameAt, BoundsType, PageAssumption DEF Verified, TypeOK
<1>4. Covers(i, f * PAGE)
  <2> DEFINE x == f * PAGE
  <2>1. x \in Nat /\ Lo(i) <= x /\ x + PAGE <= Hi(i)
    BY <1>2, <1>3
  <2> HIDE DEF x
  <2>2. Lo(i) <= x /\ x < Hi(i)
    BY <1>3, <2>1
  <2> QED BY <2>2 DEF x, Covers
<1>5. placed[i].fill # "mmio"
  <2>1. 1 .. 0 = {}
    OBVIOUS
  <2> QED BY <2>1, NoPagesInApertures
<1> QED BY <1>2, <1>3, <1>4, <1>5

\* Every frame of a region that holds data is in memory.
LEMMA FrameOfData ==
  ASSUME Verified, NEW i \in DOMAIN placed, placed[i].fill = "measured", placed[i].len > 0,
         NEW f \in Nat, Covers(i, f * PAGE)
  PROVE  f \in GuestFrames
<1>1. placed \in Seq(Region) /\ placed[i].len \in Nat /\ PAGE \in Nat \ {0} /\ PageCount(i) \in Nat
      /\ placed[i] \in Region
  BY CountType, BoundsType, PageAssumption, WordAssumption DEF Verified, TypeOK, Region
<1>2. Span(placed[i]) = PageCount(i) * PAGE
  <2>1. CASE FirstAt(ZERO_PAGE, i) \/ FirstAt(SHIM_PAGE, i)
    <3>1. Span(placed[i]) = PAGE /\ Filled(i).fill = "measured" /\ Filled(i).len = PAGE
      BY <1>1, <2>1, FilledSpan DEF Verified, Measured
    <3>2. PageCount(i) = 1
      BY <1>1, <3>1, Count, OnePage
    <3> QED BY <1>1, <3>1, <3>2
  <2>2. CASE ~(FirstAt(ZERO_PAGE, i) \/ FirstAt(SHIM_PAGE, i))
    <3>1. Filled(i) = placed[i]
      BY <2>2 DEF Filled
    <3> DEFINE q == (placed[i].len + PAGE - 1) \div PAGE
    <3>2. q \in Nat /\ (q * PAGE) \div PAGE = q /\ q * PAGE \in Nat
      BY <1>1, Rounded
    <3>3. align_up(placed[i].len, PAGE) = q * PAGE
      BY DEF align_up
    <3>4. PageCount(i) = q
      BY <1>1, <3>1, <3>2, <3>3, Count
    <3>5. q >= 1
      <4>1. placed[i].len + PAGE - 1 >= PAGE
        BY <1>1
      <4> QED BY <1>1, <4>1
    <3> HIDE DEF q
    <3>6. q * PAGE >= PAGE
      <4>1. 0 < q /\ 0 \in Nat /\ 0 * PAGE = 0
        BY <1>1, <3>2, <3>5
      <4> QED BY <1>1, <3>2, <4>1, Multiples
    <3> QED BY <1>1, <3>2, <3>3, <3>4, <3>6 DEF Span, Max2
  <2> QED BY <2>1, <2>2
<1>3. Hi(i) = Lo(i) + PageCount(i) * PAGE
  BY <1>2 DEF Verified, NoWrap, Hi, Lo, Wrap
<1>4. PICK l \in Nat : Lo(i) = l * PAGE
  <2>1. Whole(Lo(i))
    BY <1>1, WholeBounds DEF Verified
  <2> QED BY <2>1 DEF Whole
<1>5. Hi(i) = (l + PageCount(i)) * PAGE
  BY <1>1, <1>3, <1>4
<1>6. l <= f /\ f < l + PageCount(i)
  <2>1. l + PageCount(i) \in Nat
    BY <1>1
  <2>2. /\ f < l <=> f * PAGE < l * PAGE
        /\ f < l + PageCount(i) <=> f * PAGE < (l + PageCount(i)) * PAGE
        /\ f * PAGE \in Nat /\ l * PAGE \in Nat
    BY <2>1, FrameOrder
  <2>3. l * PAGE <= f * PAGE /\ f * PAGE < (l + PageCount(i)) * PAGE
    BY <1>4, <1>5 DEF Covers
  <2> DEFINE x == f * PAGE
             y == l * PAGE
  <2>4. x \in Nat /\ y \in Nat /\ y <= x /\ (f < l <=> x < y)
    BY <2>2, <2>3
  <2> HIDE DEF x, y
  <2>5. ~(f < l)
    BY <2>4
  <2> QED BY <2>2, <2>3, <2>5
<1> DEFINE n == f - l + 1
<1>7. n \in 1 .. PageCount(i) /\ n - 1 = f - l /\ n - 1 \in Nat
  BY <1>1, <1>6
<1>8. PageAddress(i, n) = f * PAGE
  <2>1. PageAddress(i, n) = l * PAGE + (f - l) * PAGE
    BY <1>4, <1>7 DEF PageAddress, Lo
  <2>2. PICK d \in Nat : f = l + d
    <3>1. f - l \in Nat /\ f = l + (f - l)
      BY <1>6
    <3> QED BY <3>1
  <2>3. f - l = d
    BY <2>2
  <2>4. l * PAGE + d * PAGE = (l + d) * PAGE
    BY <1>1
  <2> QED BY <2>1, <2>2, <2>3, <2>4
<1>9. FrameOf(PageAddress(i, n)) = f
  BY <1>8, FrameAt
<1> HIDE DEF n
<1> QED BY <1>7, <1>9, GuestFramesAre

\* The ranges in the shim's data block are those of the accept list, in frames.
LEMMA RangesAre ==
  ASSUME Verified
  PROVE  /\ GuestRanges \in Seq(Nat \X Nat)
         /\ DOMAIN GuestRanges = DOMAIN accept
         /\ \A n \in DOMAIN accept :
              /\ accept[n] \in Nat \X Nat
              /\ GuestRanges[n] = <<FrameOf(accept[n][1]), FrameOf(accept[n][2])>>
              /\ FrameOf(accept[n][1]) \in Nat /\ FrameOf(accept[n][2]) \in Nat
<1>1. accept \in Seq(Nat \X Nat) /\ GuestAccept = accept
  BY DEF Verified, TypeOK, GuestIsTheMap
<1>2. \A n \in DOMAIN accept :
        accept[n] \in Nat \X Nat /\ FrameOf(accept[n][1]) \in Nat /\ FrameOf(accept[n][2]) \in Nat
  <2>1. \A n \in DOMAIN accept : accept[n] \in Nat \X Nat /\ accept[n][1] \in Nat /\ accept[n][2] \in Nat
    BY <1>1
  <2>2. \A a \in Nat : FrameOf(a) \in Nat
    BY InFrame
  <2> QED BY <2>1, <2>2
<1>3. GuestRanges = [n \in DOMAIN accept |-> <<FrameOf(accept[n][1]), FrameOf(accept[n][2])>>]
  BY <1>1 DEF GuestRanges
<1>4. DOMAIN accept = 1 .. Len(accept) /\ Len(accept) \in Nat
  BY <1>1
<1>5. GuestRanges \in Seq(Nat \X Nat)
  <2> DEFINE r == [n \in 1 .. Len(accept) |-> <<FrameOf(accept[n][1]), FrameOf(accept[n][2])>>]
  <2>1. \A n \in 1 .. Len(accept) : <<FrameOf(accept[n][1]), FrameOf(accept[n][2])>> \in Nat \X Nat
    BY <1>2, <1>4
  <2>2. r \in [1 .. Len(accept) -> Nat \X Nat]
    BY <2>1
  <2>3. GuestRanges = r
    BY <1>3, <1>4
  <2> HIDE DEF r
  <2> QED BY <1>4, <2>2, <2>3, SequenceOf
<1> QED BY <1>2, <1>3, <1>5

\* A frame is listed if its first address is.
LEMMA ListedFrame ==
  ASSUME Verified, NEW n \in DOMAIN accept, NEW a \in Nat
  PROVE  /\ FrameOf(a) \in GuestRanges[n][1] .. GuestRanges[n][2] - 1 <=> RangeCovers(n, a)
         /\ RangeCovers(n, a) <=> RangeCovers(n, FrameOf(a) * PAGE)
<1>1. /\ accept[n] \in Nat \X Nat /\ Whole(accept[n][1]) /\ Whole(accept[n][2])
      /\ GuestRanges[n] = <<FrameOf(accept[n][1]), FrameOf(accept[n][2])>>
  BY RangesAre DEF Verified
<1>2. accept[n][1] \in Nat /\ accept[n][2] \in Nat
  BY <1>1
<1>3. FrameOf(a) \in Nat /\ FrameOf(accept[n][1]) \in Nat /\ FrameOf(accept[n][2]) \in Nat
  BY <1>1, <1>2, InFrame
<1>4. /\ accept[n][1] <= a <=> accept[n][1] <= FrameOf(a) * PAGE
      /\ a < accept[n][2] <=> FrameOf(a) * PAGE < accept[n][2]
      /\ accept[n][1] <= a <=> FrameOf(accept[n][1]) <= FrameOf(a)
      /\ a < accept[n][2] <=> FrameOf(a) < FrameOf(accept[n][2])
  BY <1>1, <1>2, FrameInside
<1>5. RangeCovers(n, a) <=> RangeCovers(n, FrameOf(a) * PAGE)
  BY <1>4 DEF RangeCovers
<1>6. FrameOf(a) \in GuestRanges[n][1] .. GuestRanges[n][2] - 1
        <=> FrameOf(accept[n][1]) <= FrameOf(a) /\ FrameOf(a) < FrameOf(accept[n][2])
  BY <1>1, <1>3
<1> QED BY <1>4, <1>5, <1>6 DEF RangeCovers

\* What a shim is handed is well formed: its ranges are in order, none is empty, and no
\* frame of any of them was imported.
LEMMA HandedWellFormed ==
  ASSUME Verified
  PROVE  /\ GuestFrames \subseteq Nat
         /\ GuestRanges \in Seq(Nat \X Nat)
         /\ \A n \in DOMAIN GuestRanges :
              /\ GuestRanges[n][1] < GuestRanges[n][2]
              /\ (GuestRanges[n][1] .. GuestRanges[n][2] - 1) \cap GuestFrames = {}
              /\ \A m \in DOMAIN GuestRanges : n < m => GuestRanges[n][2] <= GuestRanges[m][1]
<1>1. GuestFrames \subseteq Nat
  BY ImportedFrame
<1>2. ASSUME NEW n \in DOMAIN accept
      PROVE  /\ GuestRanges[n][1] < GuestRanges[n][2]
             /\ \A m \in DOMAIN accept : n < m => GuestRanges[n][2] <= GuestRanges[m][1]
  <2>1. /\ accept[n] \in Nat \X Nat /\ Whole(accept[n][1]) /\ Whole(accept[n][2])
        /\ accept[n][1] < accept[n][2]
        /\ GuestRanges[n] = <<FrameOf(accept[n][1]), FrameOf(accept[n][2])>>
    BY RangesAre DEF Verified
  <2>2. accept[n][1] \in Nat /\ accept[n][2] \in Nat
    BY <2>1
  <2>3. FrameOf(accept[n][1]) < FrameOf(accept[n][2])
    BY <2>1, <2>2, FrameInside
  <2>4. ASSUME NEW m \in DOMAIN accept, n < m PROVE GuestRanges[n][2] <= GuestRanges[m][1]
    <3>1. /\ accept[m] \in Nat \X Nat /\ Whole(accept[m][1])
          /\ accept[n][2] <= accept[m][1]
          /\ GuestRanges[m] = <<FrameOf(accept[m][1]), FrameOf(accept[m][2])>>
      BY <2>4, RangesAre DEF Verified
    <3>2. accept[m][1] \in Nat
      BY <3>1
    <3>3. FrameOf(accept[n][2]) <= FrameOf(accept[m][1])
      BY <2>1, <2>2, <3>1, <3>2, FrameInside
    <3> QED BY <2>1, <3>1, <3>3
  <2> QED BY <2>1, <2>3, <2>4
<1>3. ASSUME NEW n \in DOMAIN accept, NEW f \in GuestFrames, f \in GuestRanges[n][1] .. GuestRanges[n][2] - 1
      PROVE  FALSE
  <2>1. f \in Nat /\ f * PAGE \in Nat /\ \E i \in DOMAIN placed : Covers(i, f * PAGE)
    BY ImportedFrame
  <2>2. FrameOf(f * PAGE) = f
    BY <2>1, FrameAt
  <2>3. RangeCovers(n, f * PAGE)
    BY <1>3, <2>1, <2>2, ListedFrame
  <2> QED BY <2>1, <2>3 DEF Verified
<1> QED BY <1>1, <1>2, <1>3, RangesAre

\* Every frame of RAM is in memory or listed (RamIsPrivate, in frames).
LEMMA RamIsHanded ==
  ASSUME Verified, NoEmptyRam
  PROVE  RamFrames \subseteq GuestFrames \cup ListedFrames
<1> SUFFICES ASSUME NEW f \in RamFrames, f \notin GuestFrames PROVE f \in ListedFrames
  OBVIOUS
<1>1. e820 \in Seq(Entry) /\ GuestE820 = e820 /\ placed \in Seq(Region)
  BY DEF Verified, TypeOK, GuestIsTheMap, Entry, Kinds
<1>2. PICK n \in DOMAIN e820 :
        e820[n].kind = RAM /\ \E a \in e820[n].base .. e820[n].base + e820[n].size - 1 : f = FrameOf(a)
  BY <1>1 DEF RamFrames, FramesOf
<1>3. PICK a \in e820[n].base .. e820[n].base + e820[n].size - 1 : f = FrameOf(a)
  BY <1>2
<1>4. e820[n] \in Entry
  BY <1>1
<1>5. a \in Nat /\ EntryCovers(n, a)
  BY <1>4 DEF Entry, EntryCovers
<1>6. a < memory /\ KindAt(a, RAM)
  BY <1>2, <1>5 DEF Verified
<1>7. ASSUME NEW i \in DOMAIN placed, Covers(i, a) PROVE FALSE
  <2>1. PICK j \in DOMAIN placed : Covers(j, a) /\ placed[j].e820 = RAM
    BY <1>6, <1>7 DEF KindAt
  <2>2. placed[j].fill = "measured" /\ placed[j].len > 0
    <3>1. placed[j].fill \in {"measured", "host", "mmio"}
      BY <1>1, BoundsType DEF Region
    <3>2. (placed[j].fill = "host" => placed[j].e820 = RESERVED) /\ (placed[j].fill = "mmio" => placed[j].e820 = ABSENT)
      BY DEF Verified, BuiltMap
    <3>3. RAM # RESERVED /\ RAM # ABSENT
      BY DEF RAM, RESERVED, ABSENT
    <3> QED BY <2>1, <3>1, <3>2, <3>3 DEF NoEmptyRam
  <2>3. Lo(j) \in Nat /\ Hi(j) \in Nat /\ Whole(Lo(j)) /\ Whole(Hi(j))
    BY <1>1, BoundsType, WholeBounds DEF Verified
  <2>4. Covers(j, f * PAGE)
    BY <1>3, <1>5, <2>1, <2>3, FrameInside DEF Covers
  <2>5. f \in Nat
    BY <1>3, <1>5, InFrame
  <2> QED BY <2>2, <2>4, <2>5, FrameOfData
<1>8. PICK m \in DOMAIN accept : RangeCovers(m, a)
  BY <1>5, <1>6, <1>7 DEF Verified
<1>9. f \in GuestRanges[m][1] .. GuestRanges[m][2] - 1
  BY <1>3, <1>5, <1>8, ListedFrame
<1> QED BY <1>9, RangesAre DEF ListedFrames

\* A frame of a region whose span is not in the file is in memory by no other way, and is
\* not listed.
LEMMA ApertureIsLeftOut ==
  ASSUME Verified
  PROVE  ApertureFrames \cap (GuestFrames \cup ListedFrames) = {}
<1> SUFFICES ASSUME NEW f \in ApertureFrames, f \in GuestFrames \cup ListedFrames PROVE FALSE
  OBVIOUS
<1>1. placed \in Seq(Region)
  BY DEF Verified, TypeOK
<1>2. PICK i \in DOMAIN placed :
        placed[i].fill = "mmio" /\ \E a \in placed[i].base .. placed[i].base + placed[i].len - 1 : f = FrameOf(a)
  BY DEF ApertureFrames, FramesOf
<1>3. PICK a \in placed[i].base .. placed[i].base + placed[i].len - 1 : f = FrameOf(a)
  BY <1>2
<1>4. placed[i].base \in Nat /\ placed[i].len \in Nat
  BY <1>1, BoundsType, WordAssumption DEF Region
<1>5. Lo(i) = placed[i].base /\ Hi(i) = placed[i].base + placed[i].len
  BY <1>2 DEF Verified, NoWrap, Lo, Hi, Wrap, Span
<1>6. a \in Nat /\ Covers(i, a)
  BY <1>4, <1>5 DEF Covers
<1>7. Lo(i) \in Nat /\ Hi(i) \in Nat /\ Whole(Lo(i)) /\ Whole(Hi(i))
  BY <1>1, BoundsType, WholeBounds DEF Verified
<1>8. Covers(i, f * PAGE) /\ f \in Nat /\ f * PAGE \in Nat
  BY <1>3, <1>6, <1>7, FrameInside, InFrame DEF Covers
<1>9. CASE f \in GuestFrames
  <2>1. PICK j \in DOMAIN placed : placed[j].fill # "mmio" /\ Covers(j, f * PAGE)
    BY <1>9, ImportedFrame
  <2>2. i # j /\ Disjoint(i, j)
    BY <1>2, <2>1 DEF Verified, AllDisjoint
  <2>3. Lo(j) \in Nat /\ Hi(j) \in Nat
    BY <1>1, BoundsType
  <2> DEFINE x == f * PAGE
  <2>4. x \in Nat /\ Lo(i) <= x /\ x < Hi(i) /\ Lo(j) <= x /\ x < Hi(j)
    BY <1>8, <2>1 DEF Covers
  <2> HIDE DEF x
  <2> QED BY <1>7, <2>2, <2>3, <2>4 DEF Disjoint
<1>10. CASE f \in ListedFrames
  <2>1. PICK m \in DOMAIN GuestRanges : f \in GuestRanges[m][1] .. GuestRanges[m][2] - 1
    BY <1>10 DEF ListedFrames
  <2>2. m \in DOMAIN accept
    BY RangesAre
  <2>3. RangeCovers(m, a)
    BY <1>3, <1>6, <2>1, <2>2, ListedFrame
  <2> QED BY <1>6, <2>2, <2>3 DEF Verified
<1> QED BY <1>9, <1>10
=============================================================================
