--------------------------- MODULE SnpBootProofs ----------------------------
(***************************************************************************)
(* Proofs about SnpBoot, for every built map, every page size of the host, *)
(* every delivery of the file and every number of processors.              *)
(*                                                                         *)
(* Until the launch the composition is an image in the sense of Image;     *)
(* what ImageProofs shows of one survives the launch, which only forgets   *)
(* what the host had delivered (ImagesStep).  What the shim is then handed *)
(* is well formed and has the lent page in it, which is all that           *)
(* SnpShimProofs asks for: HandOver carries its invariant from the launch  *)
(* on, through the wake of the other processors.                           *)
(***************************************************************************)
EXTENDS SnpBoot, ImageProofs

\* The shim's own proofs, about the variables of the composition.
SP == INSTANCE SnpShimProofs WITH GHCB <- SNP_GHCB \div PAGE, Images <- {}

-----------------------------------------------------------------------------
(* The composition keeps what is known of an image.                        *)

ImagesFacts == PlacementInv /\ ImageInv /\ AlignedInv /\ RequiredInv

\* The launch forgets the delivery, and nothing that is known rests on it by then.
LEMMA LaunchImage ==
  ASSUME ImagesFacts, Launch
  PROVE  ImagesFacts'
<1>1. /\ phase = "verified" /\ UNCHANGED vars
      /\ UNCHANGED <<opts, phase, file, spans, launch, next, guest, log, vps, signed>>
  BY DEF Launch
<1>2. PlacementInv' /\ AlignedInv'
  BY <1>1, NextInv, AlignedStays DEF ImagesFacts
<1>3. /\ step' = step /\ (Full' <=> Full) /\ (NoWrap' <=> NoWrap) /\ (AllNormal' <=> AllNormal)
  BY <1>1, SamePages DEF AllNormal
<1>4. GuestIsTheMap' <=> GuestIsTheMap
  BY <1>1, SameGuest
<1>5. ImageInv'
  <2>1. NoWrap => DigestIffImage'
    BY <1>1, <1>4 DEF ImagesFacts, ImageInv, DigestIffImage
  <2>2. opts' = opts /\ phase' = "verified" /\ spans' = spans
    BY <1>1
  <2>3. opts \in Options /\ step = "built" /\ Full /\ AllNormal /\ spans \in Seq(Nat \X Nat)
    BY <1>1 DEF ImagesFacts, ImageInv
  <2> QED BY <1>3, <2>1, <2>2, <2>3 DEF ImageInv, Phases
<1>6. RequiredInv'
  <2>1. UNCHANGED <<e820, file, spans>> /\ phase' = phase /\ next' = next
    BY <1>1 DEF vars
  <2> QED BY <1>1, <2>1, RequiredStays DEF ImagesFacts
<1> QED BY <1>2, <1>5, <1>6 DEF ImagesFacts

\* Every other step is one of the derivation, one of the image, or leaves both alone.
LEMMA ImagesStep ==
  ASSUME ImagesFacts, [BootNext]_bootVars
  PROVE  ImagesFacts'
<1>1. \/ Next /\ UNCHANGED image
      \/ ImageStep /\ UNCHANGED vars
      \/ UNCHANGED <<vars, image>>
      \/ Launch
  BY DEF BootNext, Build, Load, BootProcessor, OtherProcessor, AtRest, bootVars, Next
<1>2. TypeOK /\ ValidatedDisjoint
  BY DEF ImagesFacts, PlacementInv, Safety
<1>3. CASE Next /\ UNCHANGED image
  <2>1. PlacementInv' /\ ImageInv' /\ AlignedInv' /\ RequiredInv'
    BY <1>2, <1>3, NextInv, DerivationInv, AlignedStep, RequiredStep DEF ImagesFacts
  <2> QED BY <2>1 DEF ImagesFacts
<1>4. CASE ImageStep /\ UNCHANGED vars
  <2>1. PlacementInv' /\ ImageInv' /\ AlignedInv' /\ RequiredInv'
    BY <1>2, <1>4, NextInv, ImageStepInv, AlignedStays, RequiredStep DEF ImagesFacts
  <2> QED BY <2>1 DEF ImagesFacts
<1>5. CASE UNCHANGED <<vars, image>>
  <2>1. PlacementInv' /\ ImageInv' /\ AlignedInv' /\ RequiredInv'
    BY <1>2, <1>5, NextInv, ImageStutter, AlignedStays, RequiredStep DEF ImagesFacts
  <2> QED BY <2>1 DEF ImagesFacts
<1> QED BY <1>1, <1>3, <1>4, <1>5, LaunchImage

\* Nothing is known to be wrong at the start.
LEMMA ImagesInit == BootInit => ImagesFacts
BY InitInv, ImageInitInv, AlignedInit, RequiredInit DEF BootInit, ImagesFacts

-----------------------------------------------------------------------------
(* The shim in the composition is the shim of SnpShimProofs.               *)

\* The two instances of SnpShim are the same shim.
LEMMA SameShim ==
  /\ S!ShimStep <=> SP!ShimStep
  /\ \A a \in APs : (S!ApStep(a) <=> SP!ApStep(a)) /\ (S!Resume(a) <=> SP!Resume(a)) /\ (S!Create(a) <=> SP!Create(a))
<1> USE DEF S!data, SP!data, S!regs, SP!regs, S!wake, SP!wake, S!others, SP!others
<1>1. (S!ValidateNext <=> SP!ValidateNext) /\ (S!ValidateRange <=> SP!ValidateRange)
  BY DEF S!ValidateNext, SP!ValidateNext, S!ValidateRange, SP!ValidateRange, S!FitsHuge, SP!FitsHuge,
         S!Terminator, SP!Terminator, S!Block, SP!Block
<1>2. (S!Validate2M <=> SP!Validate2M) /\ (S!Validate4K <=> SP!Validate4K)
  BY DEF S!Validate2M, SP!Validate2M, S!Validate4K, SP!Validate4K, S!LargePage, SP!LargePage,
         S!Pvalidate, SP!Pvalidate, S!Answered, SP!Answered, S!FAIL_INPUT, SP!FAIL_INPUT,
         S!FAIL_SIZEMISMATCH, SP!FAIL_SIZEMISMATCH
<1>3. (S!Zero2M <=> SP!Zero2M) /\ (S!Zero4K <=> SP!Zero4K)
  BY DEF S!Zero2M, SP!Zero2M, S!Zero4K, SP!Zero4K, S!Zero, SP!Zero, S!LargePage, SP!LargePage
<1> USE DEF S!Step, SP!Step, S!Numbered, SP!Numbered, S!Grant, SP!Grant, S!Refuse, SP!Refuse
<1>4. (S!Rescind <=> SP!Rescind) /\ (S!Share <=> SP!Share) /\ (S!Register <=> SP!Register)
  BY DEF S!Rescind, SP!Rescind, S!Share, SP!Share, S!Register, SP!Register
<1>5. (S!Init <=> SP!Init) /\ (S!Sipi1 <=> SP!Sipi1) /\ (S!Sipi2 <=> SP!Sipi2)
  BY DEF S!Init, SP!Init, S!ZeroGhcb, SP!ZeroGhcb, S!Sipi1, SP!Sipi1, S!Sipi2, SP!Sipi2, S!SendIpi, SP!SendIpi
<1>6. (S!Unshare <=> SP!Unshare) /\ (S!Revalidate <=> SP!Revalidate)
  BY DEF S!Unshare, SP!Unshare, S!Revalidate, SP!Revalidate
<1>7. (S!BootKernel <=> SP!BootKernel) /\ (S!Die <=> SP!Die) /\ (S!DieWake <=> SP!DieWake)
  BY DEF S!BootKernel, SP!BootKernel, S!Die, SP!Die, S!DieWake, SP!DieWake, S!WAKE_SET, SP!WAKE_SET
<1>8. ASSUME NEW a \in APs
      PROVE  (S!ApStep(a) <=> SP!ApStep(a)) /\ (S!Resume(a) <=> SP!Resume(a)) /\ (S!Create(a) <=> SP!Create(a))
  BY DEF S!ApStep, SP!ApStep, S!TakeInit, SP!TakeInit, S!TakeSipi, SP!TakeSipi, S!Park, SP!Park,
         S!Resume, SP!Resume, S!Create, SP!Create
<1> QED BY <1>1, <1>2, <1>3, <1>4, <1>5, <1>6, <1>7, <1>8 DEF S!ShimStep, SP!ShimStep

\* A step of the shim, or of a processor it has woken, keeps its invariant.
LEMMA ShimKeeps ==
  ASSUME SP!SnpInv,
         S!ShimStep \/ UNCHANGED shim \/ \E a \in APs : S!ApStep(a) \/ S!Resume(a) \/ S!Create(a)
  PROVE  SP!SnpInv'
<1>1. HUGE \in Nat \ {0, 1}
  BY BootAssumption
<1> USE <1>1 DEF SP!HugeAssumption, SP!ImagesAssumption, SP!GhcbAssumption
<1>2. SP!SnpInv /\ SP!ValidateNext => SP!SnpInv'
  BY SP!NextRangeInv
<1>3. SP!SnpInv /\ SP!ValidateRange => SP!SnpInv'
  BY SP!RangeStepInv
<1>4. SP!SnpInv /\ SP!Validate2M => SP!SnpInv'
  BY SP!Validate2MInv
<1>5. SP!SnpInv /\ SP!Validate4K => SP!SnpInv'
  BY SP!Validate4KInv
<1>6. SP!SnpInv /\ (SP!Zero2M \/ SP!Zero4K) => SP!SnpInv'
  BY SP!ZeroStepsInv
<1>7. SP!SnpInv /\ (SP!Rescind \/ SP!Share \/ SP!Register) => SP!SnpInv'
  BY SP!LendInv
<1>8. SP!SnpInv /\ (SP!Init \/ SP!Sipi1 \/ SP!Sipi2) => SP!SnpInv'
  BY SP!SendInv
<1>9. SP!SnpInv /\ (SP!Unshare \/ SP!Revalidate) => SP!SnpInv'
  BY SP!TakeBackInv
<1>10. SP!SnpInv /\ SP!BootKernel => SP!SnpInv'
  BY SP!EnterInv
<1>11. SP!SnpInv /\ SP!Die => SP!SnpInv'
  BY SP!DieReports
<1>12. SP!SnpInv /\ SP!DieWake => SP!SnpInv'
  BY SP!DieWakeReports
<1>13. CASE S!ShimStep
  BY <1>2, <1>3, <1>4, <1>5, <1>6, <1>7, <1>8, <1>9, <1>10, <1>11, <1>12, <1>13, SameShim DEF SP!ShimStep
<1>14. CASE \E a \in APs : S!ApStep(a) \/ S!Resume(a) \/ S!Create(a)
  <2>1. PICK a \in APs : SP!ApStep(a) \/ SP!Resume(a) \/ SP!Create(a)
    BY <1>14, SameShim
  <2> QED BY <2>1, SP!ApsInv
<1>15. CASE UNCHANGED shim
  <2>1. UNCHANGED SP!snpVars
    BY <1>15 DEF shim, SP!snpVars, SP!data, SP!regs, SP!wake
  <2> QED BY <2>1, SP!StutterInv
<1> QED BY <1>13, <1>14, <1>15


-----------------------------------------------------------------------------
(* The lent page.                                                          *)

\* The frame the shim lends is one a region of the map begins with: the builder has placed
\* it, reserved and a page long (layout.rs 196).
LEMMA GhcbIsPlaced ==
  ASSUME Verified
  PROVE  /\ SNP_GHCB \div PAGE \in Nat
         /\ (SNP_GHCB \div PAGE) * PAGE = SNP_GHCB /\ SNP_GHCB \in Nat
         /\ \E i \in DOMAIN placed :
              /\ placed[i].fill = "measured" /\ placed[i].len > 0 /\ placed[i].e820 = RESERVED
              /\ Covers(i, SNP_GHCB)
<1>1. PAGE \in Nat \ {0} /\ 279 \in Nat /\ SNP_GHCB = 279 * PAGE
  BY PageAssumption DEF SNP_GHCB
<1>2. 279 * PAGE \in Nat /\ FrameOf(279 * PAGE) = 279
  BY FrameAt
<1>3. SNP_GHCB \in Nat /\ SNP_GHCB \div PAGE = 279
  BY <1>1, <1>2 DEF FrameOf
<1>4. PICK i \in DOMAIN placed : placed[i] = Measured(SNP_GHCB, RESERVED, PAGE)
  BY BootAssumption DEF Verified, BuiltMap, Blanks
<1>5. placed[i].fill = "measured" /\ placed[i].len > 0 /\ placed[i].e820 = RESERVED /\ Lo(i) = SNP_GHCB
  BY <1>1, <1>4 DEF Measured, Lo
<1>6. Span(placed[i]) \in Nat /\ Span(placed[i]) >= PAGE
  <2>1. align_up(PAGE, PAGE) \in Int /\ placed[i] \in Region
    BY <1>1, AlignIsInt, BoundsType DEF Verified, TypeOK
  <2> QED BY <1>1, <1>4, <2>1, SpanType DEF Span, Measured, Max2
<1>7. Hi(i) = Lo(i) + Span(placed[i])
  BY DEF Verified, NoWrap, Hi, Lo, Wrap
<1>8. Covers(i, SNP_GHCB)
  BY <1>1, <1>3, <1>5, <1>6, <1>7 DEF Covers
<1> QED BY <1>1, <1>3, <1>5, <1>8

\* The loader has imported it.
LEMMA GhcbIsImported == Verified => SNP_GHCB \div PAGE \in GuestFrames
BY GhcbIsPlaced, FrameOfData

\* No entry of the E820 map calls any of it RAM.
LEMMA GhcbIsNotRam ==
  ASSUME Verified
  PROVE  SNP_GHCB \div PAGE \notin RamFrames
<1> DEFINE g == SNP_GHCB \div PAGE
<1> SUFFICES ASSUME g \in RamFrames PROVE FALSE
  OBVIOUS
<1>1. e820 \in Seq(Entry) /\ GuestE820 = e820 /\ placed \in Seq(Region)
  BY DEF Verified, TypeOK, GuestIsTheMap, Entry, Kinds
<1>2. PICK n \in DOMAIN e820 :
        e820[n].kind = RAM /\ \E a \in e820[n].base .. e820[n].base + e820[n].size - 1 : g = FrameOf(a)
  BY <1>1 DEF RamFrames, FramesOf
<1>3. PICK a \in e820[n].base .. e820[n].base + e820[n].size - 1 : g = FrameOf(a)
  BY <1>2
<1>4. a \in Nat /\ EntryCovers(n, a)
  <2>1. e820[n] \in Entry
    BY <1>1
  <2> QED BY <2>1 DEF Entry, EntryCovers
<1>5. KindAt(a, RAM)
  BY <1>2, <1>4 DEF Verified
<1>6. PICK i \in DOMAIN placed : placed[i].e820 = RESERVED /\ Covers(i, SNP_GHCB)
  BY GhcbIsPlaced
<1>7. \A k \in DOMAIN placed : Lo(k) \in Nat /\ Hi(k) \in Nat /\ Whole(Lo(k)) /\ Whole(Hi(k))
  BY <1>1, BoundsType, WholeBounds DEF Verified
<1>8. FrameOf(a) * PAGE = SNP_GHCB
  BY <1>3, GhcbIsPlaced
<1>9. Covers(i, a)
  BY <1>4, <1>6, <1>7, <1>8, FrameInside DEF Covers
<1>10. PICK j \in DOMAIN placed : placed[j].e820 = RAM /\ Covers(j, a)
  BY <1>5, <1>9 DEF KindAt
<1>11. i # j
  BY <1>6, <1>10 DEF RAM, RESERVED
<1>12. Disjoint(i, j)
  BY <1>11 DEF Verified, AllDisjoint
<1>13. Lo(i) \in Nat /\ Hi(i) \in Nat /\ Lo(j) \in Nat /\ Hi(j) \in Nat
  BY <1>7
<1>14. Lo(i) <= a /\ a < Hi(i) /\ Lo(j) <= a /\ a < Hi(j)
  BY <1>9, <1>10 DEF Covers
<1> QED BY <1>4, <1>12, <1>13, <1>14 DEF Disjoint

-----------------------------------------------------------------------------
(* From the launch on.                                                     *)

\* The shim has not been started; or it has, over what the guest has in memory, and keeps
\* its invariant, which speaks of the other processors too.
HandOver ==
  /\ pc = "off" =>
       /\ rbp = 1 /\ r12 = 0 /\ r13 = 0 /\ r15 = 0 /\ bl = FALSE
       /\ clear = {} /\ ghcb = "private" /\ granted = 0
       /\ report = [set |-> 0, code |-> 0]
       /\ ap = [a \in APs |-> "wait"] /\ pend = [a \in APs |-> {}]
  /\ pc # "off" => phase = "verified" /\ imported = GuestFrames /\ ranges = GuestRanges
  /\ pc # "off" /\ NoWrap => SP!SnpInv

\* What the guest found in its memory stays there.
LEMMA SameHanded ==
  ASSUME UNCHANGED <<vars, guest, phase>>
  PROVE  /\ GuestFrames' = GuestFrames /\ GuestRanges' = GuestRanges
         /\ phase' = phase /\ (NoWrap' <=> NoWrap)
<1>1. UNCHANGED vars /\ guest' = guest /\ phase' = phase
  OBVIOUS
<1> QED BY <1>1, SamePages DEF GuestFrames, GuestRanges, GuestAccept

\* A shim over a well-formed list, at its first label.
LEMMA FreshShim ==
  ASSUME Verified, HandOver, Launch
  PROVE  SP!SnpInv'
<1>1. /\ pc' = "validate_next" /\ imported' = GuestFrames /\ private' = GuestFrames /\ ranges' = GuestRanges
      /\ rbp' = 1 /\ r12' = 0 /\ r13' = 0 /\ r15' = 0 /\ bl' = FALSE
      /\ clear' = {} /\ ghcb' = "private" /\ granted' = 0
      /\ report' = [set |-> 0, code |-> 0]
      /\ ap' = [a \in APs |-> "wait"] /\ pend' = [a \in APs |-> {}]
  BY DEF Launch, HandOver
<1>2. /\ imported' \subseteq Nat
      /\ ranges' \in Seq(Nat \X Nat)
      /\ \A n \in DOMAIN ranges' :
           /\ ranges'[n][1] < ranges'[n][2]
           /\ (ranges'[n][1] .. ranges'[n][2] - 1) \cap imported' = {}
           /\ \A m \in DOMAIN ranges' : n < m => ranges'[n][2] <= ranges'[m][1]
  BY <1>1, HandedWellFormed
<1>3. SP!SnpTypeOK'
  <2>1. rbp' \in 1 .. Len(ranges') + 1
    BY <1>1, <1>2
  <2>2. bl' \in BOOLEAN
    BY <1>1, Zenon
  <2>3. report' \in [set: 0 .. 15, code: 0 .. 255]
    BY <1>1
  <2>4. /\ ap' \in [APs -> {"wait", "init", "stub", "held", "created"}]
        /\ pend' \in [APs -> SUBSET {"init", "sipi"}]
    BY <1>1
  <2>5. /\ pc' \in SP!Labels /\ r12' \in Nat /\ r13' \in Nat /\ r15' \in 0 .. 8
        /\ private' \subseteq Nat /\ clear' \subseteq Nat /\ granted' \in 0 .. 8
        /\ ghcb' \in {"private", "rescinded", "shared", "registered", "assigned"}
    BY <1>1, <1>2 DEF SP!Labels
  <2> QED BY <1>2, <2>1, <2>2, <2>3, <2>4, <2>5 DEF SP!SnpTypeOK
<1>4. SP!BlockOK'
  BY <1>2 DEF SP!BlockOK, SP!Frames
<1>5. SP!ValidatedSoFar'
  <2>1. { k \in DOMAIN ranges' : k <= rbp' - 1 } = {}
    BY <1>1, <1>2
  <2>2. SP!FramesUpTo(rbp - 1)' = {}
    BY <2>1 DEF SP!FramesUpTo
  <2> QED BY <1>1, <2>2 DEF SP!ValidatedSoFar, SP!RangeLabels
<1>6. SP!WakeSoFar'
  BY <1>1 DEF SP!WakeSoFar, SP!Quiet, SP!RangeLabels, SP!WakeLabels
<1>7. SNP_GHCB \div PAGE \in imported'
  BY <1>1, GhcbIsImported
<1> QED BY <1>1, <1>3, <1>4, <1>5, <1>6, <1>7 DEF SP!SnpInv, SP!ReportTellsWhere, SP!OnlyLentZeroed

\* The launch hands the shim what the guest has in memory.
LEMMA LaunchInv ==
  ASSUME ImagesFacts, HandOver, Launch
  PROVE  HandOver'
<1>1. /\ phase = "verified" /\ pc' = "validate_next" /\ UNCHANGED <<vars, guest, phase>>
      /\ imported' = GuestFrames /\ ranges' = GuestRanges
  BY DEF Launch
<1>2. /\ GuestFrames' = GuestFrames /\ GuestRanges' = GuestRanges /\ phase' = phase /\ (NoWrap' <=> NoWrap)
  BY <1>1, SameHanded
<1>3. ASSUME NoWrap PROVE SP!SnpInv'
  BY <1>1, <1>3, VerifiedIs, FreshShim DEF ImagesFacts
<1> QED BY <1>1, <1>2, <1>3 DEF HandOver

\* Shim, processors and host go on over the same list.
LEMMA RunningInv ==
  ASSUME HandOver, BootProcessor \/ AtRest \/ UNCHANGED bootVars \/ \E a \in APs : OtherProcessor(a)
  PROVE  HandOver'
<1>1. UNCHANGED <<vars, guest, phase>>
  BY DEF BootProcessor, AtRest, OtherProcessor, bootVars, image
<1>2. /\ GuestFrames' = GuestFrames /\ GuestRanges' = GuestRanges /\ phase' = phase /\ (NoWrap' <=> NoWrap)
  BY <1>1, SameHanded
<1>3. CASE UNCHANGED shim
  <2>1. UNCHANGED <<imported, ranges, pc, rbp, r12, r13, r15, bl, clear, ghcb, granted, report, ap, pend>>
    BY <1>3 DEF shim
  <2>2. pc # "off" /\ NoWrap => SP!SnpInv'
    BY <1>3, ShimKeeps DEF HandOver
  <2> QED BY <1>2, <2>1, <2>2 DEF HandOver
<1>4. CASE S!ShimStep \/ \E a \in APs : pc # "off" /\ (S!ApStep(a) \/ S!Resume(a) \/ S!Create(a))
  <2>1. pc # "off" /\ pc' # "off" /\ imported' = imported /\ ranges' = ranges
    <3>1. CASE S!ShimStep
      BY <3>1 DEF S!ShimStep, S!ValidateNext, S!ValidateRange, S!Validate2M, S!Validate4K, S!Answered,
             S!Zero2M, S!Zero4K, S!Zero, S!Rescind, S!Share, S!Register, S!Init, S!Sipi1, S!Sipi2,
             S!Unshare, S!Revalidate, S!SendIpi, S!Step, S!Numbered, S!Grant, S!Refuse, S!BootKernel, S!Die, S!DieWake, S!data
    <3>2. CASE \E a \in APs : pc # "off" /\ (S!ApStep(a) \/ S!Resume(a) \/ S!Create(a))
      BY <3>2 DEF S!ApStep, S!TakeInit, S!TakeSipi, S!Park, S!Resume, S!Create, S!others, S!data
    <3> QED BY <1>4, <3>1, <3>2
  <2>2. NoWrap => SP!SnpInv'
    BY <1>4, <2>1, ShimKeeps DEF HandOver
  <2> QED BY <1>2, <2>1, <2>2 DEF HandOver
<1> QED BY <1>3, <1>4 DEF BootProcessor, AtRest, OtherProcessor, bootVars

\* Derivation and image are finished when the shim starts.
LEMMA BeforeLaunchInv ==
  ASSUME ImagesFacts, HandOver, Build \/ Load
  PROVE  HandOver'
<1>1. UNCHANGED shim
  BY DEF Build, Load
<1>2. pc = "off"
  <2> SUFFICES ASSUME phase = "verified" PROVE FALSE
    BY DEF HandOver
  <2>1. step = "built"
    BY DEF ImagesFacts, ImageInv
  <2>2. CASE Build
    BY <2>1, <2>2 DEF Build, Validate, E820, Accept, ValidateDone, RejectRegion, ValidateNext, RejectOverlap,
         E820Done, ZeroPage, RejectE820, E820Next, AcceptDone, ShimDone, RejectShim, AcceptNext
  <2>3. CASE Load
    BY <2>3 DEF Load, ImageStep, WriteFile, CoalesceNext, CoalesceDone, RequireNext, FinishFile, Deliver,
                LoadDirective, Finish
  <2> QED BY <2>2, <2>3
<1> QED BY <1>1, <1>2 DEF HandOver, shim

\* Every step keeps the hand-over.
LEMMA HandOverStep == ImagesFacts /\ HandOver /\ [BootNext]_bootVars => HandOver'
BY LaunchInv, RunningInv, BeforeLaunchInv DEF BootNext

\* The hand-over holds throughout: a guest is launched with what its image says, the page it
\* will lend included, and its shim runs over that, whatever the other processors do
\* (snp_reset.S 40-243).
THEOREM BootInvariant == BootSpec => [](ImagesFacts /\ HandOver)
<1>1. BootInit => ImagesFacts /\ HandOver
  BY ImagesInit DEF BootInit, HandOver
<1>2. ImagesFacts /\ HandOver /\ [BootNext]_bootVars => (ImagesFacts /\ HandOver)'
  BY ImagesStep, HandOverStep
<1> QED BY <1>1, <1>2, PTL DEF BootSpec

-----------------------------------------------------------------------------
(* What a running guest can rely on.                                       *)

\* What the shim counts up to is what the list names.
LEMMA TargetIs ==
  ASSUME ranges = GuestRanges, GuestRanges \in Seq(Nat \X Nat)
  PROVE  SP!Target = imported \cup ListedFrames
<1>1. { k \in DOMAIN ranges : k <= Len(ranges) } = DOMAIN GuestRanges
  <2>1. \A s \in Seq(Nat \X Nat) : { k \in DOMAIN s : k <= Len(s) } = DOMAIN s
    <3> SUFFICES ASSUME NEW s \in Seq(Nat \X Nat) PROVE { k \in DOMAIN s : k <= Len(s) } = DOMAIN s
      OBVIOUS
    <3>1. DOMAIN s = 1 .. Len(s) /\ Len(s) \in Nat
      OBVIOUS
    <3>2. \A k : k \in 1 .. Len(s) => k \in Nat /\ k <= Len(s)
      BY <3>1
    <3>3. \A k \in DOMAIN s : k <= Len(s)
      BY <3>1, <3>2
    <3> QED BY <3>3, Zenon
  <2> QED BY <2>1
<1> QED BY <1>1 DEF SP!Target, SP!FramesUpTo, SP!Frames, ListedFrames

\* Linux is entered with its RAM private and clear where the loader left it, the lent page
\* outside of it and the apertures untouched (boot.rs 264-303, snp_reset.S 42-163).
LEMMA LinuxOwns ==
  ASSUME ImagesFacts, HandOver, NoWrap, NoEmptyRam
  PROVE  LinuxOwnsItsRam
<1> SUFFICES ASSUME pc = "linux"
             PROVE  /\ RamFrames \subseteq private
                    /\ RamFrames \ imported \subseteq clear
                    /\ SNP_GHCB \div PAGE \notin RamFrames
                    /\ ApertureFrames \cap private = {}
  BY DEF LinuxOwnsItsRam
<1>1. phase = "verified" /\ imported = GuestFrames /\ ranges = GuestRanges /\ SP!SnpInv
  BY DEF HandOver
<1>2. Verified
  BY <1>1, VerifiedIs DEF ImagesFacts
<1>3. private = SP!Target /\ SP!Target \ imported \subseteq clear
  BY <1>1 DEF SP!SnpInv, SP!WakeSoFar, SP!Complete
<1>4. GuestRanges \in Seq(Nat \X Nat)
  BY <1>2, HandedWellFormed
<1>5. SP!Target = GuestFrames \cup ListedFrames
  BY <1>1, <1>4, TargetIs
<1>6. RamFrames \subseteq GuestFrames \cup ListedFrames
  BY <1>2, RamIsHanded
<1>7. ApertureFrames \cap (GuestFrames \cup ListedFrames) = {}
  BY <1>2, ApertureIsLeftOut
<1>8. SNP_GHCB \div PAGE \notin RamFrames
  BY <1>2, GhcbIsNotRam
<1> QED BY <1>3, <1>5, <1>6, <1>7, <1>8

\* A SNP guest whose report is that of the manifest has the map in memory and its processors
\* start where the image says; the file as written is never turned down (snp.rs 166-296).
THEOREM VerifiedSnpGuest == BootSpec => [](NoWrap => DigestIffImage)
<1>1. ImagesFacts /\ HandOver => (NoWrap => DigestIffImage)
  BY DEF ImagesFacts, ImageInv
<1> QED BY <1>1, BootInvariant, PTL

\* The loader of a SNP guest is told to find what the E820 map lists (snp.rs 195-216).
THEOREM SnpRequiredIsListed == BootSpec => []RequiredMatchesE820
<1>1. ImagesFacts /\ HandOver => RequiredMatchesE820
  <2>1. Platform # "tdx" /\ Addrs \subseteq Nat
    BY BootAssumption, LimitsAssumption
  <2> QED BY <2>1 DEF ImagesFacts, RequiredInv, RequiredMatchesE820, Requires, Listed
<1> QED BY <1>1, BootInvariant, PTL

\* Whatever the map, the host's answers and the order of steps, Linux finds all of its RAM
\* private, what was not in the file cleared, and nothing of an aperture or of the lent page
\* in it (boot.rs 264-303, snp_reset.S 42-163).  NoEmptyRam as for TDX.
THEOREM SnpLinuxOwnsItsRam == BootSpec => [](NoWrap /\ NoEmptyRam => LinuxOwnsItsRam)
<1>1. ImagesFacts /\ HandOver => (NoWrap /\ NoEmptyRam => LinuxOwnsItsRam)
  BY LinuxOwns
<1> QED BY <1>1, BootInvariant, PTL

\* A SNP guest that dies was failed by its host (boot.rs 290-303, snp_reset.S 61-232).
THEOREM SnpListsNeverKill == BootSpec => [](NoWrap => BuiltListsNeverKill)
<1>1. ImagesFacts /\ HandOver => (NoWrap => BuiltListsNeverKill)
  BY DEF HandOver, BuiltListsNeverKill, SP!SnpInv, SP!WakeSoFar
<1> QED BY <1>1, BootInvariant, PTL

\* A page is lent, or another processor has left the wait KVM put it in.
OthersInvolved == ghcb # "private" \/ \E a \in APs : ap[a] # "wait" \/ pend[a] # {}

RamIsReady == RamFrames \subseteq private /\ RamFrames \ imported \subseteq clear

\* Nothing leaves the guest's hands, and nobody is woken, before all of Linux's RAM is
\* private, and clear where the loader left it (boot.rs 264-303, snp_reset.S 6-7, 90-163).
THEOREM SnpOthersWait == BootSpec => [](NoWrap /\ NoEmptyRam => (OthersInvolved => RamIsReady))
<1>1. ASSUME ImagesFacts, HandOver, NoWrap, NoEmptyRam, OthersInvolved
      PROVE  RamIsReady
  <2>1. pc # "off"
    BY <1>1 DEF HandOver, OthersInvolved
  <2>2. phase = "verified" /\ imported = GuestFrames /\ ranges = GuestRanges /\ SP!SnpInv
    BY <1>1, <2>1 DEF HandOver
  <2>3. Verified
    BY <1>1, <2>2, VerifiedIs DEF ImagesFacts
  <2>4. SP!Complete
    BY <1>1, <2>2 DEF OthersInvolved, SP!SnpInv, SP!WakeSoFar, SP!SnpTypeOK, SP!Labels, SP!Quiet
  <2>5. SP!Target = GuestFrames \cup ListedFrames
    BY <2>2, <2>3, TargetIs, HandedWellFormed
  <2>6. RamFrames \subseteq SP!Target
    BY <1>1, <2>3, <2>5, RamIsHanded
  <2>7. SNP_GHCB \div PAGE \notin RamFrames
    BY <2>3, GhcbIsNotRam
  <2> QED BY <2>4, <2>6, <2>7 DEF RamIsReady, SP!Complete, SP!GuestRam
<1> QED BY <1>1, BootInvariant, PTL
=============================================================================
