--------------------------- MODULE TdxBootProofs ----------------------------
(***************************************************************************)
(* Proofs about TdxBoot, for every built map, every page size of the host, *)
(* every delivery of the file and every number of processors.              *)
(*                                                                         *)
(* The composition is an image in the sense of Image (BootIsImage), so     *)
(* what ImageProofs shows of a verified guest holds when one is launched.  *)
(* What the shim is then handed is well formed, which is all that          *)
(* TdxShimProofs asks for: HandOver carries its invariant from the launch  *)
(* on, and that no other processor has left the poll before Linux runs.    *)
(* The mailbox is that of MailboxProofs throughout (BoxKeeps).             *)
(***************************************************************************)
EXTENDS TdxBoot, ImageProofs

\* The shim's own proofs, about the variables of the composition.
SP == INSTANCE TdxShimProofs WITH Images <- {}

-----------------------------------------------------------------------------
(* The composition is an image.                                            *)

\* Every step of the composition is one of the derivation, one of the image, or leaves
\* both alone.
LEMMA BootIsImage == BootSpec => ImageSpec
<1>1. BootInit => Init /\ ImageInit
  BY DEF BootInit
<1>2. [BootNext]_bootVars =>
        [ \/ Next /\ UNCHANGED image
          \/ ImageStep /\ UNCHANGED vars ]_<<vars, image>>
  BY DEF BootNext, Build, Load, Launch, BootProcessor, OtherProcessor, Os, AtRest, bootVars, Next
<1> QED BY <1>1, <1>2, PTL DEF BootSpec, ImageSpec

\* What ImageProofs shows of every image holds of the composition.
ImagesFacts == PlacementInv /\ ImageInv /\ AlignedInv

-----------------------------------------------------------------------------
(* The shim in the composition is the shim of TdxShimProofs.               *)

\* The two instances of TdxShim are the same shim.
LEMMA SameShim ==
  /\ S!ShimStep <=> SP!ShimStep
  /\ S!shimVars = SP!shimVars
BY DEF S!ShimStep, SP!ShimStep, S!AcceptNextRange, SP!AcceptNextRange, S!AcceptRange, SP!AcceptRange,
       S!Accept2M, SP!Accept2M, S!Accept4K, SP!Accept4K, S!BootKernel, SP!BootKernel, S!Die, SP!Die,
       S!AcceptStatus, SP!AcceptStatus, S!FitsHuge, SP!FitsHuge, S!Terminator, SP!Terminator,
       S!Block, SP!Block, S!data, SP!data, S!regs, SP!regs, S!shimVars, SP!shimVars

\* A step of the shim keeps its invariant.
LEMMA ShimKeeps == SP!ShimInv /\ (S!ShimStep \/ UNCHANGED shim) => SP!ShimInv'
<1>1. HUGE \in Nat \ {0, 1}
  BY BootAssumption
<1> USE <1>1 DEF SP!HugeAssumption, SP!ImagesAssumption
<1>2. SP!ShimInv /\ SP!AcceptNextRange => SP!ShimInv'
  BY SP!NextRangeInv
<1>3. SP!ShimInv /\ SP!AcceptRange => SP!ShimInv'
  BY SP!RangeStepInv
<1>4. SP!ShimInv /\ SP!Accept2M => SP!ShimInv'
  BY SP!Accept2MInv
<1>5. SP!ShimInv /\ SP!Accept4K => SP!ShimInv'
  BY SP!Accept4KInv
<1>6. SP!ShimInv /\ (SP!BootKernel \/ SP!Die) => SP!ShimInv'
  BY SP!LeaveInv
<1>7. SP!ShimInv /\ UNCHANGED SP!shimVars => SP!ShimInv'
  BY SP!StutterInv
<1>8. UNCHANGED shim => UNCHANGED SP!shimVars
  BY DEF shim, SP!shimVars
<1> QED BY <1>2, <1>3, <1>4, <1>5, <1>6, <1>7, <1>8, SameShim DEF SP!ShimStep

-----------------------------------------------------------------------------
(* From the launch on.                                                     *)

\* The shim has not been started; or it has, over what the guest has in memory, and keeps
\* its invariant.  Until it has entered Linux nobody has answered the mailbox.
HandOver ==
  /\ pc = "off" => rbp = 1 /\ r12 = 0 /\ r13 = 0 /\ status = "success"
  /\ pc # "off" => phase = "verified" /\ imported = GuestFrames /\ ranges = GuestRanges
  /\ pc # "off" /\ NoWrap => SP!ShimInv
  /\ pc # "linux" => command = 0 /\ ap \in [APs -> {"reset", "poll"}]

\* What the guest found in its memory stays there.
LEMMA SameHanded ==
  ASSUME UNCHANGED <<vars, image>>
  PROVE  /\ GuestFrames' = GuestFrames /\ GuestRanges' = GuestRanges
         /\ phase' = phase /\ (NoWrap' <=> NoWrap)
<1>1. UNCHANGED mapVars /\ guest' = guest /\ phase' = phase
  BY DEF vars, image, mapVars
<1> QED BY <1>1, SameMap DEF GuestFrames, GuestRanges, GuestAccept

\* Before the launch the processors wait for their start.
LEMMA BootInitHandOver == BootInit => HandOver
BY DEF BootInit, HandOver, B!BoxInit

\* The shim starts over a well-formed list.
LEMMA LaunchInv ==
  ASSUME ImagesFacts, HandOver, Launch
  PROVE  HandOver'
<1>1. /\ phase = "verified" /\ pc = "off" /\ pc' = "accept_next" /\ UNCHANGED <<vars, image>> /\ UNCHANGED box
      /\ imported' = GuestFrames /\ private' = GuestFrames /\ ranges' = GuestRanges
      /\ UNCHANGED <<rbp, r12, r13, status>>
  BY DEF Launch
<1>2. /\ GuestFrames' = GuestFrames /\ GuestRanges' = GuestRanges /\ phase' = phase /\ (NoWrap' <=> NoWrap)
  BY <1>1, SameHanded
<1>3. ASSUME NoWrap PROVE SP!ShimInv'
  <2>1. Verified
    BY <1>1, <1>3, VerifiedIs DEF ImagesFacts
  <2>2. /\ imported' \subseteq Nat
        /\ ranges' \in Seq(Nat \X Nat)
        /\ \A n \in DOMAIN ranges' :
             /\ ranges'[n][1] < ranges'[n][2]
             /\ (ranges'[n][1] .. ranges'[n][2] - 1) \cap imported' = {}
             /\ \A m \in DOMAIN ranges' : n < m => ranges'[n][2] <= ranges'[m][1]
    BY <1>1, <2>1, HandedWellFormed
  <2>3. rbp' = 1 /\ r12' = 0 /\ r13' = 0 /\ status' = "success" /\ private' = imported'
    BY <1>1 DEF HandOver
  <2>4. SP!ShimTypeOK'
    BY <1>1, <2>2, <2>3 DEF SP!ShimTypeOK, SP!Labels
  <2>5. SP!BlockOK'
    BY <2>2 DEF SP!BlockOK, SP!Frames
  <2>6. SP!AcceptedSoFar'
    <3>1. { k \in DOMAIN ranges' : k <= rbp' - 1 } = {}
      BY <2>2, <2>3
    <3>2. SP!FramesUpTo(rbp - 1)' = {}
      BY <3>1 DEF SP!FramesUpTo
    <3> QED BY <1>1, <2>3, <3>2 DEF SP!AcceptedSoFar
  <2> QED BY <1>1, <2>4, <2>5, <2>6 DEF SP!ShimInv, SP!EntersComplete, SP!DiesOnlyOnHostError
<1>4. pc' # "linux" => command' = 0 /\ ap' \in [APs -> {"reset", "poll"}]
  BY <1>1 DEF HandOver, box
<1> QED BY <1>1, <1>2, <1>3, <1>4 DEF HandOver

\* The shim goes on over the same list.
LEMMA BootProcessorInv ==
  ASSUME HandOver, BootProcessor
  PROVE  HandOver'
<1>1. S!ShimStep /\ UNCHANGED <<vars, image>> /\ UNCHANGED box
  BY DEF BootProcessor
<1>2. /\ GuestFrames' = GuestFrames /\ GuestRanges' = GuestRanges /\ phase' = phase /\ (NoWrap' <=> NoWrap)
  BY <1>1, SameHanded
<1>3. pc \notin {"off", "linux"} /\ pc' # "off" /\ imported' = imported /\ ranges' = ranges
  BY <1>1 DEF S!ShimStep, S!AcceptNextRange, S!AcceptRange, S!Accept2M, S!Accept4K, S!BootKernel, S!Die, S!data
<1>4. NoWrap => SP!ShimInv'
  BY <1>1, <1>3, ShimKeeps DEF HandOver
<1>5. command' = 0 /\ ap' \in [APs -> {"reset", "poll"}]
  BY <1>1, <1>3 DEF HandOver, box
<1> QED BY <1>2, <1>3, <1>4, <1>5 DEF HandOver

\* The other processors and the OS leave the shim's memory alone, and no one gets past a
\* command of zero.
LEMMA OthersInv ==
  ASSUME HandOver, Os \/ AtRest \/ UNCHANGED bootVars \/ \E a \in APs : OtherProcessor(a)
  PROVE  HandOver'
<1>1. UNCHANGED <<vars, image>> /\ UNCHANGED shim
  BY DEF Os, AtRest, OtherProcessor, bootVars
<1>2. /\ GuestFrames' = GuestFrames /\ GuestRanges' = GuestRanges /\ phase' = phase /\ (NoWrap' <=> NoWrap)
  BY <1>1, SameHanded
<1>3. UNCHANGED <<imported, ranges, pc, rbp, r12, r13, private, status>>
  BY <1>1 DEF shim
<1>4. pc # "off" /\ NoWrap => SP!ShimInv'
  BY <1>1, ShimKeeps DEF HandOver
<1>5. ASSUME pc # "linux" PROVE command' = 0 /\ ap' \in [APs -> {"reset", "poll"}]
  <2>1. command = 0 /\ ap \in [APs -> {"reset", "poll"}]
    BY <1>5 DEF HandOver
  <2>2. CASE AtRest \/ UNCHANGED bootVars
    BY <2>1, <2>2 DEF AtRest, bootVars, box
  <2>3. ASSUME NEW a \in APs, OtherProcessor(a) PROVE command' = 0 /\ ap' \in [APs -> {"reset", "poll"}]
    <3>1. B!Reset(a) \/ B!ReadCommand(a)
      BY <2>1, <2>3 DEF OtherProcessor, B!Poll, B!ReadApicId, B!ReadVector, B!Acknowledge
    <3>2. command' = command /\ ap' = [ap EXCEPT ![a] = "poll"]
      BY <2>1, <3>1 DEF B!Reset, B!ReadCommand, B!PollTo, B!mailbox
    <3> QED BY <2>1, <3>2
  <2>4. ~Os
    BY <1>5 DEF Os
  <2> QED BY <2>2, <2>3, <2>4
<1> QED BY <1>2, <1>3, <1>4, <1>5 DEF HandOver

\* Derivation and image are finished when the shim starts.
LEMMA BeforeLaunchInv ==
  ASSUME ImagesFacts, HandOver, Build \/ Load
  PROVE  HandOver'
<1>1. UNCHANGED shim /\ UNCHANGED box
  BY DEF Build, Load
<1>2. pc = "off"
  <2> SUFFICES ASSUME phase = "verified" PROVE FALSE
    BY DEF HandOver
  <2>1. step = "built"
    BY DEF ImagesFacts, ImageInv
  <2>2. CASE Build
    BY <2>1, <2>2 DEF Build, Validate, E820, Accept, ValidateDone, RejectRegion, ValidateNext, RejectOverlap,
         E820Done, ZeroPage, RejectE820, E820Next, AcceptDone, ShimDone, RejectShim, AcceptNext
  <2>3. CASE Load
    BY <2>3 DEF Load, ImageStep, WriteFile, CoalesceNext, CoalesceDone, RequireNext, FinishFile, Deliver,
                LoadDirective, Finish
  <2> QED BY <2>2, <2>3
<1> QED BY <1>1, <1>2 DEF HandOver, shim, box

\* Every step keeps the hand-over.
LEMMA HandOverStep == ImagesFacts /\ HandOver /\ [BootNext]_bootVars => HandOver'
BY LaunchInv, BootProcessorInv, OthersInv, BeforeLaunchInv DEF BootNext

\* The hand-over holds throughout: the guest is launched with what its image says, and its
\* shim runs over that before any other processor moves (reset.S 40-104).
THEOREM BootInvariant == BootSpec => [](ImagesFacts /\ HandOver)
<1>1. BootSpec => []ImagesFacts
  <2>1. BootSpec => ImageSpec
    BY BootIsImage
  <2>2. ImageSpec => [](PlacementInv /\ ImageInv)
    BY ImageInvariant
  <2>3. ImageSpec => []AlignedInv
    BY ImageAligned
  <2> QED BY <2>1, <2>2, <2>3, PTL DEF ImagesFacts
<1>2. BootInit => HandOver
  BY BootInitHandOver
<1>3. ImagesFacts /\ HandOver /\ [BootNext]_bootVars => HandOver'
  BY HandOverStep
<1> QED BY <1>1, <1>2, <1>3, PTL DEF BootSpec

-----------------------------------------------------------------------------
(* What a running guest can rely on.                                       *)

\* What the shim counts up to is what the list names.
LEMMA TargetIs ==
  ASSUME ranges = GuestRanges, GuestRanges \in Seq(Nat \X Nat)
  PROVE  SP!Target = imported \cup ListedFrames
<1>1. { k \in DOMAIN ranges : k <= Len(ranges) } = DOMAIN GuestRanges
  <2>1. \A s \in Seq(Nat \X Nat) : { k \in DOMAIN s : k <= Len(s) } = DOMAIN s
    <3> SUFFICES ASSUME NEW s \in Seq(Nat \X Nat) PROVE { k \in DOMAIN s : k <= Len(s) } = DOMAIN s
      OBVIOUS
    <3>1. DOMAIN s = 1 .. Len(s) /\ Len(s) \in Nat
      OBVIOUS
    <3>2. \A k : k \in 1 .. Len(s) => k \in Nat /\ k <= Len(s)
      BY <3>1
    <3>3. \A k \in DOMAIN s : k <= Len(s)
      BY <3>1, <3>2
    <3> QED BY <3>3, Zenon
  <2> QED BY <2>1
<1> QED BY <1>1 DEF SP!Target, SP!FramesUpTo, SP!Frames, ListedFrames

\* Linux is entered with its RAM private and its apertures not (boot.rs 264-303,
\* reset.S 42-87).
LEMMA LinuxOwns ==
  ASSUME ImagesFacts, HandOver, NoWrap, NoEmptyRam, pc = "linux"
  PROVE  RamFrames \subseteq private /\ ApertureFrames \cap private = {}
<1>1. phase = "verified" /\ imported = GuestFrames /\ ranges = GuestRanges /\ SP!ShimInv
  BY DEF HandOver
<1>2. Verified
  BY <1>1, VerifiedIs DEF ImagesFacts
<1>3. private = SP!Target
  BY <1>1 DEF SP!ShimInv, SP!EntersComplete
<1>4. GuestRanges \in Seq(Nat \X Nat)
  BY <1>2, HandedWellFormed
<1>5. private = GuestFrames \cup ListedFrames
  BY <1>1, <1>3, <1>4, TargetIs
<1> QED BY <1>2, <1>5, RamIsHanded, ApertureIsLeftOut

\* A TDX guest whose report is that of the manifest has the map in memory, and the file as
\* written is never turned down (image.rs 208-237, mrtd.rs 9-24).
THEOREM VerifiedTdxGuest == BootSpec => [](NoWrap => DigestIffImage)
<1>1. BootSpec => ImageSpec
  BY BootIsImage
<1>2. ImageSpec => [](NoWrap => DigestIffImage)
  BY VerifiedGuestIsTheMap
<1> QED BY <1>1, <1>2, PTL

\* Whatever the map, the host's page sizes and the order of steps, Linux finds all of its RAM
\* private and nothing of an aperture (boot.rs 264-303, reset.S 42-87).  A region of RAM with
\* no data is neither in the file nor listed: NoEmptyRam leaves that map out.
THEOREM TdxLinuxOwnsItsRam == BootSpec => [](NoWrap /\ NoEmptyRam => LinuxOwnsItsRam)
<1>1. ImagesFacts /\ HandOver => (NoWrap /\ NoEmptyRam => LinuxOwnsItsRam)
  BY LinuxOwns DEF LinuxOwnsItsRam
<1> QED BY <1>1, BootInvariant, PTL

\* A TDX guest that dies was failed by its host (boot.rs 290-303, reset.S 58-87).
THEOREM TdxListsNeverKill == BootSpec => [](NoWrap => BuiltListsNeverKill)
<1>1. ImagesFacts /\ HandOver => (NoWrap => BuiltListsNeverKill)
  BY DEF HandOver, BuiltListsNeverKill, SP!ShimInv, SP!DiesOnlyOnHostError
<1> QED BY <1>1, BootInvariant, PTL

\* A processor that has been given its command finds Linux running with its RAM private
\* (reset.S 40-104).
THEOREM TdxOthersWait == BootSpec => [](NoWrap /\ NoEmptyRam => OthersWaitForMemory)
<1>1. ImagesFacts /\ HandOver => (NoWrap /\ NoEmptyRam => OthersWaitForMemory)
  <2> SUFFICES ASSUME ImagesFacts, HandOver, NoWrap, NoEmptyRam,
                      NEW a \in APs, ap[a] \in {"vector", "ack", "run"}
               PROVE  pc = "linux" /\ RamFrames \subseteq private
    BY DEF OthersWaitForMemory
  <2>1. pc = "linux"
    BY DEF HandOver
  <2> QED BY <2>1, LinuxOwns
<1> QED BY <1>1, BootInvariant, PTL

-----------------------------------------------------------------------------
(* The mailbox in the composition is the mailbox of MailboxProofs.         *)

MP == INSTANCE MailboxProofs

\* The processors are as the mailbox's proofs take them to be.
LEMMA BoxProcessors == MP!APsAssumption /\ MP!VectorAssumption
<1>1. APs \subseteq Nat \ {0}
  BY BootAssumption
<1> QED BY <1>1, BootAssumption DEF MP!APsAssumption, MP!VectorAssumption

\* The two instances of Mailbox are the same mailbox.
LEMMA SameBox ==
  /\ B!BoxInit <=> MP!BoxInit
  /\ B!OsStep <=> MP!OsStep
  /\ \A a \in APs : B!Poll(a) <=> MP!Poll(a)
<1>1. B!BoxInit <=> MP!BoxInit
  BY DEF B!BoxInit, MP!BoxInit
<1>2. B!OsStep <=> MP!OsStep
  BY DEF B!OsStep, MP!OsStep, B!WriteApicId, MP!WriteApicId, B!WriteVector, MP!WriteVector,
         B!WriteCommand, MP!WriteCommand, B!WaitForAck, MP!WaitForAck, B!Claim, MP!Claim,
         B!mailbox, MP!mailbox
<1>3. ASSUME NEW a \in APs PROVE B!Poll(a) <=> MP!Poll(a)
  BY DEF B!Poll, MP!Poll, B!Reset, MP!Reset, B!ReadCommand, MP!ReadCommand, B!ReadApicId, MP!ReadApicId,
         B!ReadVector, MP!ReadVector, B!Acknowledge, MP!Acknowledge, B!PollTo, MP!PollTo,
         B!mailbox, MP!mailbox, B!osVars, MP!osVars
<1> QED BY <1>1, <1>2, <1>3

\* Every step of the composition keeps the mailbox's invariant.
LEMMA BoxKeeps == MP!BoxInv /\ [BootNext]_bootVars => MP!BoxInv'
<1> USE BoxProcessors
<1>1. MP!BoxInv /\ UNCHANGED box => MP!BoxInv'
  BY MP!StutterInv DEF box, MP!boxVars
<1>2. ASSUME MP!BoxInv, Os PROVE MP!BoxInv'
  <2>1. MP!OsStep
    BY <1>2, SameBox DEF Os
  <2> QED BY <1>2, <2>1, MP!ClaimInv, MP!StoreInv, MP!WaitInv DEF MP!OsStep
<1>3. ASSUME MP!BoxInv, NEW a \in APs, OtherProcessor(a) PROVE MP!BoxInv'
  <2>1. MP!Poll(a)
    BY <1>3, SameBox DEF OtherProcessor
  <2> QED BY <1>3, <2>1, MP!PollInv, MP!AcknowledgeInv DEF MP!Poll
<1>4. Build \/ Load \/ Launch \/ BootProcessor \/ AtRest \/ UNCHANGED bootVars => UNCHANGED box
  BY DEF Build, Load, Launch, BootProcessor, AtRest, bootVars
<1> QED BY <1>1, <1>2, <1>3, <1>4 DEF BootNext

\* Beside a boot processor that is still accepting memory, and a loader and a host before
\* it, the mailbox still answers for one processor at a time, and an acknowledgement the OS
\* has seen means that the processor it named runs (reset.S 89-104).
THEOREM TdxMailbox == BootSpec => [](B!OneResponder /\ B!AckMeansRunning)
<1>1. BootInit => MP!BoxInv
  BY SameBox, MP!InitInv, BoxProcessors DEF BootInit
<1>2. MP!BoxInv => B!OneResponder /\ B!AckMeansRunning
  BY DEF MP!BoxInv, MP!OneResponder, B!OneResponder, MP!AckMeansRunning, B!AckMeansRunning
<1> QED BY <1>1, <1>2, BoxKeeps, PTL DEF BootSpec
=============================================================================
