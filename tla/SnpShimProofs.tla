--------------------------- MODULE SnpShimProofs ----------------------------
(***************************************************************************)
(* Proofs about SnpShim, for every size of a large page, every image whose *)
(* list is well formed, every placement of the lent page in it and every   *)
(* set of application processors.                                          *)
(*                                                                         *)
(* The argument is one inductive invariant, SnpInv.  Up to the end of the  *)
(* list its centre is ValidatedSoFar, the walk of TdxShimProofs with a     *)
(* second account of what is clear; from there on it is WakeSoFar: at each *)
(* label of the wake the memory is complete, and what has been lent and    *)
(* how many steps the host has granted follow from the label alone.        *)
(* OnlyLentZeroed ties the one page of the image that is zeroed to them.   *)
(***************************************************************************)
EXTENDS SnpShim, TLAPS

SnpInv ==
  /\ SnpTypeOK
  /\ BlockOK
  /\ GHCB \in imported
  /\ ValidatedSoFar
  /\ WakeSoFar
  /\ pc # "fault"
  /\ OnlyLentZeroed
  /\ ReportTellsWhere

-----------------------------------------------------------------------------
(* The frames of a prefix of the list.                                     *)

\* No range comes before the first.
LEMMA NoFramesYet == ranges \in Seq(Nat \X Nat) => FramesUpTo(0) = {}
BY DEF FramesUpTo

\* Finishing a range adds its frames.
LEMMA OneMoreRange ==
  ASSUME ranges \in Seq(Nat \X Nat), NEW n \in DOMAIN ranges
  PROVE  FramesUpTo(n) = FramesUpTo(n - 1) \cup Frames(ranges[n])
<1>1. { k \in DOMAIN ranges : k <= n } = { k \in DOMAIN ranges : k <= n - 1 } \cup {n}
  OBVIOUS
<1> QED BY <1>1 DEF FramesUpTo

\* No frame of a range was private before its turn.
LEMMA RangeIsFresh ==
  ASSUME ranges \in Seq(Nat \X Nat), BlockOK, NEW n \in DOMAIN ranges
  PROVE  Frames(ranges[n]) \cap (imported \cup FramesUpTo(n - 1)) = {}
<1> SUFFICES ASSUME NEW f \in Frames(ranges[n]), f \in FramesUpTo(n - 1) PROVE FALSE
  BY DEF BlockOK
<1>1. PICK m \in DOMAIN ranges : m <= n - 1 /\ f \in Frames(ranges[m])
  BY DEF FramesUpTo
<1>2. ranges[m] \in Nat \X Nat /\ ranges[n] \in Nat \X Nat
  OBVIOUS
<1>3. ranges[m][2] <= ranges[n][1]
  BY <1>1 DEF BlockOK
<1> QED BY <1>1, <1>2, <1>3 DEF Frames

\* The list and the imported frames never change, so neither do their properties.
LEMMA SameList ==
  ASSUME UNCHANGED data
  PROVE  /\ BlockOK' <=> BlockOK
         /\ Target' = Target
         /\ \A n : FramesUpTo(n)' = FramesUpTo(n)
BY DEF data, BlockOK, Target, FramesUpTo, Frames

\* The frames of a range and of all before it are to be private in the end.
LEMMA PrefixInTarget ==
  ASSUME ranges \in Seq(Nat \X Nat), NEW n \in DOMAIN ranges
  PROVE  FramesUpTo(n - 1) \cup Frames(ranges[n]) \subseteq Target
BY DEF FramesUpTo, Target

-----------------------------------------------------------------------------
(* Facts about a state.                                                    *)

\* The list and the lent page stay, so what Linux is promised does.
LEMMA SameGuest == UNCHANGED data => GuestRam' = GuestRam /\ Target' = Target
BY SameList DEF GuestRam

\* At a label of a range the list has an entry for it.
LEMMA RangeOfCursor ==
  ASSUME SnpInv, pc \in RangeLabels
  PROVE  /\ rbp - 1 \in DOMAIN ranges /\ rbp - 1 - 1 = rbp - 2
         /\ ranges[rbp - 1][1] \in Nat /\ ranges[rbp - 1][2] \in Nat
         /\ r12 \in ranges[rbp - 1][1] .. r13 /\ r13 = ranges[rbp - 1][2]
<1>1. rbp - 1 \in DOMAIN ranges /\ rbp - 1 - 1 = rbp - 2
  BY DEF SnpInv, ValidatedSoFar, SnpTypeOK
<1>2. ranges[rbp - 1] \in Nat \X Nat
  BY <1>1 DEF SnpInv, SnpTypeOK
<1> QED BY <1>1, <1>2 DEF SnpInv, ValidatedSoFar

\* What is left of the range is no part of the image, not valid and not clear.
LEMMA RestIsFresh ==
  ASSUME SnpInv, pc \in {"validate_range", "validate_2m", "validate_4k"},
         NEW f \in r12 .. r13 - 1
  PROVE  f \in Target /\ f \notin imported /\ f \notin private /\ f # GHCB
<1>1. /\ rbp - 1 \in DOMAIN ranges /\ rbp - 1 - 1 = rbp - 2
      /\ ranges[rbp - 1][1] \in Nat /\ r12 \in ranges[rbp - 1][1] .. r13
      /\ r13 = ranges[rbp - 1][2] /\ r13 \in Nat
  BY RangeOfCursor DEF RangeLabels
<1>2. f \in Frames(ranges[rbp - 1])
  BY <1>1 DEF Frames
<1>3. f \notin imported \cup FramesUpTo(rbp - 2)
  BY <1>1, <1>2, RangeIsFresh DEF SnpInv, SnpTypeOK
<1>4. private = imported \cup FramesUpTo(rbp - 2) \cup (ranges[rbp - 1][1] .. r12 - 1)
  BY DEF SnpInv, ValidatedSoFar, RangeLabels
<1>5. f \notin ranges[rbp - 1][1] .. r12 - 1
  BY <1>1
<1>6. f \in Target
  BY <1>1, <1>2, PrefixInTarget DEF SnpInv, SnpTypeOK
<1> QED BY <1>3, <1>4, <1>5, <1>6 DEF SnpInv

\* The cursor stands at the first frame that is still missing.
LEMMA CursorIsFirstMissing ==
  ASSUME SnpInv, pc \in {"validate_range", "validate_2m", "validate_4k"}, r12 < r13
  PROVE  r12 \in Missing /\ \A f \in Missing : r12 <= f
<1>1. /\ rbp - 1 \in DOMAIN ranges
      /\ ranges[rbp - 1][1] \in Nat /\ r12 \in ranges[rbp - 1][1] .. r13
      /\ r13 = ranges[rbp - 1][2] /\ r13 \in Nat
  BY RangeOfCursor DEF RangeLabels
<1>2. r12 \in Missing
  BY <1>1, RestIsFresh DEF Missing, GuestRam
<1>3. ASSUME NEW f \in Missing PROVE r12 <= f
  <2>1. private = imported \cup FramesUpTo(rbp - 2) \cup (ranges[rbp - 1][1] .. r12 - 1)
    BY DEF SnpInv, ValidatedSoFar, RangeLabels
  <2>2. PICK m \in DOMAIN ranges : f \in Frames(ranges[m])
    BY <2>1, <1>3 DEF Missing, GuestRam, Target, FramesUpTo
  <2>3. ~(m <= rbp - 2)
    BY <2>1, <2>2, <1>3 DEF Missing, FramesUpTo
  <2>4. ranges[m] \in Nat \X Nat /\ f \in Int /\ ranges[m][1] <= f
    BY <2>2 DEF Frames, SnpInv, SnpTypeOK
  <2>5. CASE m = rbp - 1
    <3>1. f \notin ranges[rbp - 1][1] .. r12 - 1
      BY <2>1 DEF Missing
    <3> QED BY <1>1, <2>4, <2>5, <3>1
  <2>6. CASE m # rbp - 1
    <3>1. m \in Nat /\ rbp \in Nat
      BY DEF SnpInv, SnpTypeOK
    <3>2. rbp - 1 < m
      BY <2>3, <2>6, <3>1
    <3>3. ranges[rbp - 1][2] <= ranges[m][1]
      BY <1>1, <3>2 DEF SnpInv, BlockOK
    <3> QED BY <1>1, <2>4, <3>3
  <2> QED BY <2>5, <2>6
<1> QED BY <1>2, <1>3

-----------------------------------------------------------------------------
(* The walk.                                                               *)

\* The loader has imported its frames, one of them to be lent, and the walk begins.
LEMMA InitInv == SnpInit => SnpInv
<1> SUFFICES ASSUME SnpInit PROVE SnpInv
  OBVIOUS
<1>1. PICK image \in Images : /\ imported = image.imported
                              /\ ranges = image.ranges
                              /\ private = image.imported
  BY DEF SnpInit
<1>2. WellFormed(image) /\ GHCB \in imported
  BY <1>1, ImagesAssumption, GhcbAssumption
<1>3. SnpTypeOK
  <2>1. imported \subseteq Nat /\ ranges \in Seq(Nat \X Nat) /\ private \subseteq Nat
    BY <1>1, <1>2 DEF WellFormed
  <2>2. /\ rbp \in 1 .. Len(ranges) + 1
        /\ ap \in [APs -> {"wait", "init", "stub", "held", "created"}]
        /\ pend \in [APs -> SUBSET {"init", "sipi"}]
    BY <2>1 DEF SnpInit
  <2>3. report \in [set: 0 .. 15, code: 0 .. 255]
    BY DEF SnpInit
  <2>4. bl \in BOOLEAN
    BY Zenon DEF SnpInit
  <2> QED BY <2>1, <2>2, <2>3, <2>4 DEF SnpInit, SnpTypeOK, Labels
<1>4. BlockOK
  BY <1>1, <1>2 DEF BlockOK, WellFormed
<1>5. ValidatedSoFar
  BY <1>1, <1>3, NoFramesYet DEF SnpInit, ValidatedSoFar, SnpTypeOK, RangeLabels
<1>6. WakeSoFar
  BY DEF SnpInit, WakeSoFar, Quiet, RangeLabels, WakeLabels
<1> QED BY <1>2, <1>3, <1>4, <1>5, <1>6 DEF SnpInv, SnpInit, ReportTellsWhere, OnlyLentZeroed

\* While the walk goes on, nobody is woken.
LEMMA StillQuiet ==
  ASSUME SnpInv, pc \in RangeLabels \cup {"validate_next"},
         pc' \in RangeLabels \cup {"validate_next"}, UNCHANGED <<wake, ap>>
  PROVE  WakeSoFar' /\ ReportTellsWhere' /\ pc' # "fault"
BY DEF SnpInv, WakeSoFar, Quiet, RangeLabels, WakeLabels, wake, ReportTellsWhere

\* validate_next loads the next range, none of whose frames is valid yet, or finds the
\* end of the list with all memory valid and clear.
LEMMA NextRangeInv == SnpInv /\ ValidateNext => SnpInv'
<1> SUFFICES ASSUME SnpInv, ValidateNext PROVE SnpInv'
  OBVIOUS
<1>1. pc = "validate_next" /\ UNCHANGED <<data, r15, bl, private, clear, wake, report, ap>>
  BY DEF ValidateNext
<1>2. private = imported \cup FramesUpTo(rbp - 1) /\ clear = FramesUpTo(rbp - 1)
  BY <1>1 DEF SnpInv, ValidatedSoFar
<1>3. (BlockOK /\ GHCB \in imported /\ OnlyLentZeroed)'
  BY <1>1, SameList DEF SnpInv, data, OnlyLentZeroed, wake
<1>4. CASE rbp \in DOMAIN ranges
  <2>0. Len(ranges) \in Nat /\ rbp \in 1 .. Len(ranges)
    <3>1. ranges \in Seq(Nat \X Nat)
      BY DEF SnpInv, SnpTypeOK
    <3> QED BY <1>4, <3>1
  <2>1. Block(rbp) = ranges[rbp] /\ ranges[rbp] \in Nat \X Nat
    BY <1>4 DEF Block, SnpInv, SnpTypeOK
  <2>2. ranges[rbp][1] < ranges[rbp][2]
    BY <1>4 DEF SnpInv, BlockOK
  <2>3. ~Terminator(Block(rbp))
    BY <2>1, <2>2 DEF Terminator
  <2>4. /\ pc' = "validate_range" /\ rbp' = rbp + 1
        /\ r12' = ranges[rbp][1] /\ r13' = ranges[rbp][2]
    BY <2>1, <2>3 DEF ValidateNext
  <2>5. SnpTypeOK'
    <3>1. rbp' \in 1 .. Len(ranges) + 1
      BY <2>4, <2>0
    <3>2. r12' \in Nat /\ r13' \in Nat
      BY <2>1, <2>4
    <3>3. pc' \in Labels
      BY <2>4 DEF Labels, RangeLabels
    <3> QED BY <1>1, <3>1, <3>2, <3>3 DEF SnpInv, SnpTypeOK, data, wake
  <2>6. ValidatedSoFar'
    <3>1. ranges[rbp][1] .. r12' - 1 = {}
      BY <2>1, <2>4
    <3>2. rbp' - 2 = rbp - 1 /\ rbp' - 1 = rbp /\ rbp' > 1
      BY <2>4, <2>0
    <3>3. r12' \in ranges[rbp][1] .. r13'
      BY <2>1, <2>2, <2>4
    <3> QED BY <1>1, <1>2, <2>4, <3>1, <3>2, <3>3, SameList
            DEF ValidatedSoFar, data, RangeLabels, WakeLabels
  <2> QED BY <1>1, <1>3, <2>4, <2>5, <2>6, StillQuiet DEF SnpInv, RangeLabels
<1>5. CASE rbp \notin DOMAIN ranges
  <2>1. pc' = "rescind" /\ rbp' = rbp /\ r12' = 0 /\ r13' = 0
    BY <1>5 DEF ValidateNext, Block, Terminator
  <2>2. rbp - 1 = Len(ranges)
    BY <1>5 DEF SnpInv, SnpTypeOK
  <2>3. private = Target /\ clear = Target \ imported
    <3>1. clear \cap imported = {}
      BY <1>1 DEF SnpInv, OnlyLentZeroed, WakeSoFar, SnpTypeOK
    <3> QED BY <1>2, <2>2, <3>1 DEF Target
  <2>4. SnpTypeOK'
    BY <1>1, <2>1 DEF SnpInv, SnpTypeOK, data, wake, Labels, RangeLabels, WakeLabels
  <2>5. Complete'
    BY <1>1, <2>3, SameGuest DEF Complete, data, wake, SnpInv, WakeSoFar, Quiet
  <2>6. WakeSoFar'
    BY <1>1, <2>1, <2>5 DEF SnpInv, WakeSoFar, Quiet, wake, RangeLabels, WakeLabels
  <2> QED BY <1>1, <1>3, <2>1, <2>4, <2>6
          DEF SnpInv, ValidatedSoFar, ReportTellsWhere, RangeLabels, WakeLabels
<1> QED BY <1>4, <1>5

\* validate_range picks a page that fits the range, or the range is finished.
LEMMA RangeStepInv == SnpInv /\ ValidateRange => SnpInv'
<1> SUFFICES ASSUME SnpInv, ValidateRange PROVE SnpInv'
  OBVIOUS
<1>1. pc = "validate_range" /\ UNCHANGED <<data, regs, r15, bl, private, clear, wake, report, ap>>
  BY DEF ValidateRange
<1>2. pc' \in {"validate_next", "validate_2m", "validate_4k"}
  BY DEF ValidateRange
<1>3. SnpTypeOK'
  BY <1>1, <1>2 DEF SnpInv, SnpTypeOK, data, regs, wake, Labels, RangeLabels
<1>4. (BlockOK /\ GHCB \in imported /\ OnlyLentZeroed)'
  BY <1>1, SameList DEF SnpInv, data, OnlyLentZeroed, wake
<1>5. ValidatedSoFar'
  <2>1. CASE r12 >= r13
    <3>1. pc' = "validate_next"
      BY <2>1 DEF ValidateRange
    <3>2. r12 = r13 /\ r13 = ranges[rbp - 1][2]
      BY <1>1, <2>1, RangeOfCursor DEF RangeLabels
    <3>3. clear = FramesUpTo(rbp - 2) \cup Frames(ranges[rbp - 1]) /\ private = imported \cup clear
      BY <1>1, <3>2 DEF SnpInv, ValidatedSoFar, RangeLabels, Frames
    <3>4. FramesUpTo(rbp - 1) = FramesUpTo(rbp - 2) \cup Frames(ranges[rbp - 1])
      BY <1>1, RangeOfCursor, OneMoreRange DEF SnpInv, SnpTypeOK, RangeLabels
    <3> QED BY <1>1, <3>1, <3>3, <3>4, SameList
            DEF ValidatedSoFar, data, regs, RangeLabels, WakeLabels
  <2>2. CASE r12 < r13
    <3>1. pc' \in {"validate_2m", "validate_4k"} /\ (pc' = "validate_2m" => FitsHuge)
      BY <2>2 DEF ValidateRange, SnpInv, SnpTypeOK
    <3>2. FitsHuge' <=> FitsHuge
      BY <1>1 DEF FitsHuge, regs
    <3> QED BY <1>1, <2>2, <3>1, <3>2, SameList
            DEF SnpInv, ValidatedSoFar, data, regs, RangeLabels, WakeLabels
  <2> QED BY <2>1, <2>2 DEF SnpInv, SnpTypeOK
<1> QED BY <1>1, <1>2, <1>3, <1>4, <1>5, StillQuiet DEF SnpInv, RangeLabels

\* A refused page leaves the cursor at the first missing frame.
LEMMA DiesAtCursor ==
  ASSUME SnpInv, pc \in {"validate_2m", "validate_4k"}, r12 < r13, pc' = "die",
         r15' \in {FAIL_INPUT, FAIL_SIZEMISMATCH}, bl' \in BOOLEAN,
         UNCHANGED <<data, regs, private, clear, wake, report, ap>>
  PROVE  SnpInv'
<1>1. r12 \in Missing /\ \A f \in Missing : r12 <= f
  BY CursorIsFirstMissing
<1>2. Missing' = Missing /\ Quiet' /\ granted' = 0
  BY SameGuest DEF Missing, SnpInv, WakeSoFar, Quiet, wake, RangeLabels
<1>3. SnpTypeOK'
  BY DEF SnpInv, SnpTypeOK, data, regs, wake, Labels, FAIL_INPUT, FAIL_SIZEMISMATCH
<1>4. WakeSoFar'
  BY <1>1, <1>2 DEF WakeSoFar, RangeLabels, WakeLabels, regs, FAIL_INPUT, FAIL_SIZEMISMATCH
<1> QED BY <1>3, <1>4, SameList
        DEF SnpInv, ValidatedSoFar, ReportTellsWhere, OnlyLentZeroed, RangeLabels, WakeLabels,
            data, wake

\* A large page: valid and still to be cleared, left to the small pages, or refused.
LEMMA Validate2MInv == SnpInv /\ Validate2M => SnpInv'
<1> SUFFICES ASSUME SnpInv, Validate2M PROVE SnpInv'
  OBVIOUS
<1>1. pc = "validate_2m" /\ UNCHANGED <<data, regs, clear, wake, report, ap>>
  BY DEF Validate2M, Answered
<1>2. FitsHuge /\ r12 \in Nat /\ r13 \in Nat /\ r12 + HUGE <= r13 /\ r12 < r13
  BY <1>1, HugeAssumption DEF SnpInv, ValidatedSoFar, RangeLabels, FitsHuge, SnpTypeOK
<1>3. LargePage \cap private = {} /\ LargePage \subseteq Nat
  BY <1>1, <1>2, HugeAssumption, RestIsFresh DEF LargePage
<1>4. PICK answer \in Pvalidate(LargePage) :
        /\ Answered(LargePage, answer)
        /\ pc' = IF answer.eax = FAIL_SIZEMISMATCH THEN "validate_4k"
                 ELSE IF answer.eax = 0 /\ ~answer.carry THEN "zero_2m" ELSE "die"
  BY DEF Validate2M
<1>5. \/ answer.eax = 0 /\ answer.carry = FALSE
      \/ answer.eax \in {FAIL_INPUT, FAIL_SIZEMISMATCH} /\ answer.carry \in BOOLEAN
  BY <1>3, <1>4 DEF Pvalidate
<1>6. (BlockOK /\ GHCB \in imported /\ OnlyLentZeroed)'
  BY <1>1, SameList DEF SnpInv, data, OnlyLentZeroed, wake
<1>carry. bl' \in BOOLEAN
  <2>1. answer.carry \in BOOLEAN
    BY <1>4 DEF Pvalidate
  <2> QED BY <1>4, <2>1 DEF Answered
<1>7. CASE answer.eax = 0
  <2>1. /\ pc' = "zero_2m" /\ private' = private \cup LargePage
        /\ r15' = 0
    BY <1>4, <1>5, <1>7 DEF Answered, FAIL_INPUT, FAIL_SIZEMISMATCH
  <2>2. SnpTypeOK'
    BY <1>1, <1>3, <1>carry, <2>1 DEF SnpInv, SnpTypeOK, data, regs, wake, Labels, RangeLabels
  <2>3. ValidatedSoFar'
    <3>1. LargePage' = LargePage /\ FitsHuge'
      BY <1>1, <1>2 DEF LargePage, FitsHuge, regs
    <3> QED BY <1>1, <2>1, <3>1, SameList
            DEF SnpInv, ValidatedSoFar, data, regs, RangeLabels, WakeLabels
  <2> QED BY <1>1, <1>6, <2>1, <2>2, <2>3, StillQuiet DEF SnpInv, RangeLabels
<1>8. CASE answer.eax = FAIL_SIZEMISMATCH
  <2>1. pc' = "validate_4k" /\ private' = private /\ r15' = 6
    BY <1>4, <1>5, <1>8 DEF Answered, FAIL_INPUT, FAIL_SIZEMISMATCH
  <2>2. SnpTypeOK'
    BY <1>1, <1>carry, <2>1 DEF SnpInv, SnpTypeOK, data, regs, wake, Labels, RangeLabels
  <2>3. ValidatedSoFar'
    BY <1>1, <1>2, <2>1, SameList
    DEF SnpInv, ValidatedSoFar, data, regs, RangeLabels, WakeLabels
  <2> QED BY <1>1, <1>6, <2>1, <2>2, <2>3, StillQuiet DEF SnpInv, RangeLabels
<1>9. CASE answer.eax = FAIL_INPUT
  <2>1. pc' = "die" /\ private' = private /\ r15' = FAIL_INPUT
    BY <1>4, <1>5, <1>9 DEF Answered, FAIL_INPUT, FAIL_SIZEMISMATCH
  <2> QED BY <1>1, <1>2, <1>carry, <2>1, DiesAtCursor
<1> QED BY <1>5, <1>7, <1>8, <1>9

\* A small page: valid and still to be cleared, or refused.
LEMMA Validate4KInv == SnpInv /\ Validate4K => SnpInv'
<1> SUFFICES ASSUME SnpInv, Validate4K PROVE SnpInv'
  OBVIOUS
<1>1. pc = "validate_4k" /\ UNCHANGED <<data, regs, clear, wake, report, ap>>
  BY DEF Validate4K, Answered
<1>2. r12 \in Nat /\ r13 \in Nat /\ r12 < r13
  BY <1>1 DEF SnpInv, ValidatedSoFar, RangeLabels, SnpTypeOK
<1>3. {r12} \cap private = {}
  BY <1>1, <1>2, RestIsFresh
<1>4. PICK answer \in Pvalidate({r12}) :
        /\ Answered({r12}, answer)
        /\ pc' = IF answer.eax = 0 /\ ~answer.carry THEN "zero_4k" ELSE "die"
  BY DEF Validate4K
<1>5. \/ answer.eax = 0 /\ answer.carry = FALSE
      \/ answer.eax \in {FAIL_INPUT, FAIL_SIZEMISMATCH} /\ answer.carry \in BOOLEAN
  BY <1>3, <1>4 DEF Pvalidate
<1>6. (BlockOK /\ GHCB \in imported /\ OnlyLentZeroed)'
  BY <1>1, SameList DEF SnpInv, data, OnlyLentZeroed, wake
<1>carry. bl' \in BOOLEAN
  <2>1. answer.carry \in BOOLEAN
    BY <1>4 DEF Pvalidate
  <2> QED BY <1>4, <2>1 DEF Answered
<1>7. CASE answer.eax = 0
  <2>1. /\ pc' = "zero_4k" /\ private' = private \cup {r12}
        /\ r15' = 0
    BY <1>4, <1>5, <1>7 DEF Answered, FAIL_INPUT, FAIL_SIZEMISMATCH
  <2>2. SnpTypeOK'
    BY <1>1, <1>2, <1>carry, <2>1 DEF SnpInv, SnpTypeOK, data, regs, wake, Labels, RangeLabels
  <2>3. ValidatedSoFar'
    BY <1>1, <1>2, <2>1, SameList
    DEF SnpInv, ValidatedSoFar, data, regs, RangeLabels, WakeLabels
  <2> QED BY <1>1, <1>6, <2>1, <2>2, <2>3, StillQuiet DEF SnpInv, RangeLabels
<1>8. CASE answer.eax # 0
  <2>1. /\ pc' = "die" /\ private' = private
        /\ r15' \in {FAIL_INPUT, FAIL_SIZEMISMATCH}
    BY <1>4, <1>5, <1>8 DEF Answered
  <2> QED BY <1>1, <1>2, <1>carry, <2>1, DiesAtCursor
<1> QED BY <1>7, <1>8

\* Clearing the page the walk has just validated takes the cursor past it.
LEMMA ZeroInv ==
  ASSUME SnpInv, pc \in {"zero_2m", "zero_4k"}, NEW size \in Nat, r12 + size <= r13,
         private = imported \cup FramesUpTo(rbp - 2) \cup (ranges[rbp - 1][1] .. r12 - 1)
                     \cup (r12 .. r12 + size - 1),
         Zero(r12 .. r12 + size - 1, r12 + size)
  PROVE  SnpInv'
<1> DEFINE lo == ranges[rbp - 1][1]
           page == r12 .. r12 + size - 1
<1>1. /\ rbp - 1 \in DOMAIN ranges /\ rbp - 1 - 1 = rbp - 2
      /\ lo \in Nat /\ r12 \in lo .. r13 /\ r13 = ranges[rbp - 1][2] /\ r13 \in Nat
  BY RangeOfCursor DEF RangeLabels
<1>2. /\ clear' = clear \cup page /\ r12' = r12 + size /\ pc' = "validate_range"
      /\ UNCHANGED <<data, rbp, r13, r15, bl, private, wake, report, ap>>
  BY DEF Zero
<1>3. clear = FramesUpTo(rbp - 2) \cup (lo .. r12 - 1)
  BY DEF SnpInv, ValidatedSoFar, RangeLabels
<1>4. (lo .. r12 - 1) \cup page = lo .. r12' - 1
  BY <1>1, <1>2
<1>5. SnpTypeOK'
  <2>1. page \subseteq Nat /\ r12' \in Nat
    BY <1>1, <1>2
  <2> QED BY <1>2, <2>1 DEF SnpInv, SnpTypeOK, data, wake, Labels, RangeLabels
<1>6. ValidatedSoFar'
  <2>1. r12' \in lo .. r13 /\ rbp > 1
    BY <1>1, <1>2 DEF SnpInv, ValidatedSoFar, RangeLabels
  <2>2. clear' = FramesUpTo(rbp - 2) \cup (lo .. r12' - 1)
    BY <1>2, <1>3, <1>4
  <2>3. private' = imported \cup FramesUpTo(rbp - 2) \cup (lo .. r12' - 1)
    BY <1>2, <1>4
  <2> QED BY <1>1, <1>2, <2>1, <2>2, <2>3, SameList
          DEF ValidatedSoFar, data, RangeLabels
<1>7. page \cap imported = {}
  <2>1. page \subseteq Frames(ranges[rbp - 1])
    BY <1>1 DEF Frames
  <2> QED BY <1>1, <2>1 DEF SnpInv, BlockOK
<1>8. (BlockOK /\ GHCB \in imported /\ OnlyLentZeroed)'
  BY <1>2, <1>7, SameList DEF SnpInv, data, OnlyLentZeroed, wake
<1> QED BY <1>2, <1>5, <1>6, <1>8, StillQuiet DEF SnpInv, RangeLabels

\* Both loops clear the page they were entered for.
LEMMA ZeroStepsInv == SnpInv /\ (Zero2M \/ Zero4K) => SnpInv'
<1> SUFFICES ASSUME SnpInv, Zero2M \/ Zero4K PROVE SnpInv'
  OBVIOUS
<1>1. r12 \in Nat /\ r13 \in Nat
  BY DEF SnpInv, SnpTypeOK
<1>2. CASE Zero2M
  <2>1. pc = "zero_2m" /\ FitsHuge
    BY <1>2 DEF Zero2M, SnpInv, ValidatedSoFar, RangeLabels
  <2>2. private = imported \cup FramesUpTo(rbp - 2) \cup (ranges[rbp - 1][1] .. r12 - 1)
                    \cup LargePage
    BY <2>1 DEF SnpInv, ValidatedSoFar, RangeLabels
  <2> QED BY <1>1, <1>2, <2>1, <2>2, HugeAssumption, ZeroInv DEF Zero2M, LargePage, FitsHuge
<1>3. CASE Zero4K
  <2>1. pc = "zero_4k" /\ r12 + 1 <= r13 /\ r12 .. r12 + 1 - 1 = {r12}
    BY <1>1, <1>3 DEF Zero4K, SnpInv, ValidatedSoFar, RangeLabels
  <2>2. private = imported \cup FramesUpTo(rbp - 2) \cup (ranges[rbp - 1][1] .. r12 - 1)
                    \cup {r12}
    BY <2>1 DEF SnpInv, ValidatedSoFar, RangeLabels
  <2> QED BY <1>1, <1>3, <2>1, <2>2, ZeroInv DEF Zero4K
<1> QED BY <1>2, <1>3

\* A report before the wake names the large page of the first missing frame.
LEMMA DieReports == SnpInv /\ Die => SnpInv'
<1> SUFFICES ASSUME SnpInv, Die PROVE SnpInv'
  OBVIOUS
<1>1. /\ pc = "die" /\ pc' = "fatal"
      /\ UNCHANGED <<data, regs, r15, bl, private, clear, wake, ap>>
  BY DEF Die
<1>2. r15 \in {1, 6} /\ r12 \in Missing /\ (\A f \in Missing : r12 <= f) /\ Quiet
  BY <1>1 DEF SnpInv, WakeSoFar
<1>3. report'.set \in {1, 6, 9, 14} /\ report'.code = (r12 \div HUGE) % 256
  BY <1>2 DEF Die
<1>4. report' \in [set: 0 .. 15, code: 0 .. 255]
  <2>1. r12 \div HUGE \in Int
    BY HugeAssumption DEF SnpInv, SnpTypeOK
  <2> QED BY <1>2, <2>1 DEF Die
<1>5. Missing' = Missing
  BY <1>1, SameGuest DEF Missing
<1>6. SnpTypeOK'
  BY <1>1, <1>4 DEF SnpInv, SnpTypeOK, data, regs, wake, Labels
<1>7. ReportTellsWhere'
  BY <1>2, <1>3, <1>5 DEF ReportTellsWhere, WAKE_SET
<1>8. WakeSoFar'
  BY <1>1, <1>2 DEF WakeSoFar, Quiet, wake, RangeLabels, WakeLabels
<1> QED BY <1>1, <1>6, <1>7, <1>8, SameList
        DEF SnpInv, ValidatedSoFar, RangeLabels, data, OnlyLentZeroed, wake

-----------------------------------------------------------------------------
(* The wake.                                                               *)

\* At a label of the wake the memory is complete.
LEMMA WakeIsComplete ==
  ASSUME SnpInv, pc \in WakeLabels
  PROVE  Complete /\ GHCB \in Target /\ GHCB \in Nat
BY DEF SnpInv, WakeSoFar, SnpTypeOK, Target

\* Past the end of the list only the label, the account of the wake and the memory
\* matter.
LEMMA WakeLabelInv ==
  ASSUME SnpInv, pc' \in WakeLabels \cup {"boot_kernel", "die_wake"}, UNCHANGED data,
         SnpTypeOK', WakeSoFar', OnlyLentZeroed'
  PROVE  SnpInv'
BY SameList DEF SnpInv, ValidatedSoFar, ReportTellsWhere, RangeLabels, WakeLabels, data

\* The fourth step zeroes the lent page, whether or not the host grants it; the others
\* zero nothing.
Zeroes(n) == clear' = IF n = 4 THEN clear \cup {GHCB} ELSE clear

\* So the lent page is the only one of the image zeroed, and that between the third grant
\* and the fourth.
LEMMA ZeroedByFour ==
  ASSUME SnpInv, pc \in WakeLabels, NEW n \in 1 .. 8, n = granted + 1, Zeroes(n),
         UNCHANGED data, granted' \in {granted, n}
  PROVE  /\ clear' \subseteq Nat
         /\ clear' \ {GHCB} = clear \ {GHCB}
         /\ OnlyLentZeroed'
<1>1. GHCB \in Nat /\ clear \subseteq Nat /\ granted \in 0 .. 8 /\ imported' = imported
  BY WakeIsComplete DEF SnpInv, SnpTypeOK, data
<1>2. OnlyLentZeroed
  BY DEF SnpInv
<1> QED BY <1>1, <1>2 DEF Zeroes, OnlyLentZeroed

\* A refused step is the next one to be granted, and changes nothing else of the account.
LEMMA RefuseInv ==
  ASSUME SnpInv, pc \in WakeLabels, NEW n \in 1 .. 8, n = granted + 1,
         Numbered(pc, n), Zeroes(n), Refuse
  PROVE  SnpInv'
<1>1. /\ pc' = "die_wake" /\ r15' = n
      /\ UNCHANGED <<data, regs, bl, report, ap, private, wake>>
  BY DEF Numbered, Refuse
<1>2. clear' \subseteq Nat /\ clear' \ {GHCB} = clear \ {GHCB} /\ OnlyLentZeroed'
  BY <1>1, ZeroedByFour DEF wake
<1>3. SnpTypeOK'
  BY <1>1, <1>2 DEF SnpInv, SnpTypeOK, data, regs, wake, Labels
<1>4. Complete'
  BY <1>1, <1>2, WakeIsComplete, SameGuest DEF Complete, data, wake
<1>5. WakeSoFar'
  BY <1>1, <1>4 DEF WakeSoFar, wake, RangeLabels, WakeLabels
<1> QED BY <1>1, <1>2, <1>3, <1>5, WakeLabelInv

\* A granted step leads to the label whose account it completes.
LEMMA GrantInv ==
  ASSUME SnpInv, pc \in WakeLabels, NEW n \in 1 .. 8, n = granted + 1,
         Numbered(pc, n), Zeroes(n),
         NEW label \in WakeLabels \cup {"boot_kernel"}, Grant(label),
         ghcb' \in {"private", "rescinded", "shared", "registered", "assigned"},
         pend' \in [APs -> SUBSET {"init", "sipi"}],
         private' = IF ghcb' = "private" THEN Target ELSE GuestRam,
         \/ label = "share"       /\ n = 1 /\ ghcb' = "rescinded"
         \/ label = "register"    /\ n = 2 /\ ghcb' = "shared"
         \/ label = "init"        /\ n = 3 /\ ghcb' = "registered"
         \/ label = "sipi1"       /\ n = 4 /\ ghcb' = "registered"
         \/ label = "sipi2"       /\ n = 5 /\ ghcb' = "registered"
         \/ label = "unshare"     /\ n = 6 /\ ghcb' = "registered"
         \/ label = "revalidate"  /\ n = 7 /\ ghcb' = "assigned"
         \/ label = "boot_kernel" /\ n = 8 /\ ghcb' = "private"
  PROVE  SnpInv'
<1>1. /\ pc' = label /\ granted' = n /\ r15' = n
      /\ UNCHANGED <<data, regs, bl, report, ap>>
  BY DEF Numbered, Grant
<1>2. private' \subseteq Nat
  BY WakeIsComplete DEF Complete, GuestRam, SnpInv, SnpTypeOK
<1>3. clear' \subseteq Nat /\ clear' \ {GHCB} = clear \ {GHCB} /\ OnlyLentZeroed'
  BY <1>1, ZeroedByFour
<1>4. SnpTypeOK'
  <2>1. SnpTypeOK /\ clear' \subseteq Nat
    BY <1>3 DEF SnpInv
  <2>2. pc' \in Labels /\ r15' \in 0 .. 8 /\ granted' \in 0 .. 8
    BY <1>1 DEF Labels
  <2> QED BY <1>1, <1>2, <2>1, <2>2 DEF SnpTypeOK, data, regs
<1>5. Complete'
  BY <1>1, <1>3, WakeIsComplete, SameGuest DEF Complete, data
<1>6. WakeSoFar'
  BY <1>1, <1>5 DEF WakeSoFar, RangeLabels, WakeLabels
<1> QED BY <1>1, <1>3, <1>4, <1>6, WakeLabelInv

\* The page is rescinded, shared and registered while nobody is told anything.
LEMMA LendInv == SnpInv /\ (Rescind \/ Share \/ Register) => SnpInv'
<1> SUFFICES ASSUME SnpInv, Rescind \/ Share \/ Register PROVE SnpInv'
  OBVIOUS
<1>1. pc \in WakeLabels /\ pend \in [APs -> SUBSET {"init", "sipi"}]
  BY DEF Rescind, Share, Register, Step, Numbered, WakeLabels, SnpInv, SnpTypeOK
<1>2. private = (IF ghcb = "private" THEN Target ELSE GuestRam)
  BY <1>1, WakeIsComplete DEF Complete
<1>3. CASE Rescind
  <2>1. pc = "rescind" /\ granted = 0 /\ ghcb = "private"
    BY <1>3 DEF Rescind, Step, Numbered, SnpInv, WakeSoFar
  <2>2. CASE Refuse
    BY <1>1, <1>3, <2>1, <2>2, RefuseInv DEF Rescind, Step, Zeroes
  <2>3. CASE ~Refuse
    BY <1>1, <1>2, <1>3, <2>1, <2>3, GrantInv DEF Rescind, Step, Zeroes, GuestRam, WakeLabels
  <2> QED BY <2>2, <2>3
<1>4. CASE Share
  <2>1. pc = "share" /\ granted = 1 /\ ghcb = "rescinded"
    BY <1>4 DEF Share, Step, Numbered, SnpInv, WakeSoFar
  <2>2. CASE Refuse
    BY <1>1, <1>4, <2>1, <2>2, RefuseInv DEF Share, Step, Zeroes
  <2>3. CASE ~Refuse
    BY <1>1, <1>2, <1>4, <2>1, <2>3, GrantInv DEF Share, Step, Zeroes, WakeLabels
  <2> QED BY <2>2, <2>3
<1>5. CASE Register
  <2>1. pc = "register" /\ granted = 2 /\ ghcb = "shared"
    BY <1>5 DEF Register, Step, Numbered, SnpInv, WakeSoFar
  <2>2. CASE Refuse
    BY <1>1, <1>5, <2>1, <2>2, RefuseInv DEF Register, Step, Zeroes
  <2>3. CASE ~Refuse
    BY <1>1, <1>2, <1>5, <2>1, <2>3, GrantInv DEF Register, Step, Zeroes, WakeLabels
  <2> QED BY <2>2, <2>3
<1> QED BY <1>3, <1>4, <1>5

\* Interrupts go through the page while it is registered.
LEMMA IpiInv ==
  ASSUME SnpInv, NEW event \in {"init", "sipi"}, NEW label \in WakeLabels, NEW n \in 1 .. 8,
         n = granted + 1, pc \in WakeLabels, ghcb = "registered",
         <<label, n>> \in {<<"sipi1", 4>>, <<"sipi2", 5>>, <<"unshare", 6>>},
         Numbered(pc, n), Zeroes(n), SendIpi(event, label)
  PROVE  SnpInv'
<1>1. CASE Refuse
  BY <1>1, RefuseInv
<1>2. CASE ~Refuse
  <2>1. /\ Grant(label) /\ UNCHANGED <<private, ghcb>>
        /\ pend' = [a \in APs |-> IF event = "init" THEN {"init"} ELSE pend[a] \cup {event}]
    BY <1>2 DEF SendIpi
  <2>2. pend' \in [APs -> SUBSET {"init", "sipi"}]
    BY <2>1 DEF SnpInv, SnpTypeOK
  <2>3. private = (IF ghcb = "private" THEN Target ELSE GuestRam)
    BY WakeIsComplete DEF Complete
  <2> QED BY <2>1, <2>2, <2>3, GrantInv
<1> QED BY <1>1, <1>2

\* The three interrupts.
LEMMA SendInv == SnpInv /\ (Init \/ Sipi1 \/ Sipi2) => SnpInv'
<1> SUFFICES ASSUME SnpInv, Init \/ Sipi1 \/ Sipi2 PROVE SnpInv'
  OBVIOUS
<1>1. CASE Init
  <2>1. pc = "init" /\ granted = 3 /\ ghcb = "registered"
    BY <1>1 DEF Init, Numbered, SnpInv, WakeSoFar
  <2>2. /\ 4 = granted + 1 /\ 4 \in 1 .. 8
        /\ pc \in WakeLabels /\ "sipi1" \in WakeLabels
        /\ <<"sipi1", 4>> \in {<<"sipi1", 4>>, <<"sipi2", 5>>, <<"unshare", 6>>}
        /\ Numbered(pc, 4) /\ SendIpi("init", "sipi1") /\ "init" \in {"init", "sipi"}
    BY <1>1, <2>1 DEF Init, WakeLabels
  <2>3. Zeroes(4)
    BY <1>1, <2>1 DEF Init, ZeroGhcb, Zeroes
  <2> QED BY <2>1, <2>2, <2>3, IpiInv
<1>2. CASE Sipi1
  <2>1. pc = "sipi1" /\ granted = 4 /\ ghcb = "registered"
    BY <1>2 DEF Sipi1, Step, Numbered, SnpInv, WakeSoFar
  <2>2. /\ 5 = granted + 1 /\ 5 \in 1 .. 8
        /\ pc \in WakeLabels /\ "sipi2" \in WakeLabels
        /\ <<"sipi2", 5>> \in {<<"sipi1", 4>>, <<"sipi2", 5>>, <<"unshare", 6>>}
        /\ Numbered(pc, 5) /\ Zeroes(5) /\ SendIpi("sipi", "sipi2") /\ "sipi" \in {"init", "sipi"}
    BY <1>2, <2>1 DEF Sipi1, Step, Zeroes, WakeLabels
  <2> QED BY <2>1, <2>2, IpiInv
<1>3. CASE Sipi2
  <2>1. pc = "sipi2" /\ granted = 5 /\ ghcb = "registered"
    BY <1>3 DEF Sipi2, Step, Numbered, SnpInv, WakeSoFar
  <2>2. /\ 6 = granted + 1 /\ 6 \in 1 .. 8
        /\ pc \in WakeLabels /\ "unshare" \in WakeLabels
        /\ <<"unshare", 6>> \in {<<"sipi1", 4>>, <<"sipi2", 5>>, <<"unshare", 6>>}
        /\ Numbered(pc, 6) /\ Zeroes(6) /\ SendIpi("sipi", "unshare") /\ "sipi" \in {"init", "sipi"}
    BY <1>3, <2>1 DEF Sipi2, Step, Zeroes, WakeLabels
  <2> QED BY <2>1, <2>2, IpiInv
<1> QED BY <1>1, <1>2, <1>3

\* The page is taken back in two steps, and only the second completes the memory.
LEMMA TakeBackInv == SnpInv /\ (Unshare \/ Revalidate) => SnpInv'
<1> SUFFICES ASSUME SnpInv, Unshare \/ Revalidate PROVE SnpInv'
  OBVIOUS
<1>1. pc \in WakeLabels /\ pend \in [APs -> SUBSET {"init", "sipi"}]
  BY DEF Unshare, Revalidate, Step, Numbered, WakeLabels, SnpInv, SnpTypeOK
<1>2. private = (IF ghcb = "private" THEN Target ELSE GuestRam) /\ GHCB \in Target
  BY <1>1, WakeIsComplete DEF Complete
<1>3. CASE Unshare
  <2>1. pc = "unshare" /\ granted = 6 /\ ghcb = "registered"
    BY <1>3 DEF Unshare, Step, Numbered, SnpInv, WakeSoFar
  <2>2. CASE Refuse
    BY <1>1, <1>3, <2>1, <2>2, RefuseInv DEF Unshare, Step, Zeroes
  <2>3. CASE ~Refuse
    BY <1>1, <1>2, <1>3, <2>1, <2>3, GrantInv DEF Unshare, Step, Zeroes, WakeLabels
  <2> QED BY <2>2, <2>3
<1>4. CASE Revalidate
  <2>1. pc = "revalidate" /\ granted = 7 /\ ghcb = "assigned"
    BY <1>4 DEF Revalidate, Step, Numbered, SnpInv, WakeSoFar
  <2>2. CASE Refuse
    BY <1>1, <1>4, <2>1, <2>2, RefuseInv DEF Revalidate, Step, Zeroes
  <2>3. CASE ~Refuse
    BY <1>1, <1>2, <1>4, <2>1, <2>3, GrantInv DEF Revalidate, Step, Zeroes, GuestRam, WakeLabels
  <2> QED BY <2>2, <2>3
<1> QED BY <1>3, <1>4

-----------------------------------------------------------------------------
(* The ways out, and the other processors.                                 *)

\* Entering the kernel changes the label only.
LEMMA EnterInv == SnpInv /\ BootKernel => SnpInv'
<1> SUFFICES ASSUME SnpInv, BootKernel PROVE SnpInv'
  OBVIOUS
<1>1. /\ pc = "boot_kernel" /\ pc' = "linux"
      /\ UNCHANGED <<data, regs, r15, bl, private, clear, wake, report, ap>>
  BY DEF BootKernel
<1>2. SnpTypeOK'
  BY <1>1 DEF SnpInv, SnpTypeOK, data, regs, wake, Labels
<1>3. Complete' /\ ghcb' = "private"
  BY <1>1, SameGuest DEF SnpInv, WakeSoFar, Complete, data, wake
<1>4. WakeSoFar'
  BY <1>1, <1>3 DEF WakeSoFar, RangeLabels, WakeLabels
<1> QED BY <1>1, <1>2, <1>4, SameList
        DEF SnpInv, ValidatedSoFar, ReportTellsWhere, RangeLabels, data, OnlyLentZeroed, wake

\* A report after a refusal numbers the step refused, and nothing is missing by then.
LEMMA DieWakeReports == SnpInv /\ DieWake => SnpInv'
<1> SUFFICES ASSUME SnpInv, DieWake PROVE SnpInv'
  OBVIOUS
<1>1. /\ pc = "die_wake" /\ pc' = "fatal" /\ report' = [set |-> WAKE_SET, code |-> r15]
      /\ UNCHANGED <<data, regs, r15, bl, private, clear, wake, ap>>
  BY DEF DieWake
<1>2. Complete /\ r15 = granted + 1 /\ r15 \in 1 .. 8
  BY <1>1 DEF SnpInv, WakeSoFar, SnpTypeOK
<1>3. SnpTypeOK'
  BY <1>1, <1>2 DEF SnpInv, SnpTypeOK, data, regs, wake, Labels, WAKE_SET
<1>4. Complete'
  BY <1>1, <1>2, SameGuest DEF Complete, data, wake
<1>5. WakeSoFar'
  BY <1>1, <1>2, <1>4 DEF WakeSoFar, RangeLabels, WakeLabels
<1>6. Missing' = {}
  BY <1>4 DEF Missing, Complete, GuestRam
<1>7. ReportTellsWhere'
  BY <1>1, <1>2, <1>6 DEF ReportTellsWhere, wake
<1> QED BY <1>1, <1>3, <1>5, <1>7, SameList
        DEF SnpInv, ValidatedSoFar, RangeLabels, data, OnlyLentZeroed, wake

\* What the other processors do disturbs only their own state, and nothing is left to do
\* for them while the boot processor has told them nothing.
LEMMA ApsInv ==
  ASSUME SnpInv, NEW a \in APs, ApStep(a) \/ Resume(a) \/ Create(a)
  PROVE  SnpInv'
<1>1. UNCHANGED others
  BY DEF ApStep, TakeInit, TakeSipi, Park, Resume, Create
<1>2. ~Quiet
  BY DEF Quiet, ApStep, TakeInit, TakeSipi, Park, Resume, Create, SnpInv, WakeSoFar
<1>3. /\ ap' \in [APs -> {"wait", "init", "stub", "held", "created"}]
      /\ pend' \in [APs -> SUBSET {"init", "sipi"}]
  <2>1. /\ ap \in [APs -> {"wait", "init", "stub", "held", "created"}]
        /\ pend \in [APs -> SUBSET {"init", "sipi"}]
    BY DEF SnpInv, SnpTypeOK
  <2>2. CASE ApStep(a)
    BY <2>1, <2>2 DEF ApStep, TakeInit, TakeSipi, Park
  <2>3. CASE Resume(a) \/ Create(a)
    BY <2>1, <2>3 DEF Resume, Create
  <2> QED BY <2>2, <2>3
<1>4. SnpTypeOK'
  <2>1. SnpTypeOK
    BY DEF SnpInv
  <2>2. UNCHANGED <<imported, ranges, pc, rbp, r12, r13, r15, bl, private, clear, ghcb, granted,
                    report>>
    BY <1>1 DEF others, data, regs
  <2> QED BY <1>3, <2>1, <2>2 DEF SnpTypeOK
<1>5. (Complete' <=> Complete) /\ Missing' = Missing
  <2>1. Target' = Target /\ GuestRam' = GuestRam
    BY <1>1, SameGuest DEF others
  <2>2. UNCHANGED <<imported, private, clear, ghcb>>
    BY <1>1 DEF others, data
  <2> QED BY <2>1, <2>2 DEF Complete, Missing
<1>6. WakeSoFar'
  BY <1>1, <1>2, <1>5 DEF others, regs, SnpInv, WakeSoFar
<1>7. ValidatedSoFar'
  BY <1>1, SameList DEF others, regs, data, SnpInv, ValidatedSoFar, LargePage, FitsHuge
<1>8. ReportTellsWhere'
  BY <1>1, <1>5 DEF others, SnpInv, ReportTellsWhere
<1> QED BY <1>1, <1>4, <1>6, <1>7, <1>8, SameList DEF others, data, SnpInv, OnlyLentZeroed

\* The boot processor has left, or nothing happens.
LEMMA StutterInv == SnpInv /\ UNCHANGED snpVars => SnpInv'
<1> SUFFICES ASSUME SnpInv, UNCHANGED snpVars PROVE SnpInv'
  OBVIOUS
<1>1. UNCHANGED <<imported, ranges, pc, rbp, r12, r13, r15, bl, private, clear, ghcb, granted,
                  pend, report, ap>>
  BY DEF snpVars, data, regs, wake
<1>2. Target' = Target /\ GuestRam' = GuestRam
  BY <1>1, SameGuest DEF data
<1>3. SnpTypeOK' /\ ValidatedSoFar'
  BY <1>1, SameList DEF data, SnpInv, SnpTypeOK, ValidatedSoFar, LargePage, FitsHuge
<1>4. WakeSoFar' /\ ReportTellsWhere'
  BY <1>1, <1>2 DEF SnpInv, WakeSoFar, Quiet, Complete, ReportTellsWhere, Missing
<1> QED BY <1>1, <1>3, <1>4, SameList DEF data, SnpInv, OnlyLentZeroed

\* Every step of SnpNext, or none.
LEMMA NextInv == SnpInv /\ [SnpNext]_snpVars => SnpInv'
BY NextRangeInv, RangeStepInv, Validate2MInv, Validate4KInv, ZeroStepsInv, LendInv, SendInv,
   TakeBackInv, EnterInv, DieReports, DieWakeReports, ApsInv, StutterInv
DEF SnpNext, ShimStep, SnpLeft

\* The SNP shim's invariant, for every well-formed image and any number of processors.
THEOREM SnpInvariant == SnpSpec => []SnpInv
BY InitInv, NextInv, PTL DEF SnpSpec

-----------------------------------------------------------------------------
(* What follows from it.                                                   *)

\* Every register, flag, report and event of snp_reset.S keeps its type, and RBP stays
\* in the block.
THEOREM SnpTypeCorrect == SnpSpec => []SnpTypeOK
<1>1. SnpInv => SnpTypeOK
  BY DEF SnpInv
<1> QED BY SnpInvariant, <1>1, PTL

\* At every label of the walk what is valid and what is clear follow from the cursor.
THEOREM ValidatedSoFarAlways == SnpSpec => []ValidatedSoFar
<1>1. SnpInv => ValidatedSoFar
  BY DEF SnpInv
<1> QED BY SnpInvariant, <1>1, PTL

\* snp_reset.S enters Linux with all of its memory valid, the lent page among it.
THEOREM EntersCompleteAlways == SnpSpec => []EntersComplete
<1>1. SnpInv => EntersComplete
  BY DEF SnpInv, WakeSoFar, Complete, EntersComplete
<1> QED BY SnpInvariant, <1>1, PTL

\* snp_reset.S clears all that the walk validates and no page of the image but the lent one,
\* and that one after it is shared and before an interrupt goes through it.
THEOREM ClearsWhatItValidatesAlways == SnpSpec => []ClearsWhatItValidates
<1>1. SnpInv => ClearsWhatItValidates
  BY DEF SnpInv, WakeSoFar, Complete, ClearsWhatItValidates
<1> QED BY SnpInvariant, <1>1, PTL

\* snp_reset.S touches no page before it may and validates none twice.
THEOREM NeverKillsItselfAlways == SnpSpec => []NeverKillsItself
<1>1. SnpInv => NeverKillsItself
  BY DEF SnpInv, WakeSoFar, NeverKillsItself
<1> QED BY SnpInvariant, <1>1, PTL

\* Nothing is lent and nobody woken before all private memory is valid and clear.
THEOREM WakesLastAlways == SnpSpec => []WakesLast
<1>1. SnpInv => WakesLast
  <2> SUFFICES ASSUME SnpInv, ~Quiet
               PROVE  GuestRam \subseteq private /\ Target \ imported \subseteq clear
    BY DEF WakesLast, Quiet
  <2>1. Complete
    BY DEF SnpInv, WakeSoFar, SnpTypeOK, Labels
  <2> QED BY <2>1 DEF Complete, GuestRam
<1> QED BY SnpInvariant, <1>1, PTL

\* A termination request names the step refused or the first page that is missing.
THEOREM ReportTellsWhereAlways == SnpSpec => []ReportTellsWhere
<1>1. SnpInv => ReportTellsWhere
  BY DEF SnpInv
<1> QED BY SnpInvariant, <1>1, PTL

-----------------------------------------------------------------------------
(* The refinement.                                                         *)

\* Whatever is valid is promised, at every label a walk or a wake stops at.
LEMMA PrivateInTarget ==
  SnpInv /\ pc \in {"validate_range", "validate_2m", "validate_4k", "zero_2m", "zero_4k"} =>
    private \subseteq Target
<1> SUFFICES ASSUME SnpInv, pc \in RangeLabels, NEW f \in private PROVE f \in Target
  BY DEF RangeLabels
<1>1. /\ rbp - 1 \in DOMAIN ranges /\ rbp - 1 - 1 = rbp - 2
      /\ ranges[rbp - 1][1] \in Nat /\ r12 \in ranges[rbp - 1][1] .. r13
      /\ r13 = ranges[rbp - 1][2] /\ r13 \in Nat
  BY RangeOfCursor
<1>2. FramesUpTo(rbp - 2) \cup Frames(ranges[rbp - 1]) \subseteq Target
  BY <1>1, PrefixInTarget DEF SnpInv, SnpTypeOK
<1>3. ranges[rbp - 1][1] .. r12 - 1 \subseteq Frames(ranges[rbp - 1])
  BY <1>1 DEF Frames
<1>4. pc = "zero_2m" => LargePage \subseteq Frames(ranges[rbp - 1])
  BY <1>1, HugeAssumption DEF SnpInv, ValidatedSoFar, RangeLabels, LargePage, FitsHuge, Frames
<1>5. pc = "zero_4k" => r12 \in Frames(ranges[rbp - 1])
  BY <1>1 DEF SnpInv, ValidatedSoFar, RangeLabels, Frames
<1> QED BY <1>2, <1>3, <1>4, <1>5 DEF SnpInv, ValidatedSoFar, Target

\* Every step is a step or a stutter of PrivateMemory for all but the lent page.
LEMMA StepRefines == SnpInv /\ [SnpNext]_snpVars => [Memory!MemNext]_(Memory!memVars)
<1> SUFFICES ASSUME SnpInv, [SnpNext]_snpVars
             PROVE  Memory!MemNext \/ UNCHANGED Memory!memVars
  OBVIOUS
<1> USE DEF Memory!MemNext, Memory!memVars, Memory!MakePrivate, Memory!EnterKernel, Memory!Halt,
            Phase
<1>1. CASE ValidateNext \/ ValidateRange
  BY <1>1, SameGuest DEF ValidateNext, ValidateRange
<1>2. CASE Validate2M \/ Validate4K
  <2>1. SnpInv'
    BY <1>2, Validate2MInv, Validate4KInv
  <2>2. /\ GuestRam' = GuestRam /\ Phase = "shim" /\ Phase' = "shim"
        /\ private \subseteq private'
        /\ pc' \in {"validate_4k", "zero_2m", "zero_4k", "die"}
    BY <1>2, SameGuest DEF Validate2M, Validate4K, Answered
  <2>3. CASE pc' = "die"
    <3>1. pc' # "die" \/ private' \subseteq private \/ r15' = 0
      BY <1>2 DEF Validate2M, Validate4K, Answered
    <3>2. r15' # 0
      BY <2>1, <2>3 DEF SnpInv, WakeSoFar
    <3> QED BY <2>2, <2>3, <3>1, <3>2
  <2>4. CASE pc' # "die"
    <3>1. (pc \in {"validate_range", "validate_2m", "validate_4k", "zero_2m", "zero_4k"})'
      BY <2>2, <2>4
    <3>2. (private \subseteq Target)'
      BY <2>1, <3>1, PrivateInTarget, PTL
    <3>3. private' \ {GHCB} \subseteq GuestRam'
      BY <3>2 DEF GuestRam
    <3> QED BY <2>2, <3>3
  <2> QED BY <2>3, <2>4
<1>3. CASE Zero2M \/ Zero4K
  <2>1. SnpInv'
    BY <1>3, ZeroStepsInv
  <2>2. pc' # "fault" /\ pc \in {"zero_2m", "zero_4k"}
    BY <1>3, <2>1 DEF SnpInv, Zero2M, Zero4K
  <2> QED BY <1>3, <2>2, SameGuest DEF Zero2M, Zero4K, Zero
<1>4. CASE Rescind \/ Share \/ Register \/ Init \/ Sipi1 \/ Sipi2 \/ Unshare \/ Revalidate
  <2>1. /\ SnpInv'
        /\ pc \in WakeLabels
        /\ pc' \in WakeLabels \cup {"boot_kernel", "die_wake", "fault"}
        /\ private' \ {GHCB} = private \ {GHCB}
        /\ UNCHANGED data
    BY <1>4, LendInv, SendInv, TakeBackInv
    DEF Rescind, Share, Register, Init, Sipi1, Sipi2, Unshare, Revalidate, Step, Numbered,
        SendIpi, Grant, Refuse, WakeLabels
  <2>2. pc' # "fault"
    BY <2>1 DEF SnpInv
  <2> QED BY <2>1, <2>2, SameGuest DEF WakeLabels
<1>5. CASE BootKernel
  <2>1. private \ {GHCB} = GuestRam
    BY <1>5 DEF BootKernel, SnpInv, WakeSoFar, Complete, GuestRam
  <2> QED BY <1>5, <2>1, SameGuest DEF BootKernel
<1>6. CASE Die \/ DieWake
  BY <1>6, SameGuest DEF Die, DieWake
<1>7. CASE UNCHANGED snpVars \/ \E a \in APs : ApStep(a) \/ Resume(a) \/ Create(a)
  <2>1. UNCHANGED <<data, pc, private>>
    BY <1>7 DEF snpVars, ApStep, TakeInit, TakeSipi, Park, Resume, Create, others
  <2> QED BY <2>1, SameGuest
<1> QED BY <1>1, <1>2, <1>3, <1>4, <1>5, <1>6, <1>7 DEF SnpNext, ShimStep, SnpLeft

\* The SNP shim implements the abstract promise on private memory.
THEOREM Refinement == SnpSpec => ImplementsPrivateMemory
<1>1. SnpInit => Memory!MemInit
  BY DEF SnpInit, Memory!MemInit, GuestRam, Target, Phase
<1> QED BY <1>1, StepRefines, SnpInvariant, PTL
        DEF SnpSpec, ImplementsPrivateMemory, Memory!MemSpec
=============================================================================
