--------------------------- MODULE MailboxProofs ----------------------------
(***************************************************************************)
(* Proofs about Mailbox, for any set of application processors and any     *)
(* vectors.                                                                *)
(*                                                                         *)
(* The argument is what the three loads of the poll can meet (Protocol):   *)
(* the mailbox names the OS's target, except between the OS's choice of a  *)
(* new one and its first store, when it still names a processor that runs  *)
(* already.  So a processor that finds its own ID is the target, and only  *)
(* the target's store can end the OS's wait.                               *)
(***************************************************************************)
EXTENDS Mailbox, TLAPS

Protocol ==
  /\ os # "id" => apicId = target
  /\ os = "id" => apicId \in claimed \cup {0}
  /\ os = "idle" => target \in claimed \cup {0}
  /\ os \in {"id", "vector", "command"} => target \in APs
  /\ os = "wait" => target \in claimed /\ (command = 0 => ap[target] = "run")

BoxInv == BoxTypeOK /\ OneResponder /\ AckMeansRunning /\ Protocol

-----------------------------------------------------------------------------

\* The mailbox is blank and nobody has left the reset page.
LEMMA InitInv == BoxInit => BoxInv
<1> SUFFICES ASSUME BoxInit PROVE BoxInv
  OBVIOUS
<1>1. BoxTypeOK
  BY DEF BoxInit, BoxTypeOK
<1> QED BY <1>1 DEF BoxInit, BoxInv, OneResponder, AckMeansRunning, Protocol

\* A processor that is still polling stores nothing, and goes past the comparison only
\* when it is the target.
LEMMA PollInv ==
  ASSUME BoxInv, NEW a \in APs, Reset(a) \/ ReadCommand(a) \/ ReadApicId(a) \/ ReadVector(a)
  PROVE  BoxInv'
<1> USE DEF BoxInv
<1>1. UNCHANGED <<mailbox, osVars>>
  BY DEF Reset, ReadCommand, ReadApicId, ReadVector, PollTo
<1>2. PICK label \in {"poll", "id", "vector", "ack"} : ap' = [ap EXCEPT ![a] = label]
  BY DEF Reset, ReadCommand, ReadApicId, ReadVector, PollTo
<1>3. ap[a] # "run"
  BY DEF Reset, ReadCommand, ReadApicId, ReadVector
<1>4. rax' \in [APs -> {0} \cup { Vector[b] : b \in APs }]
  BY DEF Reset, ReadCommand, ReadApicId, ReadVector, BoxTypeOK
<1>5. BoxTypeOK'
  BY <1>1, <1>2, <1>4 DEF BoxTypeOK, mailbox, osVars
<1>6. label \in {"vector", "ack"} => target = a
  <2>1. CASE ReadApicId(a)
    <3>1. ap[a] = "id" /\ (label = "vector" => apicId = a)
      BY <2>1, <1>2 DEF ReadApicId, PollTo, BoxTypeOK
    <3>2. apicId = a => os # "id"
      BY <3>1, APsAssumption DEF Protocol, AckMeansRunning
    <3> QED BY <2>1, <3>1, <3>2, <1>2 DEF Protocol, ReadApicId, PollTo, BoxTypeOK
  <2>2. CASE ReadVector(a)
    BY <2>2 DEF ReadVector, OneResponder
  <2>3. CASE Reset(a) \/ ReadCommand(a)
    BY <2>3, <1>2 DEF Reset, ReadCommand, PollTo, BoxTypeOK
  <2> QED BY <2>1, <2>2, <2>3
<1>7. OneResponder'
  BY <1>1, <1>2, <1>6 DEF OneResponder, BoxTypeOK, osVars
<1>8. AckMeansRunning'
  BY <1>1, <1>2, <1>3 DEF AckMeansRunning, BoxTypeOK, osVars
<1>9. Protocol'
  BY <1>1, <1>2, <1>3 DEF Protocol, BoxTypeOK, mailbox, osVars
<1> QED BY <1>5, <1>7, <1>8, <1>9

\* The store that clears the command is the target's, and the target runs.
LEMMA AcknowledgeInv ==
  ASSUME BoxInv, NEW a \in APs, Acknowledge(a)
  PROVE  BoxInv'
<1> USE DEF BoxInv
<1>1. /\ target = a /\ command' = 0 /\ ap' = [ap EXCEPT ![a] = "run"]
      /\ UNCHANGED <<apicId, vector, rax, osVars>>
  BY DEF Acknowledge, OneResponder
<1>2. BoxTypeOK'
  BY <1>1 DEF BoxTypeOK, osVars
<1>3. OneResponder'
  BY <1>1 DEF OneResponder, BoxTypeOK, osVars
<1>4. AckMeansRunning'
  BY <1>1 DEF AckMeansRunning, BoxTypeOK, osVars
<1>5. Protocol'
  BY <1>1 DEF Protocol, BoxTypeOK, osVars
<1> QED BY <1>2, <1>3, <1>4, <1>5

\* The OS goes on to another processor when nobody is past the comparison any more.
LEMMA ClaimInv ==
  ASSUME BoxInv, NEW a \in APs, Claim(a)
  PROVE  BoxInv'
<1> USE DEF BoxInv
<1>1. /\ os = "idle" /\ a \notin claimed /\ target' = a /\ os' = "id"
      /\ UNCHANGED <<mailbox, ap, rax, claimed>>
  BY DEF Claim
<1>2. BoxTypeOK'
  BY <1>1 DEF BoxTypeOK, mailbox
<1>3. \A b \in APs : ap[b] \notin {"vector", "ack"}
  BY <1>1, APsAssumption DEF OneResponder, AckMeansRunning, Protocol
<1> QED BY <1>1, <1>2, <1>3 DEF OneResponder, AckMeansRunning, Protocol, mailbox

\* The three stores of the OS move no processor.
LEMMA StoreInv == BoxInv /\ (WriteApicId \/ WriteVector \/ WriteCommand) => BoxInv'
<1> SUFFICES ASSUME BoxInv, WriteApicId \/ WriteVector \/ WriteCommand PROVE BoxInv'
  OBVIOUS
<1> USE DEF BoxInv
<1>1. target \in APs /\ UNCHANGED <<ap, rax, target>>
  BY DEF WriteApicId, WriteVector, WriteCommand, Protocol
<1>2. BoxTypeOK'
  BY <1>1 DEF WriteApicId, WriteVector, WriteCommand, BoxTypeOK
<1>3. OneResponder'
  BY <1>1 DEF OneResponder
<1>4. AckMeansRunning'
  BY <1>1 DEF WriteApicId, WriteVector, WriteCommand, AckMeansRunning
<1>5. Protocol'
  BY <1>1 DEF WriteApicId, WriteVector, WriteCommand, Protocol
<1> QED BY <1>2, <1>3, <1>4, <1>5

\* The OS stops waiting when its target runs.
LEMMA WaitInv == BoxInv /\ WaitForAck => BoxInv'
<1> SUFFICES ASSUME BoxInv, WaitForAck PROVE BoxInv'
  OBVIOUS
<1> USE DEF BoxInv
<1>1. /\ os = "wait" /\ os' = IF command = 0 THEN "idle" ELSE "wait"
      /\ UNCHANGED <<mailbox, ap, rax, target, claimed>>
  BY DEF WaitForAck
<1>2. BoxTypeOK'
  BY <1>1 DEF BoxTypeOK, mailbox
<1> QED BY <1>1, <1>2 DEF OneResponder, AckMeansRunning, Protocol, mailbox

\* Nothing happens.
LEMMA StutterInv == BoxInv /\ UNCHANGED boxVars => BoxInv'
BY DEF BoxInv, boxVars, BoxTypeOK, OneResponder, AckMeansRunning, Protocol

\* The mailbox's invariant, for any number of processors.
THEOREM BoxInvariant == BoxSpec => []BoxInv
<1>1. BoxInv /\ [BoxNext]_boxVars => BoxInv'
  BY PollInv, AcknowledgeInv, ClaimInv, StoreInv, WaitInv, StutterInv
  DEF BoxNext, OsStep, AllAwake, Poll
<1> QED BY InitInv, <1>1, PTL DEF BoxSpec

\* The fields of the mailbox, the labels of the poll and the OS's steps keep their types.
THEOREM BoxTypeCorrect == BoxSpec => []BoxTypeOK
<1>1. BoxInv => BoxTypeOK
  BY DEF BoxInv
<1> QED BY BoxInvariant, <1>1, PTL

\* Only the OS's target is ever past the comparison of its ID.
THEOREM OneResponderAlways == BoxSpec => []OneResponder
<1>1. BoxInv => OneResponder
  BY DEF BoxInv
<1> QED BY BoxInvariant, <1>1, PTL

\* An acknowledgement the OS has seen means that the processor it named runs.
THEOREM AckMeansRunningAlways == BoxSpec => []AckMeansRunning
<1>1. BoxInv => AckMeansRunning
  BY DEF BoxInv
<1> QED BY BoxInvariant, <1>1, PTL
=============================================================================
