------------------------------ MODULE Mailbox -------------------------------
(***************************************************************************)
(* How the other processors of a TD are started: each waits in src/reset.S *)
(* (ap_wait) polling the wakeup mailbox, three fields of one measured      *)
(* page, and the OS claims them one at a time.  Every load and store is a  *)
(* step of its own: nothing makes the three loads of the poll atomic.      *)
(*                                                                         *)
(* The OS is external.  It follows the ACPI multiprocessor wakeup          *)
(* protocol: write the APIC ID, write the vector, write the command, wait  *)
(* until the processor clears the command, and only then claim another.    *)
(***************************************************************************)
EXTENDS Integers, FiniteSets

CONSTANTS
  APs,       \* vCPU indices of the application processors
  Vector     \* Vector[a] is where the OS wants processor a to start

ASSUME APsAssumption == APs \subseteq Nat \ {0}
ASSUME VectorAssumption == Vector \in [APs -> Nat \ {0}]

VARIABLES
  command, apicId, vector,   \* the mailbox
  ap,        \* ap[a] is the instruction processor a is at
  rax,       \* rax[a] is the vector it loaded
  os,        \* the OS's step: "idle", "id", "vector", "command" or "wait"
  target,    \* the processor the OS is claiming, 0 before the first
  claimed    \* the processors whose command the OS has written

mailbox == <<command, apicId, vector>>
osVars == <<os, target, claimed>>
boxVars == <<command, apicId, vector, ap, rax, os, target, claimed>>

-----------------------------------------------------------------------------
(* The processors.                                                         *)

\* reset_start to long_mode: ESI is not zero, so the processor goes to wait.
Reset(a) ==
  /\ ap[a] = "reset"
  /\ ap' = [ap EXCEPT ![a] = "poll"]
  /\ UNCHANGED <<mailbox, rax, osVars>>

\* Each of the three tests of the poll goes on or back to the start.
PollTo(a, test, next) ==
  /\ ap' = [ap EXCEPT ![a] = IF test THEN next ELSE "poll"]
  /\ UNCHANGED <<mailbox, osVars>>

ReadCommand(a) ==
  /\ ap[a] = "poll"
  /\ PollTo(a, command = 1, "id")
  /\ UNCHANGED rax

\* Mutant: any named processor will do.
ReadApicId_AnyId(a) ==
  /\ ap[a] = "id"
  /\ PollTo(a, apicId # 0, "vector")
  /\ UNCHANGED rax

ReadApicId(a) ==
  /\ ap[a] = "id"
  /\ PollTo(a, apicId = a, "vector")
  /\ UNCHANGED rax

ReadVector(a) ==
  /\ ap[a] = "vector"
  /\ rax' = [rax EXCEPT ![a] = vector]
  /\ PollTo(a, vector # 0, "ack")

\* Mutant: the command is decremented instead of cleared.
Acknowledge_Decrements(a) ==
  /\ ap[a] = "ack"
  /\ command' = command - 1
  /\ ap' = [ap EXCEPT ![a] = "run"]
  /\ UNCHANGED <<apicId, vector, rax, osVars>>

\* Mutant: the command is not cleared.
Acknowledge_NoStore(a) ==
  /\ ap[a] = "ack"
  /\ ap' = [ap EXCEPT ![a] = "run"]
  /\ UNCHANGED <<mailbox, rax, osVars>>

Acknowledge(a) ==
  /\ ap[a] = "ack"
  /\ command' = 0
  /\ ap' = [ap EXCEPT ![a] = "run"]
  /\ UNCHANGED <<apicId, vector, rax, osVars>>

Poll(a) == Reset(a) \/ ReadCommand(a) \/ ReadApicId(a) \/ ReadVector(a) \/ Acknowledge(a)

-----------------------------------------------------------------------------
(* The OS.                                                                 *)

Claim(a) ==
  /\ os = "idle"
  /\ a \notin claimed
  /\ target' = a
  /\ os' = "id"
  /\ UNCHANGED <<mailbox, ap, rax, claimed>>

WriteApicId ==
  /\ os = "id"
  /\ apicId' = target
  /\ os' = "vector"
  /\ UNCHANGED <<command, vector, ap, rax, target, claimed>>

WriteVector ==
  /\ os = "vector"
  /\ vector' = Vector[target]
  /\ os' = "command"
  /\ UNCHANGED <<command, apicId, ap, rax, target, claimed>>

WriteCommand ==
  /\ os = "command"
  /\ command' = 1
  /\ claimed' = claimed \cup {target}
  /\ os' = "wait"
  /\ UNCHANGED <<apicId, vector, ap, rax, target>>

\* The OS spins on the command.
WaitForAck ==
  /\ os = "wait"
  /\ os' = IF command = 0 THEN "idle" ELSE "wait"
  /\ UNCHANGED <<mailbox, ap, rax, target, claimed>>

OsStep == WriteApicId \/ WriteVector \/ WriteCommand \/ WaitForAck \/ \E a \in APs : Claim(a)

-----------------------------------------------------------------------------

BoxInit ==
  /\ command = 0 /\ apicId = 0 /\ vector = 0
  /\ ap = [a \in APs |-> "reset"]
  /\ rax = [a \in APs |-> 0]
  /\ os = "idle" /\ target = 0 /\ claimed = {}

\* Every processor is running and the OS has no one left to claim.
AllAwake == os = "idle" /\ claimed = APs /\ UNCHANGED boxVars

BoxNext == OsStep \/ AllAwake \/ \E a \in APs : Poll(a)

\* Each processor runs on its own and so does the OS.
BoxSpec ==
  /\ BoxInit
  /\ [][BoxNext]_boxVars
  /\ WF_boxVars(OsStep)
  /\ \A a \in APs : WF_boxVars(Poll(a))

-----------------------------------------------------------------------------

BoxTypeOK ==
  /\ command \in {0, 1}
  /\ apicId \in APs \cup {0}
  /\ vector \in {0} \cup { Vector[a] : a \in APs }
  /\ ap \in [APs -> {"reset", "poll", "id", "vector", "ack", "run"}]
  /\ rax \in [APs -> {0} \cup { Vector[a] : a \in APs }]
  /\ os \in {"idle", "id", "vector", "command", "wait"}
  /\ target \in APs \cup {0}
  /\ claimed \subseteq APs

\* At most one processor is past the comparison of its ID, so at most one store
\* can clear the command, and it is the OS's target (reset.S 96-103).
OneResponder ==
  \A a, b \in APs : ap[a] \in {"vector", "ack"} =>
    /\ target = a
    /\ ap[b] \in {"vector", "ack"} => a = b

\* The OS takes a processor for started only when it is: no other processor's store,
\* however late, answers for it (reset.S 94-104).
AckMeansRunning ==
  \A a \in claimed : ~(os = "wait" /\ target = a) => ap[a] = "run"

\* A processor the OS has claimed starts, whatever the others' polls read and whichever
\* way its own three loads fell between the OS's three stores.  All of them start, and
\* the OS sees each answer, unless one answered for a command the OS had yet to write,
\* the race that WaitsForClaim is about: without it no acknowledgement is lost and the
\* OS never waits for ever (reset.S 90-104).
EveryoneStarts ==
  /\ \A a \in APs : a \in claimed ~> ap[a] = "run"
  /\ [](\A a \in APs : ap[a] = "run" => a \in claimed)
       => <>(os = "idle" /\ claimed = APs /\ \A a \in APs : ap[a] = "run")

\* The wait ends when the OS claims the processor (reset.S 89): none has left before
\* the command naming it was written.
WaitsForClaim == \A a \in APs : ap[a] = "run" => a \in claimed
=============================================================================
