----------------------------- MODULE MCMailbox ------------------------------
(* Three processors, each to be started somewhere else.                    *)
EXTENDS Mailbox

ThreeAPs == 1 .. 3
VectorOfThree == [a \in ThreeAPs |-> 10 + a]
=============================================================================
