---------------------------- MODULE FileTransfer ----------------------------
(***************************************************************************)
(* What a TRTP transfer promises: the blocks of the file, numbered from 0, *)
(* appear in order and once each on the receiver's output; the receiver    *)
(* ends with the last one; the sender returns only after that.             *)
(***************************************************************************)
EXTENDS Naturals, Sequences

CONSTANT FileLen

VARIABLES
    received,    \* the blocks printed so far
    ended,       \* the receiver has ended the transfer
    returned     \* the sender has returned

vars == <<received, ended, returned>>

Init ==
    /\ received = <<>>
    /\ ended = FALSE
    /\ returned = FALSE

(* The n blocks that follow those already received. *)
NextBlocks(n) == [i \in 1 .. n |-> Len(received) + i - 1]

Deliver ==
    /\ ~ended
    /\ \E n \in 0 .. FileLen - Len(received) :
         received' = received \o NextBlocks(n)
    /\ ended' \in {FALSE, Len(received') = FileLen}
    /\ UNCHANGED returned

Return ==
    /\ ended
    /\ returned' = TRUE
    /\ UNCHANGED <<received, ended>>

Next == Deliver \/ Return

Spec == Init /\ [][Next]_vars
=============================================================================
