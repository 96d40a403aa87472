-------------------------------- MODULE Trtp --------------------------------
(***************************************************************************)
(* A transfer: the sender, the receiver and the path between them.         *)
(***************************************************************************)
EXTENDS TrtpSender, TrtpReceiver

vars == <<netVars, sstat, rstat, sVars, rVars>>

Init == NetInit /\ SenderInit /\ ReceiverInit

(***************************************************************************)
(* The first packet of the sender's list, or an answer to it, is on its    *)
(* way: its timer expires only on a round trip of more than half a second. *)
(***************************************************************************)
HeadInFlight ==
    LET seq == SeqnumOf(listPkt[0])
        ack == SeqnumOf(listPkt[0] + 1)
    IN \/ \E i \in DOMAIN dataCh : dataCh[i].id = listPkt[0]
       \/ \E i \in DOMAIN ackCh :
            <<ackCh[i].type, ackCh[i].seq>>
               \in {<<"ack", ack>>, <<"nack", seq>>}
       \/ ReceiverUp /\ (partial_ack = ack \/ nack_r = seq)
       \/ nack = seq

(* Nor does it, but by accident, in the pass that met an ICMP error. *)
Retransmit ==
    /\ Timeout
    /\ IF HeadInFlight \/ serr THEN Fault("premature") ELSE UNCHANGED faults

SenderStep ==
    \/ SenderStart /\ (ReceiverFirst => rstat # "unbound")
    \/ SenderStartFails
    \/ RecvAck \/ RecvNack \/ RecvCorrupted \/ SenderIdle \/ SenderError
    \/ ResendNacked \/ StartBurst \/ SendNext \/ EndBurst \/ NoTimeout
    \/ Retransmit

ReceiverStep ==
    \/ Bind \/ ReceiverStartFails \/ Accept \/ Receive \/ ReceiveError
    \/ PollError \/ ReceiverIdle \/ Answer

(* Both programs have returned, or crashed. *)
Terminated ==
    /\ sstat \in {"done", "failed", "killed", "ub"}
    /\ rstat \in {"closed", "aborted", "failed", "killed", "ub"}
    /\ UNCHANGED vars

Next ==
    \/ SenderStep /\ UNCHANGED rVars
    \/ ReceiverStep /\ UNCHANGED sVars
    \/ Link /\ UNCHANGED <<sstat, rstat, sVars, rVars>>
    \/ Kill /\ UNCHANGED <<sVars, rVars>>
    \/ Terminated

Spec == Init /\ [][Next]_vars

(***************************************************************************)
(* Each program is one thread in a loop that is never blocked for ever     *)
(* while poll has something to report.  The sender's loop spins, so that   *)
(* clock() advances and the timer of its first packet must run out.        *)
(***************************************************************************)
Fairness ==
    /\ WF_vars(SenderStep /\ UNCHANGED rVars)
    /\ SF_vars(Retransmit /\ UNCHANGED rVars)
    /\ WF_vars(ReceiverStep /\ UNCHANGED sVars)

FairSpec == Spec /\ Fairness

-----------------------------------------------------------------------------
(* The types of both programs' variables and of the path's. *)
TypeOK == NetTypeOK /\ SenderTypeOK /\ ReceiverTypeOK

(***************************************************************************)
(* Neither program crashes: the sender never encodes a packet its list     *)
(* does not hold, and neither reads or frees memory that is no packet.     *)
(***************************************************************************)
NoUndefinedBehaviour == sstat # "ub" /\ rstat # "ub"

(***************************************************************************)
(* What the receiver has printed is the beginning of the file: no block is *)
(* missing, repeated or out of its place.                                  *)
(***************************************************************************)
OutputIsPrefix == \A i \in DOMAIN out : out[i] = i - 1

(* A receiver that closed the transfer has printed the whole file. *)
CloseMeansComplete == rstat = "closed" => Len(out) = FileLen

(* A sender that returned has had its whole file printed. *)
SuccessMeansComplete == sstat = "done" => Len(out) = FileLen

(***************************************************************************)
(* The sender keeps to the receiver's window: no packet is under way that  *)
(* the receiver has no slot of its own for.                                *)
(***************************************************************************)
NoOverrun == \A i \in DOMAIN dataCh : dataCh[i].id < Len(out) + RecvWin

(***************************************************************************)
(* An ACK on its way to the sender answers a packet the receiver has       *)
(* printed or holds, whatever the receiver made of damaged, repeated or    *)
(* late datagrams before.                                                  *)
(***************************************************************************)
Accepted == Range(out) \cup {listPkt_r[i].id : i \in Window}

AckIsAccepted ==
    \A i \in DOMAIN ackCh :
        ackCh[i].type = "ack" =>
            \E id \in Accepted \ {NoPayload} : SeqnumOf(id + 1) = ackCh[i].seq

(***************************************************************************)
(* The sender's list gives up a block of the file only once the receiver   *)
(* has accepted it: until then it can be sent again.                       *)
(***************************************************************************)
ReleasedIsAccepted ==
    \A id \in 0 .. seqnum - 1 :
        ~IsEof(id) /\ id \notin Range(listPkt) => id \in Accepted

(* Both programs come to their end, unless somebody stops one. *)
Terminates ==
    <>(\/ sstat = "done" /\ rstat = "closed"
       \/ sstat = "killed" \/ rstat = "killed")

(***************************************************************************)
(* A sender whose receiver was stopped, at whatever moment, does not go on *)
(* for ever: there is always a packet left to repeat, and the error it     *)
(* raises is seen.                                                         *)
(***************************************************************************)
SenderNoticesDeath == rstat = "killed" /\ SenderUp ~> ~SenderUp

(***************************************************************************)
(* A receiver whose sender was stopped notices it if an answer is still    *)
(* due and nothing is left to read.  With a datagram left to read it may   *)
(* not: read then fails, the answer it has just encoded is taken for a     *)
(* packet, answered in its turn, and so on for ever.                       *)
(***************************************************************************)
ReceiverNoticesDeath ==
    (/\ sstat = "killed" /\ rstat = "open"
     /\ partial_ack # NoSeqnum /\ dataCh = <<>>) ~> rstat # "open"

(***************************************************************************)
(* The receiver comes to the end of the transfer, with all of the file but *)
(* for less than a last window printed.  Of that the EOF may have run past *)
(* blocks that were lost (eof_first); it is not sent before the others are *)
(* acknowledged.                                                           *)
(***************************************************************************)
Delivers == <>(rstat = "closed" /\ Len(out) + RecvWin > FileLen)

(* The sender returns once the receiver has closed the transfer. *)
SenderReturns == rstat = "closed" ~> sstat = "done"

(***************************************************************************)
(* Seen from outside, a transfer is the abstract FileTransfer: the file    *)
(* appears block by block on the receiver's output, the receiver ends      *)
(* after the last one, the sender returns after the receiver has ended -   *)
(* or was stopped, which the sender cannot tell from it: main returns      *)
(* EXIT_SUCCESS all the same, and this mapping leaves that return out.     *)
(***************************************************************************)
Transfer == INSTANCE FileTransfer
                WITH received <- out,
                     ended <- rstat = "closed",
                     returned <- sstat = "done" /\ rstat # "killed"

ImplementsFileTransfer == Transfer!Spec
=============================================================================
