---------------------------- MODULE TrtpNetwork ----------------------------
(***************************************************************************)
(* The path between the two programs: one queue of datagrams each way, the *)
(* sockets' error state, and what a link may do to a datagram in transit   *)
(* (Linksimulator/link_sim.c: loss, truncation, corruption, and reordering *)
(* by jitter).  Every fault uses up one unit of a budget.                  *)
(***************************************************************************)
EXTENDS TrtpPackets, SequencesExt

CONSTANTS
    Proxied,     \* the programs talk through link_sim, not to each other
    Faults,      \* the kinds of fault that may happen in this run
    MaxFaults    \* how many of them, altogether

FaultKinds == {"loseData", "loseAck", "cutData", "errData", "errAck",
               "swapData", "swapAck", "block", "premature", "killSender",
               "killReceiver", "start"}

ASSUME NetworkAssumption ==
    /\ Proxied \in BOOLEAN
    /\ Faults \subseteq FaultKinds
    /\ MaxFaults \in Nat

VARIABLES
    dataCh,      \* datagrams on their way to the receiver
    ackCh,       \* datagrams on their way to the sender
    faults,      \* faults so far
    sstat,       \* the sender's process
    rstat        \* the receiver's process

netVars == <<dataCh, ackCh, faults>>

(***************************************************************************)
(* A process is in state "ub" once it has read, freed or followed memory   *)
(* that is not a packet of its list; nothing is modelled of it afterwards. *)
(* It is "failed" when main returned EXIT_FAILURE before the transfer.     *)
(***************************************************************************)
SenderStates == {"idle", "running", "closing", "done", "failed", "killed",
                 "ub"}
ReceiverStates == {"unbound", "bound", "open", "closing", "closed",
                   "aborted", "failed", "killed", "ub"}

(* A socket is bound to the address the peer writes to. *)
SenderUp == sstat \in {"running", "closing"}
ReceiverUp == rstat \in {"bound", "open", "closing"}

NetTypeOK ==
    /\ dataCh \in Seq(DataMsgs)
    /\ ackCh \in Seq(ControlMsgs)
    /\ faults \in 0 .. MaxFaults
    /\ sstat \in SenderStates
    /\ rstat \in ReceiverStates

NetInit ==
    /\ dataCh = <<>>
    /\ ackCh = <<>>
    /\ faults = 0

(***************************************************************************)
(* write(2) on a connected UDP socket whose peer reads queue q.  A pending *)
(* ICMP error is what the call returns, instead of sending; writing to a   *)
(* port nobody holds raises one, unless link_sim stands in between.        *)
(***************************************************************************)
WriteTo(q, err, m, up) ==
    IF err THEN [q |-> q, err |-> FALSE]
    ELSE IF up THEN [q |-> Append(q, m), err |-> FALSE]
    ELSE [q |-> q, err |-> ~Proxied]

Fault(kind) ==
    /\ kind \in Faults
    /\ faults < MaxFaults
    /\ faults' = faults + 1

Swapped(q, i) == [q EXCEPT ![i] = q[i + 1], ![i + 1] = q[i]]

-----------------------------------------------------------------------------
(* simulate_link drops a datagram. *)
LoseData ==
    /\ Fault("loseData")
    /\ \E i \in DOMAIN dataCh : dataCh' = RemoveAt(dataCh, i)
    /\ UNCHANGED ackCh

LoseAck ==
    /\ Fault("loseAck")
    /\ \E i \in DOMAIN ackCh : ackCh' = RemoveAt(ackCh, i)
    /\ UNCHANGED dataCh

(* simulate_link cuts a DATA packet that has a payload, and sets TR. *)
CutData ==
    /\ Fault("cutData")
    /\ \E i \in DOMAIN dataCh :
         /\ dataCh[i].mark = "ok" /\ ~IsEof(dataCh[i].id)
         /\ dataCh' = [dataCh EXCEPT ![i].mark = "cut"]
    /\ UNCHANGED ackCh

(* simulate_link inverts one byte. *)
CorruptData ==
    /\ Fault("errData")
    /\ \E i \in DOMAIN dataCh :
         /\ dataCh[i].mark = "ok"
         /\ dataCh' = [dataCh EXCEPT ![i].mark = "err"]
    /\ UNCHANGED ackCh

CorruptAck ==
    /\ Fault("errAck")
    /\ \E i \in DOMAIN ackCh :
         /\ ackCh[i].mark = "ok"
         /\ ackCh' = [ackCh EXCEPT ![i].mark = "err"]
    /\ UNCHANGED dataCh

(* Two datagrams whose jittered expiration dates are inverted. *)
SwapData ==
    /\ Fault("swapData")
    /\ \E i \in 1 .. Len(dataCh) - 1 : dataCh' = Swapped(dataCh, i)
    /\ UNCHANGED ackCh

SwapAck ==
    /\ Fault("swapAck")
    /\ \E i \in 1 .. Len(ackCh) - 1 : ackCh' = Swapped(ackCh, i)
    /\ UNCHANGED dataCh

(* Somebody stops a program, by kill -9 or ^C.  What waits in the          *)
(* receiver's socket is gone with it.                                      *)
KillSender ==
    /\ Fault("killSender")
    /\ SenderUp
    /\ sstat' = "killed"
    /\ UNCHANGED <<dataCh, ackCh, rstat>>

KillReceiver ==
    /\ Fault("killReceiver")
    /\ ReceiverUp
    /\ rstat' = "killed"
    /\ dataCh' = <<>>
    /\ UNCHANGED <<ackCh, sstat>>

Kill == KillSender \/ KillReceiver

Link == \/ LoseData \/ LoseAck \/ CutData \/ CorruptData \/ CorruptAck
        \/ SwapData \/ SwapAck
=============================================================================
