----------------------------- MODULE TrtpSender -----------------------------
(***************************************************************************)
(* sender.c and read_write_loop_sender.c: the start of the sender and its  *)
(* loop.  One pass polls the socket, reads at most one datagram (spc =     *)
(* "poll"), then, if the socket is writable, repeats the packet of the     *)
(* last NACK ("write"), sends the packets the window has room for          *)
(* ("burst"), and repeats the first packet of the list when its timer has  *)
(* expired ("timer").                                                      *)
(***************************************************************************)
EXTENDS TrtpNetwork

NULL == -1          \* an empty slot, and find_buffer's "not found"
NoNack == -1        \* nack: nothing to repeat
IgnoredNack == SeqSpace \* nack = 256: the last NACK was out of range

VARIABLES
    spc,            \* where in a pass the sender is
    serr,           \* an ICMP error is pending on its socket
    listPkt,        \* the packets to send or being sent, NULL once acked
    freed,          \* packets pkt_del has freed and listPkt still points to
    seqnum,         \* id of the next packet made from the file
    base,           \* seqnum the window starts at
    nextseqnum,     \* next seqnum to send; may pass SeqSpace in a burst
    window,         \* the largest window the receiver has announced
    lastAck,        \* seqnum of the last ACK; last_valid is always its equal
    nack,           \* seqnum of the last NACK, until it is repeated
    buffer_update   \* the front of listPkt was acked: send more

sVars == <<spc, serr, listPkt, freed, seqnum, base, nextseqnum, window,
           lastAck, nack, buffer_update>>

Slots == 0 .. BufSize - 1

SenderTypeOK ==
    /\ spc \in {"poll", "write", "burst", "timer"}
    /\ serr \in BOOLEAN
    /\ listPkt \in [Slots -> Nat \cup {NULL}]
    /\ freed \in SUBSET Nat
    /\ seqnum \in Nat
    /\ base \in Seqnums
    /\ nextseqnum \in 0 .. SeqSpace + RecvWin
    /\ window \in 1 .. RecvWin
    /\ lastAck \in Seqnums
    /\ nack \in Seqnums \cup {NoNack, IgnoredNack}
    /\ buffer_update \in BOOLEAN

(* clear_and_fill_buffer(listPkt, -10, ...): the first BufSize packets. *)
SenderInit ==
    /\ sstat = "idle"
    /\ spc = "poll"
    /\ serr = FALSE
    /\ listPkt = [i \in Slots |-> i]
    /\ freed = {}
    /\ seqnum = BufSize
    /\ base = 0
    /\ nextseqnum = 0
    /\ window = 1
    /\ lastAck = 0
    /\ nack = NoNack
    /\ buffer_update = TRUE

-----------------------------------------------------------------------------
(***************************************************************************)
(* main: the file is opened, the receiver's address resolved, the socket   *)
(* connected, and the loop entered.  Connecting a UDP socket sends nothing *)
(* and succeeds whether or not somebody listens.                           *)
(***************************************************************************)
SenderStart ==
    /\ sstat = "idle"
    /\ sstat' = "running"
    /\ UNCHANGED <<netVars, rstat, sVars>>

(* One of these fails and main returns EXIT_FAILURE; but a file that is    *)
(* there and cannot be opened is read through a NULL pointer.              *)
SenderStartFails ==
    /\ sstat = "idle"
    /\ Fault("start")
    /\ sstat' \in {"failed", "ub"}
    /\ UNCHANGED <<dataCh, ackCh, rstat, sVars>>

-----------------------------------------------------------------------------
(* The slots of the first win whose packet has this seqnum. *)
Matches(seq, win) ==
    {i \in 0 .. win - 1 : listPkt[i] # NULL /\ SeqnumOf(listPkt[i]) = seq}

find_buffer(seq, win) ==
    IF Matches(seq, win) = {} THEN NULL ELSE Min(Matches(seq, win))

(* find_buffer reads no packet already freed on its way. *)
SafeSearch(seq, win) ==
    \A i \in 0 .. win - 1 :
        listPkt[i] \in freed => \E j \in Matches(seq, win) : j < i

(* A mutant of LeadingNulls: s is one too many. *)
LeadingNullsOneMore(list) == 1 + Min({i \in Slots : list[i] # NULL})

(* while(listPkt[s] == NULL) s++. *)
LeadingNulls(list) == Min({i \in Slots : list[i] # NULL})

(* A mutant of Shifted: the slots the copy stops short of are emptied. *)
ShiftedEmptying(list, s) ==
    [i \in Slots |->
        IF i >= BufSize - s THEN seqnum + i - (BufSize - s)
        ELSE IF i + s <= BufSize - s THEN list[i + s]
        ELSE NULL]

(* A mutant of Shifted: seqnum++ before its value is used. *)
ShiftedSkipping(list, s) ==
    [i \in Slots |->
        IF i >= BufSize - s THEN seqnum + i - (BufSize - s) + 1
        ELSE IF i + s <= BufSize - s THEN list[i + s]
        ELSE list[i]]

(***************************************************************************)
(* clear_and_fill_buffer on an ACK: the list moves left over its s leading *)
(* empty slots and s new packets enter at its end.  The copy stops at      *)
(* source index BufSize - s, not BufSize - 1, so for s > 1 the slots just  *)
(* before the new packets keep what they held.                             *)
(***************************************************************************)
Shifted(list, s) ==
    [i \in Slots |->
        IF i >= BufSize - s THEN seqnum + i - (BufSize - s)
        ELSE IF i + s <= BufSize - s THEN list[i + s]
        ELSE list[i]]

(* The listing that ends clear_and_fill_buffer reads the first packets. *)
SafeFront(list, gone) == \A i \in 0 .. window - 1 : list[i] \notin gone

(* A mutant of AckedSeqnum: the seqnum of the ACK itself. *)
AckedSeqnumItself(ackseq) == ackseq

(* The seqnum an ACK for packet p carries is p's plus one. *)
AckedSeqnum(ackseq) == IF ackseq = 0 THEN SeqSpace - 1 ELSE ackseq - 1

SenderRead == SenderUp /\ spc = "poll" /\ ackCh # <<>> /\ ~serr

(* The socket is writable, or poll did not say so and this pass ends. *)
ThenWrite ==
    \/ spc' = "write" /\ UNCHANGED faults
    \/ spc' = "poll" /\ Fault("block")

(* An ACK. *)
RecvAck ==
    /\ SenderRead
    /\ LET m == Head(ackCh)
           acked == AckedSeqnum(m.seq)
           place == find_buffer(acked, window)
           list == IF place = NULL THEN listPkt
                   ELSE [listPkt EXCEPT ![place] = NULL]
           s == LeadingNulls(list)
           gone == freed \cup (IF place = NULL THEN {} ELSE {listPkt[place]})
       IN /\ m.type = "ack" /\ DecodesOk(m)
          /\ base' = IF m.seq > lastAck \/ m.seq = 0 THEN m.seq ELSE base
          /\ listPkt' = Shifted(list, s)
          /\ freed' = gone \cap Range(listPkt')
          /\ seqnum' = seqnum + s
          /\ buffer_update' = (buffer_update \/ s > 0)
          /\ window' = IF m.win > window THEN m.win ELSE window
          /\ lastAck' = m.seq
          /\ sstat' = IF SafeSearch(acked, window)
                            /\ SafeFront(listPkt', gone)
                      THEN sstat ELSE "ub"
    /\ ackCh' = Tail(ackCh)
    /\ ThenWrite
    /\ UNCHANGED <<dataCh, rstat, serr, nextseqnum, nack>>

(* A NACK is repeated unless its seqnum lies outside the last ACK's window. *)
RecvNack ==
    /\ SenderRead
    /\ LET m == Head(ackCh)
       IN /\ m.type = "nack" /\ DecodesOk(m)
          /\ nack' = IF m.seq < lastAck \/ m.seq > lastAck + window
                     THEN IgnoredNack ELSE m.seq
    /\ ackCh' = Tail(ackCh)
    /\ ThenWrite
    /\ UNCHANGED <<dataCh, sstat, rstat, serr, listPkt, freed, seqnum, base,
                   nextseqnum, window, lastAck, buffer_update>>

(***************************************************************************)
(* A datagram pkt_decode refuses is dropped; but when the inverted byte is *)
(* one of the length, or the type of a NACK, pkt_del may free a payload    *)
(* pointer nobody has set (PacketBuffer says when).                        *)
(***************************************************************************)
RecvCorrupted ==
    /\ SenderRead
    /\ ~DecodesOk(Head(ackCh))
    /\ ackCh' = Tail(ackCh)
    /\ sstat' \in {sstat, "ub"}
    /\ ThenWrite
    /\ UNCHANGED <<dataCh, rstat, serr, listPkt, freed, seqnum, base,
                   nextseqnum, window, lastAck, nack, buffer_update>>

(* Nothing to read: the socket is writable, the pass goes on. *)
SenderIdle ==
    /\ SenderUp /\ spc = "poll" /\ ackCh = <<>> /\ ~serr
    /\ spc' = "write"
    /\ UNCHANGED <<netVars, sstat, rstat, serr, listPkt, freed, seqnum, base,
                   nextseqnum, window, lastAck, nack, buffer_update>>

(* A mutant of SenderError: POLLERR is not looked at. *)
SenderErrorIgnored ==
    /\ SenderUp /\ spc = "poll" /\ serr
    /\ serr' = FALSE /\ spc' = "write"
    /\ UNCHANGED <<netVars, sstat, rstat, listPkt, freed, seqnum, base,
                   nextseqnum, window, lastAck, nack, buffer_update>>

(***************************************************************************)
(* An ICMP error: read fails and the loop is left at once; or, with no     *)
(* datagram to read, POLLERR ends the loop after this pass.                *)
(***************************************************************************)
SenderError ==
    /\ SenderUp /\ spc = "poll" /\ serr
    /\ IF ackCh # <<>>
       THEN sstat' = "done" /\ UNCHANGED spc
       ELSE sstat' = "closing" /\ spc' = "write"
    /\ UNCHANGED <<netVars, rstat, serr, listPkt, freed, seqnum, base,
                   nextseqnum, window, lastAck, nack, buffer_update>>

-----------------------------------------------------------------------------
(* pkt_encode and write of the packet with this seqnum, or of no packet. *)
SendPacket(seq) ==
    LET place == find_buffer(seq, BufSize)
        w == WriteTo(dataCh, serr, DataMsg(listPkt[place]), ReceiverUp)
    IN IF place = NULL \/ ~SafeSearch(seq, BufSize)
       THEN sstat' = "ub" /\ UNCHANGED <<dataCh, serr>>
       ELSE dataCh' = w.q /\ serr' = w.err /\ UNCHANGED sstat

NackPending == nack \notin {NoNack, IgnoredNack}

ResendNacked ==
    /\ SenderUp /\ spc = "write" /\ NackPending
    /\ SendPacket(nack)
    /\ nack' = NoNack
    /\ UNCHANGED <<ackCh, faults, rstat, spc, listPkt, freed, seqnum, base,
                   nextseqnum, window, lastAck, buffer_update>>

(* if (buffer_update): the window is looked at only after an in-order ACK. *)
StartBurst ==
    /\ SenderUp /\ spc = "write" /\ ~NackPending
    /\ spc' = IF buffer_update THEN "burst" ELSE "timer"
    /\ UNCHANGED <<netVars, sstat, rstat, serr, listPkt, freed, seqnum, base,
                   nextseqnum, window, lastAck, nack, buffer_update>>

(* A mutant of RoomInWindow: <= for <. *)
RoomInWindowAndOne ==
    nextseqnum <= base + window /\ (nextseqnum # 0 \/ lastAck = 0)

RoomInWindow ==
    nextseqnum < base + window /\ (nextseqnum # 0 \/ lastAck = 0)

SendNext ==
    /\ SenderUp /\ spc = "burst" /\ RoomInWindow
    /\ SendPacket(nextseqnum % SeqSpace)
    /\ buffer_update' = FALSE
    /\ nextseqnum' = nextseqnum + 1
    /\ UNCHANGED <<ackCh, faults, rstat, spc, listPkt, freed, seqnum, base,
                   window, lastAck, nack>>

EndBurst ==
    /\ SenderUp /\ spc = "burst" /\ ~RoomInWindow
    /\ nextseqnum' = nextseqnum % SeqSpace
    /\ spc' = "timer"
    /\ UNCHANGED <<netVars, sstat, rstat, serr, listPkt, freed, seqnum, base,
                   window, lastAck, nack, buffer_update>>

(* The pass ends; a loop told to stop is left here. *)
EndPass ==
    /\ spc' = "poll"
    /\ sstat' = IF sstat = "closing" THEN "done" ELSE sstat

NoTimeout ==
    /\ SenderUp /\ spc = "timer"
    /\ EndPass
    /\ UNCHANGED <<netVars, rstat, serr, listPkt, freed, seqnum, base,
                   nextseqnum, window, lastAck, nack, buffer_update>>

(* A mutant of Timeout: the timer of the second packet of the list. *)
TimeoutOfSecond ==
    /\ SenderUp /\ spc = "timer" /\ listPkt[1] # NULL
    /\ LET w == WriteTo(dataCh, serr, DataMsg(listPkt[1]), ReceiverUp)
       IN dataCh' = w.q /\ serr' = w.err
    /\ EndPass
    /\ UNCHANGED <<ackCh, rstat, listPkt, freed, seqnum, base,
                   nextseqnum, window, lastAck, nack, buffer_update>>

(***************************************************************************)
(* More than 500000 ticks of clock() since the first packet was last sent. *)
(* It is not one already freed: SafeFront held when it became the first.   *)
(***************************************************************************)
Timeout ==
    /\ SenderUp /\ spc = "timer" /\ listPkt[0] # NULL
    /\ LET w == WriteTo(dataCh, serr, DataMsg(listPkt[0]), ReceiverUp)
       IN dataCh' = w.q /\ serr' = w.err
    /\ EndPass
    /\ UNCHANGED <<ackCh, rstat, listPkt, freed, seqnum, base,
                   nextseqnum, window, lastAck, nack, buffer_update>>

-----------------------------------------------------------------------------
(***************************************************************************)
(* The scan of clear_and_fill_buffer for leading empty slots, which has no *)
(* bound of its own, and the searches of the first window slots never run  *)
(* past the end of listPkt, whatever window the receiver announces and     *)
(* whatever was acked, and in which order.                                 *)
(***************************************************************************)
ScanStaysInList ==
    /\ window <= RecvWin
    /\ \A i \in RecvWin .. BufSize - 1 : listPkt[i] # NULL

(***************************************************************************)
(* But for the slots of acked packets, listPkt always holds the BufSize    *)
(* packets made last, in the order of their seqnums: every shift moved the *)
(* whole list.                                                             *)
(***************************************************************************)
ListIsContiguous ==
    \A i \in Slots : listPkt[i] \in {NULL, seqnum - BufSize + i}
=============================================================================
