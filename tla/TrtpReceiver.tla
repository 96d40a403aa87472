---------------------------- MODULE TrtpReceiver ----------------------------
(***************************************************************************)
(* read_write_loop.c: the loop of the receiver, with the bind and the wait *)
(* for a first datagram that come before it (receiver.c,                   *)
(* wait_for_client.c).  One pass polls the socket, reads at most one       *)
(* datagram (rpc = "poll"), then, if the socket is writable, sends a NACK  *)
(* and an ACK that are due (rpc = "write").                                *)
(***************************************************************************)
EXTENDS TrtpNetwork, FiniteSets

CONSTANTS
    ReceiverFirst,  \* nobody starts the sender before the receiver is bound
    FreshHeap       \* the memory malloc returned for listPkt was all zero

ASSUME ReceiverAssumption ==
    /\ ReceiverFirst \in BOOLEAN
    /\ FreshHeap \in BOOLEAN

NoSeqnum == -1      \* partial_ack = -1, nack = -1: none is due

(***************************************************************************)
(* A slot of listPkt points to a packet: ptr is where malloc put it, id    *)
(* which one it is, NoPayload for a control packet taken for data.  Junk   *)
(* is what uninitialised memory may hold instead of NULL.                  *)
(***************************************************************************)
NoPayload == -1
Ptrs == 0 .. RecvWin
Item(ptr, id) == [ptr |-> ptr, id |-> id]
Empty == Item(-1, NoPayload)
Junk == Item(-2, NoPayload)

VARIABLES
    rpc,            \* where in a pass the receiver is
    rerr,           \* an ICMP error is pending on its socket
    listPkt_r,      \* RecvWin slots, and the word that follows them
    base_r,         \* packets delivered since seqnum 0, modulo RecvWin
    free_place,     \* the window it announces
    partial_ack,    \* the ACK that is due
    nack_r,         \* the NACK that is due
    buffer,         \* the last datagram read into or encoded in buffer
    out             \* ids of the packets written to stdout

rVars == <<rpc, rerr, listPkt_r, base_r, free_place, partial_ack, nack_r,
           buffer, out>>

Window == 0 .. RecvWin - 1
SlotValues == [ptr : Ptrs, id : Nat \cup {NoPayload}] \cup {Empty, Junk}

ReceiverTypeOK ==
    /\ rpc \in {"poll", "write"}
    /\ rerr \in BOOLEAN
    /\ listPkt_r \in [0 .. RecvWin -> SlotValues]
    /\ base_r \in Window
    /\ free_place \in 0 .. RecvWin
    /\ partial_ack \in Seqnums \cup {NoSeqnum}
    /\ nack_r \in Seqnums \cup {NoSeqnum}
    /\ buffer \in DataMsgs \cup ControlMsgs \cup {Empty}
    /\ out \in Seq(Nat)

ReceiverInit ==
    /\ rstat = "unbound"
    /\ rpc = "poll"
    /\ rerr = FALSE
    /\ listPkt_r \in [0 .. RecvWin -> IF FreshHeap THEN {Empty}
                                      ELSE {Empty, Junk}]
    /\ base_r = 0
    /\ free_place = RecvWin
    /\ partial_ack = NoSeqnum
    /\ nack_r = NoSeqnum
    /\ buffer = Empty
    /\ out = <<>>

-----------------------------------------------------------------------------
(* create_socket binds the address the sender writes to. *)
Bind ==
    /\ rstat = "unbound"
    /\ rstat' = "bound"
    /\ UNCHANGED <<netVars, sstat, rVars>>

(* An address that does not resolve, a socket that is not bound or not     *)
(* connected to its client: main returns EXIT_FAILURE.                     *)
ReceiverStartFails ==
    /\ rstat \in {"unbound", "bound"}
    /\ Fault("start")
    /\ rstat' = "failed"
    /\ dataCh' = <<>>
    /\ UNCHANGED <<ackCh, sstat, rVars>>

(* wait_for_client peeks at the first datagram and connects to its source. *)
Accept ==
    /\ rstat = "bound" /\ dataCh # <<>>
    /\ rstat' = "open"
    /\ UNCHANGED <<netVars, sstat, rVars>>

-----------------------------------------------------------------------------
(* The first slot that is NULL; if none is, the walk goes on past them. *)
FirstEmpty(list) == Min({i \in 0 .. RecvWin : list[i] = Empty})

(* The first slot that is NULL or holds a packet without payload. *)
FirstBlank(list) == Min({i \in 0 .. RecvWin : list[i].id = NoPayload})

(***************************************************************************)
(* Reading slots 0 to n, and freeing the packets met before slot n, never  *)
(* meets memory that is not a packet, nor the same packet twice.           *)
(***************************************************************************)
SafeWalk(list, n) ==
    \A i \in 0 .. n :
        /\ list[i] # Junk
        /\ \A j \in 0 .. i - 1 : list[j].ptr # list[i].ptr

(* A mutant of Payloads: the loop over the first packets stops one early. *)
PayloadsButLast(list, n) ==
    LET printed[i \in 0 .. n] ==
            IF i = 0 THEN <<>>
            ELSE IF list[i - 1].id = NoPayload \/ i = n THEN printed[i - 1]
            ELSE Append(printed[i - 1], list[i - 1].id)
    IN printed[n]

(* The blocks the first n slots hold, in order, as fwrite prints them. *)
Payloads(list, n) ==
    LET printed[i \in 0 .. n] ==
            IF i = 0 THEN <<>>
            ELSE IF list[i - 1].id = NoPayload THEN printed[i - 1]
            ELSE Append(printed[i - 1], list[i - 1].id)
    IN printed[n]

(* A mutant of Cleared: the packets that wait behind a gap are dropped. *)
ClearedAll(list, n) ==
    [i \in 0 .. RecvWin |-> IF i = RecvWin THEN list[i] ELSE Empty]

(***************************************************************************)
(* clear_and_fill_buffer_r after the first n packets are freed: the rest   *)
(* moves left over their slots.  The slots it leaves are not cleared, so   *)
(* a packet that moved is then also still pointed to from where it was.    *)
(***************************************************************************)
Cleared(list, n) ==
    [i \in 0 .. RecvWin |->
        IF i = RecvWin THEN list[i]
        ELSE IF i + n < RecvWin THEN list[i + n]
        ELSE IF i < n THEN Empty
        ELSE list[i]]

(* The listing that ends clear_and_fill_buffer_r follows every pointer. *)
SafeListing(list, n) ==
    \A i \in Window :
        /\ Cleared(list, n)[i] # Junk
        /\ \A j \in 0 .. n - 1 : Cleared(list, n)[i].ptr # list[j].ptr

(* malloc returns memory that no packet of the list occupies. *)
NewPtr == CHOOSE p \in Ptrs : \A i \in Window : listPkt_r[i].ptr # p

-----------------------------------------------------------------------------
(* What the receiver does with the datagram m it finds in buffer.          *)

(* Mutants of AckFor: the seqnum is not cut to a byte; it is one too far. *)
AckForNoWrap(seq) == seq + 1
AckForNext(seq) == (seq + 2) % SeqSpace

(* The ACK of a packet carries the seqnum that follows its own. *)
AckFor(seq) == (seq + 1) % SeqSpace

(* pkt_decode refuses it, or it is a NACK: ask for it again, if its seqnum *)
(* is one of the first of all and the slot of that number is empty.        *)
Refuse(m) ==
    /\ ~DecodesOk(m) \/ m.type = "nack"
    /\ \E seq \in SeqnumSeen(m) :
         nack_r' = IF seq \in 1 .. RecvWin - 1 /\ listPkt_r[seq] = Empty
                   THEN seq ELSE nack_r
    /\ UNCHANGED <<rstat, listPkt_r, base_r, free_place, partial_ack, out>>

(* A DATA packet without payload: print what is in order, up to a packet   *)
(* that has none, close the socket and leave.                              *)
Close(m) ==
    /\ DecodesOk(m) /\ m.type = "data" /\ IsEof(m.id)
    /\ IF SafeWalk(listPkt_r, FirstBlank(listPkt_r))
       THEN /\ rstat' = "closed"
            /\ out' = out \o Payloads(listPkt_r, FirstBlank(listPkt_r))
       ELSE rstat' = "ub" /\ UNCHANGED out
    /\ UNCHANGED <<listPkt_r, base_r, free_place, partial_ack, nack_r>>

(* A mutant of SlotOf: packets are listed in the order they come. *)
SlotOnArrival(seq, b) == Min({i \in Window : listPkt_r[i] = Empty} \cup {0})

(* The slot of a packet, by the distance of its seqnum from the base. *)
SlotOf(seq, b) == (seq - b) % RecvWin

(***************************************************************************)
(* Anything else is data, whatever its type.  Its slot is the distance of  *)
(* its seqnum from base_r, as C's % gives it: negative, outside the list,  *)
(* for a seqnum below base_r.  What lies there is taken for a packet, or   *)
(* for an empty slot and overwritten.                                      *)
(***************************************************************************)
Place(m) ==
    LET seq == IF m.type = "data" THEN SeqnumOf(m.id) ELSE m.seq
        id == IF m.type = "data" THEN m.id ELSE NoPayload
        b == IF seq = 0 THEN 0 ELSE base_r
        slot == SlotOf(seq, b)
    IN /\ DecodesOk(m) /\ m.type # "nack"
       /\ ~(m.type = "data" /\ IsEof(m.id))
       /\ base_r' = b
       /\ IF seq < b
          THEN /\ rstat' \in {rstat, "ub"}
               /\ UNCHANGED <<listPkt_r, free_place, partial_ack>>
          ELSE IF listPkt_r[slot] # Empty
          THEN UNCHANGED <<rstat, listPkt_r, free_place, partial_ack>>
          ELSE /\ listPkt_r' = [listPkt_r EXCEPT ![slot] = Item(NewPtr, id)]
               /\ free_place' = free_place - 1
               /\ partial_ack' = AckFor(seq)
               /\ UNCHANGED rstat
       /\ UNCHANGED <<nack_r, out>>

(* The receiver's three ways to deal with a datagram. *)
Handle(m) == Refuse(m) \/ Close(m) \/ Place(m)

(* The socket is writable, or poll did not say so and this pass ends. *)
ThenAnswer ==
    \/ rpc' = "write" /\ UNCHANGED faults
    \/ rpc' = "poll" /\ Fault("block")

Receive ==
    /\ rstat = "open" /\ rpc = "poll" /\ dataCh # <<>> /\ ~rerr
    /\ Handle(Head(dataCh))
    /\ dataCh' = IF rstat' = "closed" THEN <<>> ELSE Tail(dataCh)
    /\ buffer' = Head(dataCh)
    /\ ThenAnswer
    /\ UNCHANGED <<ackCh, sstat, rerr>>

(* read fails with a pending error: what buffer still holds is decoded. *)
ReceiveError ==
    /\ rstat = "open" /\ rpc = "poll" /\ dataCh # <<>> /\ rerr
    /\ Handle(buffer)
    /\ rerr' = FALSE
    /\ ThenAnswer
    /\ UNCHANGED <<dataCh, ackCh, sstat, buffer>>

(* A mutant of PollError: POLLERR is not looked at. *)
PollErrorIgnored ==
    /\ rstat = "open" /\ rpc = "poll" /\ dataCh = <<>> /\ rerr
    /\ rpc' = "write"
    /\ UNCHANGED <<netVars, sstat, rstat, rerr, listPkt_r, base_r, free_place,
                   partial_ack, nack_r, buffer, out>>

(* Nothing to read but a pending error: POLLERR ends the loop after this   *)
(* pass.                                                                   *)
PollError ==
    /\ rstat = "open" /\ rpc = "poll" /\ dataCh = <<>> /\ rerr
    /\ rstat' = "closing"
    /\ rpc' = "write"
    /\ UNCHANGED <<netVars, sstat, rerr, listPkt_r, base_r, free_place,
                   partial_ack, nack_r, buffer, out>>

(* Nothing to read: the socket is writable and an answer is due. *)
ReceiverIdle ==
    /\ rstat = "open" /\ rpc = "poll" /\ dataCh = <<>> /\ ~rerr
    /\ partial_ack # NoSeqnum \/ nack_r # NoSeqnum
    /\ rpc' = "write"
    /\ UNCHANGED <<netVars, sstat, rstat, rerr, listPkt_r, base_r, free_place,
                   partial_ack, nack_r, buffer, out>>

-----------------------------------------------------------------------------
(***************************************************************************)
(* The writing half of a pass: the NACK that is due with the window as it  *)
(* stands, then, before the ACK that is due, clear_and_fill_buffer_r.      *)
(***************************************************************************)
Answer ==
    LET n == FirstEmpty(listPkt_r)
        nackMsg == ControlMsg("nack", nack_r, free_place)
        w1 == IF nack_r = NoSeqnum THEN [q |-> ackCh, err |-> rerr]
              ELSE WriteTo(ackCh, rerr, nackMsg, SenderUp)
        ackMsg == ControlMsg("ack", partial_ack, free_place + n)
        w2 == WriteTo(w1.q, w1.err, ackMsg, SenderUp)
        after == IF rstat = "closing" THEN "aborted" ELSE rstat
    IN /\ rstat \in {"open", "closing"} /\ rpc = "write"
       /\ rpc' = "poll"
       /\ nack_r' = NoSeqnum
       /\ partial_ack' = NoSeqnum
       /\ IF partial_ack = NoSeqnum
          THEN /\ ackCh' = w1.q /\ rerr' = w1.err
               /\ buffer' = IF nack_r = NoSeqnum THEN buffer ELSE nackMsg
               /\ rstat' = after
               /\ UNCHANGED <<listPkt_r, base_r, free_place, out>>
          ELSE IF /\ \E i \in 0 .. RecvWin : listPkt_r[i] = Empty
                  /\ SafeWalk(listPkt_r, n)
                  /\ SafeListing(listPkt_r, n)
          THEN /\ ackCh' = w2.q /\ rerr' = w2.err
               /\ buffer' = ackMsg
               /\ rstat' = after
               /\ listPkt_r' = Cleared(listPkt_r, n)
               /\ base_r' = IF partial_ack = 0 THEN 0
                            ELSE (base_r + n) % RecvWin
               /\ free_place' = free_place + n
               /\ out' = out \o Payloads(listPkt_r, n)
          ELSE /\ rstat' = "ub"
               /\ UNCHANGED <<ackCh, rerr, buffer, listPkt_r, base_r,
                              free_place, out>>
    /\ UNCHANGED <<dataCh, faults, sstat>>

-----------------------------------------------------------------------------
(* The packets a list points to. *)
Pointed(list) == {p \in Ptrs : \E i \in Window : list[i].ptr = p}

(***************************************************************************)
(* free_place, which every answer announces as the window, is at any time  *)
(* realWindow less the number of packets the list holds, however they were *)
(* placed, printed and moved; a packet two slots point to counts once.     *)
(***************************************************************************)
WindowIsHonest == free_place = RecvWin - Cardinality(Pointed(listPkt_r))
=============================================================================
