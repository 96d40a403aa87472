---------------------------- MODULE PacketBuffer ----------------------------
(***************************************************************************)
(* The one buffer a program reads datagrams into and encodes its own       *)
(* packets in.  Neither loop clears it or looks at the length read         *)
(* returned: pkt_decode sees MAX_BUFFER_SIZE bytes, a datagram and, behind *)
(* it, whatever the buffer held before.                                    *)
(***************************************************************************)
EXTENDS PacketCodec

CONSTANTS
    Ids,         \* DATA packets that may come by
    LastLen,     \* bytes of the last block of the file
    Stamps,      \* timestamps that packets carry
    FreshLengths,\* what malloc may leave in a packet's length
    MaxDatagrams \* datagrams read or encoded

ASSUME BufferAssumption ==
    /\ SeqSpace = 256 /\ RecvWin < 32
    /\ Ids \subseteq Nat /\ Stamps \subseteq Nat
    /\ LastLen \in 1 .. MaxBuffer - PktSize
    /\ FreshLengths \subseteq Nat   \* 16 bits in the code
    /\ MaxDatagrams \in Nat

VARIABLES
    program,     \* whose buffer this is
    buffer,      \* MaxBuffer bytes
    last,        \* the datagram at its front, with the mark the link left
    hit,         \* the place of the inverted byte in it, or NoByte
    got,         \* what pkt_decode made of it
    datagrams    \* how many were read or encoded

vars == <<program, buffer, last, hit, got, datagrams>>

NoByte == -1
Unset == <<>>
Nothing == [type |-> "none"]
NotDecoded == [status |-> "none"]

(* What malloc may leave in the fields that decide anything. *)
FreshPkts ==
    [type : {0}, tr : {0}, window : {0}, length : FreshLengths,
     seqnum : {77}, timestamp : {<<>>}, ptr : {"NULL", "wild"},
     payload : {<<>>}]

-----------------------------------------------------------------------------
(* The bytes of a block of the file; blocks differ from each other. *)
BlockOf(id) ==
    IF IsEof(id) THEN <<>>
    ELSE [i \in 1 .. IF id = FileLen - 1 THEN LastLen ELSE Block
             |-> <<id % 251>>]

(* put_on_pkt: type 0 is DATA, 1 an ACK and 2 a NACK. *)
put_on_pkt(m, timestamp) ==
    IF m.type = "data"
    THEN Packet(PTYPE_DATA, 1, Len(BlockOf(m.id)), SeqnumOf(m.id),
                RawUint32(timestamp), BlockOf(m.id))
    ELSE Packet(IF m.type = "ack" THEN PTYPE_ACK ELSE PTYPE_NACK,
                m.win, 0, m.seq, RawUint32(timestamp), <<>>)

(* What each program sends. *)
SentBy(p) ==
    IF p = "sender" THEN {DataMsg(id) : id \in Ids}
    ELSE {ControlMsg(type, SeqnumOf(id), win) :
             type \in {"ack", "nack"}, id \in Ids, win \in {0, RecvWin}}

Peer == IF program = "sender" THEN "receiver" ELSE "sender"

Init ==
    /\ program \in {"sender", "receiver"}
    /\ buffer = [i \in 1 .. MaxBuffer |-> Unset]
    /\ last = Nothing
    /\ hit = NoByte
    /\ got = NotDecoded
    /\ datagrams = 0

Count == datagrams < MaxDatagrams /\ datagrams' = datagrams + 1

(* These bytes are laid over the front of the buffer. *)
Fill(bytes) ==
    buffer' = bytes \o SubSeq(buffer, Len(bytes) + 1, MaxBuffer)

DecodeBuffer == \E pkt \in FreshPkts : got' = pkt_decode(buffer', pkt)

(* The pass of a loop that reads a datagram as it was sent. *)
ReadIntact ==
    /\ Count
    /\ \E m \in SentBy(Peer), stamp \in Stamps :
         /\ Fill(pkt_encode(put_on_pkt(m, stamp)))
         /\ last' = m
    /\ hit' = NoByte
    /\ DecodeBuffer
    /\ UNCHANGED program

(* One that simulate_link has cut after its header, and marked with TR. *)
ReadCut ==
    /\ Count
    /\ \E m \in SentBy(Peer), stamp \in Stamps :
         LET datagram == pkt_encode(put_on_pkt(m, stamp))
             header == Bytes(datagram, 0, 12)
         IN /\ m.type = "data" /\ Len(datagram) > 12
            /\ Fill([header EXCEPT ![1] = <<@[1] + 32>>])
            /\ last' = [m EXCEPT !.mark = "cut"]
    /\ hit' = NoByte
    /\ DecodeBuffer
    /\ UNCHANGED program

(* One with an inverted byte. *)
ReadInverted ==
    /\ Count
    /\ \E m \in SentBy(Peer), stamp \in Stamps :
         LET datagram == pkt_encode(put_on_pkt(m, stamp))
         IN \E idx \in 0 .. Len(datagram) - 1 :
              /\ Fill([datagram EXCEPT ![idx + 1] = Inverted(@)])
              /\ hit' = idx
         /\ last' = [m EXCEPT !.mark = "err"]
    /\ DecodeBuffer
    /\ UNCHANGED program

(* The receiver's read fails with a pending error and the buffer is        *)
(* decoded again; the sender leaves its loop instead.                      *)
ReadFails ==
    /\ program = "receiver" /\ last # Nothing
    /\ UNCHANGED <<program, buffer, last, hit, datagrams>>
    /\ DecodeBuffer

(* A packet of its own is encoded over what was read. *)
Write ==
    /\ Count
    /\ \E m \in SentBy(program), stamp \in Stamps :
         /\ Fill(pkt_encode(put_on_pkt(m, stamp)))
         /\ last' = m
    /\ hit' = NoByte
    /\ got' = NotDecoded
    /\ UNCHANGED program

Done == datagrams = MaxDatagrams /\ UNCHANGED vars

Next == ReadIntact \/ ReadCut \/ ReadInverted \/ ReadFails \/ Write \/ Done

Spec == Init /\ [][Next]_vars

-----------------------------------------------------------------------------
(* A mutant of Deleted: pkt_set_length(pktRcv, 0) is left out. *)
DeletedAsDecoded == got.pkt

(***************************************************************************)
(* The packet the loop hands to pkt_del: the receiver sets the length of   *)
(* one it refuses to 0 first, the sender does not.                         *)
(***************************************************************************)
Deleted ==
    IF program = "receiver"
       /\ (got.status # "PKT_OK" \/ got.pkt.type = PTYPE_NACK)
    THEN [got.pkt EXCEPT !.length = 0]
    ELSE got.pkt

(* The packet that m was made into. *)
AsMade(pkt, m) ==
    \E stamp \in Stamps :
        LET made == put_on_pkt(m, stamp)
        IN /\ pkt.length = made.length
           /\ <<pkt.type, pkt.window, pkt.seqnum, pkt.timestamp>> =
                  <<made.type, made.window, made.seqnum, made.timestamp>>
           /\ made.length > 0 => pkt.payload = made.payload

(***************************************************************************)
(* pkt_decode accepts the datagrams the link has left alone, with the      *)
(* type, seqnum, window and payload they were made with, and none with an  *)
(* inverted byte.  From one cut after its header it takes no payload,      *)
(* though the bytes and the CRC of an earlier block may lie where its own  *)
(* would be.  The seqnum it shows is one the transfer's model allows for.  *)
(***************************************************************************)
DecodesWhatWasSent ==
    got # NotDecoded =>
        /\ DecodesOk(last) => got.status = "PKT_OK" /\ AsMade(got.pkt, last)
        /\ last.mark = "err" => got.status # "PKT_OK"
        /\ last.mark = "cut" => got.pkt.ptr # "own"
        /\ got.pkt.seqnum \in SeqnumSeen(last)

(* No datagram is longer than the buffer, nor does pkt_decode read on past *)
(* its end, whatever lengths the bytes of old datagrams pretend.           *)
StaysInBuffer ==
    /\ Len(buffer) = MaxBuffer
    /\ got.status # "ub"

(* The receiver frees no payload pointer that nobody has set. *)
ReceiverFreesItsOwn ==
    program = "receiver" /\ got # NotDecoded => ~FreesWild(Deleted)

(***************************************************************************)
(* The sender does so only after the length of an answer was damaged, or   *)
(* the type of a NACK: then pkt_decode returns before it has set the       *)
(* length.  Damage to any other byte is harmless.                          *)
(***************************************************************************)
SenderFreesItsOwn ==
    program = "sender" /\ got # NotDecoded /\ FreesWild(Deleted) =>
        hit \in {1, 2} \/ (hit = 0 /\ last.type = "nack")
=============================================================================
