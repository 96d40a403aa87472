---------------------------- MODULE TrtpPackets ----------------------------
(***************************************************************************)
(* What travels between the TRTP sender and receiver, and the constants    *)
(* both ends are built with (packet_implem.c, packet_interface.h,          *)
(* put_on_pkt.c).                                                          *)
(*                                                                         *)
(* A DATA packet is known by its id, the number of packets the sender had  *)
(* made when it made this one: the seqnum on the wire is the id cut to one *)
(* byte, and the payload is the id-th block of the file, or nothing once   *)
(* fread has reached its end.  CRCs, timestamps and payload bytes appear   *)
(* only as the mark that says what the link did to the datagram.           *)
(***************************************************************************)
EXTENDS Integers, Sequences

CONSTANTS
    FileLen,     \* blocks of the file: the number of freads that return data
    SeqSpace,    \* values of the uint8_t seqnum: 256 in the code
    BufSize,     \* slots of the sender's listPkt: 50 in the code
    RecvWin      \* realWindow, slots of the receiver's listPkt: 4 in the code

(* What the two programs take for granted of the sizes they are built with. *)
ASSUME SizesAssumption ==
    /\ FileLen \in Nat
    /\ RecvWin \in Nat \ {0}
    /\ BufSize \in Nat /\ RecvWin < BufSize
    /\ SeqSpace \in Nat /\ BufSize < SeqSpace

Seqnums == 0 .. SeqSpace - 1

(* pkt_set_seqnum(pkt, seqnum++): the uint8_t parameter keeps the low byte. *)
SeqnumOf(id) == id % SeqSpace

(* fread returned 0: a DATA packet without payload, which ends a transfer. *)
IsEof(id) == id >= FileLen

(***************************************************************************)
(* Datagrams, with the mark the link leaves: "ok" intact, "cut" truncated  *)
(* after its header with TR set, "err" one byte inverted.                  *)
(***************************************************************************)
DataMsg(id) == [type |-> "data", id |-> id, mark |-> "ok"]

(* put_on_pkt with type 1 (ACK) or 2 (NACK). *)
ControlMsg(type, seq, win) ==
    [type |-> type, seq |-> seq, win |-> win, mark |-> "ok"]

DataMsgs == [type : {"data"}, id : Nat, mark : {"ok", "cut", "err"}]
ControlMsgs == [type : {"ack", "nack"}, seq : Seqnums, win : 0 .. RecvWin,
                mark : {"ok", "err"}]

(***************************************************************************)
(* pkt_decode = PKT_OK.  The TR bit a truncation sets is under CRC1, which *)
(* nobody recomputes, so a cut datagram fails like a corrupted one.        *)
(***************************************************************************)
DecodesOk(m) == m.mark = "ok"

(***************************************************************************)
(* The seqnum pkt_get_seqnum may return after pkt_decode of m.  A CRC      *)
(* failure leaves the header fields set.  An inverted byte may be the      *)
(* seqnum itself, or make pkt_decode return before it has set the seqnum   *)
(* of a struct that pkt_new does not initialise: any value can be seen.    *)
(***************************************************************************)
SeqnumSeen(m) ==
    IF m.mark = "err" THEN Seqnums
    ELSE IF m.type = "data" THEN {SeqnumOf(m.id)} ELSE {m.seq}
=============================================================================
