---------------------------- MODULE PacketCodec ----------------------------
(***************************************************************************)
(* packet_implem.c and put_on_pkt.c: the layout of a packet on the wire,   *)
(* byte by byte, and what pkt_decode makes of a buffer.                    *)
(*                                                                         *)
(* A byte is a tuple of one number; the bytes of a CRC are opaque, and the *)
(* CRC32 of two different byte strings is taken to differ.  (That one      *)
(* inverted byte always changes a CRC32 is a fact about the polynomial.)   *)
(***************************************************************************)
EXTENDS TrtpPackets

CONSTANTS
    MaxBuffer,   \* MAX_BUFFER_SIZE, the bytes of buffer: 512 in the code
    PktSize,     \* sizeof(pkt_t): 24 in the code
    MaxPayload   \* the largest length pkt_set_length accepts: 512

ASSUME CodecAssumption ==
    /\ MaxBuffer \in Nat /\ PktSize \in Nat /\ MaxPayload \in 0 .. 65535
    /\ PktSize >= 16 /\ PktSize < MaxBuffer
    /\ MaxBuffer - PktSize <= MaxPayload   \* 488 and 512: a block fits

PTYPE_DATA == 1
PTYPE_ACK == 2
PTYPE_NACK == 3

(* A mutant of Block: only the header is taken off the buffer's size. *)
BlockLessHeader == MaxBuffer - 12

(* What one fread asks for: MAX_BUFFER_SIZE - sizeof(pkt_t). *)
Block == MaxBuffer - PktSize

(* The n bytes of buf that follow the first `from`. *)
Bytes(buf, from, n) == SubSeq(buf, from + 1, from + n)

(* htonl(crc32(...)) of some bytes. *)
crc32(bytes) == [i \in 1 .. 4 |-> <<i, bytes>>]

(* buf[idx] = ~buf[idx]. *)
Inverted(byte) ==
    IF Len(byte) = 1 THEN <<255 - byte[1]>> ELSE Append(byte, "inverted")

htons(n) == << <<n \div 256>>, <<n % 256>> >>
ntohs(bytes) == bytes[1][1] * 256 + bytes[2][1]

(***************************************************************************)
(* A timestamp goes over the wire as it lies in memory, low byte first,    *)
(* and no byte order is converted: the field keeps the bytes themselves.   *)
(***************************************************************************)
RawUint32(n) == [i \in 1 .. 4 |-> <<(n \div 256 ^ (i - 1)) % 256>>]

-----------------------------------------------------------------------------
(***************************************************************************)
(* struct pkt.  ptr is where its payload pointer leads: to a block of its  *)
(* own, with these bytes, to NULL, or to wherever malloc left it.          *)
(***************************************************************************)
Packet(type, window, length, seqnum, timestamp, payload) ==
    [type |-> type, tr |-> 0, window |-> window, length |-> length,
     seqnum |-> seqnum, timestamp |-> timestamp,
     ptr |-> "own", payload |-> payload]

pkt_encode(pkt) ==
    LET header == << <<pkt.type * 64 + pkt.tr * 32 + pkt.window>> >>
                  \o htons(pkt.length)
                  \o << <<pkt.seqnum>> >>
                  \o pkt.timestamp
    IN header \o crc32(header)
              \o IF pkt.length = 0 THEN <<>>
                 ELSE pkt.payload \o crc32(pkt.payload)

(* Setters refuse what does not fit, and leave the field as it was.        *)
pkt_set_window(pkt, n) == IF n > 31 THEN pkt ELSE [pkt EXCEPT !.window = n]
pkt_set_length(pkt, n) ==
    IF n > MaxPayload THEN pkt ELSE [pkt EXCEPT !.length = n]

(* The payload is copied into a block of its own. *)
pkt_set_payload(pkt, data) == [pkt EXCEPT !.ptr = "own", !.payload = data]

(***************************************************************************)
(* A mutant of UnderCrc1: TR is taken as 0, as packet_interface.h asks,    *)
(* but the payload that a cut datagram has lost is looked for all the same.*)
(***************************************************************************)
UnderCrc1TrCleared(header) ==
    [header EXCEPT ![1] = <<((@[1] \div 64) * 64) + (@[1] % 32)>>]

(* What CRC1 is computed over: the eight bytes as they came. *)
UnderCrc1(header) == header

(* What pkt_decode returns, and the packet it leaves. *)
Decoded(status, pkt) == [status |-> status, pkt |-> pkt]

(***************************************************************************)
(* pkt_decode of a whole buffer into pkt, fresh from malloc.  pkt_set_     *)
(* length refuses too large a length, and the test that follows it is then *)
(* made on the length the memory happened to hold.  Status "ub" is a read  *)
(* past the end of the buffer.                                             *)
(***************************************************************************)
pkt_decode(data, pkt) ==
    LET first == data[1][1]
        n == ntohs(Bytes(data, 1, 2))
        typed == [pkt EXCEPT !.type = first \div 64,
                             !.tr = (first \div 32) % 2]
        sized == pkt_set_length(pkt_set_window(typed, first % 32), n)
        headed == [sized EXCEPT !.seqnum = data[4][1],
                                !.timestamp = Bytes(data, 4, 4)]
        length == headed.length
        payload == Bytes(data, 12, length)
    IN IF typed.tr # 0 /\ typed.type # PTYPE_DATA
       THEN Decoded("E_TYPE", typed)
       ELSE IF sized.length > MaxPayload
       THEN Decoded("E_LENGTH", sized)
       ELSE IF Bytes(data, 8, 4) # crc32(UnderCrc1(Bytes(data, 0, 8)))
       THEN Decoded("E_CRC", headed)
       ELSE IF length = 0
       THEN Decoded("PKT_OK", headed)
       ELSE IF 16 + length > MaxBuffer
       THEN Decoded("ub", headed)
       ELSE IF Bytes(data, 12 + length, 4) # crc32(payload)
       THEN Decoded("E_CRC", headed)
       ELSE Decoded("PKT_OK", pkt_set_payload(headed, payload))

(* A mutant of pkt_del: the length is not looked at. *)
FreesWildWithoutLength(pkt) == pkt.ptr = "wild"

(* pkt_del frees a payload pointer that nobody has set. *)
FreesWild(pkt) == pkt.length > 0 /\ pkt.ptr = "wild"
=============================================================================
