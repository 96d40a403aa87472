---------------------------- MODULE PacketProofs ----------------------------
(***************************************************************************)
(* pkt_decode and the buffer it works on, for every size of the buffer and *)
(* of a block, all blocks and any number of datagrams over each other: the *)
(* buffer is never left, what was sent is what is decoded, and pkt_del     *)
(* frees nothing that nobody has set, but in the cases the code cannot     *)
(* help.                                                                   *)
(***************************************************************************)
EXTENDS PacketBuffer, NaturalLemmas, SequenceTheorems

(* s is a sequence of n bytes. *)
Filled(s, n) == s = [i \in 1 .. n |-> s[i]]

(* Its length and its places. *)
LEMMA FilledLength ==
    ASSUME NEW n \in Nat, NEW s, Filled(s, n)
    PROVE  DOMAIN s = 1 .. n /\ Len(s) = n
BY DEF Filled

(* c is s and t behind it, n and k bytes long. *)
Joined(c, s, n, t, k) ==
    /\ Filled(c, n + k)
    /\ \A i \in 1 .. n : c[i] = s[i]
    /\ \A i \in 1 .. k : c[n + i] = t[i]

(* One sequence behind another. *)
LEMMA Concatenation ==
    ASSUME NEW n \in Nat, NEW s, Filled(s, n),
           NEW k \in Nat, NEW t, Filled(t, k)
    PROVE  Joined(s \o t, s, n, t, k)
<1> DEFINE S == {s[i] : i \in 1 .. n} \cup {t[i] : i \in 1 .. k}
<1>1. Len(s) = n /\ Len(t) = k
  BY FilledLength
<1>2. (\A i \in 1 .. n : s[i] \in S) /\ (\A i \in 1 .. k : t[i] \in S)
  OBVIOUS
<1> HIDE DEF S
<1>3. s \in Seq(S)
  BY <1>2 DEF Filled
<1>4. t \in Seq(S)
  BY <1>2 DEF Filled
<1>5. s \o t \in Seq(S) /\ Len(s \o t) = n + k
  BY <1>1, <1>3, <1>4
<1>6. \A i \in 1 .. n + k : (s \o t)[i] = IF i <= n THEN s[i] ELSE t[i - n]
  BY <1>1, <1>3, <1>4 DEF Filled
<1> DEFINE c == s \o t
<1>7. c \in Seq(S) /\ Len(c) = n + k
  BY <1>5
<1>8. \A i \in 1 .. n + k : c[i] = IF i <= n THEN s[i] ELSE t[i - n]
  BY <1>6
<1> HIDE DEF c
<1>9. c = [i \in 1 .. n + k |-> c[i]]
  BY <1>7
<1>10. /\ \A i \in 1 .. n : i \in 1 .. n + k
       /\ \A i \in 1 .. k :
             n + i \in 1 .. n + k /\ ~(n + i <= n) /\ (n + i) - n = i
  OBVIOUS
<1>11. \A i \in 1 .. n : c[i] = s[i]
  BY <1>8, <1>10
<1>12. \A i \in 1 .. k : c[n + i] = t[i]
  BY <1>8, <1>10
<1>13. Joined(c, s, n, t, k)
  BY <1>9, <1>11, <1>12 DEF Joined, Filled
<1>. QED BY <1>13 DEF c

(* A part of a sequence. *)
LEMMA BytesAre ==
    ASSUME NEW s, NEW a \in Nat, NEW k \in Nat
    PROVE  /\ Filled(Bytes(s, a, k), k)
           /\ \A i \in 1 .. k : Bytes(s, a, k)[i] = s[a + i]
<1> DEFINE S == {s[i] : i \in a + 1 .. a + k}
           p == SubSeq(s, a + 1, a + k)
<1>1. \A i \in a + 1 .. a + k : s[i] \in S
  OBVIOUS
<1> HIDE DEF S
<1>2. /\ p \in Seq(S)
      /\ Len(p) = IF a + 1 <= a + k THEN (a + k) - (a + 1) + 1 ELSE 0
      /\ \A i \in 1 .. (a + k) - (a + 1) + 1 : p[i] = s[(a + 1) + i - 1]
  BY <1>1, SubSeqProperties
<1>3. (a + k) - (a + 1) + 1 = k /\ Len(p) = k
  BY <1>2
<1>4. \A i \in 1 .. k : p[i] = s[a + i]
  <2> SUFFICES ASSUME NEW i \in 1 .. k PROVE p[i] = s[a + i]
    OBVIOUS
  <2>1. (a + 1) + i - 1 = a + i
    OBVIOUS
  <2>2. p[i] = s[(a + 1) + i - 1]
    BY <1>2, <1>3
  <2>. QED BY <2>1, <2>2
<1> HIDE DEF p
<1>5. p = [i \in 1 .. k |-> p[i]]
  BY <1>2, <1>3
<1>. QED BY <1>4, <1>5 DEF Bytes, p, Filled

(* The CRC of some bytes is found where its four bytes are. *)
LEMMA CrcFound ==
    ASSUME NEW s, NEW a \in Nat, NEW x
    PROVE  (Bytes(s, a, 4) = crc32(x)) <=> \A i \in 1 .. 4 : s[a + i] = <<i, x>>
<1> DEFINE p == Bytes(s, a, 4)
<1>1. p = [i \in 1 .. 4 |-> p[i]] /\ \A i \in 1 .. 4 : p[i] = s[a + i]
  BY BytesAre DEF Filled
<1> HIDE DEF p
<1>2. (p = crc32(x)) <=> \A i \in 1 .. 4 : p[i] = <<i, x>>
  BY <1>1 DEF crc32
<1>. QED BY <1>1, <1>2 DEF p

(* An inverted byte is another byte, of the same kind if it is a number. *)
LEMMA InvertedDiffers ==
    /\ \A x \in Int : Inverted(<<x>>) = <<255 - x>> /\ <<255 - x>> # <<x>>
    /\ \A i, x : Inverted(<<i, x>>) # <<i, x>>
<1>1. ASSUME NEW x \in Int
      PROVE  Inverted(<<x>>) = <<255 - x>> /\ <<255 - x>> # <<x>>
  <2>1. Len(<<x>>) = 1 /\ <<x>>[1] = x
    OBVIOUS
  <2>2. <<255 - x>> # <<x>>
    OBVIOUS
  <2>. QED BY <2>1, <2>2 DEF Inverted
<1>2. ASSUME NEW i, NEW x PROVE Inverted(<<i, x>>) # <<i, x>>
  <2> DEFINE S == {i, x, "inverted"}
  <2>1. <<i, x>> \in Seq(S) /\ Len(<<i, x>>) = 2 /\ "inverted" \in S
    OBVIOUS
  <2> HIDE DEF S
  <2>2. Len(Append(<<i, x>>, "inverted")) = 3
    BY <2>1
  <2>. QED BY <2>1, <2>2 DEF Inverted
<1>. QED BY <1>1, <1>2

-----------------------------------------------------------------------------
(***************************************************************************)
(* What is sent.                                                           *)
(***************************************************************************)

(* What both programs send. *)
Msgs == SentBy("sender") \cup SentBy("receiver")

(* A packet put_on_pkt may make. *)
Made(p) ==
    /\ p.type \in {PTYPE_DATA, PTYPE_ACK, PTYPE_NACK} /\ p.tr = 0
    /\ p.window \in 0 .. 31 /\ p.seqnum \in 0 .. 255
    /\ p.length \in 0 .. Block
    /\ p.type # PTYPE_DATA => p.length = 0
    /\ Filled(p.timestamp, 4) /\ Filled(p.payload, p.length)
    /\ \A i \in 1 .. 4 : \E x \in Int : p.timestamp[i] = <<x>>
    /\ \A i \in 1 .. p.length : \E x \in Int : p.payload[i] = <<x>>

(* The sizes of the buffer and of a block. *)
LEMMA BufferSizes ==
    /\ MaxBuffer \in Nat /\ MaxPayload \in Nat /\ Block \in Nat /\ Block > 0
    /\ 16 + Block <= MaxBuffer /\ Block <= MaxPayload
    /\ MaxPayload <= 65535
    /\ LastLen \in 1 .. Block
    /\ SeqSpace = 256 /\ RecvWin \in 0 .. 31
<1>1. MaxBuffer \in Nat /\ MaxPayload \in 0 .. 65535 /\ PktSize \in Nat
  BY CodecAssumption
<1>2. PktSize >= 16 /\ PktSize < MaxBuffer /\ MaxBuffer - PktSize <= MaxPayload
  BY CodecAssumption
<1>3. SeqSpace = 256 /\ RecvWin < 32
  BY BufferAssumption
<1>4. LastLen \in 1 .. MaxBuffer - PktSize
  BY BufferAssumption
<1>5. RecvWin \in Nat
  BY SizesAssumption
<1>. QED BY <1>1, <1>2, <1>3, <1>4, <1>5 DEF Block

(* Packets and times are counted by numbers. *)
LEMMA IdsAndStamps == Ids \subseteq Nat /\ Stamps \subseteq Nat
BY BufferAssumption

(* A block of the file. *)
LEMMA BlockIs ==
    ASSUME NEW id \in Nat
    PROVE  /\ Len(BlockOf(id)) \in 0 .. Block
           /\ Filled(BlockOf(id), Len(BlockOf(id)))
           /\ \A i \in 1 .. Len(BlockOf(id)) :
                 \E x \in Int : BlockOf(id)[i] = <<x>>
<1>1. CASE IsEof(id)
  <2>1. BlockOf(id) = <<>> /\ Len(<<>>) = 0
    BY <1>1 DEF BlockOf
  <2>2. <<>> = [i \in 1 .. 0 |-> <<>>[i]]
    OBVIOUS
  <2>. QED BY <2>1, <2>2, BufferSizes DEF Filled
<1>2. CASE ~IsEof(id)
  <2> DEFINE n == IF id = FileLen - 1 THEN LastLen ELSE Block
             x == id % 251
             f == [i \in 1 .. n |-> <<x>>]
  <2>1. n \in 0 .. Block /\ x \in Int
    BY BufferSizes
  <2>2. BlockOf(id) = f
    BY <1>2 DEF BlockOf
  <2> HIDE DEF n, x
  <2>3. n \in Nat
    BY <2>1, BufferSizes
  <2>4. Filled(f, n)
    BY DEF Filled
  <2>5. Len(f) = n
    BY <2>3, <2>4, FilledLength
  <2>6. \A i \in 1 .. n : f[i] = <<x>>
    OBVIOUS
  <2> HIDE DEF f
  <2>. QED BY <2>1, <2>2, <2>4, <2>5, <2>6
<1>. QED BY <1>1, <1>2

(* A seqnum is one byte. *)
LEMMA SeqnumIsByte ==
    ASSUME NEW id \in Nat
    PROVE  SeqnumOf(id) \in 0 .. 255
<1>1. SeqSpace \in Nat \ {0} /\ SeqSpace - 1 = 255
  BY BufferSizes
<1>2. id % SeqSpace \in 0 .. SeqSpace - 1
  BY <1>1, ModRange
<1>. QED BY <1>1, <1>2 DEF SeqnumOf

(* A timestamp is four bytes. *)
LEMMA TimestampIs ==
    ASSUME NEW stamp \in Nat
    PROVE  /\ Filled(RawUint32(stamp), 4)
           /\ \A i \in 1 .. 4 : \E x \in Int : RawUint32(stamp)[i] = <<x>>
<1>1. RawUint32(stamp) = [i \in 1 .. 4 |-> <<(stamp \div 256 ^ (i - 1)) % 256>>]
  BY DEF RawUint32
<1>2. \A i \in 1 .. 4 : (stamp \div 256 ^ (i - 1)) % 256 \in Int
  OBVIOUS
<1>. QED BY <1>1, <1>2 DEF Filled

(* What such a packet has to have. *)
LEMMA PacketIsMade ==
    ASSUME NEW type \in {PTYPE_DATA, PTYPE_ACK, PTYPE_NACK},
           NEW win \in 0 .. 31, NEW length \in 0 .. Block,
           type # PTYPE_DATA => length = 0,
           NEW seq \in 0 .. 255, NEW stamp, Filled(stamp, 4),
           \A i \in 1 .. 4 : \E x \in Int : stamp[i] = <<x>>,
           NEW payload, Filled(payload, length),
           \A i \in 1 .. length : \E x \in Int : payload[i] = <<x>>
    PROVE  Made(Packet(type, win, length, seq, stamp, payload))
<1> DEFINE p == Packet(type, win, length, seq, stamp, payload)
<1>1. /\ p.type = type /\ p.tr = 0 /\ p.window = win /\ p.length = length
      /\ p.seqnum = seq /\ p.timestamp = stamp /\ p.payload = payload
  BY DEF Packet
<1> HIDE DEF p
<1>2. Made(p)
  BY <1>1 DEF Made
<1>. QED BY <1>2 DEF p

(* The messages, and the packets they are made into. *)
LEMMA MadeIs ==
    ASSUME NEW m \in Msgs, NEW stamp \in Stamps
    PROVE  /\ Made(put_on_pkt(m, stamp))
           /\ m.type \in {"data", "ack", "nack"} /\ m.mark = "ok"
           /\ m.type = "data" => /\ put_on_pkt(m, stamp).type = PTYPE_DATA
                                 /\ put_on_pkt(m, stamp).window = 1
           /\ m.type = "ack" => put_on_pkt(m, stamp).type = PTYPE_ACK
           /\ m.type = "nack" => put_on_pkt(m, stamp).type = PTYPE_NACK
           /\ SeqnumSeen(m) = {put_on_pkt(m, stamp).seqnum}
           /\ m.type = "data" => m = DataMsg(m.id)
           /\ m.type # "data" => m = ControlMsg(m.type, m.seq, m.win)
<1>0. stamp \in Nat /\ Ids \subseteq Nat
  BY IdsAndStamps
<1>1. \/ \E id \in Ids : m = DataMsg(id)
      \/ \E type \in {"ack", "nack"}, id \in Ids, win \in {0, RecvWin} :
            m = ControlMsg(type, SeqnumOf(id), win)
  BY DEF Msgs, SentBy
<1>2. ASSUME NEW id \in Ids, m = DataMsg(id)
      PROVE  /\ m.type = "data" /\ m.id = id /\ m.mark = "ok"
             /\ m = DataMsg(m.id)
             /\ put_on_pkt(m, stamp) =
                   Packet(PTYPE_DATA, 1, Len(BlockOf(id)), SeqnumOf(id),
                          RawUint32(stamp), BlockOf(id))
  BY <1>2 DEF DataMsg, put_on_pkt
<1>3. ASSUME NEW type \in {"ack", "nack"}, NEW id \in Ids,
             NEW win \in {0, RecvWin}, m = ControlMsg(type, SeqnumOf(id), win)
      PROVE  /\ m.type = type /\ m.seq = SeqnumOf(id) /\ m.mark = "ok"
             /\ m = ControlMsg(m.type, m.seq, m.win)
             /\ put_on_pkt(m, stamp) =
                   Packet(IF type = "ack" THEN PTYPE_ACK ELSE PTYPE_NACK,
                          win, 0, SeqnumOf(id), RawUint32(stamp), <<>>)
  BY <1>3 DEF ControlMsg, put_on_pkt
<1>4. ASSUME NEW id \in Ids, m = DataMsg(id)
      PROVE  Made(put_on_pkt(m, stamp))
  <2>1. id \in Nat /\ 1 \in 0 .. 31
    BY <1>0
  <2>2. SeqnumOf(id) \in 0 .. 255
    BY <2>1, SeqnumIsByte
  <2> DEFINE payload == BlockOf(id)
             length == Len(payload)
             seq == SeqnumOf(id)
             ts == RawUint32(stamp)
             type == PTYPE_DATA
             win == 1
  <2>3. /\ length \in 0 .. Block /\ Filled(payload, length)
        /\ \A i \in 1 .. length : \E x \in Int : payload[i] = <<x>>
    BY <2>1, BlockIs
  <2>4. Filled(ts, 4) /\ \A i \in 1 .. 4 : \E x \in Int : ts[i] = <<x>>
    BY <1>0, TimestampIs
  <2>5. type \in {PTYPE_DATA, PTYPE_ACK, PTYPE_NACK} /\ type = PTYPE_DATA
        /\ win \in 0 .. 31 /\ seq \in 0 .. 255
    BY <2>1, <2>2
  <2>6. put_on_pkt(m, stamp) = Packet(type, win, length, seq, ts, payload)
    BY <1>2, <1>4
  <2> HIDE DEF payload, length, seq, ts, type, win
  <2>7. Made(Packet(type, win, length, seq, ts, payload))
    BY <2>3, <2>4, <2>5, PacketIsMade
  <2>. QED BY <2>6, <2>7
<1>5. ASSUME NEW type \in {"ack", "nack"}, NEW id \in Ids,
             NEW win \in {0, RecvWin}, m = ControlMsg(type, SeqnumOf(id), win)
      PROVE  Made(put_on_pkt(m, stamp))
  <2> DEFINE payload == <<>>
             length == 0
             seq == SeqnumOf(id)
             ts == RawUint32(stamp)
             kind == IF type = "ack" THEN PTYPE_ACK ELSE PTYPE_NACK
  <2>1. payload = [i \in 1 .. 0 |-> payload[i]] /\ 1 .. 0 = {}
    OBVIOUS
  <2>2. win \in 0 .. 31 /\ Block \in Nat
    BY BufferSizes
  <2>3. /\ length \in 0 .. Block /\ length = 0 /\ Filled(payload, length)
        /\ \A i \in 1 .. length : \E x \in Int : payload[i] = <<x>>
    BY <2>1, <2>2 DEF Filled
  <2>4. Filled(ts, 4) /\ \A i \in 1 .. 4 : \E x \in Int : ts[i] = <<x>>
    BY <1>0, TimestampIs
  <2>5. kind \in {PTYPE_DATA, PTYPE_ACK, PTYPE_NACK}
    OBVIOUS
  <2>6. seq \in 0 .. 255
    BY <1>0, SeqnumIsByte
  <2>7. put_on_pkt(m, stamp) = Packet(kind, win, length, seq, ts, payload)
    BY <1>3, <1>5
  <2> HIDE DEF payload, length, seq, ts, kind
  <2>8. Made(Packet(kind, win, length, seq, ts, payload))
    BY <2>2, <2>3, <2>4, <2>5, <2>6, PacketIsMade
  <2>. QED BY <2>7, <2>8
<1>6. ASSUME NEW id \in Ids, m = DataMsg(id)
      PROVE  SeqnumSeen(m) = {put_on_pkt(m, stamp).seqnum}
  BY <1>2, <1>6 DEF SeqnumSeen, Packet
<1>7. ASSUME NEW type \in {"ack", "nack"}, NEW id \in Ids,
             NEW win \in {0, RecvWin}, m = ControlMsg(type, SeqnumOf(id), win)
      PROVE  SeqnumSeen(m) = {put_on_pkt(m, stamp).seqnum}
  BY <1>3, <1>7 DEF SeqnumSeen, Packet
<1>8. CASE \E id \in Ids : m = DataMsg(id)
  BY <1>2, <1>4, <1>6, <1>8 DEF Packet
<1>9. CASE \E type \in {"ack", "nack"}, id \in Ids, win \in {0, RecvWin} :
              m = ControlMsg(type, SeqnumOf(id), win)
  <2> PICK type \in {"ack", "nack"}, id \in Ids, win \in {0, RecvWin} :
              m = ControlMsg(type, SeqnumOf(id), win)
    BY <1>9
  <2>1. /\ Made(put_on_pkt(m, stamp))
        /\ SeqnumSeen(m) = {put_on_pkt(m, stamp).seqnum}
    BY <1>5, <1>7
  <2>2. /\ m.type = type /\ m.mark = "ok"
        /\ m = ControlMsg(m.type, m.seq, m.win)
        /\ put_on_pkt(m, stamp).type =
              IF type = "ack" THEN PTYPE_ACK ELSE PTYPE_NACK
    BY <1>3 DEF Packet
  <2>. QED BY <2>1, <2>2
<1>. QED BY <1>1, <1>8, <1>9

(* How long a packet is on the wire. *)
Wire(p) == IF p.length = 0 THEN 12 ELSE 16 + p.length

(* The first n bytes of d. *)
Front(d, n) == [i \in 1 .. n |-> d[i]]

(* Where its fields and its CRCs lie in it. *)
Laid(d, p) ==
    /\ d[1] = <<p.type * 64 + p.window>>
    /\ d[2] = <<p.length \div 256>> /\ d[3] = <<p.length % 256>>
    /\ d[4] = <<p.seqnum>>
    /\ \A i \in 1 .. 4 : d[4 + i] = p.timestamp[i]
    /\ \A i \in 1 .. p.length : d[12 + i] = p.payload[i]

Sealed(d, p) ==
    /\ \A i \in 1 .. 4 : d[8 + i] = <<i, Front(d, 8)>>
    /\ p.length # 0 =>
          \A i \in 1 .. 4 : d[(12 + p.length) + i] = <<i, p.payload>>

(* The eight bytes of a header. *)
Header(h, a, b, c, s, t) ==
    /\ Filled(h, 8)
    /\ h[1] = <<a>> /\ h[2] = <<b>> /\ h[3] = <<c>> /\ h[4] = <<s>>
    /\ \A i \in 1 .. 4 : h[4 + i] = t[i]

(* They are what pkt_encode puts together first. *)
LEMMA HeaderIs ==
    ASSUME NEW a, NEW b, NEW c, NEW s, NEW t, Filled(t, 4)
    PROVE  Header(<< <<a>> >> \o << <<b>>, <<c>> >> \o << <<s>> >> \o t,
                  a, b, c, s, t)
<1> DEFINE h1 == << <<a>> >>
           h2 == << <<b>>, <<c>> >>
           h3 == << <<s>> >>
<1>1. /\ h1 = [i \in 1 .. 1 |-> h1[i]] /\ h1[1] = <<a>>
      /\ h2 = [i \in 1 .. 2 |-> h2[i]] /\ h2[1] = <<b>> /\ h2[2] = <<c>>
      /\ h3 = [i \in 1 .. 1 |-> h3[i]] /\ h3[1] = <<s>>
  OBVIOUS
<1> HIDE DEF h1, h2, h3
<1> DEFINE c1 == h1 \o h2
<1>2. Joined(c1, h1, 1, h2, 2)
  <2>1. Filled(h1, 1) /\ Filled(h2, 2) /\ 1 \in Nat /\ 2 \in Nat
    BY <1>1 DEF Filled
  <2>. QED BY <2>1, Concatenation
<1> HIDE DEF c1
<1>3. Filled(c1, 3) /\ c1[1] = <<a>> /\ c1[2] = <<b>> /\ c1[3] = <<c>>
  <2>1. /\ Filled(c1, 1 + 2) /\ \A i \in 1 .. 1 : c1[i] = h1[i]
        /\ \A i \in 1 .. 2 : c1[1 + i] = h2[i]
    BY <1>2 DEF Joined
  <2>2. c1[1] = h1[1] /\ c1[1 + 1] = h2[1] /\ c1[1 + 2] = h2[2]
    BY <2>1
  <2>. QED BY <1>1, <2>1, <2>2
<1> DEFINE c2 == c1 \o h3
<1>4. Joined(c2, c1, 3, h3, 1)
  <2>1. Filled(h3, 1) /\ 1 \in Nat /\ 3 \in Nat
    BY <1>1 DEF Filled
  <2>. QED BY <2>1, <1>3, Concatenation
<1> HIDE DEF c2
<1>5. /\ Filled(c2, 4) /\ c2[1] = <<a>> /\ c2[2] = <<b>> /\ c2[3] = <<c>>
      /\ c2[4] = <<s>>
  <2>1. /\ Filled(c2, 3 + 1) /\ \A i \in 1 .. 3 : c2[i] = c1[i]
        /\ \A i \in 1 .. 1 : c2[3 + i] = h3[i]
    BY <1>4 DEF Joined
  <2>2. c2[3 + 1] = h3[1]
    BY <2>1
  <2>. QED BY <1>1, <1>3, <2>1, <2>2
<1> DEFINE h == c2 \o t
<1>6. Joined(h, c2, 4, t, 4)
  <2>1. 4 \in Nat
    OBVIOUS
  <2>. QED BY <2>1, <1>5, Concatenation
<1> HIDE DEF h
<1>7. /\ Filled(h, 8) /\ \A i \in 1 .. 4 : h[4 + i] = t[i]
      /\ h[1] = <<a>> /\ h[2] = <<b>> /\ h[3] = <<c>> /\ h[4] = <<s>>
  <2>1. /\ Filled(h, 4 + 4) /\ \A i \in 1 .. 4 : h[i] = c2[i]
        /\ \A i \in 1 .. 4 : h[4 + i] = t[i]
    BY <1>6 DEF Joined
  <2>. QED BY <1>5, <2>1
<1>8. Header(h, a, b, c, s, t)
  BY <1>7 DEF Header
<1>. QED BY <1>8 DEF h, c2, c1, h1, h2, h3

(* A packet on the wire. *)
LEMMA EncodedIs ==
    ASSUME NEW p, Made(p)
    PROVE  /\ Wire(p) \in 12 .. MaxBuffer
           /\ Filled(pkt_encode(p), Wire(p))
           /\ Laid(pkt_encode(p), p) /\ Sealed(pkt_encode(p), p)
<1>0. p.length \in 0 .. Block /\ p.length \in Nat
  BY BufferSizes DEF Made
<1>1. Wire(p) \in 12 .. MaxBuffer
  BY <1>0, BufferSizes DEF Wire
<1> DEFINE a == p.type * 64 + p.tr * 32 + p.window
           h == << <<a>> >> \o << <<p.length \div 256>>, <<p.length % 256>> >>
                  \o << <<p.seqnum>> >> \o p.timestamp
           k == IF p.length = 0 THEN 0 ELSE p.length + 4
           tail == IF p.length = 0 THEN <<>> ELSE p.payload \o crc32(p.payload)
           d == h \o crc32(h) \o tail
<1>2. pkt_encode(p) = d
  BY DEF pkt_encode, htons
<1>3. a = p.type * 64 + p.window
  <2>1. p.tr = 0 /\ p.type \in {1, 2, 3} /\ p.window \in 0 .. 31
    BY DEF Made, PTYPE_DATA, PTYPE_ACK, PTYPE_NACK
  <2>. QED BY <2>1
<1>4. /\ Filled(h, 8)
      /\ h[1] = <<p.type * 64 + p.window>>
      /\ h[2] = <<p.length \div 256>> /\ h[3] = <<p.length % 256>>
      /\ h[4] = <<p.seqnum>> /\ \A i \in 1 .. 4 : h[4 + i] = p.timestamp[i]
  <2>1. Filled(p.timestamp, 4)
    BY DEF Made
  <2>2. Header(h, a, p.length \div 256, p.length % 256, p.seqnum, p.timestamp)
    <3> HIDE DEF a
    <3>. QED BY <2>1, HeaderIs
  <2> HIDE DEF h
  <2>. QED BY <1>3, <2>2 DEF Header
<1> HIDE DEF h
<1>5. \A x : Filled(crc32(x), 4) /\ \A i \in 1 .. 4 : crc32(x)[i] = <<i, x>>
  BY DEF crc32, Filled
<1> DEFINE g == h \o crc32(h)
<1>6. /\ Filled(g, 12) /\ \A i \in 1 .. 8 : g[i] = h[i]
      /\ \A i \in 1 .. 4 : g[8 + i] = crc32(h)[i]
  <2>1. 4 \in Nat /\ 8 \in Nat /\ Filled(crc32(h), 4)
    BY <1>5
  <2>2. Joined(g, h, 8, crc32(h), 4)
    BY <1>4, <2>1, Concatenation
  <2> HIDE DEF g
  <2>. QED BY <2>2 DEF Joined
<1>7. /\ Filled(tail, k) /\ k \in Nat /\ 12 + k = Wire(p)
      /\ \A i \in 1 .. p.length : tail[i] = p.payload[i]
      /\ p.length # 0 =>
            \A i \in 1 .. 4 : tail[p.length + i] = <<i, p.payload>>
  <2>1. CASE p.length = 0
    <3>1. tail = <<>> /\ k = 0
      BY <2>1
    <3>2. <<>> = [i \in 1 .. 0 |-> <<>>[i]] /\ 1 .. 0 = {}
      OBVIOUS
    <3>. QED BY <2>1, <3>1, <3>2 DEF Filled, Wire
  <2>2. CASE p.length # 0
    <3>1. tail = p.payload \o crc32(p.payload) /\ k = p.length + 4
      BY <2>2
    <3>2. /\ Filled(p.payload, p.length) /\ Filled(crc32(p.payload), 4)
          /\ 4 \in Nat
      BY <1>5 DEF Made
    <3> HIDE DEF tail, k
    <3>3. Joined(tail, p.payload, p.length, crc32(p.payload), 4)
      BY <1>0, <3>1, <3>2, Concatenation
    <3>4. /\ Filled(tail, p.length + 4)
          /\ \A i \in 1 .. p.length : tail[i] = p.payload[i]
          /\ \A i \in 1 .. 4 : tail[p.length + i] = crc32(p.payload)[i]
      BY <3>3 DEF Joined
    <3>5. k \in Nat /\ 12 + k = Wire(p)
      BY <1>0, <2>2, <3>1 DEF Wire
    <3>. QED BY <1>5, <3>1, <3>4, <3>5
  <2>. QED BY <2>1, <2>2
<1> HIDE DEF tail, k, g
<1>8. d = g \o tail
  BY DEF g
<1> HIDE DEF d
<1>9. /\ Filled(d, 12 + k) /\ \A i \in 1 .. 12 : d[i] = g[i]
      /\ \A i \in 1 .. k : d[12 + i] = tail[i]
  <2>1. 12 \in Nat
    OBVIOUS
  <2>2. Joined(d, g, 12, tail, k)
    BY <1>6, <1>7, <1>8, <2>1, Concatenation
  <2>. QED BY <2>2 DEF Joined
<1>10. \A i \in 1 .. 8 : d[i] = h[i]
  BY <1>6, <1>9
<1>11. Filled(d, Wire(p))
  BY <1>7, <1>9
<1>12. Laid(d, p)
  <2>1. /\ d[1] = h[1] /\ d[2] = h[2] /\ d[3] = h[3] /\ d[4] = h[4]
        /\ \A i \in 1 .. 4 : d[4 + i] = h[4 + i]
    BY <1>10
  <2>2. \A i \in 1 .. p.length : d[12 + i] = p.payload[i]
    <3>1. \A i \in 1 .. p.length : i \in 1 .. k
      BY <1>0 DEF k
    <3>. QED BY <3>1, <1>7, <1>9
  <2>. QED BY <1>4, <2>1, <2>2 DEF Laid
<1>13. Front(d, 8) = h
  BY <1>4, <1>10 DEF Front, Filled
<1>14. Sealed(d, p)
  <2>1. \A i \in 1 .. 4 : d[8 + i] = <<i, h>>
    <3> SUFFICES ASSUME NEW i \in 1 .. 4 PROVE d[8 + i] = <<i, h>>
      OBVIOUS
    <3>1. 8 + i \in 1 .. 12
      OBVIOUS
    <3>2. d[8 + i] = g[8 + i]
      BY <3>1, <1>9
    <3>. QED BY <3>2, <1>5, <1>6
  <2>2. ASSUME p.length # 0, NEW i \in 1 .. 4
        PROVE  d[(12 + p.length) + i] = <<i, p.payload>>
    <3>1. p.length + i \in 1 .. k
      BY <1>0, <2>2 DEF k
    <3>2. (12 + p.length) + i = 12 + (p.length + i)
      BY <1>0
    <3>3. d[12 + (p.length + i)] = tail[p.length + i]
      BY <3>1, <1>9
    <3>. QED BY <2>2, <3>2, <3>3, <1>7
  <2>. QED BY <2>1, <2>2, <1>13 DEF Sealed
<1>. QED BY <1>1, <1>2, <1>11, <1>12, <1>14

-----------------------------------------------------------------------------
(***************************************************************************)
(* What pkt_decode makes of a buffer b.                                    *)
(***************************************************************************)

(* The fields of a struct pkt. *)
Fields(type, tr, window, length, seqnum, timestamp, ptr, payload) ==
    [type |-> type, tr |-> tr, window |-> window, length |-> length,
     seqnum |-> seqnum, timestamp |-> timestamp, ptr |-> ptr,
     payload |-> payload]

(* One that malloc has just returned. *)
Raw(len, ptr) == Fields(0, 0, 0, len, 77, <<>>, ptr, <<>>)

LEMMA FreshIsRaw ==
    ASSUME NEW pkt \in FreshPkts
    PROVE  \E len \in FreshLengths, ptr \in {"NULL", "wild"} :
              pkt = Raw(len, ptr)
BY DEF FreshPkts, Raw, Fields

(* The header's fields, as they lie in b. *)
TypeIn(b) == b[1][1] \div 64
TrIn(b) == (b[1][1] \div 32) % 2
WindowIn(b) == b[1][1] % 32
LengthIn(b, len) ==
    LET n == ntohs(Bytes(b, 1, 2)) IN IF n > MaxPayload THEN len ELSE n

(* Its CRC, and that of n bytes of payload, match. *)
Crc1In(b) == Bytes(b, 8, 4) = crc32(Bytes(b, 0, 8))
Crc2In(b, n) == Bytes(b, 12 + n, 4) = crc32(Bytes(b, 12, n))

(* The packet whose header was read, with this payload. *)
Headed(b, n, ptr, payload) ==
    Fields(TypeIn(b), TrIn(b), WindowIn(b), n, b[4][1], Bytes(b, 4, 4), ptr,
           payload)

(* pkt_decode, without the setters. *)
Outcome(b, len, ptr) ==
    LET n == LengthIn(b, len)
        headed == Headed(b, n, ptr, <<>>)
    IN IF TrIn(b) # 0 /\ TypeIn(b) # PTYPE_DATA
       THEN Decoded("E_TYPE", Fields(TypeIn(b), TrIn(b), 0, len, 77, <<>>,
                                     ptr, <<>>))
       ELSE IF n > MaxPayload
       THEN Decoded("E_LENGTH", Fields(TypeIn(b), TrIn(b), WindowIn(b), n, 77,
                                       <<>>, ptr, <<>>))
       ELSE IF ~Crc1In(b) THEN Decoded("E_CRC", headed)
       ELSE IF n = 0 THEN Decoded("PKT_OK", headed)
       ELSE IF 16 + n > MaxBuffer THEN Decoded("ub", headed)
       ELSE IF ~Crc2In(b, n) THEN Decoded("E_CRC", headed)
       ELSE Decoded("PKT_OK", Headed(b, n, "own", Bytes(b, 12, n)))

LEMMA DecodeIs ==
    ASSUME NEW b, b[1][1] \in Nat, NEW len, NEW ptr
    PROVE  pkt_decode(b, Raw(len, ptr)) = Outcome(b, len, ptr)
<1> DEFINE first == b[1][1]
           n == ntohs(Bytes(b, 1, 2))
           pkt == Raw(len, ptr)
           typed == [pkt EXCEPT !.type = first \div 64,
                                !.tr = (first \div 32) % 2]
           sized == pkt_set_length(pkt_set_window(typed, first % 32), n)
           headed == [sized EXCEPT !.seqnum = b[4][1],
                                   !.timestamp = Bytes(b, 4, 4)]
           l == LengthIn(b, len)
<1>1. typed = Fields(TypeIn(b), TrIn(b), 0, len, 77, <<>>, ptr, <<>>)
  <2>1. pkt = Fields(0, 0, 0, len, 77, <<>>, ptr, <<>>)
    BY DEF Raw
  <2> HIDE DEF pkt
  <2> DEFINE x == first \div 64
             y == (first \div 32) % 2
             g == [pkt EXCEPT !.type = x]
  <2>2. typed = [g EXCEPT !.tr = y]
    BY <2>1 DEF Fields
  <2> HIDE DEF x, y
  <2>3. g = Fields(x, 0, 0, len, 77, <<>>, ptr, <<>>)
    BY <2>1 DEF Fields
  <2> HIDE DEF g
  <2>4. [g EXCEPT !.tr = y] = Fields(x, y, 0, len, 77, <<>>, ptr, <<>>)
    BY <2>3 DEF Fields
  <2>. QED BY <2>2, <2>4 DEF x, y, TypeIn, TrIn
<1>2. sized = Fields(TypeIn(b), TrIn(b), WindowIn(b), l, 77, <<>>, ptr, <<>>)
  <2> HIDE DEF typed
  <2>1. ~(first % 32 > 31)
    OBVIOUS
  <2>2. pkt_set_window(typed, first % 32)
          = Fields(TypeIn(b), TrIn(b), WindowIn(b), len, 77, <<>>, ptr, <<>>)
    BY <1>1, <2>1 DEF pkt_set_window, Fields, WindowIn
  <2>. QED BY <2>2 DEF pkt_set_length, LengthIn, Fields
<1> HIDE DEF typed, sized
<1>3. headed = Headed(b, l, ptr, <<>>)
  <2> DEFINE x == b[4][1]
             y == Bytes(b, 4, 4)
             g == [sized EXCEPT !.seqnum = x]
  <2>1. headed = [g EXCEPT !.timestamp = y]
    BY <1>2 DEF Fields
  <2> HIDE DEF x, y
  <2>2. g = Fields(TypeIn(b), TrIn(b), WindowIn(b), l, x, <<>>, ptr, <<>>)
    BY <1>2 DEF Fields
  <2> HIDE DEF g
  <2>3. [g EXCEPT !.timestamp = y]
          = Fields(TypeIn(b), TrIn(b), WindowIn(b), l, x, y, ptr, <<>>)
    BY <2>2 DEF Fields
  <2>. QED BY <2>1, <2>3 DEF Headed, x, y
<1>4. pkt_set_payload(headed, Bytes(b, 12, l))
         = Headed(b, l, "own", Bytes(b, 12, l))
  <2> HIDE DEF headed
  <2> DEFINE x == Bytes(b, 12, l)
             g == [headed EXCEPT !.ptr = "own"]
  <2>1. pkt_set_payload(headed, x) = [g EXCEPT !.payload = x]
    BY <1>3 DEF pkt_set_payload, Headed, Fields
  <2> HIDE DEF x
  <2>2. g = Headed(b, l, "own", <<>>)
    BY <1>3 DEF Headed, Fields
  <2> HIDE DEF g
  <2>3. [g EXCEPT !.payload = x] = Headed(b, l, "own", x)
    BY <2>2 DEF Headed, Fields
  <2>. QED BY <2>1, <2>3 DEF x
<1>5. /\ typed.tr = TrIn(b) /\ typed.type = TypeIn(b)
      /\ sized.length = l /\ headed.length = l
  <2> HIDE DEF headed
  <2>. QED BY <1>1, <1>2, <1>3 DEF Headed, Fields
<1>6. pkt_decode(b, pkt) =
        LET payload == Bytes(b, 12, headed.length)
        IN IF typed.tr # 0 /\ typed.type # PTYPE_DATA
           THEN Decoded("E_TYPE", typed)
           ELSE IF sized.length > MaxPayload
           THEN Decoded("E_LENGTH", sized)
           ELSE IF Bytes(b, 8, 4) # crc32(Bytes(b, 0, 8))
           THEN Decoded("E_CRC", headed)
           ELSE IF headed.length = 0
           THEN Decoded("PKT_OK", headed)
           ELSE IF 16 + headed.length > MaxBuffer
           THEN Decoded("ub", headed)
           ELSE IF Bytes(b, 12 + headed.length, 4) # crc32(payload)
           THEN Decoded("E_CRC", headed)
           ELSE Decoded("PKT_OK", pkt_set_payload(headed, payload))
  BY DEF pkt_decode, UnderCrc1, typed, sized
<1> HIDE DEF pkt, headed, l
<1>7. pkt_decode(b, pkt) =
        IF TrIn(b) # 0 /\ TypeIn(b) # PTYPE_DATA
        THEN Decoded("E_TYPE", typed)
        ELSE IF l > MaxPayload THEN Decoded("E_LENGTH", sized)
        ELSE IF ~Crc1In(b) THEN Decoded("E_CRC", headed)
        ELSE IF l = 0 THEN Decoded("PKT_OK", headed)
        ELSE IF 16 + l > MaxBuffer THEN Decoded("ub", headed)
        ELSE IF ~Crc2In(b, l) THEN Decoded("E_CRC", headed)
        ELSE Decoded("PKT_OK", Headed(b, l, "own", Bytes(b, 12, l)))
  BY <1>4, <1>5, <1>6 DEF Crc1In, Crc2In
<1>. QED BY <1>1, <1>2, <1>3, <1>7 DEF Outcome, pkt, l

(* What can be told of an outcome without knowing b. *)
LEMMA OutcomeFacts ==
    ASSUME NEW b, NEW len, NEW ptr
    PROVE  LET r == Outcome(b, len, ptr)
           IN /\ ~Crc1In(b) => r.status \in {"E_TYPE", "E_LENGTH", "E_CRC"}
              /\ r.pkt.seqnum \in {77, b[4][1]}
              /\ r.status = "PKT_OK" => r.pkt.length = 0 \/ r.pkt.ptr = "own"
              /\ [r.pkt EXCEPT !.length = 0].length = 0
<1> DEFINE n == LengthIn(b, len)
           r == Outcome(b, len, ptr)
           Raised == Fields(TypeIn(b), TrIn(b), 0, len, 77, <<>>, ptr, <<>>)
           Refused == Fields(TypeIn(b), TrIn(b), WindowIn(b), n, 77, <<>>,
                             ptr, <<>>)
           Read(own, payload) == Headed(b, n, own, payload)
<1>1. \/ /\ r = Decoded("E_TYPE", Raised)
      \/ /\ r = Decoded("E_LENGTH", Refused)
      \/ /\ r = Decoded("E_CRC", Read(ptr, <<>>))
      \/ /\ Crc1In(b) /\ n = 0 /\ r = Decoded("PKT_OK", Read(ptr, <<>>))
      \/ /\ Crc1In(b) /\ r = Decoded("ub", Read(ptr, <<>>))
      \/ /\ Crc1In(b) /\ r = Decoded("PKT_OK", Read("own", Bytes(b, 12, n)))
  BY DEF Outcome
<1> HIDE DEF r, n
<1>2. /\ Raised.seqnum = 77 /\ [Raised EXCEPT !.length = 0].length = 0
      /\ Refused.seqnum = 77 /\ [Refused EXCEPT !.length = 0].length = 0
      /\ \A own, payload :
            /\ Read(own, payload).seqnum = b[4][1]
            /\ Read(own, payload).ptr = own
            /\ Read(own, payload).length = n
            /\ [Read(own, payload) EXCEPT !.length = 0].length = 0
  BY DEF Fields, Headed
<1>3. \A s, p : Decoded(s, p).status = s /\ Decoded(s, p).pkt = p
  BY DEF Decoded
<1> HIDE DEF Raised, Refused, Read
<1>4. ~Crc1In(b) => r.status \in {"E_TYPE", "E_LENGTH", "E_CRC"}
  BY <1>1, <1>3
<1>5. r.pkt.seqnum \in {77, b[4][1]}
  BY <1>1, <1>2, <1>3
<1>6. r.status = "PKT_OK" => r.pkt.length = 0 \/ r.pkt.ptr = "own"
  BY <1>1, <1>2, <1>3
<1>7. [r.pkt EXCEPT !.length = 0].length = 0
  <2>1. \/ r.pkt = Raised \/ r.pkt = Refused
        \/ \E own, payload : r.pkt = Read(own, payload)
    BY <1>1, <1>3
  <2>. QED BY <2>1, <1>2
<1>. QED BY <1>4, <1>5, <1>6, <1>7 DEF r

(* And what, when the header passes the first two tests. *)
LEMMA OutcomeRead ==
    ASSUME NEW b, NEW len, NEW ptr, TrIn(b) = 0 \/ TypeIn(b) = PTYPE_DATA,
           NEW n, n = LengthIn(b, len), ~(n > MaxPayload)
    PROVE  LET r == Outcome(b, len, ptr)
           IN /\ r.pkt.seqnum = b[4][1] /\ r.pkt.length = n
              /\ ~Crc1In(b) => r.status = "E_CRC" /\ r.pkt.ptr = ptr
              /\ n # 0 /\ ~(16 + n > MaxBuffer) /\ ~Crc2In(b, n)
                 => r.status = "E_CRC"
              /\ Crc1In(b) /\ n = 0
                 => r = Decoded("PKT_OK", Headed(b, n, ptr, <<>>))
              /\ Crc1In(b) /\ n # 0 /\ ~(16 + n > MaxBuffer) /\ Crc2In(b, n)
                 => r = Decoded("PKT_OK", Headed(b, n, "own", Bytes(b, 12, n)))
<1> DEFINE r == Outcome(b, len, ptr)
           Read(own, payload) == Headed(b, n, own, payload)
<1>1. r = IF ~Crc1In(b) THEN Decoded("E_CRC", Read(ptr, <<>>))
          ELSE IF n = 0 THEN Decoded("PKT_OK", Read(ptr, <<>>))
          ELSE IF 16 + n > MaxBuffer THEN Decoded("ub", Read(ptr, <<>>))
          ELSE IF ~Crc2In(b, n) THEN Decoded("E_CRC", Read(ptr, <<>>))
          ELSE Decoded("PKT_OK", Read("own", Bytes(b, 12, n)))
  BY DEF Outcome
<1>2. \A own, payload : /\ Read(own, payload).seqnum = b[4][1]
                        /\ Read(own, payload).length = n
                        /\ Read(own, payload).ptr = own
  BY DEF Fields, Headed
<1>3. \A s, p : Decoded(s, p).status = s /\ Decoded(s, p).pkt = p
  BY DEF Decoded
<1> HIDE DEF r, Read
<1>4. r.pkt.seqnum = b[4][1] /\ r.pkt.length = n
  BY <1>1, <1>2, <1>3
<1>5. /\ ~Crc1In(b) => r.status = "E_CRC" /\ r.pkt.ptr = ptr
      /\ n # 0 /\ ~(16 + n > MaxBuffer) /\ ~Crc2In(b, n) => r.status = "E_CRC"
  BY <1>1, <1>2, <1>3
<1>6. /\ Crc1In(b) /\ n = 0 => r = Decoded("PKT_OK", Read(ptr, <<>>))
      /\ Crc1In(b) /\ n # 0 /\ ~(16 + n > MaxBuffer) /\ Crc2In(b, n)
         => r = Decoded("PKT_OK", Read("own", Bytes(b, 12, n)))
  BY <1>1
<1>. QED BY <1>4, <1>5, <1>6 DEF r, Read

(* Where the CRCs are looked for. *)
LEMMA CrcsIn ==
    ASSUME NEW b
    PROVE  /\ Crc1In(b) <=> \A i \in 1 .. 4 : b[8 + i] = <<i, Front(b, 8)>>
           /\ \A n \in Nat :
                 Crc2In(b, n) <=>
                 \A i \in 1 .. 4 : b[(12 + n) + i] = <<i, Bytes(b, 12, n)>>
<1>1. Bytes(b, 0, 8) = Front(b, 8)
  <2>1. 0 \in Nat /\ 8 \in Nat
    OBVIOUS
  <2> DEFINE p == Bytes(b, 0, 8)
  <2>2. Filled(p, 8) /\ \A i \in 1 .. 8 : p[i] = b[0 + i]
    BY <2>1, BytesAre
  <2> HIDE DEF p
  <2>3. \A i \in 1 .. 8 : p[i] = b[i]
    BY <2>2
  <2>4. p = Front(b, 8)
    BY <2>2, <2>3 DEF Filled, Front
  <2>. QED BY <2>4 DEF p
<1>2. Crc1In(b) <=> \A i \in 1 .. 4 : b[8 + i] = <<i, Front(b, 8)>>
  <2>1. 8 \in Nat
    OBVIOUS
  <2>. QED BY <1>1, <2>1, CrcFound DEF Crc1In
<1>3. ASSUME NEW n \in Nat
      PROVE  Crc2In(b, n) <=>
             \A i \in 1 .. 4 : b[(12 + n) + i] = <<i, Bytes(b, 12, n)>>
  <2>1. 12 + n \in Nat
    OBVIOUS
  <2>. QED BY <2>1, CrcFound DEF Crc2In
<1>. QED BY <1>2, <1>3

(* The first byte of a header. *)
LEMMA FirstByte ==
    ASSUME NEW p, Made(p), NEW b, b[1] = <<p.type * 64 + p.window>>
    PROVE  /\ b[1][1] \in Nat
           /\ TypeIn(b) = p.type /\ TrIn(b) = 0 /\ WindowIn(b) = p.window
<1>1. p.type \in {1, 2, 3} /\ p.window \in 0 .. 31
  BY DEF Made, PTYPE_DATA, PTYPE_ACK, PTYPE_NACK
<1>2. b[1][1] = p.type * 64 + p.window
  OBVIOUS
<1>3. CASE p.type = 1
  BY <1>1, <1>2, <1>3 DEF TypeIn, TrIn, WindowIn
<1>4. CASE p.type = 2
  BY <1>1, <1>2, <1>4 DEF TypeIn, TrIn, WindowIn
<1>5. CASE p.type = 3
  BY <1>1, <1>2, <1>5 DEF TypeIn, TrIn, WindowIn
<1>. QED BY <1>1, <1>3, <1>4, <1>5

(* The two bytes of the length. *)
LEMMA LengthBytes ==
    ASSUME NEW p, Made(p), NEW b, NEW len,
           b[2] = <<p.length \div 256>>, b[3] = <<p.length % 256>>
    PROVE  LengthIn(b, len) = p.length
<1> DEFINE q == Bytes(b, 1, 2)
<1>1. p.length \in Nat /\ p.length <= MaxPayload /\ MaxPayload \in Nat
  BY BufferSizes DEF Made
<1>2. q[1] = b[2] /\ q[2] = b[3]
  <2>1. 1 \in Nat /\ 2 \in Nat
    OBVIOUS
  <2>2. \A i \in 1 .. 2 : q[i] = b[1 + i]
    BY <2>1, BytesAre
  <2> HIDE DEF q
  <2>3. q[1] = b[1 + 1] /\ q[2] = b[1 + 2]
    BY <2>2
  <2>. QED BY <2>3
<1> HIDE DEF q
<1>3. ntohs(q) = (p.length \div 256) * 256 + (p.length % 256)
  BY <1>2 DEF ntohs
<1>4. ntohs(q) = p.length
  BY <1>1, <1>3
<1>. QED BY <1>1, <1>4 DEF LengthIn, q

(* What lies over the front of a buffer lies in it. *)
LEMMA LaidOver ==
    ASSUME NEW p, Made(p), NEW d, Laid(d, p), Sealed(d, p),
           NEW b, \A i \in 1 .. Wire(p) : b[i] = d[i]
    PROVE  Laid(b, p) /\ Sealed(b, p)
<1>1. p.length \in Nat /\ Wire(p) \in Nat /\ Wire(p) >= 12
      /\ (p.length # 0 => Wire(p) = 16 + p.length)
  BY BufferSizes DEF Made, Wire
<1>2. \A i \in 1 .. 12 : b[i] = d[i]
  BY <1>1
<1>3. \A i \in 1 .. p.length : b[12 + i] = d[12 + i]
  BY <1>1
<1>4. p.length # 0 =>
        \A i \in 1 .. 4 : b[(12 + p.length) + i] = d[(12 + p.length) + i]
  BY <1>1
<1>5. Front(b, 8) = Front(d, 8)
  BY <1>2 DEF Front
<1>6. \A i \in 1 .. 4 : b[4 + i] = d[4 + i] /\ b[8 + i] = d[8 + i]
  BY <1>2
<1>7. Laid(b, p)
  BY <1>2, <1>3, <1>6 DEF Laid
<1>8. Sealed(b, p)
  BY <1>4, <1>5, <1>6 DEF Sealed
<1>. QED BY <1>7, <1>8

(* The timestamp and the payload that are read. *)
LEMMA PartsRead ==
    ASSUME NEW p, Made(p), NEW b, Laid(b, p)
    PROVE  Bytes(b, 4, 4) = p.timestamp /\ Bytes(b, 12, p.length) = p.payload
<1> DEFINE t == Bytes(b, 4, 4)
           q == Bytes(b, 12, p.length)
<1>1. p.length \in Nat
  BY BufferSizes DEF Made
<1>2. Filled(t, 4) /\ \A i \in 1 .. 4 : t[i] = b[4 + i]
  <2>1. 4 \in Nat
    OBVIOUS
  <2>. QED BY <2>1, BytesAre
<1>3. Filled(q, p.length) /\ \A i \in 1 .. p.length : q[i] = b[12 + i]
  <2>1. 12 \in Nat
    OBVIOUS
  <2>. QED BY <1>1, <2>1, BytesAre
<1> HIDE DEF t, q
<1>4. \A i \in 1 .. 4 : t[i] = p.timestamp[i]
  BY <1>2 DEF Laid
<1>5. \A i \in 1 .. p.length : q[i] = p.payload[i]
  BY <1>3 DEF Laid
<1>6. t = p.timestamp
  BY <1>2, <1>4 DEF Made, Filled
<1>7. q = p.payload
  BY <1>3, <1>5 DEF Made, Filled
<1>. QED BY <1>6, <1>7 DEF t, q

(* A datagram the link has left alone is decoded to what was encoded. *)
LEMMA IntactOutcome ==
    ASSUME NEW p, Made(p), NEW b, Laid(b, p), Sealed(b, p), NEW len, NEW ptr
    PROVE  LET r == Outcome(b, len, ptr)
           IN /\ b[1][1] \in Nat
              /\ r.status = "PKT_OK"
              /\ r.pkt.type = p.type /\ r.pkt.window = p.window
              /\ r.pkt.seqnum = p.seqnum /\ r.pkt.timestamp = p.timestamp
              /\ r.pkt.length = p.length
              /\ p.length > 0 => r.pkt.payload = p.payload
<1> DEFINE n == p.length
           r == Outcome(b, len, ptr)
<1>1. n \in Nat /\ n <= MaxPayload /\ 16 + n <= MaxBuffer
      /\ MaxPayload \in Nat /\ MaxBuffer \in Nat
  BY BufferSizes DEF Made
<1>2. b[1][1] \in Nat /\ TypeIn(b) = p.type /\ TrIn(b) = 0
      /\ WindowIn(b) = p.window
  BY FirstByte DEF Laid
<1>3. n = LengthIn(b, len)
  BY LengthBytes DEF Laid
<1>4. Crc1In(b)
  BY CrcsIn DEF Sealed
<1>5. Bytes(b, 4, 4) = p.timestamp /\ Bytes(b, 12, n) = p.payload
  BY PartsRead
<1>6. n # 0 => Crc2In(b, n)
  BY <1>1, <1>5, CrcsIn DEF Sealed
<1>7. b[4][1] = p.seqnum
  BY DEF Laid
<1>8. \A own, payload :
         LET q == Headed(b, n, own, payload)
         IN /\ q.type = p.type /\ q.window = p.window /\ q.seqnum = p.seqnum
            /\ q.timestamp = p.timestamp /\ q.length = n /\ q.payload = payload
  BY <1>2, <1>5, <1>7 DEF Headed, Fields
<1>9. ~(n > MaxPayload) /\ ~(16 + n > MaxBuffer) /\ (n > 0 => n # 0)
  BY <1>1
<1> HIDE DEF n, r
<1>10. \/ n = 0 /\ r = Decoded("PKT_OK", Headed(b, n, ptr, <<>>))
       \/ r = Decoded("PKT_OK", Headed(b, n, "own", Bytes(b, 12, n)))
  BY <1>2, <1>3, <1>4, <1>6, <1>9, OutcomeRead DEF r
<1>11. \A s, q : Decoded(s, q).status = s /\ Decoded(s, q).pkt = q
  BY DEF Decoded
<1>12. /\ r.status = "PKT_OK"
       /\ r.pkt.type = p.type /\ r.pkt.window = p.window
       /\ r.pkt.seqnum = p.seqnum /\ r.pkt.timestamp = p.timestamp
       /\ r.pkt.length = n
       /\ n > 0 => r.pkt.payload = p.payload
  BY <1>5, <1>8, <1>9, <1>10, <1>11
<1>. QED BY <1>2, <1>12 DEF n, r

(***************************************************************************)
(* One cut after its header is refused, though its seqnum can be read and  *)
(* its CRC is that of the header before TR was set.                        *)
(***************************************************************************)
LEMMA CutOutcome ==
    ASSUME NEW p, Made(p), p.type = PTYPE_DATA, p.window = 1,
           NEW d, Laid(d, p), Sealed(d, p),
           NEW b, b[1] = <<d[1][1] + 32>>, \A i \in 2 .. 12 : b[i] = d[i],
           NEW len, NEW ptr
    PROVE  LET r == Outcome(b, len, ptr)
           IN /\ b[1][1] \in Nat
              /\ r.status = "E_CRC" /\ r.pkt.ptr = ptr
              /\ r.pkt.seqnum = p.seqnum
              /\ Bytes(b, 8, 4) = crc32(UnderCrc1TrCleared(Bytes(b, 0, 8)))
<1>1. d[1] = <<65>>
  BY DEF Laid, PTYPE_DATA
<1>2. b[1] = <<97>>
  BY <1>1
<1>3. b[1][1] \in Nat /\ TypeIn(b) = PTYPE_DATA
  BY <1>2 DEF TypeIn, PTYPE_DATA
<1>4. b[2] = d[2] /\ b[3] = d[3] /\ b[4] = d[4] /\ b[8 + 1] = d[8 + 1]
  OBVIOUS
<1>5. LengthIn(b, len) = p.length
  BY <1>4, LengthBytes DEF Laid
<1>6. ~(p.length > MaxPayload)
  BY BufferSizes DEF Made
<1>7. ~Crc1In(b)
  <2>1. b[8 + 1] = <<1, Front(d, 8)>>
    BY <1>4 DEF Sealed
  <2>2. Front(d, 8)[1] = <<65>> /\ Front(b, 8)[1] = <<97>>
    BY <1>1, <1>2 DEF Front
  <2>3. Front(d, 8) # Front(b, 8)
    <3>1. <<65>> # <<97>>
      OBVIOUS
    <3>. QED BY <2>2, <3>1
  <2>4. Crc1In(b) => b[8 + 1] = <<1, Front(b, 8)>>
    BY CrcsIn
  <2>. QED BY <2>1, <2>3, <2>4
<1>8. b[4][1] = p.seqnum
  BY <1>4 DEF Laid
<1>9. Bytes(b, 8, 4) = crc32(UnderCrc1TrCleared(Bytes(b, 0, 8)))
  <2> DEFINE h == Bytes(b, 0, 8)
             x == <<((h[1][1] \div 64) * 64) + (h[1][1] % 32)>>
             c == UnderCrc1TrCleared(h)
  <2>1. 0 \in Nat /\ 8 \in Nat
    OBVIOUS
  <2>2. Filled(h, 8) /\ \A i \in 1 .. 8 : h[i] = b[0 + i]
    BY <2>1, BytesAre
  <2>3. c = [h EXCEPT ![1] = x]
    BY DEF UnderCrc1TrCleared
  <2> HIDE DEF h, c
  <2>4. DOMAIN h = 1 .. 8 /\ \A i \in 1 .. 8 : h[i] = b[i]
    BY <2>2 DEF Filled
  <2>5. h[1][1] = 97
    BY <1>2, <2>4
  <2>6. x = <<65>>
    BY <2>5
  <2> HIDE DEF x
  <2>7. c = [i \in 1 .. 8 |-> IF i = 1 THEN x ELSE h[i]]
    BY <2>3, <2>4
  <2>8. \A i \in 1 .. 8 : (IF i = 1 THEN x ELSE h[i]) = d[i]
    BY <1>1, <2>4, <2>6
  <2>9. c = Front(d, 8)
    BY <2>7, <2>8 DEF Front
  <2>10. \A i \in 1 .. 4 : b[8 + i] = <<i, Front(d, 8)>>
    <3>1. \A i \in 1 .. 4 : 8 + i \in 2 .. 12
      OBVIOUS
    <3>. QED BY <3>1 DEF Sealed
  <2>11. Bytes(b, 8, 4) = crc32(Front(d, 8))
    BY <2>1, <2>10, CrcFound
  <2>. QED BY <2>9, <2>11 DEF c, h
<1>. QED BY <1>3, <1>5, <1>6, <1>7, <1>8, <1>9, OutcomeRead

(* The eight bytes under the first CRC are numbers. *)
LEMMA HeaderBytes ==
    ASSUME NEW p, Made(p), NEW d, Laid(d, p)
    PROVE  \A i \in 1 .. 8 : \E x \in Int : d[i] = <<x>>
<1>1. p.type \in Nat /\ p.window \in Nat /\ p.length \in Nat /\ p.seqnum \in Nat
  BY BufferSizes DEF Made, PTYPE_DATA, PTYPE_ACK, PTYPE_NACK
<1>2. /\ p.type * 64 + p.window \in Int /\ p.length \div 256 \in Int
      /\ p.length % 256 \in Int /\ p.seqnum \in Int
  BY <1>1
<1>3. \A i \in 1 .. 4 : \E x \in Int : d[4 + i] = <<x>>
  BY DEF Laid, Made
<1> SUFFICES ASSUME NEW i \in 1 .. 8 PROVE \E x \in Int : d[i] = <<x>>
  OBVIOUS
<1>4. CASE i \in 1 .. 4
  <2>1. i = 1 \/ i = 2 \/ i = 3 \/ i = 4
    BY <1>4
  <2>2. /\ \E x \in Int : d[1] = <<x>>
        /\ \E x \in Int : d[2] = <<x>>
        /\ \E x \in Int : d[3] = <<x>>
        /\ \E x \in Int : d[4] = <<x>>
    BY <1>2 DEF Laid
  <2>. QED BY <2>1, <2>2
<1>5. CASE i \notin 1 .. 4
  <2> DEFINE k == i - 4
  <2>1. k \in 1 .. 4 /\ i = 4 + k
    BY <1>5
  <2> HIDE DEF k
  <2>. QED BY <1>3, <2>1
<1>. QED BY <1>4, <1>5

(* b is the datagram d of a packet p with an inverted byte at place idx. *)
Hit(b, d, p, idx) ==
    /\ Laid(d, p) /\ Sealed(d, p)
    /\ idx \in 0 .. Wire(p) - 1
    /\ b[idx + 1] = Inverted(d[idx + 1])
    /\ \A i \in 1 .. Wire(p) : i # idx + 1 => b[i] = d[i]

(* An inverted byte of the header, or of its CRC, spoils the first CRC. *)
LEMMA FirstPartHit ==
    ASSUME NEW p, Made(p), NEW b, NEW d, NEW idx, Hit(b, d, p, idx), idx < 12
    PROVE  ~Crc1In(b)
<1>1. p.length \in Nat /\ Wire(p) \in Nat /\ Wire(p) >= 12 /\ idx \in 0 .. 11
  BY BufferSizes DEF Made, Wire, Hit
<1>2. \A i \in 1 .. 12 : i # idx + 1 => b[i] = d[i]
  BY <1>1 DEF Hit
<1>3. b[idx + 1] = Inverted(d[idx + 1])
  BY DEF Hit
<1>4. \A i \in 1 .. 4 : d[8 + i] = <<i, Front(d, 8)>>
  BY DEF Hit, Sealed
<1>5. Crc1In(b) => \A i \in 1 .. 4 : b[8 + i] = <<i, Front(b, 8)>>
  BY CrcsIn
<1>6. CASE idx < 8
  <2>1. idx + 1 \in 1 .. 8
    BY <1>1, <1>6
  <2>2. PICK x \in Int : d[idx + 1] = <<x>>
    BY <2>1, HeaderBytes DEF Hit
  <2>3. b[idx + 1] # d[idx + 1]
    BY <1>3, <2>2, InvertedDiffers
  <2>4. Front(b, 8)[idx + 1] = b[idx + 1] /\ Front(d, 8)[idx + 1] = d[idx + 1]
    BY <2>1 DEF Front
  <2>5. Front(b, 8) # Front(d, 8)
    BY <2>3, <2>4
  <2>6. 8 + 1 \in 1 .. 12 /\ 8 + 1 # idx + 1 /\ 1 \in 1 .. 4
    BY <1>1, <1>6
  <2>7. b[8 + 1] = <<1, Front(d, 8)>>
    BY <1>2, <1>4, <2>6
  <2>8. Crc1In(b) => b[8 + 1] = <<1, Front(b, 8)>>
    BY <1>5, <2>6
  <2>. QED BY <2>5, <2>7, <2>8
<1>7. CASE ~(idx < 8)
  <2> DEFINE k == idx - 7
  <2>1. k \in 1 .. 4 /\ idx + 1 = 8 + k
    BY <1>1, <1>7
  <2> HIDE DEF k
  <2>2. \A i \in 1 .. 8 : b[i] = d[i]
    BY <1>1, <1>2, <1>7
  <2>3. Front(b, 8) = Front(d, 8)
    BY <2>2 DEF Front
  <2>4. b[8 + k] = Inverted(<<k, Front(d, 8)>>)
    BY <1>3, <1>4, <2>1
  <2>5. b[8 + k] # <<k, Front(b, 8)>>
    BY <2>3, <2>4, InvertedDiffers
  <2>. QED BY <1>5, <2>1, <2>5
<1>. QED BY <1>6, <1>7

(* One of the payload, or of its CRC, spoils the second. *)
LEMMA SecondPartHit ==
    ASSUME NEW p, Made(p), NEW b, NEW d, NEW idx, Hit(b, d, p, idx),
           ~(idx < 12)
    PROVE  p.length # 0 /\ ~Crc2In(b, p.length)
<1> DEFINE n == p.length
<1>1. p.length \in Nat /\ idx \in 0 .. Wire(p) - 1 /\ Wire(p) \in Nat
  BY BufferSizes DEF Made, Wire, Hit
<1>2. n # 0 /\ Wire(p) = 16 + n /\ idx \in 12 .. 15 + n
  BY <1>1 DEF Wire
<1>3. b[idx + 1] = Inverted(d[idx + 1])
  BY DEF Hit
<1>4. /\ \A i \in 1 .. n : d[12 + i] = p.payload[i]
      /\ \A i \in 1 .. 4 : d[(12 + n) + i] = <<i, p.payload>>
  BY <1>2 DEF Hit, Laid, Sealed
<1>5. n \in Nat /\ 12 \in Nat
  BY <1>1
<1> DEFINE q == Bytes(b, 12, n)
<1>6. Filled(q, n) /\ \A i \in 1 .. n : q[i] = b[12 + i]
  BY <1>5, BytesAre
<1>7. Crc2In(b, n) => \A i \in 1 .. 4 : b[(12 + n) + i] = <<i, q>>
  BY <1>5, CrcsIn
<1> HIDE DEF q
<1>8. CASE idx < 12 + n
  <2> DEFINE k == idx - 11
  <2>1. k \in 1 .. n /\ idx + 1 = 12 + k
    BY <1>1, <1>2, <1>8
  <2> HIDE DEF k
  <2>2. PICK x \in Int : p.payload[k] = <<x>>
    BY <2>1 DEF Made
  <2>3. q[k] = Inverted(<<x>>) /\ p.payload[k] = <<x>>
    BY <1>3, <1>4, <1>6, <2>1, <2>2
  <2>4. q # p.payload
    BY <2>3, InvertedDiffers
  <2>5. (12 + n) + 1 \in 1 .. Wire(p) /\ (12 + n) + 1 # idx + 1 /\ 1 \in 1 .. 4
    BY <1>1, <1>2, <1>8
  <2>6. b[(12 + n) + 1] = d[(12 + n) + 1]
    BY <2>5 DEF Hit
  <2>7. b[(12 + n) + 1] = <<1, p.payload>>
    BY <1>4, <2>5, <2>6
  <2>8. Crc2In(b, n) => b[(12 + n) + 1] = <<1, q>>
    BY <1>7, <2>5
  <2>. QED BY <1>2, <2>4, <2>7, <2>8
<1>9. CASE ~(idx < 12 + n)
  <2> DEFINE k == idx - (11 + n)
  <2>1. k \in 1 .. 4 /\ idx + 1 = (12 + n) + k
    BY <1>1, <1>2, <1>9
  <2> HIDE DEF k
  <2>2. \A i \in 1 .. n : 12 + i \in 1 .. Wire(p) /\ 12 + i # idx + 1
    BY <1>1, <1>2, <1>9
  <2>3. \A i \in 1 .. n : q[i] = p.payload[i]
    BY <1>4, <1>6, <2>2 DEF Hit
  <2>4. q = p.payload
    BY <1>6, <2>3 DEF Made, Filled
  <2>5. b[(12 + n) + k] = Inverted(<<k, p.payload>>)
    BY <1>3, <1>4, <2>1
  <2>6. b[(12 + n) + k] # <<k, q>>
    BY <2>4, <2>5, InvertedDiffers
  <2>. QED BY <1>2, <1>7, <2>1, <2>6
<1>. QED BY <1>8, <1>9

(* A damaged datagram is refused.  What its seqnum seems to be is a byte,  *)
(* and only damage to the type or the length of an answer can leave the    *)
(* packet with a length.                                                   *)
LEMMA HitOutcome ==
    ASSUME NEW p, Made(p), NEW b, NEW d, NEW idx, Hit(b, d, p, idx),
           NEW len, NEW ptr
    PROVE  LET r == Outcome(b, len, ptr)
           IN /\ b[1][1] \in Nat
              /\ r.status \in {"E_TYPE", "E_LENGTH", "E_CRC"}
              /\ r.pkt.seqnum \in 0 .. 255
              /\ p.type # PTYPE_DATA /\ r.pkt.length # 0
                 => idx \in {1, 2} \/ (idx = 0 /\ p.type = PTYPE_NACK)
<1> DEFINE r == Outcome(b, len, ptr)
           n == p.length
<1>1. /\ n \in Nat /\ Wire(p) \in Nat /\ Wire(p) >= 12
      /\ idx \in 0 .. Wire(p) - 1
      /\ ~(n > MaxPayload) /\ ~(16 + n > MaxBuffer)
      /\ (n # 0 => p.type = PTYPE_DATA)
  BY BufferSizes DEF Made, Wire, Hit
<1>2. /\ d[1] = <<p.type * 64 + p.window>> /\ d[4] = <<p.seqnum>>
      /\ d[2] = <<n \div 256>> /\ d[3] = <<n % 256>>
  BY DEF Hit, Laid
<1>3. \A i \in 1 .. 12 : b[i] = IF i = idx + 1 THEN Inverted(d[i]) ELSE d[i]
  BY <1>1 DEF Hit
<1>4. p.type \in {1, 2, 3} /\ p.window \in 0 .. 31 /\ p.seqnum \in 0 .. 255
  BY DEF Made, PTYPE_DATA, PTYPE_ACK, PTYPE_NACK
<1>5. b[1][1] \in Nat
  <2>1. CASE idx = 0
    <3> DEFINE x == p.type * 64 + p.window
    <3>1. x \in Int /\ 255 - x \in Nat
      BY <1>4
    <3>2. b[1] = Inverted(d[1])
      BY <1>3, <2>1
    <3> HIDE DEF x
    <3>3. b[1] = <<255 - x>>
      BY <1>2, <3>1, <3>2, InvertedDiffers DEF x
    <3>. QED BY <3>1, <3>3
  <2>2. CASE idx # 0
    <3>1. b[1] = d[1]
      BY <1>1, <1>3, <2>2
    <3>. QED BY <1>2, <3>1, FirstByte
  <2>. QED BY <2>1, <2>2
<1>6. b[4][1] \in 0 .. 255
  <2>1. b[4] = d[4] \/ b[4] = Inverted(d[4])
    BY <1>3
  <2>2. b[4] = <<p.seqnum>> \/ b[4] = <<255 - p.seqnum>>
    BY <1>2, <1>4, <2>1, InvertedDiffers
  <2>. QED BY <1>4, <2>2
<1>7. r.status \in {"E_TYPE", "E_LENGTH", "E_CRC"}
  <2>1. CASE idx < 12
    BY <2>1, FirstPartHit, OutcomeFacts
  <2>2. CASE ~(idx < 12)
    <3>1. n # 0 /\ ~Crc2In(b, n)
      BY <2>2, SecondPartHit
    <3>2. b[1] = d[1] /\ b[2] = d[2] /\ b[3] = d[3]
      BY <1>1, <1>3, <2>2
    <3>3. n = LengthIn(b, len) /\ TrIn(b) = 0
      BY <1>2, <3>2, LengthBytes, FirstByte
    <3> HIDE DEF n, r
    <3>4. r.status = "E_CRC"
      BY <1>1, <3>1, <3>3, OutcomeRead DEF r
    <3>. QED BY <3>4
  <2>. QED BY <2>1, <2>2
<1>8. r.pkt.seqnum \in 0 .. 255
  <2>1. r.pkt.seqnum \in {77, b[4][1]}
    BY OutcomeFacts
  <2> HIDE DEF r
  <2>. QED BY <1>6, <2>1
<1>9. ASSUME p.type # PTYPE_DATA, idx \notin {1, 2},
             ~(idx = 0 /\ p.type = PTYPE_NACK)
      PROVE  r.pkt.length = 0
  <2>1. n = 0
    BY <1>1, <1>9
  <2>2. b[2] = d[2] /\ b[3] = d[3]
    BY <1>1, <1>3, <1>9
  <2>3. n = LengthIn(b, len)
    BY <1>2, <2>2, LengthBytes
  <2>4. TrIn(b) = 0 \/ TypeIn(b) = PTYPE_DATA
    <3>1. CASE idx # 0
      <4>1. b[1] = d[1]
        BY <1>1, <1>3, <3>1
      <4>. QED BY <1>2, <4>1, FirstByte
    <3>2. CASE idx = 0
      <4>1. p.type = 2
        BY <1>4, <1>9, <3>2 DEF PTYPE_DATA, PTYPE_NACK
      <4> DEFINE x == p.type * 64 + p.window
      <4>2. x \in Int /\ x = 128 + p.window
        BY <1>4, <4>1
      <4>3. b[1] = Inverted(d[1])
        BY <1>3, <3>2
      <4> HIDE DEF x
      <4>4. b[1] = <<255 - x>>
        BY <1>2, <4>2, <4>3, InvertedDiffers DEF x
      <4>5. b[1][1] = 127 - p.window
        BY <1>4, <4>2, <4>4
      <4>6. (127 - p.window) \div 64 = 1
        BY <1>4
      <4>. QED BY <4>5, <4>6 DEF TypeIn, PTYPE_DATA
    <3>. QED BY <3>1, <3>2
  <2> HIDE DEF n, r
  <2>5. r.pkt.length = n
    BY <1>1, <2>3, <2>4, OutcomeRead DEF r
  <2>. QED BY <2>1, <2>5
<1>. QED BY <1>5, <1>7, <1>8, <1>9 DEF r

-----------------------------------------------------------------------------
(***************************************************************************)
(* The inductive invariant: a datagram the program read or wrote lies at   *)
(* the front of the buffer, as it was sent, cut or with a byte inverted,   *)
(* and what was decoded is what pkt_decode makes of the whole buffer now.  *)
(***************************************************************************)
InFront(b, sent, idx, m, stamp) ==
    LET p == put_on_pkt(m, stamp)
        d == pkt_encode(p)
    IN \/ /\ sent = m /\ idx = NoByte
          /\ Laid(b, p) /\ Sealed(b, p)
       \/ /\ m.type = "data" /\ sent = [m EXCEPT !.mark = "cut"]
          /\ idx = NoByte
          /\ b[1] = <<d[1][1] + 32>>
          /\ \A i \in 2 .. 12 : b[i] = d[i]
       \/ /\ sent = [m EXCEPT !.mark = "err"]
          /\ Hit(b, d, p, idx)

Comes(b, sent, idx) ==
    \E m \in Msgs, stamp \in Stamps : InFront(b, sent, idx, m, stamp)

GotFromBuffer ==
    \E len \in FreshLengths, ptr \in {"NULL", "wild"} :
        got = Outcome(buffer, len, ptr)

BufferInv ==
    /\ program \in {"sender", "receiver"}
    /\ Filled(buffer, MaxBuffer)
    /\ last # Nothing => Comes(buffer, last, hit)
    /\ got # NotDecoded => /\ last # Nothing /\ GotFromBuffer
                           /\ program = "sender" => last.type # "data"

(* Fill lays bytes over the front and leaves the rest. *)
LEMMA FillIs ==
    ASSUME Filled(buffer, MaxBuffer), NEW n \in 0 .. MaxBuffer,
           NEW bytes, Filled(bytes, n), Fill(bytes)
    PROVE  /\ Filled(buffer', MaxBuffer)
           /\ \A i \in 1 .. n : buffer'[i] = bytes[i]
<1> DEFINE k == MaxBuffer - n
           tail == Bytes(buffer, n, k)
<1>1. n \in Nat /\ k \in Nat /\ n + k = MaxBuffer
  BY BufferSizes
<1>2. Len(bytes) = n
  BY <1>1, FilledLength
<1>3. tail = SubSeq(buffer, Len(bytes) + 1, MaxBuffer)
  BY <1>1, <1>2 DEF Bytes
<1> HIDE DEF k
<1>4. Filled(tail, k)
  BY <1>1, BytesAre
<1>5. buffer' = bytes \o tail
  BY <1>3 DEF Fill
<1> HIDE DEF tail
<1>6. Joined(bytes \o tail, bytes, n, tail, k)
  BY <1>1, <1>4, Concatenation
<1>7. Joined(buffer', bytes, n, tail, k)
  BY <1>5, <1>6
<1>. QED BY <1>1, <1>7 DEF Joined

(* What a message changes its mark to. *)
LEMMA MarkIs ==
    ASSUME NEW m \in Msgs, NEW mark
    PROVE  /\ [m EXCEPT !.mark = mark].mark = mark
           /\ [m EXCEPT !.mark = mark].type = m.type
           /\ m.type = "data" => [m EXCEPT !.mark = mark].id = m.id
           /\ [m EXCEPT !.mark = mark] # Nothing /\ m # Nothing
<1>1. /\ m.type \in {"data", "ack", "nack"}
      /\ \/ \E id \in Ids : m = DataMsg(id)
         \/ \E type \in {"ack", "nack"}, id \in Ids, win \in {0, RecvWin} :
               m = ControlMsg(type, SeqnumOf(id), win)
  BY DEF Msgs, SentBy, DataMsg, ControlMsg
<1>2. CASE \E id \in Ids : m = DataMsg(id)
  BY <1>2 DEF DataMsg, Nothing
<1>3. CASE \E type \in {"ack", "nack"}, id \in Ids, win \in {0, RecvWin} :
               m = ControlMsg(type, SeqnumOf(id), win)
  BY <1>3 DEF ControlMsg, Nothing
<1>. QED BY <1>1, <1>2, <1>3

(* A buffer with a datagram at its front is decoded as Outcome says. *)
LEMMA DecodedIs ==
    ASSUME NEW b, NEW sent, NEW idx, Comes(b, sent, idx), NEW len, NEW ptr
    PROVE  pkt_decode(b, Raw(len, ptr)) = Outcome(b, len, ptr)
<1>1. PICK m \in Msgs, stamp \in Stamps : InFront(b, sent, idx, m, stamp)
  BY DEF Comes
<1> DEFINE p == put_on_pkt(m, stamp)
           d == pkt_encode(p)
<1>2. /\ Made(p) /\ Laid(d, p) /\ Sealed(d, p)
      /\ m.type = "data" => p.type = PTYPE_DATA /\ p.window = 1
  BY MadeIs, EncodedIs
<1>3. \/ Laid(b, p) /\ Sealed(b, p)
      \/ /\ m.type = "data"
         /\ b[1] = <<d[1][1] + 32>> /\ \A i \in 2 .. 12 : b[i] = d[i]
      \/ Hit(b, d, p, idx)
  BY <1>1 DEF InFront
<1> HIDE DEF p, d
<1>4. CASE Laid(b, p) /\ Sealed(b, p)
  BY <1>2, <1>4, IntactOutcome, DecodeIs
<1>5. CASE /\ m.type = "data"
           /\ b[1] = <<d[1][1] + 32>> /\ \A i \in 2 .. 12 : b[i] = d[i]
  BY <1>2, <1>5, CutOutcome, DecodeIs
<1>6. CASE Hit(b, d, p, idx)
  BY <1>2, <1>6, HitOutcome, DecodeIs
<1>. QED BY <1>3, <1>4, <1>5, <1>6

(* So is it by every pass that decodes. *)
LEMMA DecodeBufferIs ==
    ASSUME Comes(buffer', last', hit'), DecodeBuffer
    PROVE  GotFromBuffer'
<1>1. PICK pkt \in FreshPkts : got' = pkt_decode(buffer', pkt)
  BY DEF DecodeBuffer
<1>2. PICK len \in FreshLengths, ptr \in {"NULL", "wild"} :
         pkt = Raw(len, ptr)
  BY FreshIsRaw
<1>3. got' = Outcome(buffer', len, ptr)
  BY <1>1, <1>2, DecodedIs
<1>. QED BY <1>3 DEF GotFromBuffer

(* The invariant holds at the start. *)
LEMMA BufferStarts == Init => BufferInv
<1> SUFFICES ASSUME Init PROVE BufferInv
  OBVIOUS
<1>1. buffer = [i \in 1 .. MaxBuffer |-> Unset]
  BY DEF Init
<1>2. Filled(buffer, MaxBuffer)
  BY <1>1 DEF Filled
<1>. QED BY <1>2 DEF Init, BufferInv

(* What was encoded, laid over the front of the buffer. *)
LEMMA FillIntact ==
    ASSUME Filled(buffer, MaxBuffer), NEW m \in Msgs, NEW stamp \in Stamps,
           Fill(pkt_encode(put_on_pkt(m, stamp))), last' = m, hit' = NoByte
    PROVE  Filled(buffer', MaxBuffer) /\ Comes(buffer', last', hit')
<1> DEFINE p == put_on_pkt(m, stamp)
           d == pkt_encode(p)
<1>1. /\ Made(p) /\ Laid(d, p) /\ Sealed(d, p)
      /\ Filled(d, Wire(p)) /\ Wire(p) \in 12 .. MaxBuffer
  BY MadeIs, EncodedIs
<1>2. Wire(p) \in 0 .. MaxBuffer
  BY <1>1, BufferSizes
<1>3. Fill(d)
  OBVIOUS
<1> HIDE DEF d, p
<1>4. Filled(buffer', MaxBuffer) /\ \A i \in 1 .. Wire(p) : buffer'[i] = d[i]
  BY <1>1, <1>2, <1>3, FillIs
<1>5. Laid(buffer', p) /\ Sealed(buffer', p)
  BY <1>1, <1>4, LaidOver
<1>6. InFront(buffer', last', hit', m, stamp)
  BY <1>5 DEF InFront, p
<1>. QED BY <1>4, <1>6 DEF Comes

(* And cut after its header. *)
LEMMA FillCut ==
    ASSUME Filled(buffer, MaxBuffer), NEW m \in Msgs, NEW stamp \in Stamps,
           NEW d, d = pkt_encode(put_on_pkt(m, stamp)), m.type = "data",
           Fill([Bytes(d, 0, 12) EXCEPT ![1] = <<@[1] + 32>>]),
           last' = [m EXCEPT !.mark = "cut"], hit' = NoByte
    PROVE  Filled(buffer', MaxBuffer) /\ Comes(buffer', last', hit')
<1> DEFINE h == Bytes(d, 0, 12)
           c == [h EXCEPT ![1] = <<@[1] + 32>>]
<1>1. 12 \in Nat /\ 0 \in Nat /\ 12 \in 0 .. MaxBuffer
  BY BufferSizes
<1>2. Filled(h, 12) /\ \A i \in 1 .. 12 : h[i] = d[0 + i]
  BY <1>1, BytesAre
<1> HIDE DEF h
<1>3. \A i \in 1 .. 12 : h[i] = d[i]
  BY <1>2
<1>4. DOMAIN h = 1 .. 12
  BY <1>2 DEF Filled
<1>a. h[1] = d[1] /\ \A i \in 2 .. 12 : h[i] = d[i]
  BY <1>3
<1> DEFINE x == <<h[1][1] + 32>>
<1>b. c = [h EXCEPT ![1] = x]
  OBVIOUS
<1>c. x = <<d[1][1] + 32>>
  BY <1>a
<1> HIDE DEF c, x
<1>d. c = [i \in 1 .. 12 |-> IF i = 1 THEN x ELSE h[i]]
  BY <1>b, <1>4
<1>e. /\ c = [i \in 1 .. 12 |-> c[i]]
      /\ c[1] = x /\ \A i \in 2 .. 12 : c[i] = h[i]
  BY <1>d
<1>5. /\ c = [i \in 1 .. 12 |-> c[i]]
      /\ c[1] = <<d[1][1] + 32>> /\ \A i \in 2 .. 12 : c[i] = d[i]
  BY <1>a, <1>c, <1>e
<1> USE DEF c
<1>6. Fill(c)
  BY DEF h
<1> HIDE DEF c
<1>7. Filled(buffer', MaxBuffer) /\ \A i \in 1 .. 12 : buffer'[i] = c[i]
  BY <1>1, <1>5, <1>6, FillIs DEF Filled
<1>8. buffer'[1] = <<d[1][1] + 32>> /\ \A i \in 2 .. 12 : buffer'[i] = d[i]
  BY <1>5, <1>7
<1>9. InFront(buffer', last', hit', m, stamp)
  BY <1>8 DEF InFront
<1>. QED BY <1>7, <1>9 DEF Comes

(* And with a byte inverted. *)
LEMMA FillInverted ==
    ASSUME Filled(buffer, MaxBuffer), NEW m \in Msgs, NEW stamp \in Stamps,
           NEW d, d = pkt_encode(put_on_pkt(m, stamp)),
           NEW idx \in 0 .. Len(d) - 1,
           Fill([d EXCEPT ![idx + 1] = Inverted(@)]),
           last' = [m EXCEPT !.mark = "err"], hit' = idx
    PROVE  Filled(buffer', MaxBuffer) /\ Comes(buffer', last', hit')
<1> DEFINE p == put_on_pkt(m, stamp)
           n == Wire(p)
           c == [d EXCEPT ![idx + 1] = Inverted(@)]
<1>1. /\ Made(p) /\ Laid(d, p) /\ Sealed(d, p)
      /\ Filled(d, n) /\ n \in 12 .. MaxBuffer
  BY MadeIs, EncodedIs
<1> HIDE DEF p, n
<1>2. n \in 0 .. MaxBuffer /\ n \in Nat
  BY <1>1, BufferSizes
<1>3. DOMAIN d = 1 .. n /\ Len(d) = n
  BY <1>1, <1>2, FilledLength
<1>4. idx \in 0 .. n - 1 /\ idx + 1 \in 1 .. n
  BY <1>2, <1>3
<1>5. /\ c = [i \in 1 .. n |-> c[i]]
      /\ c[idx + 1] = Inverted(d[idx + 1])
      /\ \A i \in 1 .. n : i # idx + 1 => c[i] = d[i]
  BY <1>3, <1>4
<1>6. Fill(c)
  OBVIOUS
<1> HIDE DEF c
<1>7. Filled(buffer', MaxBuffer) /\ \A i \in 1 .. n : buffer'[i] = c[i]
  BY <1>2, <1>5, <1>6, FillIs DEF Filled
<1>8. Hit(buffer', d, p, hit')
  BY <1>1, <1>4, <1>5, <1>7 DEF Hit, n
<1>9. InFront(buffer', last', hit', m, stamp)
  BY <1>8 DEF InFront, p
<1>. QED BY <1>7, <1>9 DEF Comes

(* What a program reads, the other one has sent: the sender reads answers. *)
LEMMA PeerSends ==
    ASSUME program \in {"sender", "receiver"}, NEW m \in SentBy(Peer)
    PROVE  m \in Msgs /\ (program = "sender" => m.type # "data")
<1>1. CASE program = "sender"
  <2>1. m \in SentBy("receiver")
    BY <1>1 DEF Peer
  <2>2. m.type # "data"
    BY <2>1 DEF SentBy, ControlMsg
  <2>. QED BY <2>1, <2>2 DEF Msgs
<1>2. CASE program = "receiver"
  BY <1>2 DEF Peer, Msgs
<1>. QED BY <1>1, <1>2

(* Every step keeps the invariant. *)
LEMMA BufferSteps == BufferInv /\ [Next]_vars => BufferInv'
<1> SUFFICES ASSUME BufferInv, [Next]_vars PROVE BufferInv'
  OBVIOUS
<1>1. /\ program \in {"sender", "receiver"}
      /\ Filled(buffer, MaxBuffer)
      /\ last # Nothing => Comes(buffer, last, hit)
      /\ got # NotDecoded => last # Nothing /\ GotFromBuffer
      /\ got # NotDecoded /\ program = "sender" => last.type # "data"
  BY DEF BufferInv
<1> DEFINE Fits == Filled(buffer', MaxBuffer) /\ Comes(buffer', last', hit')
           Answers == program = "sender" => last'.type # "data"
<1>2. ASSUME UNCHANGED program, Fits, last' # Nothing, DecodeBuffer, Answers
      PROVE  BufferInv'
  <2>1. GotFromBuffer'
    BY <1>2, DecodeBufferIs
  <2>. QED BY <1>1, <1>2, <2>1 DEF BufferInv
<1>3. CASE ReadIntact
  <2>1. PICK m \in SentBy(Peer), stamp \in Stamps :
           Fill(pkt_encode(put_on_pkt(m, stamp))) /\ last' = m
    BY <1>3 DEF ReadIntact
  <2>2. hit' = NoByte /\ DecodeBuffer /\ UNCHANGED program
    BY <1>3 DEF ReadIntact
  <2>3. m \in Msgs /\ (program = "sender" => m.type # "data")
    BY <1>1, PeerSends
  <2>4. Fits
    BY <1>1, <2>1, <2>2, <2>3, FillIntact
  <2>5. last' # Nothing /\ Answers
    BY <2>1, <2>3, MarkIs
  <2>. QED BY <1>2, <2>2, <2>4, <2>5
<1>4. CASE ReadCut
  <2>1. PICK m \in SentBy(Peer), stamp \in Stamps :
           /\ m.type = "data"
           /\ Fill([Bytes(pkt_encode(put_on_pkt(m, stamp)), 0, 12)
                       EXCEPT ![1] = <<@[1] + 32>>])
           /\ last' = [m EXCEPT !.mark = "cut"]
    BY <1>4 DEF ReadCut
  <2>2. hit' = NoByte /\ DecodeBuffer /\ UNCHANGED program
    BY <1>4 DEF ReadCut
  <2>3. m \in Msgs /\ (program = "sender" => m.type # "data")
    BY <1>1, PeerSends
  <2>4. Fits
    BY <1>1, <2>1, <2>2, <2>3, FillCut
  <2>5. last' # Nothing /\ Answers
    BY <2>1, <2>3, MarkIs
  <2>. QED BY <1>2, <2>2, <2>4, <2>5
<1>5. CASE ReadInverted
  <2>1. PICK m \in SentBy(Peer), stamp \in Stamps :
           /\ \E idx \in 0 .. Len(pkt_encode(put_on_pkt(m, stamp))) - 1 :
                 /\ Fill([pkt_encode(put_on_pkt(m, stamp))
                             EXCEPT ![idx + 1] = Inverted(@)])
                 /\ hit' = idx
           /\ last' = [m EXCEPT !.mark = "err"]
    BY <1>5 DEF ReadInverted
  <2>2. DecodeBuffer /\ UNCHANGED program
    BY <1>5 DEF ReadInverted
  <2>3. m \in Msgs /\ (program = "sender" => m.type # "data")
    BY <1>1, PeerSends
  <2>4. Fits
    BY <1>1, <2>1, <2>3, FillInverted
  <2>5. last' # Nothing /\ Answers
    BY <2>1, <2>3, MarkIs
  <2>. QED BY <1>2, <2>2, <2>4, <2>5
<1>6. CASE ReadFails
  <2>1. /\ program = "receiver" /\ last # Nothing /\ DecodeBuffer
        /\ UNCHANGED <<program, buffer, last, hit>>
    BY <1>6 DEF ReadFails
  <2>2. Fits
    BY <1>1, <2>1
  <2>. QED BY <1>2, <2>1, <2>2
<1>7. CASE Write
  <2>1. PICK m \in SentBy(program), stamp \in Stamps :
           Fill(pkt_encode(put_on_pkt(m, stamp))) /\ last' = m
    BY <1>7 DEF Write
  <2>2. hit' = NoByte /\ got' = NotDecoded /\ UNCHANGED program
    BY <1>7 DEF Write
  <2>3. m \in Msgs
    BY <1>1 DEF Msgs
  <2>4. Fits
    BY <1>1, <2>1, <2>2, <2>3, FillIntact
  <2>5. NotDecoded' = NotDecoded /\ Nothing' = Nothing
    BY DEF NotDecoded, Nothing
  <2>. QED BY <1>1, <2>2, <2>4, <2>5 DEF BufferInv
<1>8. CASE UNCHANGED vars
  BY <1>1, <1>8 DEF vars, BufferInv, GotFromBuffer
<1>. QED BY <1>3, <1>4, <1>5, <1>6, <1>7, <1>8 DEF Next, Done

-----------------------------------------------------------------------------
(***************************************************************************)
(* What the invariant is for.                                              *)
(***************************************************************************)

(* What pkt_decode returns, by what the link did to the datagram.          *)
LEMMA OutcomeOfSent ==
    ASSUME NEW b, NEW sent, NEW idx, Comes(b, sent, idx), NEW len, NEW ptr
    PROVE  LET r == Outcome(b, len, ptr)
           IN /\ r.status # "ub"
              /\ r.status = "PKT_OK" <=> DecodesOk(sent)
              /\ sent.mark = "cut" =>
                    /\ r.status = "E_CRC" /\ r.pkt.ptr = ptr
                    /\ Bytes(b, 8, 4)
                          = crc32(UnderCrc1TrCleared(Bytes(b, 0, 8)))
              /\ r.pkt.seqnum \in SeqnumSeen(sent)
              /\ DecodesOk(sent) => AsMade(r.pkt, sent)
              /\ sent.type # "data" /\ r.pkt.length # 0
                 => idx \in {1, 2} \/ (idx = 0 /\ sent.type = "nack")
<1>1. PICK m \in Msgs, stamp \in Stamps : InFront(b, sent, idx, m, stamp)
  BY DEF Comes
<1> DEFINE p == put_on_pkt(m, stamp)
           d == pkt_encode(p)
           r == Outcome(b, len, ptr)
<1>2. Made(p) /\ Laid(d, p) /\ Sealed(d, p)
  BY MadeIs, EncodedIs
<1>3. /\ m.type \in {"data", "ack", "nack"} /\ m.mark = "ok"
      /\ m.type = "data" => p.type = PTYPE_DATA /\ p.window = 1
      /\ m.type = "ack" => p.type = PTYPE_ACK
      /\ m.type = "nack" => p.type = PTYPE_NACK
      /\ SeqnumSeen(m) = {p.seqnum}
  BY MadeIs
<1>4. CASE sent = m /\ Laid(b, p) /\ Sealed(b, p)
  <2> HIDE DEF p
  <2>1. /\ r.status = "PKT_OK"
        /\ r.pkt.type = p.type /\ r.pkt.window = p.window
        /\ r.pkt.seqnum = p.seqnum /\ r.pkt.timestamp = p.timestamp
        /\ r.pkt.length = p.length
        /\ p.length > 0 => r.pkt.payload = p.payload
    BY <1>2, <1>4, IntactOutcome
  <2> HIDE DEF r
  <2>2. AsMade(r.pkt, m)
    BY <2>1 DEF AsMade, p
  <2>3. p.type # PTYPE_DATA => p.length = 0
    BY <1>2 DEF Made
  <2>4. m.type # "data" => r.pkt.length = 0
    BY <1>3, <2>1, <2>3 DEF PTYPE_DATA, PTYPE_ACK, PTYPE_NACK
  <2>5. DecodesOk(m) /\ r.pkt.seqnum \in SeqnumSeen(m)
    BY <1>3, <2>1 DEF DecodesOk
  <2>6. sent.mark # "cut"
    BY <1>3, <1>4
  <2>. QED BY <1>4, <2>1, <2>2, <2>4, <2>5, <2>6 DEF r
<1>5. CASE /\ m.type = "data" /\ sent = [m EXCEPT !.mark = "cut"]
           /\ b[1] = <<d[1][1] + 32>> /\ \A i \in 2 .. 12 : b[i] = d[i]
  <2>1. sent.mark = "cut" /\ sent.type = "data" /\ sent.id = m.id
    BY <1>5, MarkIs
  <2>2. ~DecodesOk(sent) /\ SeqnumSeen(sent) = SeqnumSeen(m)
    BY <1>3, <1>5, <2>1 DEF DecodesOk, SeqnumSeen
  <2> HIDE DEF p, d
  <2>3. /\ r.status = "E_CRC" /\ r.pkt.ptr = ptr
        /\ r.pkt.seqnum = p.seqnum
        /\ Bytes(b, 8, 4) = crc32(UnderCrc1TrCleared(Bytes(b, 0, 8)))
    BY <1>2, <1>3, <1>5, CutOutcome
  <2> HIDE DEF r
  <2>. QED BY <1>3, <2>1, <2>2, <2>3 DEF r
<1>6. CASE sent = [m EXCEPT !.mark = "err"] /\ Hit(b, d, p, idx)
  <2>1. sent.mark = "err" /\ sent.type = m.type
    BY <1>6, MarkIs
  <2>2. ~DecodesOk(sent) /\ SeqnumSeen(sent) = 0 .. 255
    BY <2>1, BufferSizes DEF DecodesOk, SeqnumSeen, Seqnums
  <2> HIDE DEF p, d
  <2>3. /\ r.status \in {"E_TYPE", "E_LENGTH", "E_CRC"}
        /\ r.pkt.seqnum \in 0 .. 255
        /\ p.type # PTYPE_DATA /\ r.pkt.length # 0
           => idx \in {1, 2} \/ (idx = 0 /\ p.type = PTYPE_NACK)
    BY <1>2, <1>6, HitOutcome
  <2> HIDE DEF r
  <2>4. /\ m.type # "data" => p.type # PTYPE_DATA
        /\ m.type # "data" /\ p.type = PTYPE_NACK => m.type = "nack"
    BY <1>3 DEF PTYPE_DATA, PTYPE_ACK, PTYPE_NACK
  <2>. QED BY <2>1, <2>2, <2>3, <2>4 DEF r
<1>. QED BY <1>1, <1>4, <1>5, <1>6 DEF InFront

(* The CRC in the header is that of the header with TR taken as 0. *)
CutHeaderMatches ==
    Bytes(buffer, 8, 4) = crc32(UnderCrc1TrCleared(Bytes(buffer, 0, 8)))

(* What was decoded last came from what lies at the front of the buffer. *)
LEMMA GotIs ==
    ASSUME BufferInv, got # NotDecoded
    PROVE  /\ got.status # "ub"
           /\ got.status = "PKT_OK" <=> DecodesOk(last)
           /\ last.mark = "cut" => /\ got.status = "E_CRC"
                                   /\ got.pkt.ptr # "own"
                                   /\ CutHeaderMatches
           /\ got.pkt.seqnum \in SeqnumSeen(last)
           /\ DecodesOk(last) => AsMade(got.pkt, last)
           /\ program = "sender" /\ got.pkt.length # 0
              => hit \in {1, 2} \/ (hit = 0 /\ last.type = "nack")
           /\ got.status = "PKT_OK" => got.pkt.length = 0 \/ got.pkt.ptr = "own"
           /\ [got.pkt EXCEPT !.length = 0].length = 0
<1>1. /\ Comes(buffer, last, hit) /\ GotFromBuffer
      /\ program = "sender" => last.type # "data"
  BY DEF BufferInv
<1>2. PICK len \in FreshLengths, ptr \in {"NULL", "wild"} :
         got = Outcome(buffer, len, ptr)
  BY <1>1 DEF GotFromBuffer
<1> DEFINE r == Outcome(buffer, len, ptr)
<1>3. /\ r.status # "ub"
      /\ r.status = "PKT_OK" <=> DecodesOk(last)
      /\ last.mark = "cut" =>
            /\ r.status = "E_CRC" /\ r.pkt.ptr = ptr
            /\ Bytes(buffer, 8, 4)
                  = crc32(UnderCrc1TrCleared(Bytes(buffer, 0, 8)))
      /\ r.pkt.seqnum \in SeqnumSeen(last)
      /\ DecodesOk(last) => AsMade(r.pkt, last)
      /\ last.type # "data" /\ r.pkt.length # 0
         => hit \in {1, 2} \/ (hit = 0 /\ last.type = "nack")
  BY <1>1, OutcomeOfSent
<1>4. /\ r.status = "PKT_OK" => r.pkt.length = 0 \/ r.pkt.ptr = "own"
      /\ [r.pkt EXCEPT !.length = 0].length = 0
  BY OutcomeFacts
<1>5. got = r
  BY <1>2
<1> HIDE DEF r
<1>6. ptr # "own"
  OBVIOUS
<1>. QED BY <1>1, <1>3, <1>4, <1>5, <1>6 DEF CutHeaderMatches

(***************************************************************************)
(* The buffer always holds a datagram somebody sent, with the damage the   *)
(* link did to it, whatever older bytes lie behind it.                     *)
(***************************************************************************)
THEOREM BufferInvariance == Spec => []BufferInv
<1>. QED BY BufferStarts, BufferSteps, PTL DEF Spec

(***************************************************************************)
(* pkt_decode makes of the datagrams the link has left alone what they     *)
(* were made of, refuses those with an inverted byte, and takes no payload *)
(* from one that was cut: for every size of the buffer and of a block,     *)
(* every payload, every length malloc leaves in a packet and every history *)
(* of the buffer.                                                          *)
(***************************************************************************)
THEOREM DecodesTheSent == Spec => []DecodesWhatWasSent
<1>1. BufferInv => DecodesWhatWasSent
  <2> SUFFICES ASSUME BufferInv, got # NotDecoded
               PROVE  /\ DecodesOk(last)
                         => got.status = "PKT_OK" /\ AsMade(got.pkt, last)
                      /\ last.mark = "err" => got.status # "PKT_OK"
                      /\ last.mark = "cut" => got.pkt.ptr # "own"
                      /\ got.pkt.seqnum \in SeqnumSeen(last)
    BY DEF DecodesWhatWasSent
  <2>1. last.mark = "err" => ~DecodesOk(last)
    BY DEF DecodesOk
  <2>. QED BY <2>1, GotIs
<1>. QED BY <1>1, BufferInvariance, PTL

(***************************************************************************)
(* No datagram that was cut is ever accepted, and the header of each would *)
(* have been, had pkt_decode taken TR as 0 under CRC1 the way              *)
(* packet_interface.h:48-50 says it does: a truncation is never told from  *)
(* damage.                                                                 *)
(***************************************************************************)
THEOREM CutIsRefused ==
    Spec => [](got # NotDecoded /\ last.mark = "cut"
                  => got.status = "E_CRC" /\ CutHeaderMatches)
<1>1. BufferInv => (got # NotDecoded /\ last.mark = "cut"
                       => got.status = "E_CRC" /\ CutHeaderMatches)
  BY GotIs
<1>. QED BY <1>1, BufferInvariance, PTL

(* It reads nothing past the end of the buffer, which keeps its size. *)
THEOREM BufferIsNotLeft == Spec => []StaysInBuffer
<1>1. BufferInv => StaysInBuffer
  <2> SUFFICES ASSUME BufferInv PROVE StaysInBuffer
    OBVIOUS
  <2>1. Len(buffer) = MaxBuffer
    BY BufferSizes, FilledLength DEF BufferInv
  <2>2. CASE got # NotDecoded
    BY <2>1, <2>2, GotIs DEF StaysInBuffer
  <2>3. CASE got = NotDecoded
    BY <2>1, <2>3 DEF StaysInBuffer, NotDecoded
  <2>. QED BY <2>2, <2>3
<1>. QED BY <1>1, BufferInvariance, PTL

(* The receiver sets the length of what it refuses to 0, and so never      *)
(* frees the pointer malloc left in a packet.                              *)
THEOREM ReceiverFreesOwn == Spec => []ReceiverFreesItsOwn
<1>1. BufferInv => ReceiverFreesItsOwn
  <2> SUFFICES ASSUME BufferInv, program = "receiver", got # NotDecoded
               PROVE  ~FreesWild(Deleted)
    BY DEF ReceiverFreesItsOwn
  <2>1. /\ got.status = "PKT_OK" => got.pkt.length = 0 \/ got.pkt.ptr = "own"
        /\ [got.pkt EXCEPT !.length = 0].length = 0
    BY GotIs
  <2>2. CASE got.status # "PKT_OK" \/ got.pkt.type = PTYPE_NACK
    <3>1. Deleted = [got.pkt EXCEPT !.length = 0]
      BY <2>2 DEF Deleted
    <3>2. Deleted.length = 0
      BY <2>1, <3>1
    <3>. QED BY <3>2 DEF FreesWild
  <2>3. CASE ~(got.status # "PKT_OK" \/ got.pkt.type = PTYPE_NACK)
    <3>1. Deleted = got.pkt
      BY <2>3 DEF Deleted
    <3>. QED BY <2>1, <2>3, <3>1 DEF FreesWild
  <2>. QED BY <2>2, <2>3
<1>. QED BY <1>1, BufferInvariance, PTL

(* The sender does so only once the length of an answer, or the type of a  *)
(* NACK, was damaged.                                                      *)
THEOREM SenderFreesOwn == Spec => []SenderFreesItsOwn
<1>1. BufferInv => SenderFreesItsOwn
  <2> SUFFICES ASSUME BufferInv, program = "sender", got # NotDecoded,
                      FreesWild(Deleted)
               PROVE  hit \in {1, 2} \/ (hit = 0 /\ last.type = "nack")
    BY DEF SenderFreesItsOwn
  <2>1. Deleted = got.pkt
    BY DEF Deleted
  <2>2. got.pkt.length # 0
    BY <2>1 DEF FreesWild
  <2>. QED BY <2>2, GotIs
<1>. QED BY <1>1, BufferInvariance, PTL
=============================================================================
