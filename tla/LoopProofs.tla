---------------------------- MODULE LoopProofs ------------------------------
(***************************************************************************)
(* Each program by itself: every step of the sender and of the receiver    *)
(* keeps the types of its variables; the sender's scan for leading empty   *)
(* slots stays inside its list, and the window the receiver announces      *)
(* stays the number of packets it can still take. Before that, what these  *)
(* rest on: the queues of datagrams and the helpers of the two lists.      *)
(***************************************************************************)
EXTENDS TrtpSender, TrtpReceiver, NaturalLemmas, SequenceTheorems,
        FiniteSetTheorems

-----------------------------------------------------------------------------
(***************************************************************************)
(* The network: writing to a queue, and what the link does to it, leave a  *)
(* queue of datagrams.                                                     *)
(***************************************************************************)

(* The seqnum on the wire fits its byte. *)
LEMMA SeqnumOfType ==
    ASSUME NEW id \in Nat
    PROVE  SeqnumOf(id) \in Seqnums
BY ModRange, SizesAssumption DEF SeqnumOf, Seqnums

(* write leaves a queue, and a socket with or without an error. *)
LEMMA WriteToType ==
    ASSUME NEW S, NEW q \in Seq(S), NEW err \in BOOLEAN, NEW m \in S,
           NEW up \in BOOLEAN
    PROVE  /\ WriteTo(q, err, m, up).q \in Seq(S)
           /\ WriteTo(q, err, m, up).err \in BOOLEAN
<1>1. Append(q, m) \in Seq(S)
  BY AppendProperties
<1>. QED BY <1>1, NetworkAssumption DEF WriteTo

(* So does losing a datagram. *)
LEMMA RemoveAtType ==
    ASSUME NEW S, NEW q \in Seq(S), NEW i \in DOMAIN q
    PROVE  RemoveAt(q, i) \in Seq(S)
<1>1. /\ Len(q) \in Nat /\ i \in 1 .. Len(q)
      /\ \A j \in 1 .. Len(q) : q[j] \in S
  BY LenProperties, ElementOfSeq
<1>2. SubSeq(q, 1, i - 1) \in Seq(S)
  BY <1>1, SubSeqProperties
<1>3. SubSeq(q, i + 1, Len(q)) \in Seq(S)
  BY <1>1, SubSeqProperties
<1>. QED BY <1>2, <1>3, ConcatProperties DEF RemoveAt

(* So does inverting two of them. *)
LEMMA SwappedType ==
    ASSUME NEW S, NEW q \in Seq(S), NEW i \in 1 .. Len(q) - 1
    PROVE  Swapped(q, i) \in Seq(S)
<1>1. /\ Len(q) \in Nat
      /\ i \in 1 .. Len(q) /\ i + 1 \in 1 .. Len(q)
  BY LenProperties
<1>2. q[i] \in S /\ q[i + 1] \in S
  BY <1>1, ElementOfSeq
<1> DEFINE p == [q EXCEPT ![i] = q[i + 1]]
<1>3. p \in Seq(S) /\ Len(p) = Len(q)
  BY <1>1, <1>2, ExceptSeq
<1>4. [p EXCEPT ![i + 1] = q[i]] \in Seq(S)
  <2> HIDE DEF p
  <2>. QED BY <1>1, <1>2, <1>3, ExceptSeq
<1>5. Swapped(q, i) = [p EXCEPT ![i + 1] = q[i]]
  BY DEF Swapped
<1>. QED BY <1>4, <1>5

(* So does marking one, with a mark its kind of datagram may have. *)
LEMMA MarkedDataType ==
    ASSUME NEW q \in Seq(DataMsgs), NEW i \in DOMAIN q,
           NEW mark \in {"ok", "cut", "err"}
    PROVE  [q EXCEPT ![i].mark = mark] \in Seq(DataMsgs)
<1>1. Len(q) \in Nat /\ i \in 1 .. Len(q) /\ q[i] \in DataMsgs
  BY LenProperties, ElementOfSeq
<1>2. [q[i] EXCEPT !.mark = mark] \in DataMsgs
  BY <1>1 DEF DataMsgs
<1>. QED BY <1>1, <1>2, ExceptSeq

(* An answer the link has damaged is still an answer. *)
LEMMA MarkedControlType ==
    ASSUME NEW q \in Seq(ControlMsgs), NEW i \in DOMAIN q,
           NEW mark \in {"ok", "err"}
    PROVE  [q EXCEPT ![i].mark = mark] \in Seq(ControlMsgs)
<1>1. Len(q) \in Nat /\ i \in 1 .. Len(q) /\ q[i] \in ControlMsgs
  BY LenProperties, ElementOfSeq
<1>2. [q[i] EXCEPT !.mark = mark] \in ControlMsgs
  BY <1>1 DEF ControlMsgs
<1>. QED BY <1>1, <1>2, ExceptSeq

(* What the link does leaves two queues of datagrams. *)
LEMMA LinkType ==
    ASSUME NetTypeOK, Link
    PROVE  /\ dataCh' \in Seq(DataMsgs)
           /\ ackCh' \in Seq(ControlMsgs)
           /\ faults' \in 0 .. MaxFaults
<1>1. faults' \in 0 .. MaxFaults
  BY NetworkAssumption
     DEF NetTypeOK, Link, LoseData, LoseAck, CutData, CorruptData, CorruptAck,
         SwapData, SwapAck, Fault
<1>2. CASE LoseData
  BY <1>1, <1>2, RemoveAtType DEF LoseData, NetTypeOK
<1>3. CASE LoseAck
  BY <1>1, <1>3, RemoveAtType DEF LoseAck, NetTypeOK
<1>4. CASE CutData
  BY <1>1, <1>4, MarkedDataType DEF CutData, NetTypeOK
<1>5. CASE CorruptData
  BY <1>1, <1>5, MarkedDataType DEF CorruptData, NetTypeOK
<1>6. CASE CorruptAck
  BY <1>1, <1>6, MarkedControlType DEF CorruptAck, NetTypeOK
<1>7. CASE SwapData
  BY <1>1, <1>7, SwappedType DEF SwapData, NetTypeOK
<1>8. CASE SwapAck
  BY <1>1, <1>8, SwappedType DEF SwapAck, NetTypeOK
<1>. QED BY <1>2, <1>3, <1>4, <1>5, <1>6, <1>7, <1>8 DEF Link

-----------------------------------------------------------------------------
(***************************************************************************)
(* The sender.                                                             *)
(***************************************************************************)

SenderInv == NetTypeOK /\ SenderTypeOK /\ ScanStaysInList

SenderLists == [Slots -> Nat \cup {NULL}]

(* find_buffer returns a slot of the first win, or NULL. *)
LEMMA FindBufferType ==
    ASSUME SenderTypeOK, NEW win \in 0 .. BufSize, NEW seq
    PROVE  \/ find_buffer(seq, win) = NULL
           \/ /\ find_buffer(seq, win) \in 0 .. win - 1
              /\ find_buffer(seq, win) \in Slots
              /\ listPkt[find_buffer(seq, win)] \in Nat
<1>1. Matches(seq, win) \in SUBSET Nat
  BY SizesAssumption DEF Matches
<1>2. CASE Matches(seq, win) = {}
  BY <1>2 DEF find_buffer
<1>3. CASE Matches(seq, win) # {}
  <2>1. find_buffer(seq, win) \in Matches(seq, win)
    BY <1>1, <1>3, MinOfNaturals DEF find_buffer
  <2>2. /\ find_buffer(seq, win) \in 0 .. win - 1
        /\ listPkt[find_buffer(seq, win)] # NULL
    BY <2>1 DEF Matches
  <2>. QED BY <2>2, SizesAssumption DEF SenderTypeOK, Slots
<1>. QED BY <1>2, <1>3

(* The scan for leading empty slots stops at slot RecvWin at the latest. *)
LEMMA LeadingNullsBound ==
    ASSUME NEW list \in SenderLists, list[RecvWin] # NULL
    PROVE  LeadingNulls(list) \in 0 .. RecvWin
<1> DEFINE S == {i \in Slots : list[i] # NULL}
<1>1. S \in SUBSET Nat /\ RecvWin \in S
  BY SizesAssumption DEF Slots
<1>2. Min(S) \in Nat /\ Min(S) <= RecvWin
  <2> HIDE DEF S
  <2>. QED BY <1>1, MinOfNaturals
<1>. QED BY <1>2, SizesAssumption DEF LeadingNulls

(* Shifting yields a list, and empties no slot past the window. *)
LEMMA ShiftedType ==
    ASSUME NEW list \in SenderLists, NEW s \in 0 .. RecvWin, seqnum \in Nat
    PROVE  /\ Shifted(list, s) \in SenderLists
           /\ (\A i \in RecvWin .. BufSize - 1 : list[i] # NULL)
              => \A i \in RecvWin .. BufSize - 1 : Shifted(list, s)[i] # NULL
<1>1. ASSUME NEW i \in Slots
      PROVE  \/ /\ i >= BufSize - s
                /\ Shifted(list, s)[i] \in Nat
             \/ /\ i + s \in Slots
                /\ Shifted(list, s)[i] = list[i + s]
             \/ Shifted(list, s)[i] = list[i]
  BY SizesAssumption DEF Shifted, Slots
<1>2. Shifted(list, s) \in SenderLists
  <2>1. \A i \in Slots : Shifted(list, s)[i] \in Nat \cup {NULL}
    BY <1>1 DEF SenderLists
  <2>2. Shifted(list, s) = [i \in Slots |-> Shifted(list, s)[i]]
    BY DEF Shifted
  <2>. QED BY <2>1, <2>2 DEF SenderLists
<1>3. ASSUME \A i \in RecvWin .. BufSize - 1 : list[i] # NULL,
             NEW i \in RecvWin .. BufSize - 1
      PROVE  Shifted(list, s)[i] # NULL
  <2>1. i \in Slots
    BY SizesAssumption DEF Slots
  <2>2. i + s \in Slots => i + s \in RecvWin .. BufSize - 1
    BY SizesAssumption DEF Slots
  <2>. QED BY <1>1, <1>3, <2>1, <2>2 DEF NULL
<1>. QED BY <1>2, <1>3

(* Sending a packet of the list puts a DATA packet on the queue, if any. *)
LEMMA SendPacketType ==
    ASSUME NetTypeOK, SenderTypeOK, NEW seq, SendPacket(seq)
    PROVE  /\ dataCh' \in Seq(DataMsgs)
           /\ serr' \in BOOLEAN
           /\ sstat' \in SenderStates
<1> DEFINE place == find_buffer(seq, BufSize)
           w == WriteTo(dataCh, serr, DataMsg(listPkt[place]), ReceiverUp)
<1>1. CASE place = NULL \/ ~SafeSearch(seq, BufSize)
  BY <1>1 DEF SendPacket, NetTypeOK, SenderTypeOK, SenderStates
<1>2. CASE ~(place = NULL \/ ~SafeSearch(seq, BufSize))
  <2>1. BufSize \in 0 .. BufSize
    BY SizesAssumption
  <2>2. listPkt[place] \in Nat
    BY <1>2, <2>1, FindBufferType
  <2>3. DataMsg(listPkt[place]) \in DataMsgs
    BY <2>2 DEF DataMsg, DataMsgs
  <2>4. w.q \in Seq(DataMsgs) /\ w.err \in BOOLEAN
    <3>1. ReceiverUp \in BOOLEAN
      BY DEF ReceiverUp
    <3>. QED BY <2>3, <3>1, WriteToType DEF NetTypeOK, SenderTypeOK
  <2>5. dataCh' = w.q /\ serr' = w.err /\ sstat' = sstat
    BY <1>2 DEF SendPacket
  <2>. QED BY <2>4, <2>5 DEF NetTypeOK
<1>. QED BY <1>1, <1>2

(***************************************************************************)
(* An ACK takes at most the slots of the window, so the scan it starts     *)
(* stops at slot RecvWin, and the shift brings no empty slot past it.      *)
(***************************************************************************)
LEMMA RecvAckKeeps ==
    ASSUME SenderInv, RecvAck
    PROVE  SenderTypeOK' /\ ScanStaysInList' /\ sstat' \in SenderStates
<1> DEFINE m == Head(ackCh)
           acked == AckedSeqnum(m.seq)
           place == find_buffer(acked, window)
           list == IF place = NULL THEN listPkt
                   ELSE [listPkt EXCEPT ![place] = NULL]
           s == LeadingNulls(list)
           gone == freed \cup (IF place = NULL THEN {} ELSE {listPkt[place]})
<1>1. m \in ControlMsgs
  BY HeadTailProperties DEF SenderInv, NetTypeOK, RecvAck, SenderRead
<1>2. m.seq \in Seqnums /\ m.win \in 0 .. RecvWin
  BY <1>1 DEF ControlMsgs
<1>3. \/ place = NULL
      \/ /\ place \in 0 .. window - 1
         /\ place \in Slots
         /\ listPkt[place] \in Nat
  <2>1. window \in 0 .. BufSize /\ SenderTypeOK
    BY SizesAssumption DEF SenderInv, SenderTypeOK
  <2>. QED BY <2>1, FindBufferType
<1> HIDE DEF m, acked, place
<1>4. /\ list \in SenderLists
      /\ \A i \in RecvWin .. BufSize - 1 : list[i] # NULL
  <2>0. /\ listPkt \in SenderLists
        /\ \A i \in RecvWin .. BufSize - 1 : listPkt[i] # NULL
        /\ window \in 1 .. RecvWin
    BY DEF SenderInv, SenderTypeOK, ScanStaysInList, SenderLists
  <2>1. CASE place = NULL
    BY <2>0, <2>1
  <2>2. CASE place # NULL
    <3>1. list = [listPkt EXCEPT ![place] = NULL]
      BY <2>2
    <3>2. place \in 0 .. RecvWin - 1 /\ place \in Slots
      BY <1>3, <2>0, <2>2, SizesAssumption
    <3> HIDE DEF list
    <3>3. list \in SenderLists
      BY <2>0, <3>1, <3>2 DEF SenderLists
    <3>4. \A i \in RecvWin .. BufSize - 1 : i \in Slots /\ i # place
      BY <3>2, SizesAssumption DEF Slots
    <3>5. \A i \in RecvWin .. BufSize - 1 : list[i] = listPkt[i]
      BY <2>0, <3>1, <3>4 DEF SenderLists
    <3>. QED BY <2>0, <3>3, <3>5
  <2>. QED BY <2>1, <2>2
<1> HIDE DEF list
<1>5. s \in 0 .. RecvWin
  <2>1. RecvWin \in RecvWin .. BufSize - 1
    BY SizesAssumption
  <2>. QED BY <1>4, <2>1, LeadingNullsBound
<1> HIDE DEF s
<1>6. /\ Shifted(list, s) \in SenderLists
      /\ \A i \in RecvWin .. BufSize - 1 : Shifted(list, s)[i] # NULL
  BY <1>4, <1>5, ShiftedType DEF SenderInv, SenderTypeOK
<1>7. gone \in SUBSET Nat
  BY <1>3 DEF SenderInv, SenderTypeOK
<1> HIDE DEF gone
<1>8. /\ base' = IF m.seq > lastAck \/ m.seq = 0 THEN m.seq ELSE base
      /\ listPkt' = Shifted(list, s)
      /\ freed' = gone \cap Range(listPkt')
      /\ seqnum' = seqnum + s
      /\ buffer_update' = (buffer_update \/ s > 0)
      /\ window' = IF m.win > window THEN m.win ELSE window
      /\ lastAck' = m.seq
      /\ sstat' \in {sstat, "ub"}
      /\ spc' \in {"write", "poll"}
      /\ UNCHANGED <<serr, nextseqnum, nack>>
  BY DEF RecvAck, ThenWrite, m, acked, place, list, s, gone
<1>9. SenderTypeOK'
  <2>1. listPkt' \in [Slots -> Nat \cup {NULL}]
    BY <1>6, <1>8 DEF SenderLists
  <2>2. freed' \in SUBSET Nat
    BY <1>7, <1>8
  <2>3. seqnum' \in Nat
    BY <1>5, <1>8, SizesAssumption DEF SenderInv, SenderTypeOK
  <2>4. base' \in Seqnums /\ lastAck' \in Seqnums
    BY <1>2, <1>8 DEF SenderInv, SenderTypeOK
  <2>5. window' \in 1 .. RecvWin
    BY <1>2, <1>8, SizesAssumption DEF SenderInv, SenderTypeOK
  <2>6. buffer_update' \in BOOLEAN
    BY <1>8
  <2>. QED BY <1>8, <2>1, <2>2, <2>3, <2>4, <2>5, <2>6
           DEF SenderInv, SenderTypeOK
<1>10. ScanStaysInList'
  BY <1>6, <1>8, <1>9, SizesAssumption DEF SenderTypeOK, ScanStaysInList
<1>11. sstat' \in SenderStates
  BY <1>8 DEF SenderInv, NetTypeOK, SenderStates
<1>. QED BY <1>9, <1>10, <1>11
(* Repeating the first packet puts a DATA packet on the queue. *)
LEMMA TimeoutType ==
    ASSUME NetTypeOK, SenderTypeOK, Timeout
    PROVE  /\ dataCh' \in Seq(DataMsgs)
           /\ serr' \in BOOLEAN
           /\ sstat' \in SenderStates
<1> DEFINE w == WriteTo(dataCh, serr, DataMsg(listPkt[0]), ReceiverUp)
<1>1. DataMsg(listPkt[0]) \in DataMsgs
  <2>1. 0 \in Slots
    BY SizesAssumption DEF Slots
  <2>2. listPkt[0] \in Nat
    BY <2>1 DEF Timeout, SenderTypeOK
  <2>. QED BY <2>2 DEF DataMsg, DataMsgs
<1>2. w.q \in Seq(DataMsgs) /\ w.err \in BOOLEAN
  <2>1. ReceiverUp \in BOOLEAN
    BY DEF ReceiverUp
  <2>. QED BY <1>1, <2>1, WriteToType DEF NetTypeOK, SenderTypeOK
<1>3. dataCh' = w.q /\ serr' = w.err
  BY DEF Timeout
<1>4. sstat' \in SenderStates
  BY DEF Timeout, EndPass, NetTypeOK, SenderStates
<1>. QED BY <1>2, <1>3, <1>4

(* A step of the budget of faults stays within it. *)
LEMMA FaultBound ==
    ASSUME NetTypeOK, NEW kind, Fault(kind)
    PROVE  faults' \in 0 .. MaxFaults
BY NetworkAssumption DEF NetTypeOK, Fault

(* One step per action: each keeps the sender's part of the invariant. *)
LEMMA SenderKeeps ==
    ASSUME SenderInv,
           \/ SenderStart \/ SenderStartFails
           \/ RecvAck \/ RecvNack \/ RecvCorrupted \/ SenderIdle
           \/ SenderError \/ ResendNacked \/ StartBurst \/ SendNext
           \/ EndBurst \/ NoTimeout
           \/ Timeout /\ faults' \in 0 .. MaxFaults
    PROVE  SenderInv'
<1>0. /\ NetTypeOK /\ SenderTypeOK /\ ScanStaysInList
      /\ RecvWin \in Nat /\ BufSize \in Nat /\ SeqSpace \in Nat \ {0}
  BY SizesAssumption DEF SenderInv
<1>1. ASSUME SenderRead, ThenWrite, ackCh' = Tail(ackCh),
             UNCHANGED <<dataCh, rstat>>, sstat' \in SenderStates
      PROVE  NetTypeOK' /\ spc' \in {"poll", "write"}
  <2>1. ackCh' \in Seq(ControlMsgs)
    BY <1>0, <1>1, HeadTailProperties DEF NetTypeOK, SenderRead
  <2>2. faults' \in 0 .. MaxFaults
    BY <1>0, <1>1, FaultBound DEF ThenWrite, NetTypeOK
  <2>3. spc' \in {"poll", "write"}
    BY <1>1 DEF ThenWrite
  <2>. QED BY <1>0, <1>1, <2>1, <2>2, <2>3 DEF NetTypeOK
<1>2. CASE RecvAck
  <2>1. SenderTypeOK' /\ ScanStaysInList' /\ sstat' \in SenderStates
    BY <1>2, RecvAckKeeps
  <2>2. NetTypeOK'
    BY <1>1, <1>2, <2>1 DEF RecvAck
  <2>. QED BY <2>1, <2>2 DEF SenderInv
<1>3. CASE RecvNack
  <2>1. NetTypeOK' /\ spc' \in {"poll", "write"}
    BY <1>0, <1>1, <1>3 DEF RecvNack, NetTypeOK
  <2>2. Head(ackCh).seq \in Seqnums
    <3>1. Head(ackCh) \in ControlMsgs
      BY <1>0, <1>3, HeadTailProperties DEF RecvNack, SenderRead, NetTypeOK
    <3>. QED BY <3>1 DEF ControlMsgs
  <2>3. nack' \in Seqnums \cup {NoNack, IgnoredNack}
    BY <1>3, <2>2 DEF RecvNack
  <2>. QED BY <1>0, <1>3, <2>1, <2>3
           DEF RecvNack, SenderTypeOK, ScanStaysInList, SenderInv
<1>4. CASE RecvCorrupted
  <2>1. sstat' \in SenderStates
    BY <1>0, <1>4 DEF RecvCorrupted, NetTypeOK, SenderStates
  <2>2. NetTypeOK' /\ spc' \in {"poll", "write"}
    BY <1>1, <1>4, <2>1 DEF RecvCorrupted
  <2>. QED BY <1>0, <1>4, <2>2
           DEF RecvCorrupted, SenderTypeOK, ScanStaysInList, SenderInv
<1>5. CASE SenderIdle
  BY <1>0, <1>5
     DEF SenderIdle, netVars, NetTypeOK, SenderTypeOK, ScanStaysInList,
         SenderInv
<1>6. CASE SenderError
  BY <1>0, <1>6
     DEF SenderError, netVars, NetTypeOK, SenderTypeOK, ScanStaysInList,
         SenderInv, SenderStates
<1>7. CASE ResendNacked
  <2>1. /\ dataCh' \in Seq(DataMsgs)
        /\ serr' \in BOOLEAN
        /\ sstat' \in SenderStates
    BY <1>0, <1>7, SendPacketType DEF ResendNacked
  <2>. QED BY <1>0, <1>7, <2>1
           DEF ResendNacked, NetTypeOK, SenderTypeOK, ScanStaysInList,
               SenderInv
<1>8. CASE StartBurst
  BY <1>0, <1>8
     DEF StartBurst, netVars, NetTypeOK, SenderTypeOK, ScanStaysInList,
         SenderInv
<1>9. CASE SendNext
  <2>1. /\ dataCh' \in Seq(DataMsgs)
        /\ serr' \in BOOLEAN
        /\ sstat' \in SenderStates
    BY <1>0, <1>9, SendPacketType DEF SendNext
  <2>2. nextseqnum' \in 0 .. SeqSpace + RecvWin
    BY <1>0, <1>9 DEF SendNext, RoomInWindow, SenderTypeOK, Seqnums
  <2>. QED BY <1>0, <1>9, <2>1, <2>2
           DEF SendNext, NetTypeOK, SenderTypeOK, ScanStaysInList, SenderInv
<1>10. CASE EndBurst
  <2>1. nextseqnum' \in 0 .. SeqSpace - 1
    <3>1. nextseqnum \in Int
      BY <1>0 DEF SenderTypeOK
    <3>. QED BY <1>0, <1>10, <3>1, ModRange DEF EndBurst
  <2>2. nextseqnum' \in 0 .. SeqSpace + RecvWin
    BY <1>0, <2>1
  <2>. QED BY <1>0, <1>10, <2>2
           DEF EndBurst, netVars, NetTypeOK, SenderTypeOK, ScanStaysInList,
               SenderInv
<1>11. CASE NoTimeout
  BY <1>0, <1>11
     DEF NoTimeout, EndPass, netVars, NetTypeOK, SenderTypeOK,
         ScanStaysInList, SenderInv, SenderStates
<1>12. CASE Timeout /\ faults' \in 0 .. MaxFaults
  <2>1. /\ dataCh' \in Seq(DataMsgs)
        /\ serr' \in BOOLEAN
        /\ sstat' \in SenderStates
    BY <1>0, <1>12, TimeoutType
  <2>2. /\ spc' = "poll"
        /\ UNCHANGED <<ackCh, rstat, listPkt, freed, seqnum, base,
                       nextseqnum, window, lastAck, nack, buffer_update>>
    BY <1>12 DEF Timeout, EndPass
  <2>. QED BY <1>0, <1>12, <2>1, <2>2
           DEF NetTypeOK, SenderTypeOK, ScanStaysInList, SenderInv
<1>13. CASE SenderStart
  BY <1>0, <1>13
     DEF SenderStart, netVars, sVars, NetTypeOK, SenderTypeOK,
         ScanStaysInList, SenderInv, SenderStates
<1>14. CASE SenderStartFails
  <2>1. faults' \in 0 .. MaxFaults
    BY <1>0, <1>14, FaultBound DEF SenderStartFails, NetTypeOK
  <2>. QED BY <1>0, <1>14, <2>1
           DEF SenderStartFails, sVars, NetTypeOK, SenderTypeOK,
               ScanStaysInList, SenderInv, SenderStates
<1>. QED BY <1>2, <1>3, <1>4, <1>5, <1>6, <1>7, <1>8, <1>9, <1>10, <1>11,
            <1>12, <1>13, <1>14

(* The sender starts with its part of the invariant. *)
LEMMA SenderStarts ==
    ASSUME SenderInit
    PROVE  SenderTypeOK /\ ScanStaysInList
<1>1. listPkt \in [Slots -> Nat \cup {NULL}] /\ BufSize \in Nat
  BY SizesAssumption DEF SenderInit, Slots
<1>2. \A i \in RecvWin .. BufSize - 1 : listPkt[i] # NULL
  BY SizesAssumption DEF SenderInit, Slots, NULL
<1>3. /\ base \in Seqnums /\ lastAck \in Seqnums
      /\ nextseqnum \in 0 .. SeqSpace + RecvWin /\ window \in 1 .. RecvWin
  BY SizesAssumption DEF SenderInit, Seqnums
<1>4. /\ spc \in {"poll", "write", "burst", "timer"} /\ serr \in BOOLEAN
      /\ freed \in SUBSET Nat /\ nack = NoNack /\ buffer_update \in BOOLEAN
  BY DEF SenderInit
<1>5. seqnum \in Nat
  BY <1>1 DEF SenderInit
<1>. QED BY <1>1, <1>2, <1>3, <1>4, <1>5, SizesAssumption
         DEF SenderTypeOK, ScanStaysInList

-----------------------------------------------------------------------------
(***************************************************************************)
(* The receiver's list: what its helpers return, and how the number of     *)
(* packets it points to changes when one is placed and when the first ones *)
(* are printed, freed and shifted out.                                     *)
(***************************************************************************)

Lists == [0 .. RecvWin -> SlotValues]

(* Where a walk to the first empty slot stops. *)
LEMMA FirstEmptyStops ==
    ASSUME NEW list, \E i \in 0 .. RecvWin : list[i] = Empty
    PROVE  /\ FirstEmpty(list) \in 0 .. RecvWin
           /\ list[FirstEmpty(list)] = Empty
           /\ \A i \in 0 .. FirstEmpty(list) - 1 : list[i] # Empty
<1> DEFINE S == {i \in 0 .. RecvWin : list[i] = Empty}
<1>1. S \in SUBSET Nat /\ S # {}
  BY SizesAssumption
<1>2. Min(S) \in S /\ \A k \in S : Min(S) <= k
  <2> HIDE DEF S
  <2>. QED BY <1>1, MinOfNaturals
<1>3. FirstEmpty(list) = Min(S)
  BY DEF FirstEmpty
<1> DEFINE m == Min(S)
<1>4. m \in 0 .. RecvWin /\ list[m] = Empty
  BY <1>2
<1>5. ASSUME NEW i \in 0 .. m - 1, list[i] = Empty PROVE FALSE
  <2> HIDE DEF m
  <2>1. i \in S /\ ~ (m <= i)
    BY <1>4, <1>5, SizesAssumption
  <2>. QED BY <1>2, <2>1 DEF m
<1>. QED BY <1>3, <1>4, <1>5

(* Where a walk to the first packet without payload stops. *)
LEMMA FirstBlankStops ==
    ASSUME NEW list, list[RecvWin] \in {Empty, Junk}
    PROVE  FirstBlank(list) \in 0 .. RecvWin
<1> DEFINE S == {i \in 0 .. RecvWin : list[i].id = NoPayload}
<1>1. RecvWin \in S
  BY SizesAssumption DEF Empty, Junk, Item
<1>2. S \in SUBSET Nat /\ S # {}
  BY <1>1, SizesAssumption
<1>3. Min(S) \in S
  <2> HIDE DEF S
  <2>. QED BY <1>2, MinOfNaturals
<1>. QED BY <1>3 DEF FirstBlank

(* A list points to no more packets than it has slots. *)
LEMMA PointedBound ==
    ASSUME NEW list
    PROVE  /\ IsFiniteSet(Pointed(list))
           /\ Cardinality(Pointed(list)) \in 0 .. RecvWin
<1>1. /\ IsFiniteSet(Window)
      /\ Cardinality(Window) = RecvWin
  BY FS_Interval, SizesAssumption DEF Window
<1> DEFINE H == {i \in Window : list[i].ptr \in Ptrs}
           f == [i \in H |-> list[i].ptr]
<1>2. /\ IsFiniteSet(H)
      /\ Cardinality(H) <= RecvWin
  <2>1. H \in SUBSET Window
    OBVIOUS
  <2> HIDE DEF H
  <2>. QED BY <1>1, <2>1, FS_Subset
<1>3. f \in Surjection(H, Pointed(list))
  BY DEF Surjection, Pointed
<1>4. /\ IsFiniteSet(Pointed(list))
      /\ Cardinality(Pointed(list)) <= Cardinality(H)
  <2> HIDE DEF f, H
  <2>. QED BY <1>2, <1>3, FS_Surjection
<1>5. Cardinality(Pointed(list)) \in Nat /\ Cardinality(H) \in Nat
  <2> HIDE DEF H
  <2>. QED BY <1>2, <1>4, FS_CardinalityType
<1>. QED BY <1>2, <1>4, <1>5, SizesAssumption

(* malloc never runs out of places: one more than there are slots. *)
LEMMA NewPtrIsNew ==
    NewPtr \in Ptrs \ Pointed(listPkt_r)
<1>1. /\ IsFiniteSet(Ptrs)
      /\ Cardinality(Ptrs) = RecvWin + 1
  BY FS_Interval, SizesAssumption DEF Ptrs
<1>2. Pointed(listPkt_r) # Ptrs
  BY <1>1, PointedBound, SizesAssumption
<1>3. \E p \in Ptrs : \A i \in Window : listPkt_r[i].ptr # p
  BY <1>2 DEF Pointed
<1>. QED BY <1>3 DEF NewPtr, Pointed

(* Placing a new packet in an empty slot adds one to the packets held. *)
LEMMA PlaceAddsOne ==
    ASSUME NEW list \in Lists, NEW slot \in Window, list[slot] = Empty,
           NEW p \in Ptrs \ Pointed(list), NEW id
    PROVE  Cardinality(Pointed([list EXCEPT ![slot] = Item(p, id)]))
              = Cardinality(Pointed(list)) + 1
<1> DEFINE new == [list EXCEPT ![slot] = Item(p, id)]
<1>1. /\ slot \in 0 .. RecvWin /\ Window \subseteq 0 .. RecvWin
      /\ new[slot] = Item(p, id)
      /\ \A i \in Window : i # slot => new[i] = list[i]
  BY SizesAssumption DEF Window, Lists
<1> HIDE DEF new
<1>2. Item(p, id).ptr = p /\ Empty.ptr \notin Ptrs
  BY DEF Item, Empty, Ptrs
<1>3. Pointed(new) = Pointed(list) \cup {p}
  BY <1>1, <1>2 DEF Pointed
<1>4. IsFiniteSet(Pointed(list))
  BY PointedBound
<1>. QED BY <1>3, <1>4, FS_AddElement DEF new

(***************************************************************************)
(* Printing and shifting out the first n packets of a list that is safe to *)
(* walk and to list afterwards takes exactly n from the packets held.      *)
(***************************************************************************)
LEMMA ClearTakesN ==
    ASSUME NEW list \in Lists, \E i \in 0 .. RecvWin : list[i] = Empty,
           NEW n, n = FirstEmpty(list),
           SafeWalk(list, n), SafeListing(list, n)
    PROVE  Cardinality(Pointed(Cleared(list, n)))
              = Cardinality(Pointed(list)) - n
<1>1. /\ n \in 0 .. RecvWin /\ list[n] = Empty
      /\ \A i \in 0 .. n - 1 : list[i] # Empty
  BY FirstEmptyStops
<1>0. /\ RecvWin \in Nat /\ n \in Nat /\ n <= RecvWin
      /\ 0 .. n - 1 \subseteq Window /\ 0 .. n - 1 \subseteq 0 .. n
      /\ Window \subseteq 0 .. RecvWin
  BY <1>1, SizesAssumption DEF Window
<1> DEFINE f == [i \in 0 .. n - 1 |-> list[i].ptr]
           Freed == {list[i].ptr : i \in 0 .. n - 1}
<1>2. \A i \in 0 .. n - 1 : list[i].ptr \in Ptrs
  <2>1. ASSUME NEW i \in 0 .. n - 1 PROVE list[i].ptr \in Ptrs
    <3>1. list[i] \in SlotValues /\ list[i] # Empty /\ list[i] # Junk
      BY <1>0, <1>1 DEF Lists, SafeWalk
    <3>. QED BY <3>1 DEF SlotValues
  <2>. QED BY <2>1
<1>3. ASSUME NEW i \in 0 .. n - 1, NEW j \in 0 .. n - 1,
             list[i].ptr = list[j].ptr
      PROVE  i = j
  <2>1. \A a \in 0 .. n, b \in 0 .. n : b < a => list[b].ptr # list[a].ptr
    <3>1. \A a \in 0 .. n, b \in 0 .. n : b < a => b \in 0 .. a - 1
      BY <1>0
    <3>. QED BY <3>1 DEF SafeWalk
  <2>. QED BY <1>0, <1>3, <2>1
<1>4. /\ IsFiniteSet(Freed)
      /\ Cardinality(Freed) = n
  <2>1. f \in Bijection(0 .. n - 1, Freed)
    <3>1. f \in [0 .. n - 1 -> Freed]
      OBVIOUS
    <3>2. \A i \in 0 .. n - 1, j \in 0 .. n - 1 : f[i] = f[j] => i = j
      BY <1>3
    <3>3. \A p \in Freed : \E i \in 0 .. n - 1 : f[i] = p
      OBVIOUS
    <3> HIDE DEF f, Freed
    <3>4. f \in Injection(0 .. n - 1, Freed)
      BY <3>1, <3>2 DEF Injection, IsInjective
    <3>5. f \in Surjection(0 .. n - 1, Freed)
      BY <3>1, <3>3 DEF Surjection
    <3>. QED BY <3>4, <3>5 DEF Bijection
  <2>2. IsFiniteSet(0 .. n - 1) /\ Cardinality(0 .. n - 1) = n
    <3> DEFINE m == n - 1
    <3>1. m \in Int /\ m - 0 + 1 = n /\ (0 > m => n = 0)
      BY <1>0
    <3> HIDE DEF m
    <3>2. IsFiniteSet(0 .. m) /\ Cardinality(0 .. m) = n
      BY <3>1, FS_Interval
    <3>. QED BY <3>2 DEF m
  <2>3. ExistsBijection(0 .. n - 1, Freed)
    BY <2>1 DEF ExistsBijection
  <2> HIDE DEF Freed
  <2>. QED BY <2>2, <2>3, FS_Bijection
<1>5. Freed \subseteq Pointed(list)
  BY <1>0, <1>2 DEF Pointed
<1>6. Pointed(Cleared(list, n)) = Pointed(list) \ Freed
  <2>1. ASSUME NEW p \in Pointed(Cleared(list, n))
        PROVE  p \in Pointed(list) \ Freed
    <3>1. PICK i \in Window : Cleared(list, n)[i].ptr = p
      BY DEF Pointed
    <3>2. p \in Ptrs
      BY DEF Pointed
    <3>3. p \notin Freed
      BY <3>1 DEF SafeListing
    <3>4. i # RecvWin /\ i \in 0 .. RecvWin
      BY <1>0 DEF Window
    <3>5. CASE i + n < RecvWin
      <4>1. Cleared(list, n)[i] = list[i + n]
        BY <3>4, <3>5 DEF Cleared
      <4>2. i + n \in Window
        BY <3>5, <1>0 DEF Window
      <4>. QED BY <3>1, <3>2, <3>3, <4>1, <4>2 DEF Pointed
    <3>6. CASE ~ (i + n < RecvWin) /\ i < n
      <4>1. Cleared(list, n)[i] = Empty
        BY <3>4, <3>6 DEF Cleared
      <4>. QED BY <3>1, <3>2, <4>1 DEF Empty, Item, Ptrs
    <3>7. CASE ~ (i + n < RecvWin) /\ ~ (i < n)
      <4>1. Cleared(list, n)[i] = list[i]
        BY <3>4, <3>7 DEF Cleared
      <4>. QED BY <3>1, <3>2, <3>3, <4>1 DEF Pointed
    <3>. QED BY <3>5, <3>6, <3>7
  <2>2. ASSUME NEW p \in Pointed(list) \ Freed
        PROVE  p \in Pointed(Cleared(list, n))
    <3>1. PICK j \in Window : list[j].ptr = p
      BY DEF Pointed
    <3>2. j \notin 0 .. n - 1
      BY <3>1
    <3>3. /\ j - n \in Window /\ j - n \in 0 .. RecvWin
          /\ j - n # RecvWin /\ (j - n) + n < RecvWin /\ (j - n) + n = j
      BY <3>2, <1>0 DEF Window
    <3>4. Cleared(list, n)[j - n] = list[(j - n) + n]
      BY <3>3 DEF Cleared
    <3>. QED BY <3>1, <3>3, <3>4 DEF Pointed
  <2>. QED BY <2>1, <2>2
<1>7. IsFiniteSet(Pointed(list))
  BY PointedBound
<1>8. Pointed(list) \cap Freed = Freed
  BY <1>5
<1>9. Cardinality(Pointed(list) \ Freed)
         = Cardinality(Pointed(list)) - Cardinality(Pointed(list) \cap Freed)
  <2> HIDE DEF Freed
  <2>. QED BY <1>7, FS_Difference
<1> HIDE DEF Freed, f
<1>. QED BY <1>4, <1>6, <1>8, <1>9

(* The shifted list is a list, and its last word is what it was. *)
LEMMA ClearedType ==
    ASSUME NEW list \in Lists, NEW n \in 0 .. RecvWin
    PROVE  /\ Cleared(list, n) \in Lists
           /\ Cleared(list, n)[RecvWin] = list[RecvWin]
<1>1. ASSUME NEW i \in 0 .. RecvWin
      PROVE  Cleared(list, n)[i] \in {list[i], Empty}
                \cup {list[j] : j \in 0 .. RecvWin}
  <2>1. i + n < RecvWin => i + n \in 0 .. RecvWin
    BY SizesAssumption
  <2>. QED BY <2>1 DEF Cleared
<1>2. Empty \in SlotValues
  BY DEF SlotValues
<1>3. \A i \in 0 .. RecvWin : Cleared(list, n)[i] \in SlotValues
  BY <1>1, <1>2 DEF Lists
<1>4. Cleared(list, n) = [i \in 0 .. RecvWin |-> Cleared(list, n)[i]]
  BY DEF Cleared
<1>5. RecvWin \in 0 .. RecvWin
  BY SizesAssumption
<1>. QED BY <1>3, <1>4, <1>5 DEF Lists, Cleared
(* Appending adds one to the elements of a sequence. *)
LEMMA RangeOfAppend ==
    ASSUME NEW s \in Seq(Nat), NEW e \in Nat
    PROVE  Range(Append(s, e)) = Range(s) \cup {e}
<1>1. /\ Len(s) \in Nat /\ DOMAIN s = 1 .. Len(s)
      /\ DOMAIN Append(s, e) = 1 .. Len(s) + 1
      /\ \A i \in 1 .. Len(s) : Append(s, e)[i] = s[i]
      /\ Append(s, e)[Len(s) + 1] = e
  OBVIOUS
<1>2. 1 .. Len(s) + 1 = (1 .. Len(s)) \cup {Len(s) + 1}
  BY <1>1
<1>. QED BY <1>1, <1>2 DEF Range

(* Joining two joins their elements. *)
LEMMA RangeOfJoin ==
    ASSUME NEW s \in Seq(Nat), NEW t \in Seq(Nat)
    PROVE  Range(s \o t) = Range(s) \cup Range(t)
<1> DEFINE u == s \o t
<1>1. /\ Len(s) \in Nat /\ DOMAIN s = 1 .. Len(s)
      /\ Len(t) \in Nat /\ DOMAIN t = 1 .. Len(t)
      /\ DOMAIN u = 1 .. Len(s) + Len(t)
      /\ \A i \in 1 .. Len(s) + Len(t) :
            u[i] = IF i <= Len(s) THEN s[i] ELSE t[i - Len(s)]
  OBVIOUS
<1> HIDE DEF u
<1>2. Range(s) \subseteq Range(u)
  <2>1. \A i \in 1 .. Len(s) :
           i \in 1 .. Len(s) + Len(t) /\ u[i] = s[i]
    BY <1>1
  <2>. QED BY <1>1, <2>1 DEF Range
<1>3. Range(t) \subseteq Range(u)
  <2>1. \A i \in 1 .. Len(t) :
           /\ i + Len(s) \in 1 .. Len(s) + Len(t)
           /\ u[i + Len(s)] = t[i]
    BY <1>1
  <2>. QED BY <1>1, <2>1 DEF Range
<1>4. Range(u) \subseteq Range(s) \cup Range(t)
  <2>1. \A i \in 1 .. Len(s) + Len(t) :
           i \in 1 .. Len(s) \/ i - Len(s) \in 1 .. Len(t)
    BY <1>1
  <2>. QED BY <1>1, <2>1 DEF Range
<1>. QED BY <1>2, <1>3, <1>4 DEF u

(***************************************************************************)
(* The recursive function in Payloads exists, by induction on its domain;  *)
(* Payloads is its value at n.                                             *)
(***************************************************************************)
LEMMA PayloadsBuilt ==
    ASSUME NEW list \in Lists, NEW n \in 0 .. RecvWin
    PROVE  \E f \in [0 .. n -> Seq(Nat)] :
              /\ Payloads(list, n) = f[n]
              /\ f[0] = <<>>
              /\ \A k \in 0 .. n - 1 :
                    /\ list[k].id \in Nat \cup {NoPayload}
                    /\ f[k + 1] = IF list[k].id = NoPayload THEN f[k]
                                  ELSE Append(f[k], list[k].id)
<1> DEFINE Step(f, i) == IF i = 0 THEN <<>>
                         ELSE IF list[i - 1].id = NoPayload THEN f[i - 1]
                         ELSE Append(f[i - 1], list[i - 1].id)
           Good(k, f) == /\ f \in [0 .. k -> Seq(Nat)]
                         /\ \A i \in 0 .. k : f[i] = Step(f, i)
           Bad == {k \in 0 .. n : ~ \E f : Good(k, f)}
           h == CHOOSE f : f = [i \in 0 .. n |-> Step(f, i)]
           Wrong == {k \in 0 .. n : h[k] \notin Seq(Nat)}
<1>0. n \in Nat /\ n <= RecvWin
  BY SizesAssumption
<1>id. ASSUME NEW k \in Nat, k + 1 \in 0 .. n
       PROVE  list[k].id \in Nat \cup {NoPayload}
  <2>1. k \in 0 .. RecvWin
    BY <1>id, <1>0, SizesAssumption
  <2>. QED BY <2>1 DEF Lists, SlotValues, Empty, Junk, Item
<1>1. 0 \notin Bad
  <2>1. Good(0, [i \in 0 .. 0 |-> <<>>])
    OBVIOUS
  <2>. QED BY <2>1
<1>2. ASSUME NEW k \in Nat, k + 1 \in 0 .. n, NEW f, Good(k, f)
      PROVE  \E g : Good(k + 1, g)
  <2> DEFINE g == [i \in 0 .. k + 1 |->
                      IF i = k + 1 THEN Step(f, k + 1) ELSE f[i]]
  <2>1. list[k].id \in Nat \cup {NoPayload}
    BY <1>2, <1>id
  <2>2. Step(f, k + 1) \in Seq(Nat)
    BY <1>2, <2>1
  <2>3. g \in [0 .. k + 1 -> Seq(Nat)]
    BY <2>2, <1>2
  <2>4. ASSUME NEW i \in 0 .. k + 1 PROVE g[i] = Step(g, i)
    <3>1. i # 0 => g[i - 1] = f[i - 1]
      OBVIOUS
    <3>2. Step(g, i) = Step(f, i)
      BY <3>1
    <3>3. i # k + 1 => i \in 0 .. k
      OBVIOUS
    <3>. QED BY <3>2, <3>3, <1>2
  <2>. QED BY <2>3, <2>4
<1>3. \A k \in Nat : k + 1 \in Bad => k \in Bad
  <2> HIDE DEF Good
  <2>. QED BY <1>2, <1>0
<1>4. Bad \in SUBSET Nat
  BY <1>0
<1>5. PICK f : Good(n, f)
  <2> HIDE DEF Good
  <2>1. Bad = {}
    <3> HIDE DEF Bad
    <3>. QED BY <1>1, <1>3, <1>4, NoCounterexample
  <2>2. n \in 0 .. n
    BY <1>0
  <2>3. n \notin Bad
    <3> HIDE DEF Bad
    <3>. QED BY <2>1
  <2>. QED BY <2>2, <2>3
<1>6. h = [i \in 0 .. n |-> Step(h, i)]
  <2>1. f = [i \in 0 .. n |-> Step(f, i)]
    BY <1>5
  <2>. QED BY <2>1
<1>7. Payloads(list, n) = h[n]
  BY DEF Payloads
<1> HIDE DEF h
<1>8. 0 \notin Wrong
  <2>1. h[0] = <<>>
    BY <1>6, <1>0
  <2>2. h[0] \in Seq(Nat)
    BY <2>1
  <2>. QED BY <2>2
<1>9. ASSUME NEW k \in Nat, k + 1 \in 0 .. n, h[k] \in Seq(Nat)
      PROVE  h[k + 1] \in Seq(Nat)
  <2>1. list[k].id \in Nat \cup {NoPayload}
    BY <1>9, <1>id
  <2>2. h[k + 1] = Step(h, k + 1)
    BY <1>6, <1>9
  <2>. QED BY <2>1, <2>2, <1>9
<1>10. Wrong = {}
  <2>1. \A k \in Nat : k + 1 \in Wrong => k \in Wrong
    BY <1>9, <1>0
  <2>2. Wrong \in SUBSET Nat
    BY <1>0
  <2> HIDE DEF Wrong
  <2>. QED BY <1>8, <2>1, <2>2, NoCounterexample
<1>11. h \in [0 .. n -> Seq(Nat)]
  BY <1>6, <1>10
<1>12. ASSUME NEW k \in 0 .. n - 1
       PROVE  /\ list[k].id \in Nat \cup {NoPayload}
              /\ h[k + 1] = IF list[k].id = NoPayload THEN h[k]
                            ELSE Append(h[k], list[k].id)
  <2>1. k \in Nat /\ k + 1 \in 0 .. n /\ (k + 1) - 1 = k /\ k + 1 # 0
    BY <1>0
  <2>2. h[k + 1] = Step(h, k + 1)
    BY <1>6, <2>1
  <2>. QED BY <1>id, <2>1, <2>2
<1>13. h[0] = <<>>
  BY <1>6, <1>0
<1>. QED BY <1>7, <1>11, <1>12, <1>13

(* So what Payloads returns is a sequence of block numbers. *)
LEMMA PayloadsType ==
    ASSUME NEW list \in Lists, NEW n \in 0 .. RecvWin
    PROVE  Payloads(list, n) \in Seq(Nat)
<1>1. n \in 0 .. n
  BY SizesAssumption
<1>2. PICK f \in [0 .. n -> Seq(Nat)] : Payloads(list, n) = f[n]
  BY PayloadsBuilt
<1>. QED BY <1>1, <1>2

(* Those the first n slots hold, all of them and no other. *)
LEMMA PayloadsRange ==
    ASSUME NEW list \in Lists, NEW n \in 0 .. RecvWin
    PROVE  Range(Payloads(list, n))
              = {list[k].id : k \in 0 .. n - 1} \ {NoPayload}
<1>0. n \in Nat
  BY SizesAssumption
<1>1. PICK f \in [0 .. n -> Seq(Nat)] :
         /\ Payloads(list, n) = f[n]
         /\ f[0] = <<>>
         /\ \A j \in 0 .. n - 1 :
               /\ list[j].id \in Nat \cup {NoPayload}
               /\ f[j + 1] = IF list[j].id = NoPayload THEN f[j]
                             ELSE Append(f[j], list[j].id)
  BY PayloadsBuilt
<1> DEFINE Ids(j) == {list[k].id : k \in 0 .. j - 1} \ {NoPayload}
           Bad == {j \in 0 .. n : Range(f[j]) # Ids(j)}
<1>2. 0 \notin Bad
  <2>1. Range(f[0]) = {}
    BY <1>1 DEF Range
  <2>2. Ids(0) = {}
    OBVIOUS
  <2>. QED BY <2>1, <2>2
<1>3. ASSUME NEW j \in Nat, j + 1 \in Bad PROVE j \in Bad
  <2>1. j \in 0 .. n - 1 /\ j \in 0 .. n
    BY <1>0, <1>3
  <2>2. /\ list[j].id \in Nat \cup {NoPayload} /\ f[j] \in Seq(Nat)
        /\ f[j + 1] = IF list[j].id = NoPayload THEN f[j]
                      ELSE Append(f[j], list[j].id)
    BY <1>1, <2>1
  <2>3. Ids(j + 1) = Ids(j) \cup ({list[j].id} \ {NoPayload})
    <3>1. 0 .. (j + 1) - 1 = (0 .. j - 1) \cup {j}
      OBVIOUS
    <3>. QED BY <3>1
  <2>4. Range(f[j + 1]) = Range(f[j]) \cup ({list[j].id} \ {NoPayload})
    <3>1. CASE list[j].id = NoPayload
      BY <2>2, <3>1
    <3>2. CASE list[j].id # NoPayload
      <4>1. PICK id \in Nat : id = list[j].id
        BY <2>2, <3>2
      <4>2. f[j + 1] = Append(f[j], id)
        BY <2>2, <3>2, <4>1
      <4>3. Range(Append(f[j], id)) = Range(f[j]) \cup {id}
        BY <2>2, RangeOfAppend
      <4>. QED BY <3>2, <4>1, <4>2, <4>3
    <3>. QED BY <3>1, <3>2
  <2>5. Range(f[j + 1]) # Ids(j + 1)
    BY <1>3
  <2> HIDE DEF Ids
  <2>. QED BY <2>1, <2>3, <2>4, <2>5
<1>4. Bad = {}
  <2>1. Bad \in SUBSET Nat
    OBVIOUS
  <2> HIDE DEF Bad
  <2>. QED BY <1>2, <1>3, <2>1, NoCounterexample
<1>5. n \in 0 .. n
  BY <1>0
<1>. QED BY <1>1, <1>4, <1>5

-----------------------------------------------------------------------------
(***************************************************************************)
(* The receiver.                                                           *)
(***************************************************************************)

(* A read that fails finds an earlier datagram in buffer. *)
BufferIsFilled == rerr => buffer \in DataMsgs \cup ControlMsgs

(* Nothing is ever stored in the word that follows the list. *)
LastWordKept == listPkt_r[RecvWin] \in {Empty, Junk}

ReceiverInv ==
    NetTypeOK /\ ReceiverTypeOK /\ BufferIsFilled /\ LastWordKept
    /\ WindowIsHonest

(* What handling a datagram may change of the receiver. *)
HandledOK ==
    /\ rstat' \in ReceiverStates
    /\ listPkt_r' \in Lists
    /\ LastWordKept'
    /\ base_r' \in Window
    /\ free_place' \in 0 .. RecvWin
    /\ partial_ack' \in Seqnums \cup {NoSeqnum}
    /\ nack_r' \in Seqnums \cup {NoSeqnum}
    /\ out' \in Seq(Nat)
    /\ WindowIsHonest'

(* Refusing a datagram keeps the invariant. *)
LEMMA RefuseKeeps ==
    ASSUME ReceiverInv, NEW m, Refuse(m)
    PROVE  HandledOK
<1>1. nack_r' \in Seqnums \cup {NoSeqnum}
  BY SizesAssumption DEF Refuse, ReceiverInv, ReceiverTypeOK, Seqnums
<1>. QED BY <1>1
         DEF Refuse, ReceiverInv, NetTypeOK, ReceiverTypeOK, LastWordKept,
             HandledOK, WindowIsHonest, Lists

(* So does reading the end of the file. *)
LEMMA CloseKeeps ==
    ASSUME ReceiverInv, NEW m, Close(m)
    PROVE  HandledOK
<1>1. Payloads(listPkt_r, FirstBlank(listPkt_r)) \in Seq(Nat)
  <2>1. listPkt_r \in Lists /\ listPkt_r[RecvWin] \in {Empty, Junk}
    BY DEF ReceiverInv, ReceiverTypeOK, LastWordKept, Lists
  <2>. QED BY <2>1, FirstBlankStops, PayloadsType
<1>2. out' \in Seq(Nat)
  BY <1>1, ConcatProperties DEF Close, ReceiverInv, ReceiverTypeOK
<1>3. rstat' \in ReceiverStates
  BY DEF Close, ReceiverStates
<1>. QED BY <1>2, <1>3
         DEF Close, ReceiverInv, ReceiverTypeOK, LastWordKept, HandledOK,
             WindowIsHonest, Lists

(* A packet placed in an empty slot takes one from the window. *)
LEMMA PlaceKeeps ==
    ASSUME ReceiverInv, NEW m \in DataMsgs \cup ControlMsgs, Place(m)
    PROVE  HandledOK
<1> DEFINE seq == IF m.type = "data" THEN SeqnumOf(m.id) ELSE m.seq
           id == IF m.type = "data" THEN m.id ELSE NoPayload
           b == IF seq = 0 THEN 0 ELSE base_r
           slot == SlotOf(seq, b)
<1>1. seq \in Seqnums /\ id \in Nat \cup {NoPayload}
  <2>1. CASE m \in DataMsgs
    BY <2>1, SeqnumOfType DEF DataMsgs
  <2>2. CASE m \in ControlMsgs
    BY <2>2 DEF ControlMsgs
  <2>. QED BY <2>1, <2>2
<1> HIDE DEF seq, id
<1>2. b \in Window
  BY SizesAssumption DEF Window, ReceiverInv, ReceiverTypeOK
<1> HIDE DEF b
<1>3. slot \in Window
  <2>1. seq - b \in Int /\ RecvWin \in Nat \ {0}
    BY <1>1, <1>2, SizesAssumption DEF Window, Seqnums
  <2>. QED BY <2>1, ModRange DEF Window, SlotOf
<1> HIDE DEF slot
<1>4. /\ base_r' = b
      /\ UNCHANGED <<nack_r, out>>
      /\ \/ /\ rstat' \in {rstat, "ub"}
            /\ UNCHANGED <<listPkt_r, free_place, partial_ack>>
         \/ /\ listPkt_r[slot] = Empty
            /\ listPkt_r' = [listPkt_r EXCEPT ![slot] = Item(NewPtr, id)]
            /\ free_place' = free_place - 1
            /\ partial_ack' = AckFor(seq)
            /\ UNCHANGED rstat
  BY DEF Place, seq, id, b, slot
<1>5. CASE /\ rstat' \in {rstat, "ub"}
           /\ UNCHANGED <<listPkt_r, free_place, partial_ack>>
  BY <1>2, <1>4, <1>5
     DEF ReceiverInv, NetTypeOK, ReceiverStates, ReceiverTypeOK, LastWordKept,
         HandledOK, WindowIsHonest, Lists
<1>6. CASE /\ listPkt_r[slot] = Empty
           /\ listPkt_r' = [listPkt_r EXCEPT ![slot] = Item(NewPtr, id)]
           /\ free_place' = free_place - 1
           /\ partial_ack' = AckFor(seq)
           /\ UNCHANGED rstat
  <2>0. listPkt_r \in Lists /\ slot \in 0 .. RecvWin /\ slot # RecvWin
    BY <1>3, SizesAssumption
       DEF ReceiverInv, ReceiverTypeOK, Lists, Window
  <2>1. NewPtr \in Ptrs \ Pointed(listPkt_r)
    BY NewPtrIsNew
  <2>2. Cardinality(Pointed(listPkt_r')) = Cardinality(Pointed(listPkt_r)) + 1
    <3>1. \A p \in Ptrs \ Pointed(listPkt_r) :
             Cardinality(Pointed([listPkt_r EXCEPT ![slot] = Item(p, id)]))
                = Cardinality(Pointed(listPkt_r)) + 1
      BY <1>3, <1>6, <2>0, PlaceAddsOne
    <3>. QED BY <1>6, <2>1, <3>1
  <2>3. /\ Cardinality(Pointed(listPkt_r)) \in 0 .. RecvWin
        /\ Cardinality(Pointed(listPkt_r')) \in 0 .. RecvWin
    BY PointedBound
  <2>4. free_place = RecvWin - Cardinality(Pointed(listPkt_r))
    BY DEF ReceiverInv, WindowIsHonest
  <2>5. /\ free_place' = RecvWin - Cardinality(Pointed(listPkt_r'))
        /\ free_place' \in 0 .. RecvWin
    BY <1>6, <2>2, <2>3, <2>4, SizesAssumption
  <2>6. Item(NewPtr, id) \in SlotValues
    <3>1. NewPtr \in Ptrs
      BY <2>1
    <3>2. \A p \in Ptrs : Item(p, id) \in SlotValues
      BY <1>1 DEF Item, SlotValues
    <3>. QED BY <3>1, <3>2
  <2>7. /\ listPkt_r' \in Lists
        /\ listPkt_r'[RecvWin] = listPkt_r[RecvWin]
    BY <1>6, <2>0, <2>6, SizesAssumption DEF Lists
  <2>8. partial_ack' \in Seqnums
    <3>1. seq + 1 \in Int /\ SeqSpace \in Nat \ {0}
      BY <1>1, SizesAssumption DEF Seqnums
    <3>. QED BY <1>6, <3>1, ModRange DEF AckFor, Seqnums
  <2>. QED BY <1>2, <1>4, <1>6, <2>5, <2>7, <2>8
           DEF ReceiverInv, NetTypeOK, ReceiverTypeOK, LastWordKept,
               HandledOK, WindowIsHonest
<1>. QED BY <1>4, <1>5, <1>6

(* So does whatever becomes of a datagram that was read. *)
LEMMA HandleKeeps ==
    ASSUME ReceiverInv, NEW m \in DataMsgs \cup ControlMsgs, Handle(m)
    PROVE  HandledOK
BY RefuseKeeps, CloseKeeps, PlaceKeeps DEF Handle

(***************************************************************************)
(* An answer announces free_place and the packets it is about to print:    *)
(* no more than the window has slots, for the packets left in the list are *)
(* exactly those not printed.                                              *)
(***************************************************************************)
LEMMA AnswerKeeps ==
    ASSUME ReceiverInv, Answer
    PROVE  ReceiverInv'
<1> DEFINE n == FirstEmpty(listPkt_r)
           nackMsg == ControlMsg("nack", nack_r, free_place)
           w1 == IF nack_r = NoSeqnum THEN [q |-> ackCh, err |-> rerr]
                 ELSE WriteTo(ackCh, rerr, nackMsg, SenderUp)
           ackMsg == ControlMsg("ack", partial_ack, free_place + n)
           w2 == WriteTo(w1.q, w1.err, ackMsg, SenderUp)
           after == IF rstat = "closing" THEN "aborted" ELSE rstat
<1>1. /\ SenderUp \in BOOLEAN
      /\ after \in ReceiverStates
      /\ listPkt_r \in Lists
  BY DEF SenderUp, ReceiverInv, NetTypeOK, ReceiverStates, ReceiverTypeOK,
         Lists
<1>2. nack_r # NoSeqnum => nackMsg \in ControlMsgs
  BY DEF ReceiverInv, ReceiverTypeOK, ControlMsg, ControlMsgs
<1> HIDE DEF nackMsg
<1>3. w1.q \in Seq(ControlMsgs) /\ w1.err \in BOOLEAN
  <2>1. CASE nack_r = NoSeqnum
    BY <2>1 DEF ReceiverInv, NetTypeOK, ReceiverTypeOK
  <2>2. CASE nack_r # NoSeqnum
    BY <1>1, <1>2, <2>2, WriteToType
       DEF ReceiverInv, NetTypeOK, ReceiverTypeOK
  <2>. QED BY <2>1, <2>2
<1>4. /\ rpc' = "poll" /\ nack_r' = NoSeqnum /\ partial_ack' = NoSeqnum
      /\ UNCHANGED <<dataCh, faults, sstat>>
  BY DEF Answer
<1>5. CASE partial_ack = NoSeqnum
  <2>1. /\ ackCh' = w1.q /\ rerr' = w1.err
        /\ buffer' = IF nack_r = NoSeqnum THEN buffer ELSE nackMsg
        /\ rstat' = after
        /\ UNCHANGED <<listPkt_r, base_r, free_place, out>>
    BY <1>5 DEF Answer, nackMsg
  <2>2. /\ buffer' \in DataMsgs \cup ControlMsgs \cup {Empty}
        /\ BufferIsFilled'
    <3>1. CASE nack_r = NoSeqnum
      BY <2>1, <3>1 DEF ReceiverInv, ReceiverTypeOK, BufferIsFilled
    <3>2. CASE nack_r # NoSeqnum
      BY <1>2, <2>1, <3>2 DEF BufferIsFilled
    <3>. QED BY <3>1, <3>2
  <2> HIDE DEF w1, after
  <2>3. NetTypeOK'
    BY <1>1, <1>3, <1>4, <2>1 DEF ReceiverInv, NetTypeOK
  <2>4. ReceiverTypeOK'
    BY <1>3, <1>4, <2>1, <2>2 DEF ReceiverInv, ReceiverTypeOK
  <2>. QED BY <2>1, <2>2, <2>3, <2>4
           DEF ReceiverInv, LastWordKept, WindowIsHonest
<1>6. CASE /\ partial_ack # NoSeqnum
           /\ \E i \in 0 .. RecvWin : listPkt_r[i] = Empty
           /\ SafeWalk(listPkt_r, n)
           /\ SafeListing(listPkt_r, n)
  <2>1. /\ ackCh' = w2.q /\ rerr' = w2.err
        /\ buffer' = ackMsg
        /\ rstat' = after
        /\ listPkt_r' = Cleared(listPkt_r, n)
        /\ base_r' = IF partial_ack = 0 THEN 0 ELSE (base_r + n) % RecvWin
        /\ free_place' = free_place + n
        /\ out' = out \o Payloads(listPkt_r, n)
    BY <1>6 DEF Answer, nackMsg
  <2>2. n \in 0 .. RecvWin
    BY <1>6, FirstEmptyStops
  <2>3. Cardinality(Pointed(listPkt_r'))
           = Cardinality(Pointed(listPkt_r)) - n
    BY <1>1, <1>6, <2>1, ClearTakesN
  <2> HIDE DEF n, w1, after
  <2>4. /\ Cardinality(Pointed(listPkt_r)) \in 0 .. RecvWin
        /\ Cardinality(Pointed(listPkt_r')) \in 0 .. RecvWin
        /\ free_place = RecvWin - Cardinality(Pointed(listPkt_r))
    BY PointedBound DEF ReceiverInv, WindowIsHonest
  <2>5. /\ free_place' = RecvWin - Cardinality(Pointed(listPkt_r'))
        /\ free_place' \in 0 .. RecvWin
        /\ free_place + n \in 0 .. RecvWin
    BY <2>1, <2>2, <2>3, <2>4, SizesAssumption
  <2>6. ackMsg \in ControlMsgs
    BY <1>6, <2>5 DEF ReceiverInv, ReceiverTypeOK, ControlMsg, ControlMsgs
  <2> HIDE DEF ackMsg
  <2>7. w2.q \in Seq(ControlMsgs) /\ w2.err \in BOOLEAN
    BY <1>1, <1>3, <2>6, WriteToType
  <2> HIDE DEF w2
  <2>8. listPkt_r' \in Lists /\ listPkt_r'[RecvWin] = listPkt_r[RecvWin]
    BY <1>1, <2>1, <2>2, ClearedType
  <2>9. base_r' \in Window
    <3>1. base_r + n \in Int /\ RecvWin \in Nat \ {0}
      BY <2>2, SizesAssumption DEF ReceiverInv, ReceiverTypeOK, Window
    <3>2. (base_r + n) % RecvWin \in 0 .. RecvWin - 1
      BY <3>1, ModRange
    <3>. QED BY <2>1, <3>1, <3>2 DEF Window
  <2>10. out' \in Seq(Nat)
    <3>1. Payloads(listPkt_r, n) \in Seq(Nat)
      BY <1>1, <2>2, PayloadsType
    <3>. QED BY <2>1, <3>1, ConcatProperties DEF ReceiverInv, ReceiverTypeOK
  <2>11. NetTypeOK'
    BY <1>1, <1>4, <2>1, <2>7 DEF ReceiverInv, NetTypeOK
  <2>12. ReceiverTypeOK'
    BY <1>4, <2>1, <2>5, <2>6, <2>7, <2>8, <2>9, <2>10
       DEF ReceiverTypeOK, Lists
  <2>13. BufferIsFilled' /\ LastWordKept' /\ WindowIsHonest'
    BY <2>1, <2>5, <2>6, <2>8
       DEF ReceiverInv, BufferIsFilled, LastWordKept, WindowIsHonest
  <2>. QED BY <2>11, <2>12, <2>13 DEF ReceiverInv
<1>7. CASE /\ partial_ack # NoSeqnum
           /\ ~ /\ \E i \in 0 .. RecvWin : listPkt_r[i] = Empty
                /\ SafeWalk(listPkt_r, n)
                /\ SafeListing(listPkt_r, n)
  <2>1. /\ rstat' = "ub"
        /\ UNCHANGED <<ackCh, rerr, buffer, listPkt_r, base_r, free_place,
                       out>>
    BY <1>7 DEF Answer
  <2>. QED BY <1>4, <2>1
           DEF ReceiverInv, NetTypeOK, ReceiverStates, ReceiverTypeOK,
               BufferIsFilled, LastWordKept, WindowIsHonest
<1>. QED BY <1>5, <1>6, <1>7
(* One step per action: each keeps the receiver's part of the invariant. *)
LEMMA ReceiverKeeps ==
    ASSUME ReceiverInv,
           \/ Bind \/ ReceiverStartFails \/ Accept \/ Receive
           \/ ReceiveError \/ PollError \/ ReceiverIdle \/ Answer
    PROVE  ReceiverInv'
<1>0. NetTypeOK /\ ReceiverTypeOK /\ BufferIsFilled
  BY DEF ReceiverInv
<1>1. CASE Bind
  BY <1>1 DEF Bind, netVars, rVars, ReceiverInv, NetTypeOK, ReceiverStates,
              ReceiverTypeOK, BufferIsFilled, LastWordKept, WindowIsHonest
<1>2. CASE Accept
  BY <1>2 DEF Accept, netVars, rVars, ReceiverInv, NetTypeOK, ReceiverStates,
              ReceiverTypeOK, BufferIsFilled, LastWordKept, WindowIsHonest
<1>3. ASSUME ThenAnswer
      PROVE  rpc' \in {"poll", "write"} /\ faults' \in 0 .. MaxFaults
  BY <1>0, <1>3, NetworkAssumption DEF ThenAnswer, Fault, NetTypeOK
<1>4. CASE Receive
  <2>1. Head(dataCh) \in DataMsgs /\ Tail(dataCh) \in Seq(DataMsgs)
    BY <1>0, <1>4, HeadTailProperties DEF Receive, NetTypeOK
  <2>2. HandledOK
    BY <1>4, <2>1, HandleKeeps DEF Receive
  <2>3. rpc' \in {"poll", "write"} /\ faults' \in 0 .. MaxFaults
    BY <1>3, <1>4 DEF Receive
  <2>4. dataCh' \in Seq(DataMsgs)
    BY <1>4, <2>1 DEF Receive
  <2>5. /\ buffer' = Head(dataCh)
        /\ UNCHANGED <<ackCh, sstat, rerr>>
    BY <1>4 DEF Receive
  <2>6. NetTypeOK'
    BY <1>0, <2>2, <2>3, <2>4, <2>5 DEF HandledOK, NetTypeOK
  <2>7. ReceiverTypeOK' /\ BufferIsFilled'
    BY <1>0, <2>1, <2>2, <2>3, <2>5
       DEF HandledOK, ReceiverTypeOK, BufferIsFilled, Lists
  <2>. QED BY <2>2, <2>6, <2>7 DEF HandledOK, ReceiverInv
<1>5. CASE ReceiveError
  <2>1. buffer \in DataMsgs \cup ControlMsgs
    BY <1>0, <1>5 DEF ReceiveError, BufferIsFilled
  <2>2. HandledOK
    BY <1>5, <2>1, HandleKeeps DEF ReceiveError
  <2>3. rpc' \in {"poll", "write"} /\ faults' \in 0 .. MaxFaults
    BY <1>3, <1>5 DEF ReceiveError
  <2>4. /\ rerr' = FALSE
        /\ UNCHANGED <<dataCh, ackCh, sstat, buffer>>
    BY <1>5 DEF ReceiveError
  <2>5. NetTypeOK'
    BY <1>0, <2>2, <2>3, <2>4 DEF HandledOK, NetTypeOK
  <2>6. ReceiverTypeOK' /\ BufferIsFilled'
    BY <1>0, <2>2, <2>3, <2>4
       DEF HandledOK, ReceiverTypeOK, BufferIsFilled, Lists
  <2>. QED BY <2>2, <2>5, <2>6 DEF HandledOK, ReceiverInv
<1>6. CASE PollError
  BY <1>6 DEF PollError, netVars, ReceiverInv, NetTypeOK, ReceiverStates,
              ReceiverTypeOK, BufferIsFilled, LastWordKept, WindowIsHonest
<1>7. CASE ReceiverIdle
  BY <1>7 DEF ReceiverIdle, netVars, ReceiverInv, NetTypeOK, ReceiverStates,
              ReceiverTypeOK, BufferIsFilled, LastWordKept, WindowIsHonest
<1>8. CASE Answer
  BY <1>8, AnswerKeeps
<1>9. CASE ReceiverStartFails
  <2>1. faults' \in 0 .. MaxFaults
    BY <1>0, <1>9, NetworkAssumption DEF ReceiverStartFails, Fault, NetTypeOK
  <2>. QED BY <1>9, <2>1
           DEF ReceiverStartFails, rVars, ReceiverInv, NetTypeOK,
               ReceiverStates, ReceiverTypeOK, BufferIsFilled, LastWordKept,
               WindowIsHonest
<1>. QED BY <1>1, <1>2, <1>4, <1>5, <1>6, <1>7, <1>8, <1>9

(* The receiver starts with its part of the invariant. *)
LEMMA ReceiverStarts ==
    ASSUME NetTypeOK, ReceiverInit
    PROVE  ReceiverInv
<1>1. /\ listPkt_r \in Lists
      /\ \A i \in 0 .. RecvWin : listPkt_r[i] \in {Empty, Junk}
  BY DEF ReceiverInit, Lists, SlotValues
<1>2. ReceiverTypeOK
  <2>1. base_r \in Window /\ free_place \in 0 .. RecvWin
    BY SizesAssumption DEF ReceiverInit, Window
  <2>2. out \in Seq(Nat)
    BY DEF ReceiverInit
  <2>. QED BY <1>1, <2>1, <2>2 DEF ReceiverInit, ReceiverTypeOK, Lists
<1>3. LastWordKept /\ BufferIsFilled
  BY <1>1, SizesAssumption DEF ReceiverInit, LastWordKept, BufferIsFilled
<1>4. WindowIsHonest
  <2>1. \A i \in Window : listPkt_r[i].ptr \notin Ptrs
    BY <1>1, SizesAssumption DEF Window, Empty, Junk, Item, Ptrs
  <2>2. Pointed(listPkt_r) = {}
    BY <2>1 DEF Pointed
  <2>3. Cardinality(Pointed(listPkt_r)) = 0
    BY <2>2, FS_EmptySet
  <2>. QED BY <2>3, SizesAssumption DEF ReceiverInit, WindowIsHonest
<1>. QED BY <1>2, <1>3, <1>4 DEF ReceiverInv
=============================================================================
