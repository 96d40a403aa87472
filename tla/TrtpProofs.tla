---------------------------- MODULE TrtpProofs ------------------------------
(***************************************************************************)
(* What is proved of a transfer for every file length, every size of the   *)
(* sender's list, of the receiver's window and of the seqnum space, every  *)
(* set of faults and every number of them: the types of all variables,     *)
(* that the receiver announces exactly the window it has, that the         *)
(* sender's unbounded scan stays inside its list, that an ACK answers a    *)
(* packet the receiver has accepted, and, for a file the list has room     *)
(* for, that the sender gives up no block before the receiver has it.      *)
(***************************************************************************)
EXTENDS Trtp, LoopProofs

(***************************************************************************)
(* The inductive invariant.  TypeOK is not inductive alone: that an ACK    *)
(* announces no more than RecvWin rests on WindowIsHonest, that the scan   *)
(* yields a slot on ScanStaysInList, that a failed read finds a datagram   *)
(* on BufferIsFilled, that a closing receiver's walk ends on LastWordKept. *)
(***************************************************************************)
IInv == SenderInv /\ ReceiverInv

(* The inductive invariant holds at the start. *)
LEMMA InitEstablishes == Init => IInv
<1> SUFFICES ASSUME Init PROVE IInv
  OBVIOUS
<1>1. NetTypeOK
  BY NetworkAssumption
     DEF Init, NetInit, SenderInit, ReceiverInit, NetTypeOK, SenderStates,
         ReceiverStates
<1>2. SenderTypeOK /\ ScanStaysInList
  BY SenderStarts DEF Init
<1>3. ReceiverInv
  BY <1>1, ReceiverStarts DEF Init
<1>. QED BY <1>1, <1>2, <1>3 DEF IInv, SenderInv

(* Every step of either program and of the path keeps it. *)
LEMMA NextPreserves == IInv /\ [Next]_vars => IInv'
<1> SUFFICES ASSUME IInv, [Next]_vars PROVE IInv'
  OBVIOUS
<1>0. /\ SenderInv /\ ReceiverInv
      /\ NetTypeOK /\ SenderTypeOK /\ ScanStaysInList
  BY DEF IInv, SenderInv
<1>1. ASSUME NetTypeOK', UNCHANGED sVars PROVE SenderInv'
  BY <1>0, <1>1 DEF sVars, SenderInv, SenderTypeOK, ScanStaysInList
<1>2. ASSUME NetTypeOK', UNCHANGED rVars PROVE ReceiverInv'
  BY <1>0, <1>2
     DEF rVars, ReceiverInv, ReceiverTypeOK, BufferIsFilled, LastWordKept,
         WindowIsHonest
<1>3. CASE SenderStep /\ UNCHANGED rVars
  <2>1. ASSUME Retransmit PROVE SenderInv'
    <3>1. Timeout /\ (Fault("premature") \/ faults' = faults)
      BY <2>1 DEF Retransmit
    <3>2. faults' \in 0 .. MaxFaults
      BY <1>0, <3>1, FaultBound DEF NetTypeOK
    <3>. QED BY <1>0, <3>1, <3>2, SenderKeeps
  <2>2. SenderInv'
    BY <1>0, <1>3, <2>1, SenderKeeps DEF SenderStep, Retransmit
  <2>. QED BY <1>2, <1>3, <2>2 DEF IInv, SenderInv
<1>4. CASE ReceiverStep /\ UNCHANGED sVars
  <2>1. ReceiverInv'
    BY <1>0, <1>4, ReceiverKeeps DEF ReceiverStep
  <2>. QED BY <1>1, <1>4, <2>1 DEF IInv, ReceiverInv
<1>5. CASE Link /\ UNCHANGED <<sstat, rstat, sVars, rVars>>
  <2>1. NetTypeOK'
    BY <1>0, <1>5, LinkType DEF NetTypeOK
  <2>. QED BY <1>1, <1>2, <1>5, <2>1 DEF IInv
<1>6. CASE Kill /\ UNCHANGED <<sVars, rVars>>
  <2>1. faults' \in 0 .. MaxFaults
    BY <1>0, <1>6, FaultBound DEF Kill, KillSender, KillReceiver
  <2>2. ASSUME KillSender PROVE NetTypeOK'
    BY <1>0, <2>1, <2>2 DEF KillSender, NetTypeOK, SenderStates
  <2>3. ASSUME KillReceiver PROVE NetTypeOK'
    BY <1>0, <2>1, <2>3 DEF KillReceiver, NetTypeOK, ReceiverStates
  <2>4. NetTypeOK'
    BY <1>6, <2>2, <2>3 DEF Kill
  <2>. QED BY <1>1, <1>2, <1>6, <2>4 DEF IInv
<1>7. CASE UNCHANGED vars
  <2>1. NetTypeOK' /\ UNCHANGED sVars /\ UNCHANGED rVars
    BY <1>0, <1>7 DEF vars, netVars, NetTypeOK
  <2>. QED BY <1>1, <1>2, <2>1 DEF IInv
<1>. QED BY <1>3, <1>4, <1>5, <1>6, <1>7 DEF Next, Terminated

(* So it holds always, whatever the sizes, the faults and the heap. *)
THEOREM Invariance == Spec => []IInv
<1>1. Init => IInv
  BY InitEstablishes
<1>2. IInv /\ [Next]_vars => IInv'
  BY NextPreserves
<1>. QED BY <1>1, <1>2, PTL DEF Spec

(***************************************************************************)
(* The variables of both programs and of the path keep their types: in     *)
(* particular nextseqnum passes SeqSpace by no more than the window, and   *)
(* every window and seqnum put on the wire fits its field.                 *)
(***************************************************************************)
THEOREM TypeCorrect == Spec => []TypeOK
<1>1. IInv => TypeOK
  BY DEF IInv, SenderInv, ReceiverInv, TypeOK
<1>. QED BY <1>1, Invariance, PTL

(***************************************************************************)
(* The window the receiver announces, free_place, is realWindow less the   *)
(* packets its list points to, whatever was lost, repeated, reordered or   *)
(* damaged, and whatever its memory held when it started.                  *)
(***************************************************************************)
THEOREM HonestWindow == Spec => []WindowIsHonest
<1>1. IInv => WindowIsHonest
  BY DEF IInv, ReceiverInv
<1>. QED BY <1>1, Invariance, PTL

(***************************************************************************)
(* The scan of the sender's list for leading empty slots, which the code   *)
(* does not bound, never leaves the list.                                  *)
(***************************************************************************)
THEOREM BoundedScan == Spec => []ScanStaysInList
<1>1. IInv => ScanStaysInList
  BY DEF IInv, SenderInv
<1>. QED BY <1>1, Invariance, PTL

-----------------------------------------------------------------------------
(***************************************************************************)
(* The acknowledgements.                                                   *)
(***************************************************************************)

(* The blocks the receiver has printed or holds. *)
Blocks == Accepted \ {NoPayload}

(* Those a list holds. *)
Held(list) == {list[i].id : i \in Window} \ {NoPayload}

(* The sender has ended, and will read no answer any more. *)
SenderGone == sstat \notin {"idle", "running", "closing"}

(* An ACK with this seqnum answers one of these blocks. *)
AckDue(seq) == \E id \in Blocks : SeqnumOf(id + 1) = seq

(***************************************************************************)
(* AckIsAccepted is not inductive alone.  The ACK the receiver is about to *)
(* send answers a block it accepted, or a control packet it took for data; *)
(* but this it does only after a write has failed, which the sender must   *)
(* have ended for.  That it has not merely not started yet is known from   *)
(* the datagram the receiver waits for before it ever writes.              *)
(***************************************************************************)
AckInv ==
    /\ AckIsAccepted
    /\ partial_ack # NoSeqnum => SenderGone \/ AckDue(partial_ack)
    /\ rerr => SenderGone
    /\ sstat = "idle" =>
          dataCh = <<>> /\ rstat \in {"unbound", "bound", "failed", "killed"}
    /\ \A id \in Blocks : id < FileLen

(* Every block is accepted, or in the sender's list and not past its place. *)
ReleaseInv ==
    \A id \in 0 .. FileLen - 1 :
        id \in Blocks \/ \E i \in Slots : i <= id /\ listPkt[i] = id

-----------------------------------------------------------------------------
(* write adds its datagram or nothing, and fails on a peer that is gone. *)
LEMMA WriteToAdds ==
    ASSUME NEW S, NEW q \in Seq(S), NEW err \in BOOLEAN, NEW m \in S,
           NEW up \in BOOLEAN
    PROVE  /\ \A i \in DOMAIN WriteTo(q, err, m, up).q :
                 \/ i \in DOMAIN q /\ WriteTo(q, err, m, up).q[i] = q[i]
                 \/ up /\ WriteTo(q, err, m, up).q[i] = m
           /\ WriteTo(q, err, m, up).err => ~up
<1>1. \A i \in DOMAIN Append(q, m) :
         \/ i \in DOMAIN q /\ Append(q, m)[i] = q[i]
         \/ Append(q, m)[i] = m
  OBVIOUS
<1>. QED BY <1>1 DEF WriteTo

(* What is left of a queue when one datagram is taken out was in it. *)
LEMMA RemoveAtElements ==
    ASSUME NEW S, NEW q \in Seq(S), NEW i \in DOMAIN q
    PROVE  \A k \in DOMAIN RemoveAt(q, i) :
              \E j \in DOMAIN q : RemoveAt(q, i)[k] = q[j]
<1>1. Len(q) \in Nat /\ i \in 1 .. Len(q) /\ DOMAIN q = 1 .. Len(q)
  OBVIOUS
<1> DEFINE a == SubSeq(q, 1, i - 1)
           b == SubSeq(q, i + 1, Len(q))
<1>2. /\ a \in Seq(S) /\ Len(a) = i - 1
      /\ \A k \in 1 .. i - 1 : a[k] = q[k]
  BY <1>1
<1>3. /\ b \in Seq(S) /\ Len(b) = Len(q) - i
      /\ \A k \in 1 .. Len(q) - i : b[k] = q[i + k]
  BY <1>1
<1>4. RemoveAt(q, i) = a \o b
  BY DEF RemoveAt
<1> HIDE DEF a, b
<1>5. /\ DOMAIN (a \o b) = 1 .. Len(a) + Len(b)
      /\ \A k \in 1 .. Len(a) + Len(b) :
            (a \o b)[k] = IF k <= Len(a) THEN a[k] ELSE b[k - Len(a)]
  BY <1>2, <1>3
<1>6. ASSUME NEW k \in 1 .. Len(a) + Len(b)
      PROVE  \E j \in DOMAIN q : (a \o b)[k] = q[j]
  <2>1. CASE k <= Len(a)
    <3>1. k \in 1 .. i - 1 /\ k \in DOMAIN q
      BY <1>1, <1>2, <2>1
    <3>2. (a \o b)[k] = q[k]
      BY <1>2, <1>5, <2>1, <3>1
    <3>. QED BY <3>1, <3>2
  <2>2. CASE k > Len(a)
    <3>0. /\ Len(a) \in Nat /\ Len(b) \in Nat
          /\ Len(a) = i - 1 /\ Len(b) = Len(q) - i
      BY <1>1, <1>2, <1>3
    <3>1. /\ k - Len(a) \in 1 .. Len(q) - i
          /\ i + (k - Len(a)) \in DOMAIN q
      BY <1>1, <2>2, <3>0
    <3>2. (a \o b)[k] = b[k - Len(a)]
      BY <1>5, <2>2, <3>0
    <3>. QED BY <1>3, <3>1, <3>2
  <2>. QED BY <1>1, <1>2, <2>1, <2>2
<1>. QED BY <1>4, <1>5, <1>6

(***************************************************************************)
(* The link invents nothing: an answer under way was under way before, but *)
(* for its mark, and out of an empty queue comes nothing.                  *)
(***************************************************************************)
LEMMA LinkInventsNothing ==
    ASSUME NetTypeOK, Link
    PROVE  /\ \A i \in DOMAIN ackCh' :
                 \E j \in DOMAIN ackCh : /\ ackCh'[i].type = ackCh[j].type
                                         /\ ackCh'[i].seq = ackCh[j].seq
           /\ dataCh = <<>> => dataCh' = <<>>
<1>0. /\ ackCh \in Seq(ControlMsgs) /\ dataCh \in Seq(DataMsgs)
      /\ Len(ackCh) \in Nat /\ DOMAIN ackCh = 1 .. Len(ackCh)
  BY DEF NetTypeOK
<1>1. CASE LoseData \/ CutData \/ CorruptData \/ SwapData
  <2>1. ackCh' = ackCh
    BY <1>1 DEF LoseData, CutData, CorruptData, SwapData
  <2>2. dataCh # <<>>
    <3>1. ASSUME dataCh = <<>> PROVE FALSE
      <4>1. DOMAIN dataCh = {} /\ 1 .. Len(dataCh) - 1 = {}
        BY <3>1
      <4>. QED BY <1>1, <4>1 DEF LoseData, CutData, CorruptData, SwapData
    <3>. QED BY <3>1
  <2>. QED BY <2>1, <2>2
<1>2. CASE LoseAck
  <2>1. dataCh' = dataCh /\ \E i \in DOMAIN ackCh : ackCh' = RemoveAt(ackCh, i)
    BY <1>2 DEF LoseAck
  <2>. QED BY <1>0, <2>1, RemoveAtElements
<1>3. CASE CorruptAck
  <2>1. PICK i \in DOMAIN ackCh : ackCh' = [ackCh EXCEPT ![i].mark = "err"]
    BY <1>3 DEF CorruptAck
  <2>2. dataCh' = dataCh /\ ackCh[i] \in ControlMsgs
    BY <1>0, <1>3 DEF CorruptAck
  <2>3. [ackCh[i] EXCEPT !.mark = "err"].type = ackCh[i].type
        /\ [ackCh[i] EXCEPT !.mark = "err"].seq = ackCh[i].seq
    BY <2>2 DEF ControlMsgs
  <2>4. /\ DOMAIN ackCh' = DOMAIN ackCh
        /\ \A j \in DOMAIN ackCh : j # i => ackCh'[j] = ackCh[j]
        /\ ackCh'[i] = [ackCh[i] EXCEPT !.mark = "err"]
    BY <1>0, <2>1
  <2>. QED BY <2>2, <2>3, <2>4
<1>4. CASE SwapAck
  <2>1. dataCh' = dataCh
    BY <1>4 DEF SwapAck
  <2>2. PICK i \in 1 .. Len(ackCh) - 1 : ackCh' = Swapped(ackCh, i)
    BY <1>4 DEF SwapAck
  <2>3. i \in DOMAIN ackCh /\ i + 1 \in DOMAIN ackCh
    BY <1>0
  <2>4. /\ DOMAIN ackCh' = DOMAIN ackCh
        /\ \A j \in DOMAIN ackCh :
              ackCh'[j] \in {ackCh[j], ackCh[i], ackCh[i + 1]}
    BY <1>0, <2>2, <2>3 DEF Swapped
  <2>. QED BY <2>1, <2>3, <2>4
<1>. QED BY <1>1, <1>2, <1>3, <1>4 DEF Link

(* The seqnum after a packet's is the next packet's. *)
LEMMA SeqnumOfNext ==
    ASSUME NEW a \in Nat
    PROVE  /\ AckFor(SeqnumOf(a)) = SeqnumOf(a + 1)
           /\ AckedSeqnum(SeqnumOf(a + 1)) = SeqnumOf(a)
           /\ SeqnumOf(a + 1) = IF SeqnumOf(a) + 1 = SeqSpace THEN 0
                                ELSE SeqnumOf(a) + 1
<1> DEFINE r == a % SeqSpace
<1>0. SeqSpace \in Nat \ {0}
  BY SizesAssumption
<1>1. r \in 0 .. SeqSpace - 1
  BY <1>0, ModRange
<1>2. /\ (r + 1) % SeqSpace = (a + 1) % SeqSpace
      /\ (a + 1) % SeqSpace = IF r + 1 = SeqSpace THEN 0 ELSE r + 1
  BY <1>0, ModSucc
<1>3. SeqnumOf(a) = r
  BY DEF SeqnumOf
<1> HIDE DEF r
<1>4. AckFor(SeqnumOf(a)) = SeqnumOf(a + 1)
  BY <1>2, <1>3 DEF AckFor, SeqnumOf
<1>5. SeqnumOf(a + 1) = IF r + 1 = SeqSpace THEN 0 ELSE r + 1
  BY <1>2 DEF SeqnumOf
<1>6. AckedSeqnum(SeqnumOf(a + 1)) = r
  BY <1>0, <1>1, <1>5 DEF AckedSeqnum
<1>. QED BY <1>3, <1>4, <1>5, <1>6

-----------------------------------------------------------------------------
(***************************************************************************)
(* What no step of the receiver changed is still so, when the answers on   *)
(* their way are those that were, and an ended sender does not start.      *)
(***************************************************************************)
LEMMA AcksKept ==
    ASSUME AckInv, UNCHANGED rVars, rstat' = rstat \/ rstat' = "killed",
           \A i \in DOMAIN ackCh' :
              \E j \in DOMAIN ackCh : /\ ackCh'[i].type = ackCh[j].type
                                      /\ ackCh'[i].seq = ackCh[j].seq,
           SenderGone => SenderGone',
           sstat' = "idle" =>
              sstat = "idle" /\ (dataCh' = dataCh \/ dataCh' = <<>>)
    PROVE  AckInv' /\ Blocks' = Blocks
<1>1. UNCHANGED <<rerr, listPkt_r, partial_ack, out>>
  BY DEF rVars
<1>2. Blocks' = Blocks
  BY <1>1 DEF Blocks, Accepted
<1> HIDE DEF Blocks
<1>3. \A seq : AckDue(seq)' = AckDue(seq)
  BY <1>2 DEF AckDue
<1>4. AckIsAccepted'
  <2>1. \A j \in DOMAIN ackCh : ackCh[j].type = "ack" =>
           \E id \in Blocks : SeqnumOf(id + 1) = ackCh[j].seq
    BY DEF AckInv, AckIsAccepted, Blocks
  <2>2. \A i \in DOMAIN ackCh' : ackCh'[i].type = "ack" =>
           \E id \in Blocks' : SeqnumOf(id + 1) = ackCh'[i].seq
    BY <1>2, <2>1
  <2>. QED BY <2>2 DEF AckIsAccepted, Blocks
<1>5. partial_ack' # NoSeqnum => SenderGone' \/ AckDue(partial_ack)'
  BY <1>1, <1>2 DEF AckInv, AckDue
<1>. QED BY <1>1, <1>2, <1>4, <1>5 DEF AckInv

(* What the sender does to answers and states: it reads the first answer. *)
LEMMA SenderOnlyReads ==
    ASSUME NetTypeOK, SenderStep
    PROVE  /\ rstat' = rstat /\ ~ SenderGone
           /\ sstat' = "idle" => sstat = "idle" /\ dataCh' = dataCh
           /\ \A i \in DOMAIN ackCh' :
                 \E j \in DOMAIN ackCh : /\ ackCh'[i].type = ackCh[j].type
                                         /\ ackCh'[i].seq = ackCh[j].seq
<1>1. /\ rstat' = rstat /\ ~ SenderGone
      /\ sstat' = "idle" => sstat = "idle" /\ dataCh' = dataCh
      /\ ackCh' = ackCh \/ (ackCh # <<>> /\ ackCh' = Tail(ackCh))
  BY DEF SenderStep, SenderStart, SenderStartFails, RecvAck, RecvNack,
         RecvCorrupted, SenderIdle, SenderError, ResendNacked, StartBurst,
         SendNext, EndBurst, NoTimeout, Retransmit, Timeout, EndPass,
         SenderRead, SenderUp, SendPacket, SenderGone, netVars
<1>2. CASE ackCh # <<>> /\ ackCh' = Tail(ackCh)
  <2>1. ackCh \in Seq(ControlMsgs)
    BY DEF NetTypeOK
  <2>2. \A i \in DOMAIN Tail(ackCh) :
           i + 1 \in DOMAIN ackCh /\ Tail(ackCh)[i] = ackCh[i + 1]
    BY <1>2, <2>1
  <2>. QED BY <1>1, <1>2, <2>2
<1>. QED BY <1>1, <1>2

-----------------------------------------------------------------------------
(***************************************************************************)
(* Handling a datagram: a block is added to those accepted or none is, and *)
(* the ACK that becomes due is that block's.  A control packet is handled  *)
(* as data only when the sender is gone.                                   *)
(***************************************************************************)
LEMMA HandleAccepts ==
    ASSUME ReceiverInv, AckInv, NEW m \in DataMsgs \cup ControlMsgs,
           m \in DataMsgs \/ SenderGone, Handle(m), sstat' = sstat
    PROVE  /\ Blocks \subseteq Blocks'
           /\ \A id \in Blocks' : id < FileLen
           /\ partial_ack' # NoSeqnum => SenderGone' \/ AckDue(partial_ack)'
<1>1. /\ out \in Seq(Nat) /\ listPkt_r \in Lists
      /\ listPkt_r[RecvWin] \in {Empty, Junk}
      /\ Window \subseteq 0 .. RecvWin
      /\ RecvWin \in Nat \ {0}
  BY SizesAssumption
     DEF ReceiverInv, ReceiverTypeOK, Lists, Window, LastWordKept
<1>2. /\ \A id \in Blocks : id < FileLen
      /\ partial_ack # NoSeqnum => SenderGone \/ AckDue(partial_ack)
  BY DEF AckInv
<1>3. SenderGone' = SenderGone
  BY DEF SenderGone
<1>4. ASSUME Blocks' = Blocks, partial_ack' = partial_ack
      PROVE  /\ Blocks \subseteq Blocks'
             /\ \A id \in Blocks' : id < FileLen
             /\ partial_ack' # NoSeqnum => SenderGone' \/ AckDue(partial_ack)'
  <2> HIDE DEF Blocks
  <2>. QED BY <1>2, <1>3, <1>4 DEF AckDue
<1>5. CASE Refuse(m)
  BY <1>4, <1>5 DEF Refuse, Blocks, Accepted
<1>6. CASE Close(m)
  <2> DEFINE n == FirstBlank(listPkt_r)
             p == Payloads(listPkt_r, n)
  <2>1. n \in 0 .. RecvWin
    BY <1>1, FirstBlankStops
  <2> HIDE DEF n
  <2>2. p \in Seq(Nat) /\ Range(p) = {listPkt_r[k].id : k \in 0 .. n - 1}
                                        \ {NoPayload}
    BY <1>1, <2>1, PayloadsType, PayloadsRange
  <2> HIDE DEF p
  <2>3. /\ listPkt_r' = listPkt_r /\ partial_ack' = partial_ack
        /\ out' = out \/ out' = out \o p
    BY <1>6 DEF Close, n, p
  <2>4. 0 .. n - 1 \subseteq Window
    BY <1>1, <2>1 DEF Window
  <2>5. Range(out') \subseteq Range(out) \cup Range(p)
        /\ Range(out) \subseteq Range(out')
    BY <1>1, <2>2, <2>3, RangeOfJoin
  <2>6. Blocks' = Blocks
    BY <2>2, <2>3, <2>4, <2>5 DEF Blocks, Accepted
  <2>. QED BY <1>4, <2>3, <2>6
<1>7. CASE Place(m)
  <2> DEFINE seq == IF m.type = "data" THEN SeqnumOf(m.id) ELSE m.seq
             id == IF m.type = "data" THEN m.id ELSE NoPayload
             b == IF seq = 0 THEN 0 ELSE base_r
             slot == SlotOf(seq, b)
  <2>1. seq \in Seqnums /\ id \in Nat \cup {NoPayload}
    <3>1. CASE m \in DataMsgs
      BY <3>1, SeqnumOfType DEF DataMsgs
    <3>2. CASE m \in ControlMsgs
      BY <3>2 DEF ControlMsgs
    <3>. QED BY <3>1, <3>2
  <2>2. id # NoPayload => id < FileLen /\ seq = SeqnumOf(id)
    <3>1. id # NoPayload => m.type = "data" /\ ~ IsEof(m.id) /\ m.id \in Nat
      BY <1>7, <2>1 DEF Place
    <3>. QED BY <3>1, SizesAssumption DEF IsEof
  <2>3. id = NoPayload => SenderGone
    <3>1. m \in DataMsgs => id \in Nat
      BY DEF DataMsgs
    <3>. QED BY <3>1 DEF NoPayload
  <2> HIDE DEF seq, id
  <2>4. slot \in Window
    <3>1. seq - b \in Int
      BY <1>1, <2>1 DEF Window, Seqnums, ReceiverInv, ReceiverTypeOK
    <3> HIDE DEF b
    <3>. QED BY <1>1, <3>1, ModRange DEF Window, SlotOf
  <2> HIDE DEF slot
  <2>5. /\ out' = out
        /\ \/ UNCHANGED <<listPkt_r, partial_ack>>
           \/ /\ listPkt_r[slot] = Empty
              /\ listPkt_r' = [listPkt_r EXCEPT ![slot] = Item(NewPtr, id)]
              /\ partial_ack' = AckFor(seq)
    BY <1>7 DEF Place, seq, id, slot
  <2>6. CASE UNCHANGED <<listPkt_r, partial_ack>>
    BY <1>4, <2>5, <2>6 DEF Blocks, Accepted
  <2>7. CASE /\ listPkt_r[slot] = Empty
             /\ listPkt_r' = [listPkt_r EXCEPT ![slot] = Item(NewPtr, id)]
             /\ partial_ack' = AckFor(seq)
    <3>1. /\ \A i \in Window \ {slot} : listPkt_r'[i] = listPkt_r[i]
          /\ listPkt_r'[slot].id = id
          /\ listPkt_r[slot].id = NoPayload
      BY <1>1, <2>4, <2>7 DEF Lists, Item, Empty
    <3>2. Blocks' = Blocks \cup ({id} \ {NoPayload})
      <4>1. {listPkt_r'[i].id : i \in Window} \ {NoPayload}
               = ({listPkt_r[i].id : i \in Window} \cup {id}) \ {NoPayload}
        BY <2>4, <3>1
      <4>. QED BY <2>5, <4>1 DEF Blocks, Accepted
    <3>3. ASSUME id # NoPayload PROVE AckDue(partial_ack)'
      <4>1. id \in Nat /\ id \in Blocks'
        BY <2>1, <3>2, <3>3
      <4>2. AckFor(seq) = SeqnumOf(id + 1)
        BY <2>2, <3>3, <4>1, SeqnumOfNext
      <4>. QED BY <2>7, <4>1, <4>2 DEF AckDue
    <3> HIDE DEF Blocks
    <3>. QED BY <1>2, <1>3, <2>2, <2>3, <3>2, <3>3
  <2>. QED BY <2>5, <2>6, <2>7
<1>. QED BY <1>5, <1>6, <1>7 DEF Handle

(* Printing and shifting loses no block and makes up none. *)
LEMMA ClearingKeepsBlocks ==
    ASSUME NEW list \in Lists, NEW n \in 0 .. RecvWin
    PROVE  Held(list)
              = Held(Cleared(list, n))
                    \cup ({list[k].id : k \in 0 .. n - 1} \ {NoPayload})
<1>0. RecvWin \in Nat \ {0} /\ n \in Nat /\ n <= RecvWin
  BY SizesAssumption
<1>1. ASSUME NEW i \in Window
      PROVE  \/ i \in 0 .. n - 1
             \/ i - n \in Window /\ Cleared(list, n)[i - n] = list[i]
  <2>1. CASE i >= n
    <3>1. /\ i - n \in 0 .. RecvWin /\ i - n # RecvWin
          /\ (i - n) + n = i /\ i < RecvWin /\ i - n \in Window
      BY <1>0, <2>1 DEF Window
    <3>. QED BY <3>1 DEF Cleared
  <2>. QED BY <1>0, <2>1 DEF Window
<1>2. ASSUME NEW i \in Window
      PROVE  \/ Cleared(list, n)[i] = Empty
             \/ \E j \in Window : Cleared(list, n)[i] = list[j]
  <2>1. i \in 0 .. RecvWin /\ i # RecvWin
    BY <1>0 DEF Window
  <2>2. i + n < RecvWin => i + n \in Window
    BY <1>0 DEF Window
  <2>. QED BY <2>1, <2>2 DEF Cleared
<1>3. 0 .. n - 1 \subseteq Window
  BY <1>0 DEF Window
<1>4. Empty.id = NoPayload
  BY DEF Empty, Item
<1>5. {list[i].id : i \in Window}
         \subseteq {Cleared(list, n)[i].id : i \in Window}
                      \cup {list[k].id : k \in 0 .. n - 1}
  <2>1. ASSUME NEW i \in Window
        PROVE  list[i].id \in {Cleared(list, n)[j].id : j \in Window}
                                 \cup {list[k].id : k \in 0 .. n - 1}
    BY <1>1
  <2>. QED BY <2>1
<1>6. \A i \in Window :
         \/ Cleared(list, n)[i].id = NoPayload
         \/ Cleared(list, n)[i].id \in {list[j].id : j \in Window}
  BY <1>2, <1>4
<1>. QED BY <1>3, <1>5, <1>6 DEF Held

(***************************************************************************)
(* An answer is sent only to a sender that is there, and then the ACK that *)
(* was due is the one that answers a block.  No block is lost by it.       *)
(***************************************************************************)
LEMMA AnswerAccepts ==
    ASSUME ReceiverInv, AckInv, Answer
    PROVE  AckInv' /\ Blocks' = Blocks
<1> DEFINE n == FirstEmpty(listPkt_r)
           nackMsg == ControlMsg("nack", nack_r, free_place)
           w1 == IF nack_r = NoSeqnum THEN [q |-> ackCh, err |-> rerr]
                 ELSE WriteTo(ackCh, rerr, nackMsg, SenderUp)
           ackMsg == ControlMsg("ack", partial_ack, free_place + n)
           w2 == WriteTo(w1.q, w1.err, ackMsg, SenderUp)
<1>1. /\ ackCh \in Seq(ControlMsgs) /\ rerr \in BOOLEAN
      /\ out \in Seq(Nat) /\ listPkt_r \in Lists
      /\ partial_ack \in Seqnums \cup {NoSeqnum}
  BY DEF ReceiverInv, NetTypeOK, ReceiverTypeOK, Lists
<1>2. /\ rstat \in {"open", "closing"} /\ partial_ack' = NoSeqnum
      /\ UNCHANGED <<dataCh, sstat>>
      /\ \/ /\ partial_ack = NoSeqnum
            /\ ackCh' = w1.q /\ rerr' = w1.err
            /\ UNCHANGED <<listPkt_r, out>>
         \/ /\ partial_ack # NoSeqnum
            /\ \E i \in 0 .. RecvWin : listPkt_r[i] = Empty
            /\ ackCh' = w2.q /\ rerr' = w2.err
            /\ listPkt_r' = Cleared(listPkt_r, n)
            /\ out' = out \o Payloads(listPkt_r, n)
         \/ UNCHANGED <<ackCh, rerr, listPkt_r, out>>
  BY DEF Answer
<1>3. sstat # "idle" /\ (SenderUp <=> ~ SenderGone)
      /\ SenderGone' = SenderGone
  <2>1. sstat # "idle"
    BY <1>2 DEF AckInv
  <2>. QED BY <1>2, <2>1 DEF SenderUp, SenderGone
<1>4. Blocks' = Blocks
  <2>1. CASE UNCHANGED <<listPkt_r, out>>
    BY <2>1 DEF Blocks, Accepted
  <2>2. CASE /\ \E i \in 0 .. RecvWin : listPkt_r[i] = Empty
             /\ listPkt_r' = Cleared(listPkt_r, n)
             /\ out' = out \o Payloads(listPkt_r, n)
    <3>1. n \in 0 .. RecvWin
      BY <2>2, FirstEmptyStops
    <3> HIDE DEF n
    <3>2. Range(out') = Range(out) \cup ({listPkt_r[k].id : k \in 0 .. n - 1}
                                            \ {NoPayload})
      BY <1>1, <2>2, <3>1, PayloadsType, PayloadsRange, RangeOfJoin
    <3>3. Held(listPkt_r)
             = Held(listPkt_r')
                  \cup ({listPkt_r[k].id : k \in 0 .. n - 1} \ {NoPayload})
      BY <1>1, <2>2, <3>1, ClearingKeepsBlocks
    <3>4. /\ Blocks = (Range(out) \ {NoPayload}) \cup Held(listPkt_r)
          /\ Blocks' = (Range(out') \ {NoPayload}) \cup Held(listPkt_r')
      BY DEF Blocks, Accepted, Held
    <3>. QED BY <3>2, <3>3, <3>4
  <2>. QED BY <1>2, <2>1, <2>2
<1> HIDE DEF n, Blocks
<1>5. \A seq : AckDue(seq)' = AckDue(seq)
  BY <1>4 DEF AckDue
(* The NACK that goes first. *)
<1>6. /\ w1.q \in Seq(ControlMsgs \cup {nackMsg}) /\ w1.err \in BOOLEAN
      /\ w1.err => SenderGone
      /\ \A i \in DOMAIN w1.q :
            \/ i \in DOMAIN ackCh /\ w1.q[i] = ackCh[i]
            \/ w1.q[i].type = "nack"
  <2>1. ackCh \in Seq(ControlMsgs \cup {nackMsg}) /\ SenderUp \in BOOLEAN
    BY <1>1 DEF SenderUp
  <2>2. rerr => SenderGone
    BY DEF AckInv
  <2>3. nackMsg.type = "nack"
    BY DEF ControlMsg
  <2> HIDE DEF nackMsg
  <2>4. CASE nack_r = NoSeqnum
    BY <1>1, <2>1, <2>2, <2>4
  <2>5. CASE nack_r # NoSeqnum
    <3> DEFINE w == WriteTo(ackCh, rerr, nackMsg, SenderUp)
    <3>1. w.q \in Seq(ControlMsgs \cup {nackMsg}) /\ w.err \in BOOLEAN
      BY <1>1, <2>1, WriteToType
    <3>2. /\ \A i \in DOMAIN w.q :
                \/ i \in DOMAIN ackCh /\ w.q[i] = ackCh[i]
                \/ SenderUp /\ w.q[i] = nackMsg
          /\ w.err => ~SenderUp
      <4> DEFINE S == ControlMsgs \cup {nackMsg}
      <4>1. ackCh \in Seq(S) /\ nackMsg \in S
        BY <2>1
      <4> HIDE DEF S
      <4>. QED BY <1>1, <2>1, <4>1, WriteToAdds
    <3>3. w1 = w
      BY <2>5
    <3> HIDE DEF w, w1
    <3>. QED BY <1>3, <2>3, <3>1, <3>2, <3>3
  <2>. QED BY <2>4, <2>5
<1> HIDE DEF w1
(* Then the ACK. *)
<1>7. /\ w2.err => SenderGone
      /\ \A i \in DOMAIN w2.q :
            \/ i \in DOMAIN ackCh /\ w2.q[i] = ackCh[i]
            \/ w2.q[i].type = "nack"
            \/ ~SenderGone /\ w2.q[i] = ackMsg
  <2> DEFINE S == ControlMsgs \cup {nackMsg, ackMsg}
  <2>1. w1.q \in Seq(S) /\ SenderUp \in BOOLEAN /\ ackMsg \in S
    BY <1>6 DEF SenderUp
  <2> HIDE DEF S
  <2>2. /\ \A i \in DOMAIN w2.q :
                \/ i \in DOMAIN w1.q /\ w2.q[i] = w1.q[i]
                \/ SenderUp /\ w2.q[i] = ackMsg
        /\ w2.err => ~SenderUp
    BY <1>6, <2>1, WriteToAdds
  <2> HIDE DEF w2
  <2>. QED BY <1>3, <1>6, <2>2
<1> HIDE DEF w2, nackMsg
<1>8. rerr' => SenderGone'
  BY <1>2, <1>3, <1>6, <1>7 DEF AckInv
<1>9. ASSUME NEW i \in DOMAIN ackCh', ackCh'[i].type = "ack"
      PROVE  AckDue(ackCh'[i].seq)
  <2>1. \A j \in DOMAIN ackCh : ackCh[j].type = "ack" => AckDue(ackCh[j].seq)
    BY DEF AckInv, AckIsAccepted, AckDue, Blocks
  <2>2. \/ i \in DOMAIN ackCh /\ ackCh'[i] = ackCh[i]
        \/ partial_ack # NoSeqnum /\ ~SenderGone /\ ackCh'[i] = ackMsg
    BY <1>2, <1>6, <1>7, <1>9
  <2>3. CASE partial_ack # NoSeqnum /\ ~SenderGone /\ ackCh'[i] = ackMsg
    <3>1. ackCh'[i].seq = partial_ack
      BY <2>3 DEF ControlMsg
    <3>. QED BY <2>3, <3>1 DEF AckInv
  <2>. QED BY <1>9, <2>1, <2>2, <2>3
<1>10. AckIsAccepted'
  <2>1. \A i \in DOMAIN ackCh' : ackCh'[i].type = "ack" =>
           \E id \in Blocks' : SeqnumOf(id + 1) = ackCh'[i].seq
    BY <1>4, <1>9 DEF AckDue
  <2>. QED BY <2>1 DEF AckIsAccepted, Blocks
<1>. QED BY <1>2, <1>3, <1>4, <1>8, <1>10 DEF AckInv

-----------------------------------------------------------------------------
(* Every step of the receiver keeps what is known of ACKs, and no block it *)
(* has accepted is forgotten.                                              *)
LEMMA ReceiverAccepts ==
    ASSUME ReceiverInv, AckInv, ReceiverStep, UNCHANGED sVars
    PROVE  AckInv' /\ Blocks \subseteq Blocks'
<1>0. /\ dataCh \in Seq(DataMsgs) /\ sstat' = sstat
      /\ SenderGone' = SenderGone
  BY DEF ReceiverInv, NetTypeOK, ReceiverStep, Bind, ReceiverStartFails,
         Accept, Receive, ReceiveError, PollError, ReceiverIdle, Answer,
         SenderGone
<1>1. ASSUME UNCHANGED <<ackCh, rerr, listPkt_r, partial_ack, out>>,
             sstat = "idle" => /\ dataCh' = <<>>
                               /\ rstat' \in {"unbound", "bound", "failed",
                                              "killed"}
      PROVE  AckInv' /\ Blocks \subseteq Blocks'
  <2>1. Blocks' = Blocks
    BY <1>1 DEF Blocks, Accepted
  <2>2. AckIsAccepted'
    BY <1>1 DEF AckInv, AckIsAccepted, Accepted
  <2> HIDE DEF Blocks
  <2>. QED BY <1>0, <1>1, <2>1, <2>2 DEF AckInv, AckDue
<1>2. CASE Bind \/ ReceiverStartFails \/ Accept
  BY <1>0, <1>1, <1>2
     DEF Bind, ReceiverStartFails, Accept, netVars, rVars, AckInv
<1>3. CASE PollError \/ ReceiverIdle
  BY <1>0, <1>1, <1>3 DEF PollError, ReceiverIdle, netVars, AckInv
<1>4. ASSUME NEW m \in DataMsgs \cup ControlMsgs,
             m \in DataMsgs \/ SenderGone, Handle(m),
             ackCh' = ackCh, rerr' => SenderGone, rstat = "open"
      PROVE  AckInv' /\ Blocks \subseteq Blocks'
  <2>1. /\ Blocks \subseteq Blocks'
        /\ \A id \in Blocks' : id < FileLen
        /\ partial_ack' # NoSeqnum => SenderGone' \/ AckDue(partial_ack)'
    BY <1>0, <1>4, HandleAccepts
  <2>2. sstat' # "idle"
    BY <1>0, <1>4 DEF AckInv
  <2>3. AckIsAccepted'
    <3>1. \A j \in DOMAIN ackCh : ackCh[j].type = "ack" =>
             \E id \in Blocks : SeqnumOf(id + 1) = ackCh[j].seq
      BY DEF AckInv, AckIsAccepted, Blocks
    <3>2. \A j \in DOMAIN ackCh' : ackCh'[j].type = "ack" =>
             \E id \in Blocks' : SeqnumOf(id + 1) = ackCh'[j].seq
      <4> HIDE DEF Blocks
      <4>. QED BY <1>4, <2>1, <3>1
    <3>. QED BY <3>2 DEF AckIsAccepted, Blocks
  <2>. QED BY <1>0, <1>4, <2>1, <2>2, <2>3 DEF AckInv
<1>5. CASE Receive
  <2>1. Head(dataCh) \in DataMsgs
    BY <1>0, <1>5, HeadTailProperties DEF Receive
  <2>2. Handle(Head(dataCh)) /\ UNCHANGED <<ackCh, rerr>> /\ rstat = "open"
    BY <1>5 DEF Receive
  <2>3. rerr => SenderGone
    BY DEF AckInv
  <2>. QED BY <1>4, <2>1, <2>2, <2>3
<1>6. CASE ReceiveError
  <2>1. /\ Handle(buffer) /\ ackCh' = ackCh /\ ~rerr' /\ rstat = "open"
        /\ rerr
    BY <1>6 DEF ReceiveError
  <2>2. SenderGone /\ buffer \in DataMsgs \cup ControlMsgs
    BY <2>1 DEF AckInv, ReceiverInv, BufferIsFilled
  <2>. QED BY <1>4, <2>1, <2>2
<1>7. CASE Answer
  BY <1>7, AnswerAccepts
<1>. QED BY <1>2, <1>3, <1>5, <1>6, <1>7 DEF ReceiverStep

(* Blocks are numbered. *)
LEMMA BlocksAreNaturals ==
    ASSUME ReceiverTypeOK
    PROVE  Blocks \subseteq Nat
<1>1. Range(out) \subseteq Nat
  BY DEF ReceiverTypeOK, Range
<1>2. \A i \in Window : listPkt_r[i].id \in Nat \cup {NoPayload}
  BY SizesAssumption
     DEF Window, ReceiverTypeOK, SlotValues, Empty, Junk, Item
<1>. QED BY <1>1, <1>2 DEF Blocks, Accepted

(* So it holds when the programs start. *)
LEMMA AckStarts == Init => AckInv
<1> SUFFICES ASSUME Init PROVE AckInv
  OBVIOUS
<1>1. /\ ackCh = <<>> /\ dataCh = <<>> /\ sstat = "idle"
      /\ rstat = "unbound" /\ rerr = FALSE /\ partial_ack = NoSeqnum
      /\ out = <<>>
      /\ \A i \in 0 .. RecvWin : listPkt_r[i] \in {Empty, Junk}
  BY DEF Init, NetInit, SenderInit, ReceiverInit
<1>2. Blocks = {}
  <2>1. \A i \in Window : listPkt_r[i].id = NoPayload
    BY <1>1, SizesAssumption DEF Window, Empty, Junk, Item
  <2>2. Range(out) = {}
    BY <1>1 DEF Range
  <2>. QED BY <2>1, <2>2 DEF Blocks, Accepted
<1>. QED BY <1>1, <1>2 DEF AckInv, AckIsAccepted

(* And it is kept by every step, which forgets no accepted block. *)
LEMMA AckStays ==
    ASSUME IInv, AckInv, [Next]_vars
    PROVE  AckInv' /\ Blocks \subseteq Blocks'
<1>0. NetTypeOK /\ ReceiverInv
  BY DEF IInv, SenderInv
<1>1. CASE SenderStep /\ UNCHANGED rVars
  <2>1. AckInv' /\ Blocks' = Blocks
    BY <1>0, <1>1, SenderOnlyReads, AcksKept
  <2>. QED BY <2>1
<1>2. CASE ReceiverStep /\ UNCHANGED sVars
  BY <1>0, <1>2, ReceiverAccepts
<1>3. CASE Link /\ UNCHANGED <<sstat, rstat, sVars, rVars>>
  <2>1. sstat' = "idle" =>
           sstat = "idle" /\ (dataCh' = dataCh \/ dataCh' = <<>>)
    BY <1>0, <1>3, LinkInventsNothing DEF AckInv
  <2>2. SenderGone => SenderGone'
    BY <1>3 DEF SenderGone
  <2>3. AckInv' /\ Blocks' = Blocks
    BY <1>0, <1>3, <2>1, <2>2, LinkInventsNothing, AcksKept
  <2>. QED BY <2>3
<1>4. CASE (Kill \/ UNCHANGED vars) /\ UNCHANGED <<sVars, rVars>>
  <2>1. /\ ackCh' = ackCh /\ (rstat' = rstat \/ rstat' = "killed")
        /\ sstat' = "idle" =>
              sstat = "idle" /\ (dataCh' = dataCh \/ dataCh' = <<>>)
        /\ SenderGone => SenderGone'
    BY <1>4 DEF Kill, KillSender, KillReceiver, SenderUp, SenderGone, vars,
                netVars
  <2>2. AckInv' /\ Blocks' = Blocks
    BY <1>4, <2>1, AcksKept
  <2>. QED BY <2>2
<1>5. UNCHANGED vars => UNCHANGED <<sVars, rVars>>
  BY DEF vars
<1>. QED BY <1>1, <1>2, <1>3, <1>4, <1>5 DEF Next, Terminated

(* What is known of the ACKs is known always. *)
LEMMA AckInvariance == Spec => []AckInv
<1>1. Init => AckInv
  BY AckStarts
<1>2. IInv /\ AckInv /\ [Next]_vars => AckInv'
  BY AckStays
<1>. QED BY <1>1, <1>2, Invariance, PTL DEF Spec

(***************************************************************************)
(* An ACK under way answers a packet the receiver has printed or holds,    *)
(* whatever was lost, repeated, cut, damaged or reordered, whichever       *)
(* program starts first or is killed, and also when the receiver has       *)
(* decoded its own answers or followed uninitialised memory before.        *)
(***************************************************************************)
THEOREM AcksAreAccepted == Spec => []AckIsAccepted
<1>1. AckInv => AckIsAccepted
  BY DEF AckInv
<1>. QED BY <1>1, AckInvariance, PTL

(***************************************************************************)
(* What the receiver has printed or holds it never forgets.                *)
(***************************************************************************)
THEOREM AcceptedIsKept == Spec => [][Blocks \subseteq Blocks']_vars
<1>1. IInv /\ AckInv /\ [Next]_vars => [Blocks \subseteq Blocks']_vars
  BY AckStays
<1>. QED BY <1>1, Invariance, AckInvariance, PTL DEF Spec

-----------------------------------------------------------------------------
(* The blocks of the file still fit the list when a whole window was shifted *)
(* out of it: 47 blocks of 488 bytes in the code.                            *)
FitsTheList == FileLen <= BufSize - RecvWin + 1

(***************************************************************************)
(* The shift of the sender's list keeps every packet the copy reaches: one *)
(* in slot i goes to slot i - s.                                           *)
(***************************************************************************)
LEMMA ShiftedKeeps ==
    ASSUME NEW list, NEW s \in 0 .. RecvWin, NEW i \in Slots,
           s <= i, i <= BufSize - s
    PROVE  i - s \in Slots /\ Shifted(list, s)[i - s] = list[i]
<1>1. PICK j \in Slots : j = i - s /\ j < BufSize - s /\ j + s = i
  BY SizesAssumption DEF Slots
<1>2. ~ (j >= BufSize - s) /\ j + s <= BufSize - s
  BY <1>1, SizesAssumption DEF Slots
<1>3. Shifted(list, s)[j] = list[j + s]
  BY <1>1, <1>2 DEF Shifted
<1>. QED BY <1>1, <1>3

(***************************************************************************)
(* An ACK takes from the list a packet with the seqnum of a block that is  *)
(* accepted; in a file shorter than a seqnum space it is that block.       *)
(***************************************************************************)
LEMMA AckReleases ==
    ASSUME FitsTheList, SenderInv, ReceiverTypeOK, AckInv, ReleaseInv, RecvAck,
           Blocks' = Blocks
    PROVE  ReleaseInv'
<1> DEFINE m == Head(ackCh)
           acked == AckedSeqnum(m.seq)
           place == find_buffer(acked, window)
           list == IF place = NULL THEN listPkt
                   ELSE [listPkt EXCEPT ![place] = NULL]
           s == LeadingNulls(list)
<1>0. /\ RecvWin \in Nat /\ BufSize \in Nat
      /\ SeqSpace \in Nat /\ FileLen \in Nat
      /\ RecvWin < BufSize /\ BufSize < SeqSpace /\ 0 < RecvWin
      /\ FileLen <= BufSize - RecvWin + 1
      /\ window \in 1 .. RecvWin
      /\ listPkt \in SenderLists
      /\ \A i \in RecvWin .. BufSize - 1 : listPkt[i] # NULL
      /\ ackCh \in Seq(ControlMsgs) /\ ackCh # <<>> /\ m.type = "ack"
  BY SizesAssumption
     DEF FitsTheList, SenderInv, SenderTypeOK, SenderLists, ScanStaysInList,
         NetTypeOK, RecvAck, SenderRead
<1>1. PICK id \in Blocks : SeqnumOf(id + 1) = m.seq
  <2>1. 1 \in DOMAIN ackCh /\ m = ackCh[1]
    BY <1>0
  <2>. QED BY <1>0, <2>1 DEF AckInv, AckIsAccepted, Blocks
<1>2. id \in Nat /\ id < FileLen /\ acked = SeqnumOf(id)
  <2>1. id \in Nat
    BY BlocksAreNaturals
  <2>. QED BY <1>1, <2>1, SeqnumOfNext DEF AckInv
<1> HIDE DEF m, acked, Blocks
<1>3. place = NULL \/ (/\ place \in Slots /\ place < RecvWin
                       /\ SeqnumOf(listPkt[place]) = acked
                       /\ listPkt[place] \in Nat)
  <2>1. window \in 0 .. BufSize
    BY <1>0
  <2>2. Matches(acked, window) \subseteq Nat
    BY <1>0 DEF Matches
  <2>3. place # NULL => place \in Matches(acked, window)
    BY <2>2, MinOfNaturals DEF find_buffer
  <2>4. Matches(acked, window) \subseteq Slots
    BY <1>0 DEF Matches, Slots
  <2> HIDE DEF place
  <2>. QED BY <1>0, <2>3, <2>4 DEF Matches, SenderLists, NULL
<1> HIDE DEF place
<1>4. ASSUME NEW k \in 0 .. FileLen - 1, place # NULL, listPkt[place] = k
      PROVE  k \in Blocks
  <2>1. SeqnumOf(k) = SeqnumOf(id) /\ k \in Nat /\ k < SeqSpace /\ id < SeqSpace
    BY <1>0, <1>2, <1>3, <1>4
  <2>2. ASSUME NEW x \in Nat, x < SeqSpace PROVE x % SeqSpace = x
    <3>1. /\ x = SeqSpace * 0 + x /\ x \in 0 .. SeqSpace - 1
          /\ SeqSpace \in Nat \ {0}
      BY <1>0, <2>2
    <3>. QED BY <3>1, ModOf
  <2>3. k = id
    BY <1>2, <2>1, <2>2 DEF SeqnumOf
  <2>. QED BY <1>1, <2>3
<1>5. /\ list \in SenderLists
      /\ \A i \in RecvWin .. BufSize - 1 : list[i] # NULL
      /\ \A i \in Slots :
            \/ list[i] = listPkt[i]
            \/ place # NULL /\ i = place /\ list[i] = NULL
  <2>1. CASE place = NULL
    BY <1>0, <2>1
  <2>2. CASE place # NULL
    <3>1. list = [listPkt EXCEPT ![place] = NULL]
      BY <2>2
    <3> HIDE DEF list
    <3>2. \A i \in RecvWin .. BufSize - 1 : i \in Slots /\ i # place
      BY <1>0, <1>3, <2>2 DEF Slots
    <3>. QED BY <1>0, <1>3, <2>2, <3>1, <3>2 DEF SenderLists
  <2>. QED BY <2>1, <2>2
<1>6. s \in 0 .. RecvWin /\ \A i \in Slots : list[i] # NULL => s <= i
  <2>0. RecvWin \in RecvWin .. BufSize - 1
    BY <1>0
  <2>1. s \in 0 .. RecvWin
    BY <1>5, <2>0, LeadingNullsBound
  <2>2. {i \in Slots : list[i] # NULL} \in SUBSET Nat
    BY <1>0 DEF Slots
  <2> HIDE DEF list
  <2>3. \A i \in Slots : list[i] # NULL => s <= i
    BY <2>2, MinOfNaturals DEF LeadingNulls
  <2>. QED BY <2>1, <2>3
<1>7. listPkt' = Shifted(list, s)
  BY DEF RecvAck, s, list, place, acked, m
<1> HIDE DEF list, s
<1>8. ASSUME NEW k \in 0 .. FileLen - 1, k \notin Blocks
      PROVE  \E i \in Slots : i <= k /\ listPkt'[i] = k
  <2>1. PICK i \in Slots : i <= k /\ listPkt[i] = k
    BY <1>8 DEF ReleaseInv
  <2>2. list[i] = k /\ list[i] # NULL
    BY <1>4, <1>5, <1>8, <2>1 DEF NULL
  <2>3. /\ i \in Nat /\ i < BufSize /\ s <= i /\ s \in Nat /\ s <= RecvWin
        /\ i <= BufSize - s /\ i - s <= k
    BY <1>0, <1>6, <2>1, <2>2 DEF Slots
  <2>4. i - s \in Slots /\ listPkt'[i - s] = k
    BY <1>6, <1>7, <2>2, <2>3, ShiftedKeeps
  <2>. QED BY <2>3, <2>4
<1>. QED BY <1>8 DEF ReleaseInv

(* At the start every block that fits is in the list, at its own number. *)
LEMMA ReleaseStarts == FitsTheList /\ Init => ReleaseInv
<1> SUFFICES ASSUME FitsTheList, Init, NEW id \in 0 .. FileLen - 1
             PROVE  \E i \in Slots : i <= id /\ listPkt[i] = id
  BY DEF ReleaseInv
<1>1. id \in Slots /\ id <= id
  BY SizesAssumption DEF FitsTheList, Slots
<1>. QED BY <1>1 DEF Init, SenderInit

(* Only an ACK takes a packet from the list. *)
LEMMA ReleaseStays ==
    ASSUME FitsTheList, IInv, AckInv, ReleaseInv, [Next]_vars
    PROVE  ReleaseInv'
<1>1. Blocks \subseteq Blocks'
  BY AckStays
<1>2. CASE RecvAck /\ UNCHANGED rVars
  <2>1. Blocks' = Blocks
    BY <1>2 DEF rVars, Blocks, Accepted
  <2>. QED BY <1>2, <2>1, AckReleases DEF IInv, ReceiverInv
<1>3. CASE listPkt' = listPkt
  <2> HIDE DEF Blocks
  <2>. QED BY <1>1, <1>3 DEF ReleaseInv
<1>4. (RecvAck /\ UNCHANGED rVars) \/ listPkt' = listPkt
  BY DEF Next, SenderStep, SenderStart, SenderStartFails, RecvNack,
         RecvCorrupted, SenderIdle, SenderError, ResendNacked, StartBurst,
         SendNext, EndBurst, NoTimeout, Retransmit, Timeout, Terminated,
         sVars, vars
<1>. QED BY <1>2, <1>3, <1>4

(***************************************************************************)
(* The sender's list gives up a block of the file only when the receiver   *)
(* has accepted it, whatever the path does and whatever is killed, as long *)
(* as the file fits the list: the blocks the faulty copy of                *)
(* clear_and_fill_buffer drops are then past the end of the file.          *)
(***************************************************************************)
THEOREM ReleasedWhenAccepted ==
    ASSUME FitsTheList
    PROVE  Spec => []ReleasedIsAccepted
<1>1. Init => ReleaseInv
  BY ReleaseStarts
<1>2. IInv /\ AckInv /\ ReleaseInv /\ [Next]_vars => ReleaseInv'
  BY ReleaseStays
<1>3. IInv /\ ReleaseInv => ReleasedIsAccepted
  <2> SUFFICES ASSUME IInv, ReleaseInv, NEW id \in 0 .. seqnum - 1,
                      ~IsEof(id), id \notin Range(listPkt)
               PROVE  id \in Accepted
    BY DEF ReleasedIsAccepted
  <2>1. seqnum \in Nat /\ DOMAIN listPkt = Slots
    BY DEF IInv, SenderInv, SenderTypeOK
  <2>2. id \in 0 .. FileLen - 1
    BY <2>1, SizesAssumption DEF IsEof
  <2>3. \A i \in Slots : listPkt[i] # id
    BY <2>1 DEF Range
  <2>. QED BY <2>2, <2>3 DEF ReleaseInv, Blocks
<1>. QED BY <1>1, <1>2, <1>3, Invariance, AckInvariance, PTL DEF Spec
=============================================================================
