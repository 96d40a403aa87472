--------------------------- MODULE ReliableProofs ---------------------------
(***************************************************************************)
(* A transfer over a path that loses nothing: what the sender, the two     *)
(* queues and the receiver hold is known exactly, for every file and all   *)
(* sizes, however the two loops interleave, and whichever program is       *)
(* killed when.  From this follow that neither program crashes, that the   *)
(* window is respected, that what is printed is the beginning of the file, *)
(* and that a transfer is the abstract FileTransfer.                       *)
(***************************************************************************)
EXTENDS TrtpProofs

(***************************************************************************)
(* Nothing happens to the datagrams, no timer runs out before its time,    *)
(* poll always finds the sockets writable, and the programs start as they  *)
(* should.  Either of them may be killed.                                  *)
(***************************************************************************)
Calm ==
    /\ Faults \subseteq {"killSender", "killReceiver"}
    /\ ReceiverFirst
    /\ FreshHeap

-----------------------------------------------------------------------------
(* How many packets were acked, and how many were sent. *)
Acked == seqnum - BufSize
Sent == IF nextseqnum >= base THEN Acked + (nextseqnum - base)
        ELSE Acked + (SeqSpace - base)

(* Everything the window allows was sent; a seqnum space is never entered  *)
(* before every packet of the one before is acked.                         *)
WindowIsFull ==
    nextseqnum = IF base + window >= SeqSpace THEN 0 ELSE base + window

(***************************************************************************)
(* The sender: its list starts at the first packet that is not acked, what *)
(* it has sent is at most a window more, and it waits for an ACK only when *)
(* it has sent a window.                                                   *)
(***************************************************************************)
SenderExact ==
    /\ seqnum \in Nat /\ Acked \in Nat
    /\ listPkt = [i \in Slots |-> Acked + i]
    /\ freed = {}
    /\ base = SeqnumOf(Acked) /\ lastAck = base
    /\ window = IF Acked = 0 THEN 1 ELSE RecvWin
    /\ nack = NoNack
    /\ nextseqnum \in Nat
    /\ \/ base <= nextseqnum /\ nextseqnum <= base + window
          /\ base + window <= SeqSpace
       \/ nextseqnum = 0 /\ base + window >= SeqSpace
    /\ nextseqnum = SeqSpace => spc = "burst"
    /\ spc = "poll" => WindowIsFull \/ (Sent = 0 /\ buffer_update)
    /\ spc = "write" => WindowIsFull \/ buffer_update
    /\ spc = "timer" => WindowIsFull
    /\ sstat \in {"idle", "running", "closing", "done", "killed"}
    /\ sstat = "idle" => Sent = 0

(***************************************************************************)
(* The queues: what was sent last waits for the receiver; what was printed *)
(* and not yet acked waits for the sender, as an ACK.                      *)
(***************************************************************************)
QueuesExact ==
    /\ Len(dataCh) <= Sent
    /\ \A i \in 1 .. Len(dataCh) :
          dataCh[i] = DataMsg((Sent - Len(dataCh)) + (i - 1))
    /\ \A i \in 1 .. Len(ackCh) :
          ackCh[i] = ControlMsg("ack", SeqnumOf(Acked + i), RecvWin)
    /\ Acked + Len(ackCh) <= Len(out)
    /\ sstat \in {"idle", "running"} => Acked + Len(ackCh) = Len(out)
    /\ Len(out) <= Sent /\ Len(out) <= FileLen
    /\ \A i \in 1 .. Len(out) : out[i] = i - 1

(* The receiver's list: empty, or with one packet in its first slot. *)
Nothing == [i \in 0 .. RecvWin |-> Empty]
Only(item) == [i \in 0 .. RecvWin |-> IF i = 0 THEN item ELSE Empty]

(* The sender was killed and the receiver, told so by an error, is talking *)
(* to itself.                                                              *)
Alone == sstat = "killed" /\ ~Proxied

(***************************************************************************)
(* The receiver between two passes, with next the seqnum it expects; with  *)
(* a packet to print and to ack; about to leave; and gone.                 *)
(***************************************************************************)
Waiting(next) ==
    /\ rpc = "poll" /\ rstat \in {"unbound", "bound", "open"}
    /\ listPkt_r = Nothing /\ free_place = RecvWin
    /\ base_r = next % RecvWin
    /\ partial_ack = NoSeqnum
    /\ IF rerr THEN Alone /\ buffer = ControlMsg("ack", next, RecvWin)
       ELSE next = SeqnumOf(Len(out)) /\ Len(out) + Len(dataCh) = Sent

Holding(next, p, id) ==
    /\ rpc = "write" /\ rstat = "open" /\ ~rerr
    /\ listPkt_r = Only(Item(p, id)) /\ free_place = RecvWin - 1
    /\ base_r = next % RecvWin
    /\ partial_ack = AckFor(next)
    /\ IF id = NoPayload THEN Alone
       ELSE /\ id = Len(out) /\ next = SeqnumOf(id) /\ id < FileLen
            /\ Len(out) + 1 + Len(dataCh) = Sent

Leaving ==
    /\ rpc = "write" /\ rstat = "closing"
    /\ partial_ack = NoSeqnum
    /\ dataCh = <<>> /\ sstat = "killed"

Gone == rstat \in {"closed", "aborted", "killed"} /\ dataCh = <<>>

ReceiverExact ==
    /\ nack_r = NoSeqnum
    /\ \/ \E next \in Seqnums : Waiting(next)
       \/ \E next \in Seqnums, p \in Ptrs, id \in Nat \cup {NoPayload} :
             Holding(next, p, id)
       \/ Leaving
       \/ Gone
    /\ rstat = "unbound" => sstat = "idle"
    /\ rstat = "closed" => Len(out) = FileLen
    /\ rstat = "aborted" => sstat = "killed"
    /\ serr \/ sstat \in {"closing", "done"} => Gone /\ sstat # "idle"

CalmInv == TypeOK /\ SenderExact /\ QueuesExact /\ ReceiverExact

-----------------------------------------------------------------------------
(* The seqnums of packets less than a seqnum space apart differ. *)
LEMMA SeqnumsDiffer ==
    ASSUME NEW a \in Nat, NEW i \in 0 .. SeqSpace - 1,
           NEW k \in 0 .. SeqSpace - 1, SeqnumOf(a + i) = SeqnumOf(a + k)
    PROVE  i = k
<1> DEFINE r == a % SeqSpace
<1>0. SeqSpace \in Nat \ {0}
  BY SizesAssumption
<1>1. r \in 0 .. SeqSpace - 1
  BY <1>0, ModRange
<1>2. /\ SeqnumOf(a + i) = IF r + i < SeqSpace THEN r + i ELSE r + i - SeqSpace
      /\ SeqnumOf(a + k) = IF r + k < SeqSpace THEN r + k ELSE r + k - SeqSpace
  BY <1>0, ModPlus DEF SeqnumOf
<1> HIDE DEF r
<1>. QED BY <1>0, <1>1, <1>2

(* The sizes, and what the sender's variables are bounded by. *)
LEMMA SenderBounds ==
    ASSUME SenderExact
    PROVE  /\ RecvWin \in Nat /\ BufSize \in Nat /\ SeqSpace \in Nat
           /\ 0 < RecvWin /\ RecvWin < BufSize /\ BufSize < SeqSpace
           /\ seqnum \in Nat /\ Acked \in Nat /\ seqnum = Acked + BufSize
           /\ base \in 0 .. SeqSpace - 1 /\ lastAck = base
           /\ window \in 1 .. RecvWin
           /\ nextseqnum \in 0 .. SeqSpace
           /\ Sent \in Nat /\ Sent \in Acked .. Acked + window
           /\ WindowIsFull => Sent > Acked
<1>1. /\ RecvWin \in Nat /\ BufSize \in Nat /\ SeqSpace \in Nat \ {0}
      /\ 0 < RecvWin /\ RecvWin < BufSize /\ BufSize < SeqSpace
  BY SizesAssumption
<1>2. seqnum \in Nat /\ Acked \in Nat /\ seqnum = Acked + BufSize
  BY <1>1 DEF SenderExact, Acked
<1> HIDE DEF Acked
<1>3. base \in 0 .. SeqSpace - 1 /\ lastAck = base
  BY <1>1, <1>2, ModRange DEF SenderExact, SeqnumOf
<1>4. window \in 1 .. RecvWin /\ nextseqnum \in Nat
  BY <1>1 DEF SenderExact
<1>5. \/ base <= nextseqnum /\ nextseqnum <= base + window
         /\ base + window <= SeqSpace
      \/ nextseqnum = 0 /\ base + window >= SeqSpace
  BY DEF SenderExact
<1>. QED BY <1>1, <1>2, <1>3, <1>4, <1>5 DEF Sent, WindowIsFull

(* find_buffer finds a packet of the window at its place in the list. *)
LEMMA FindExact ==
    ASSUME SenderExact, NEW win \in 0 .. BufSize, NEW k \in 0 .. win - 1
    PROVE  /\ find_buffer(SeqnumOf(Acked + k), win) = k
           /\ SafeSearch(SeqnumOf(Acked + k), win)
           /\ k \in Slots /\ listPkt[k] = Acked + k
<1> DEFINE seq == SeqnumOf(Acked + k)
<1>0. /\ BufSize \in Nat /\ SeqSpace \in Nat /\ BufSize < SeqSpace
      /\ Acked \in Nat /\ k \in Nat /\ win \in Nat
  BY SenderBounds
<1>1. /\ listPkt = [i \in Slots |-> Acked + i]
      /\ freed = {}
  BY DEF SenderExact
<1>2. 0 .. win - 1 \subseteq Slots
  BY <1>0 DEF Slots
<1>3. \A i \in 0 .. win - 1 : listPkt[i] = Acked + i /\ listPkt[i] # NULL
  BY <1>0, <1>1, <1>2 DEF NULL
<1> HIDE DEF Acked
<1>4. \A i \in 0 .. win - 1 : SeqnumOf(listPkt[i]) = seq => i = k
  <2>1. 0 .. win - 1 \subseteq 0 .. SeqSpace - 1
    BY <1>0
  <2>. QED BY <1>0, <1>3, <2>1, SeqnumsDiffer
<1>5. Matches(seq, win) = {k}
  BY <1>3, <1>4 DEF Matches
<1> HIDE DEF seq
<1>6. Min({k}) = k
  BY <1>0, MinOfNaturals
<1>7. find_buffer(seq, win) = k
  BY <1>5, <1>6 DEF find_buffer
<1>8. SafeSearch(seq, win)
  BY <1>1 DEF SafeSearch
<1>. QED BY <1>2, <1>3, <1>7, <1>8 DEF seq

(***************************************************************************)
(* An ACK is the one of the first packet of the list: the list moves by    *)
(* one place, and the window may grow to its full size.                    *)
(***************************************************************************)
LEMMA AckExact ==
    ASSUME Calm, CalmInv, RecvAck
    PROVE  /\ SenderExact'
           /\ Sent' = Sent /\ Acked' = Acked + 1
           /\ UNCHANGED <<dataCh, sstat, rstat, serr>>
           /\ ackCh # <<>> /\ ackCh' = Tail(ackCh)
<1> DEFINE m == Head(ackCh)
           acked == AckedSeqnum(m.seq)
           place == find_buffer(acked, window)
           list == IF place = NULL THEN listPkt
                   ELSE [listPkt EXCEPT ![place] = NULL]
           s == LeadingNulls(list)
           gone == freed \cup (IF place = NULL THEN {} ELSE {listPkt[place]})
<1>1. SenderExact /\ QueuesExact /\ ackCh \in Seq(ControlMsgs)
  BY DEF CalmInv, TypeOK, NetTypeOK
<1>2. /\ RecvWin \in Nat /\ BufSize \in Nat /\ SeqSpace \in Nat
      /\ 0 < RecvWin /\ RecvWin < BufSize /\ BufSize < SeqSpace
      /\ seqnum \in Nat /\ Acked \in Nat /\ seqnum = Acked + BufSize
      /\ base \in 0 .. SeqSpace - 1 /\ lastAck = base
      /\ window \in 1 .. RecvWin
      /\ nextseqnum \in 0 .. SeqSpace
      /\ Sent \in Acked .. Acked + window
  BY <1>1, SenderBounds
<1>3. /\ ackCh # <<>> /\ Len(ackCh) \in Nat /\ Len(ackCh) > 0
      /\ m = ackCh[1] /\ spc = "poll" /\ sstat \in {"running", "closing"}
  BY <1>1 DEF RecvAck, SenderRead, SenderUp
<1>4. m = ControlMsg("ack", SeqnumOf(Acked + 1), RecvWin)
  BY <1>1, <1>3 DEF QueuesExact
<1>5. m.seq = SeqnumOf(Acked + 1) /\ m.win = RecvWin
  BY <1>4 DEF ControlMsg
<1> HIDE DEF m
<1>6. /\ acked = SeqnumOf(Acked)
      /\ m.seq = IF base + 1 = SeqSpace THEN 0 ELSE base + 1
  BY <1>1, <1>2, <1>5, SeqnumOfNext DEF SenderExact
<1> HIDE DEF acked, Acked
<1>7. /\ place = 0 /\ SafeSearch(acked, window)
      /\ 0 \in Slots /\ listPkt[0] = Acked
  <2>1. window \in 0 .. BufSize /\ 0 \in 0 .. window - 1 /\ Acked + 0 = Acked
    BY <1>2
  <2>2. acked = SeqnumOf(Acked + 0)
    BY <1>6, <2>1
  <2>. QED BY <1>1, <2>1, <2>2, FindExact
<1> HIDE DEF place
<1>8. list = [i \in Slots |-> IF i = 0 THEN NULL ELSE Acked + i]
  <2>1. listPkt = [i \in Slots |-> Acked + i]
    BY <1>1 DEF SenderExact
  <2>. QED BY <1>7, <2>1 DEF NULL
<1> HIDE DEF list
<1>9. s = 1
  <2> DEFINE S == {i \in Slots : list[i] # NULL}
  <2>1. \A i \in Slots : i \in Nat /\ (list[i] # NULL <=> i # 0)
    BY <1>2, <1>8 DEF NULL, Slots
  <2>2. S \in SUBSET Nat /\ 1 \in S /\ 0 \notin S
    BY <1>2, <2>1 DEF Slots
  <2>3. LeadingNulls(list) = Min(S)
    BY DEF LeadingNulls
  <2> HIDE DEF S
  <2>4. Min(S) \in S /\ Min(S) <= 1
    BY <2>2, MinOfNaturals
  <2>5. Min(S) \in Nat /\ Min(S) # 0
    BY <2>2, <2>4
  <2>. QED BY <2>3, <2>4, <2>5
<1> HIDE DEF s
<1>10. gone = {Acked}
  BY <1>1, <1>2, <1>7 DEF SenderExact, NULL
<1> HIDE DEF gone
<1>11. Shifted(list, 1) = [i \in Slots |-> (Acked + 1) + i]
  <2>1. ASSUME NEW i \in Slots
        PROVE  (IF i >= BufSize - 1 THEN seqnum + i - (BufSize - 1)
                ELSE IF i + 1 <= BufSize - 1 THEN list[i + 1]
                ELSE list[i]) = (Acked + 1) + i
    <3>1. i \in Nat /\ i <= BufSize - 1
      BY <1>2 DEF Slots
    <3>2. CASE i >= BufSize - 1
      BY <1>2, <3>1, <3>2
    <3>3. CASE ~ (i >= BufSize - 1)
      <4>1. i + 1 \in Slots /\ i + 1 # 0 /\ i + 1 <= BufSize - 1
        BY <1>2, <3>1, <3>3 DEF Slots
      <4>2. list[i + 1] = Acked + (i + 1)
        BY <1>8, <4>1
      <4>. QED BY <1>2, <3>1, <3>3, <4>1, <4>2
    <3>. QED BY <3>2, <3>3
  <2>. QED BY <2>1 DEF Shifted
<1>12. /\ base' = IF m.seq > lastAck \/ m.seq = 0 THEN m.seq ELSE base
       /\ listPkt' = [i \in Slots |-> (Acked + 1) + i]
       /\ freed' = gone \cap Range(listPkt')
       /\ seqnum' = seqnum + 1
       /\ window' = IF m.win > window THEN m.win ELSE window
       /\ lastAck' = m.seq
       /\ sstat' = IF SafeSearch(acked, window)
                         /\ SafeFront(listPkt', gone)
                   THEN sstat ELSE "ub"
       /\ ackCh' = Tail(ackCh)
       /\ UNCHANGED <<dataCh, rstat, serr, nextseqnum, nack>>
  BY <1>9, <1>11 DEF RecvAck, m, acked, place, list, s, gone
<1>13. spc' = "write" /\ buffer_update'
  <2>1. spc' = "write"
    BY DEF RecvAck, ThenWrite, Fault, Calm
  <2>2. buffer_update' = (buffer_update \/ s > 0)
    BY DEF RecvAck, m, acked, place, list, s
  <2>3. s > 0
    BY <1>9
  <2>4. buffer_update'
    BY <2>2, <2>3, Zenon
  <2>. QED BY <2>1, <2>4
<1>14. \A i \in Slots : listPkt'[i] \notin gone
  <2>1. \A i \in Slots : i \in Nat
    BY <1>2 DEF Slots
  <2>. QED BY <1>2, <1>10, <1>12, <2>1
<1>15. freed' = {}
  <2>1. \A x \in Range(listPkt') : x \notin gone
    BY <1>12, <1>14 DEF Range
  <2>. QED BY <1>12, <2>1
<1>16. Acked' = Acked + 1 /\ Acked' \in Nat /\ Acked' # 0
  BY <1>2, <1>12 DEF Acked
<1>17. window' = RecvWin
  BY <1>2, <1>5, <1>12
<1>18. sstat' = sstat
  <2>1. 0 .. window' - 1 \subseteq Slots
    BY <1>2, <1>17 DEF Slots
  <2>2. SafeFront(listPkt', gone)
    <3>1. 0 .. window - 1 \subseteq Slots
      BY <1>2 DEF Slots
    <3>. QED BY <1>14, <3>1 DEF SafeFront
  <2>. QED BY <1>7, <1>12, <2>2
<1>19. base' = SeqnumOf(Acked + 1) /\ lastAck' = base'
  BY <1>2, <1>5, <1>6, <1>12
<1>20. WindowIsFull /\ (Acked = 0 => window = 1)
  <2>1. Acked + Len(ackCh) <= Sent
    BY <1>1, <1>2, <1>3 DEF QueuesExact, TypeOK, CalmInv, ReceiverTypeOK
  <2>2. Sent # 0
    BY <1>2, <1>3, <2>1
  <2>. QED BY <1>1, <1>3, <2>2 DEF SenderExact
<1>21. base' = (IF base + 1 = SeqSpace THEN 0 ELSE base + 1)
  BY <1>2, <1>6, <1>12
<1>22. /\ \/ base' <= nextseqnum' /\ nextseqnum' <= base' + window'
             /\ base' + window' <= SeqSpace
          \/ nextseqnum' = 0 /\ base' + window' >= SeqSpace
       /\ nextseqnum' \in Nat /\ nextseqnum' # SeqSpace
  <2>1. nextseqnum' = IF base + window >= SeqSpace THEN 0 ELSE base + window
    BY <1>12, <1>20 DEF WindowIsFull
  <2>2. CASE Acked = 0
    <3>1. base = 0 /\ window = 1
      BY <1>1, <1>2, <1>20, <2>2, ModOf DEF SenderExact, SeqnumOf
    <3>. QED BY <1>2, <1>17, <1>21, <2>1, <3>1
  <2>3. CASE Acked # 0
    <3>1. window = RecvWin
      BY <1>1, <2>3 DEF SenderExact
    <3>. QED BY <1>2, <1>17, <1>21, <2>1, <3>1
  <2>. QED BY <2>2, <2>3
<1>23. Sent' = Sent
  BY <1>2, <1>12, <1>16, <1>20, <1>21 DEF Sent, WindowIsFull
<1>24. SenderExact'
  <2>1. /\ seqnum' \in Nat /\ Acked' \in Nat
        /\ listPkt' = [i \in Slots |-> Acked' + i]
        /\ base' = SeqnumOf(Acked') /\ lastAck' = base'
        /\ window' = IF Acked' = 0 THEN 1 ELSE RecvWin
    BY <1>2, <1>12, <1>16, <1>17, <1>19
  <2>2. nack' = NoNack
    BY <1>1, <1>12 DEF SenderExact
  <2>3. sstat' \in {"running", "closing"}
    BY <1>3, <1>18
  <2>. QED BY <1>13, <1>15, <1>22, <2>1, <2>2, <2>3 DEF SenderExact
<1>. QED BY <1>3, <1>12, <1>16, <1>18, <1>23, <1>24

-----------------------------------------------------------------------------
(* Nothing sent or received since, the queues are what they were. *)
LEMMA QueuesKept ==
    ASSUME QueuesExact, UNCHANGED <<dataCh, ackCh, out>>,
           Sent' = Sent, Acked' = Acked,
           sstat' \in {"idle", "running"} => sstat \in {"idle", "running"}
    PROVE  QueuesExact'
<1> HIDE DEF Sent, Acked
<1>. QED BY DEF QueuesExact

(* Nor is the receiver another, but the sender may run, stop or be killed. *)
LEMMA ReceiverKept ==
    ASSUME ReceiverExact, UNCHANGED <<rVars, rstat, dataCh>>,
           Sent' = Sent \/ Gone,
           sstat = "killed" => sstat' = "killed",
           rstat = "unbound" => sstat' = "idle",
           rstat = "aborted" => sstat' = "killed",
           serr' \/ sstat' \in {"closing", "done"} => Gone /\ sstat' # "idle"
    PROVE  ReceiverExact'
<1> HIDE DEF Sent
<1>1. UNCHANGED <<rpc, rerr, listPkt_r, base_r, free_place, partial_ack,
                  nack_r, buffer, out>>
  BY DEF rVars
<1>2. ASSUME NEW next \in Seqnums, Waiting(next) PROVE Waiting(next)' \/ Gone'
  BY <1>1, <1>2 DEF Waiting, Alone, Gone
<1>3. ASSUME NEW next \in Seqnums, NEW p \in Ptrs,
             NEW id \in Nat \cup {NoPayload}, Holding(next, p, id)
      PROVE  Holding(next, p, id)' \/ Gone'
  BY <1>1, <1>3 DEF Holding, Alone, Gone
<1>4. Leaving => Leaving'
  BY <1>1 DEF Leaving
<1>5. Gone => Gone'
  BY DEF Gone
<1>. QED BY <1>1, <1>2, <1>3, <1>4, <1>5 DEF ReceiverExact

(* The sender's view, when it has neither sent nor received anything. *)
LEMMA SenderKept ==
    ASSUME SenderExact, UNCHANGED sVars,
           sstat' \in {"idle", "running", "closing", "done", "killed"},
           sstat' = "idle" => sstat = "idle"
    PROVE  SenderExact' /\ Sent' = Sent /\ Acked' = Acked
<1>1. UNCHANGED <<spc, serr, listPkt, freed, seqnum, base, nextseqnum,
                  window, lastAck, nack, buffer_update>>
  BY DEF sVars
<1>2. Sent' = Sent /\ Acked' = Acked /\ WindowIsFull' = WindowIsFull
  BY <1>1 DEF Sent, Acked, WindowIsFull
<1> HIDE DEF Sent, Acked, WindowIsFull
<1>. QED BY <1>1, <1>2 DEF SenderExact

(* While the sender runs, somebody reads or the receiver is gone. *)
LEMMA ReceiverUpOrGone ==
    ASSUME ReceiverExact, SenderUp
    PROVE  /\ ReceiverUp \/ Gone
           /\ serr \/ sstat = "closing" => Gone
           /\ ReceiverUp => sstat = "running" /\ ~ serr
BY DEF ReceiverExact, SenderUp, ReceiverUp, Waiting, Holding, Leaving, Gone

(* Sending from the list: the packet after those sent is found in it. *)
LEMMA SendNextExact ==
    ASSUME Calm, CalmInv, SendNext
    PROVE  /\ SenderExact' /\ Sent' = Sent + 1 /\ Acked' = Acked
           /\ dataCh' = WriteTo(dataCh, serr, DataMsg(Sent), ReceiverUp).q
           /\ serr' = WriteTo(dataCh, serr, DataMsg(Sent), ReceiverUp).err
           /\ UNCHANGED <<ackCh, sstat, rstat>>
<1> DEFINE seq == nextseqnum % SeqSpace
           k == nextseqnum - base
<1>1. SenderExact
  BY DEF CalmInv
<1>2. /\ RecvWin \in Nat /\ BufSize \in Nat /\ SeqSpace \in Nat
      /\ 0 < RecvWin /\ RecvWin < BufSize /\ BufSize < SeqSpace
      /\ seqnum \in Nat /\ Acked \in Nat /\ seqnum = Acked + BufSize
      /\ base \in 0 .. SeqSpace - 1 /\ lastAck = base
      /\ window \in 1 .. RecvWin
      /\ nextseqnum \in 0 .. SeqSpace
  BY <1>1, SenderBounds
<1>3. /\ nextseqnum < base + window /\ (nextseqnum # 0 \/ lastAck = 0)
      /\ spc = "burst" /\ SenderUp
  BY DEF SendNext, RoomInWindow
<1>4. /\ base <= nextseqnum /\ base + window <= SeqSpace
      /\ nextseqnum < SeqSpace
  BY <1>1, <1>2, <1>3 DEF SenderExact
<1>5. k \in 0 .. BufSize - 1 /\ k \in 0 .. SeqSpace - 1 /\ nextseqnum = base + k
  BY <1>2, <1>3, <1>4
<1>6. Sent = Acked + k
  BY <1>4 DEF Sent
<1> HIDE DEF k, Acked
<1>7. seq = SeqnumOf(Acked + k)
  <2>1. base = Acked % SeqSpace
    BY <1>1 DEF SenderExact, SeqnumOf
  <2>2. (Acked + k) % SeqSpace = base + k
    <3>1. (Acked % SeqSpace) + k < SeqSpace
      BY <1>4, <1>5, <2>1
    <3>2. SeqSpace \in Nat \ {0}
      BY <1>2
    <3>3. (Acked + k) % SeqSpace =
             IF (Acked % SeqSpace) + k < SeqSpace
             THEN (Acked % SeqSpace) + k ELSE (Acked % SeqSpace) + k - SeqSpace
      BY <1>2, <1>5, <3>2, ModPlus
    <3>. QED BY <2>1, <3>1, <3>3
  <2>3. nextseqnum % SeqSpace = nextseqnum
    <3>1. nextseqnum = SeqSpace * 0 + nextseqnum
      BY <1>2
    <3>2. nextseqnum \in Nat /\ nextseqnum \in 0 .. SeqSpace - 1
      BY <1>2, <1>4
    <3>. QED BY <1>2, <3>1, <3>2, ModOf
  <2>. QED BY <1>5, <2>2, <2>3 DEF SeqnumOf
<1>8. /\ find_buffer(seq, BufSize) = k /\ SafeSearch(seq, BufSize)
      /\ listPkt[k] = Sent /\ k # NULL
  <2>1. BufSize \in 0 .. BufSize
    BY <1>2
  <2>. QED BY <1>1, <1>5, <1>6, <1>7, <2>1, FindExact DEF NULL
<1>9. SendPacket(seq)
  BY DEF SendNext
<1> HIDE DEF seq
<1>10. /\ dataCh' = WriteTo(dataCh, serr, DataMsg(Sent), ReceiverUp).q
       /\ serr' = WriteTo(dataCh, serr, DataMsg(Sent), ReceiverUp).err
       /\ sstat' = sstat
  BY <1>8, <1>9 DEF SendPacket
<1>11. /\ nextseqnum' = nextseqnum + 1
       /\ UNCHANGED <<ackCh, rstat, spc, listPkt, freed, seqnum, base,
                      window, lastAck, nack>>
  BY DEF SendNext
<1>12. Acked' = Acked
  BY <1>11 DEF Acked
<1>13. Sent' = Sent + 1
  BY <1>2, <1>4, <1>11, <1>12 DEF Sent
<1>14. SenderExact'
  <2>1. /\ base' <= nextseqnum' /\ nextseqnum' <= base' + window'
        /\ base' + window' <= SeqSpace /\ nextseqnum' \in Nat
    BY <1>2, <1>3, <1>4, <1>11
  <2>2. sstat' \in {"running", "closing"} /\ spc' = "burst"
    BY <1>3, <1>10, <1>11 DEF SenderUp
  <2>. QED BY <1>1, <1>11, <1>12, <2>1, <2>2 DEF SenderExact
<1>. QED BY <1>10, <1>11, <1>12, <1>13, <1>14

(* A burst that ends has filled the window. *)
LEMMA EndBurstExact ==
    ASSUME CalmInv, EndBurst
    PROVE  SenderExact' /\ Sent' = Sent /\ Acked' = Acked
<1>1. SenderExact
  BY DEF CalmInv
<1>2. /\ RecvWin \in Nat /\ BufSize \in Nat /\ SeqSpace \in Nat
      /\ 0 < RecvWin /\ RecvWin < BufSize /\ BufSize < SeqSpace
      /\ seqnum \in Nat /\ Acked \in Nat /\ seqnum = Acked + BufSize
      /\ base \in 0 .. SeqSpace - 1 /\ lastAck = base
      /\ window \in 1 .. RecvWin
      /\ nextseqnum \in 0 .. SeqSpace
  BY <1>1, SenderBounds
<1>3. /\ ~ (nextseqnum < base + window /\ (nextseqnum # 0 \/ lastAck = 0))
      /\ spc = "burst" /\ SenderUp
      /\ nextseqnum' = nextseqnum % SeqSpace
      /\ spc' = "timer"
      /\ UNCHANGED <<sstat, listPkt, freed, seqnum, base, window, lastAck,
                     nack, buffer_update>>
  BY DEF EndBurst, RoomInWindow
<1>4. nextseqnum' = IF nextseqnum = SeqSpace THEN 0 ELSE nextseqnum
  <2>1. CASE nextseqnum = SeqSpace
    <3>1. nextseqnum = SeqSpace * 1 + 0 /\ 0 \in 0 .. SeqSpace - 1
      BY <1>2, <2>1
    <3>2. nextseqnum % SeqSpace = 0
      BY <1>2, <3>1, ModOf
    <3>. QED BY <1>3, <2>1, <3>2
  <2>2. CASE nextseqnum # SeqSpace
    <3>1. nextseqnum = SeqSpace * 0 + nextseqnum
          /\ nextseqnum \in 0 .. SeqSpace - 1
      BY <1>2, <2>2
    <3>2. nextseqnum % SeqSpace = nextseqnum
      BY <1>2, <3>1, ModOf
    <3>. QED BY <1>3, <2>2, <3>2
  <2>. QED BY <2>1, <2>2
<1>5. Acked' = Acked
  BY <1>3 DEF Acked
<1> HIDE DEF Acked
<1>6. \/ nextseqnum = base + window /\ base + window <= SeqSpace
      \/ nextseqnum = 0 /\ base + window >= SeqSpace
  BY <1>1, <1>2, <1>3 DEF SenderExact
<1>7. nextseqnum' = IF base + window >= SeqSpace THEN 0 ELSE base + window
  BY <1>2, <1>4, <1>6
<1>8. WindowIsFull'
  BY <1>3, <1>7 DEF WindowIsFull
<1>9. Sent' = Sent
  BY <1>2, <1>3, <1>4, <1>5, <1>6 DEF Sent
<1>10. SenderExact'
  <2>1. /\ \/ base' <= nextseqnum' /\ nextseqnum' <= base' + window'
              /\ base' + window' <= SeqSpace
           \/ nextseqnum' = 0 /\ base' + window' >= SeqSpace
        /\ nextseqnum' \in Nat /\ nextseqnum' # SeqSpace
    BY <1>2, <1>3, <1>7
  <2>2. sstat' \in {"running", "closing"}
    BY <1>3 DEF SenderUp
  <2>. QED BY <1>1, <1>3, <1>5, <1>8, <2>1, <2>2 DEF SenderExact
<1>. QED BY <1>5, <1>9, <1>10

(* With the receiver up, the first packet of the list or the answer to it  *)
(* is on its way, so that its timer does not run out.                      *)
LEMMA HeadIsInFlight ==
    ASSUME CalmInv, SenderUp, spc = "timer", ReceiverUp
    PROVE  HeadInFlight
<1>1. /\ SenderExact /\ QueuesExact /\ ReceiverExact
      /\ dataCh \in Seq(DataMsgs) /\ ackCh \in Seq(ControlMsgs)
      /\ out \in Seq(Nat)
  BY DEF CalmInv, TypeOK, NetTypeOK, ReceiverTypeOK
<1>2. /\ Acked \in Nat /\ Sent \in Nat /\ Sent > Acked
      /\ Len(dataCh) \in Nat /\ Len(ackCh) \in Nat /\ Len(out) \in Nat
  BY <1>1, SenderBounds DEF SenderExact
<1>3. listPkt[0] = Acked
  <2>1. 0 \in Slots
    BY SizesAssumption DEF Slots
  <2>. QED BY <1>1, <1>2, <2>1 DEF SenderExact
<1>4. sstat = "running" /\ ~serr
  BY <1>1, ReceiverUpOrGone
<1> HIDE DEF Acked, Sent
<1>5. Acked + Len(ackCh) = Len(out)
  BY <1>1, <1>4 DEF QueuesExact
<1>6. CASE Len(ackCh) # 0
  <2>1. 1 \in 1 .. Len(ackCh) /\ 1 \in DOMAIN ackCh
    BY <1>1, <1>2, <1>6
  <2>2. ackCh[1].type = "ack" /\ ackCh[1].seq = SeqnumOf(Acked + 1)
    <3>1. ackCh[1] = ControlMsg("ack", SeqnumOf(Acked + 1), RecvWin)
      BY <1>1, <2>1 DEF QueuesExact
    <3>. QED BY <3>1 DEF ControlMsg
  <2>. QED BY <1>3, <2>1, <2>2 DEF HeadInFlight
<1>7. CASE Len(ackCh) = 0
  <2>1. Len(out) = Acked
    BY <1>2, <1>5, <1>7
  <2>2. ASSUME NEW next \in Seqnums, Waiting(next) PROVE HeadInFlight
    <3>1. Acked + Len(dataCh) = Sent
      BY <1>4, <2>1, <2>2 DEF Waiting, Alone
    <3>2. 1 \in 1 .. Len(dataCh) /\ 1 \in DOMAIN dataCh
      BY <1>1, <1>2, <3>1
    <3>3. dataCh[1] = DataMsg((Sent - Len(dataCh)) + (1 - 1))
      BY <1>1, <3>2 DEF QueuesExact
    <3>4. dataCh[1].id = Acked
      BY <1>2, <3>1, <3>3 DEF DataMsg
    <3>. QED BY <1>3, <3>2, <3>4 DEF HeadInFlight
  <2>3. ASSUME NEW next \in Seqnums, NEW p \in Ptrs,
               NEW id \in Nat \cup {NoPayload}, Holding(next, p, id)
        PROVE  HeadInFlight
    <3>1. partial_ack = AckFor(SeqnumOf(Acked))
      BY <1>4, <2>1, <2>3 DEF Holding, Alone
    <3>2. partial_ack = SeqnumOf(Acked + 1)
      BY <1>2, <3>1, SeqnumOfNext
    <3>. QED BY <1>3, <3>2 DEF HeadInFlight
  <2>. QED BY <1>1, <1>4, <2>2, <2>3
           DEF ReceiverExact, Leaving, Gone, ReceiverUp
<1>. QED BY <1>6, <1>7

(***************************************************************************)
(* One step per action of the sender.  Those the link or the start of the  *)
(* programs would have to go wrong for do not happen, nor does a timer run *)
(* out but when the receiver is gone.                                      *)
(***************************************************************************)
LEMMA SenderStaysExact ==
    ASSUME Calm, CalmInv, SenderStep, UNCHANGED rVars
    PROVE  SenderExact' /\ QueuesExact' /\ ReceiverExact'
<1>1. /\ SenderExact /\ QueuesExact /\ ReceiverExact
      /\ dataCh \in Seq(DataMsgs) /\ ackCh \in Seq(ControlMsgs)
      /\ out \in Seq(Nat)
      /\ Acked \in Nat /\ Sent \in Nat
      /\ Len(dataCh) \in Nat /\ Len(ackCh) \in Nat /\ Len(out) \in Nat
  <2>1. /\ SenderExact /\ QueuesExact /\ ReceiverExact
        /\ dataCh \in Seq(DataMsgs) /\ ackCh \in Seq(ControlMsgs)
        /\ out \in Seq(Nat)
    BY DEF CalmInv, TypeOK, NetTypeOK, ReceiverTypeOK
  <2>. QED BY <2>1, SenderBounds
<1>2. UNCHANGED <<rpc, rerr, listPkt_r, base_r, free_place, partial_ack,
                  nack_r, buffer, out>>
  BY DEF rVars
<1>3. ackCh # <<>> => Head(ackCh).type = "ack" /\ DecodesOk(Head(ackCh))
  <2>1. ASSUME ackCh # <<>>
        PROVE  Head(ackCh).type = "ack" /\ DecodesOk(Head(ackCh))
    <3>1. 1 \in 1 .. Len(ackCh) /\ Head(ackCh) = ackCh[1]
      BY <1>1, <2>1
    <3>2. ackCh[1] = ControlMsg("ack", SeqnumOf(Acked + 1), RecvWin)
      BY <1>1, <3>1 DEF QueuesExact
    <3>. QED BY <3>1, <3>2 DEF ControlMsg, DecodesOk
  <2>. QED BY <2>1
<1>4. CASE SenderStart /\ (ReceiverFirst => rstat # "unbound")
  <2>1. /\ sstat = "idle" /\ sstat' = "running" /\ rstat # "unbound"
        /\ UNCHANGED <<dataCh, ackCh, rstat, sVars, serr>>
    BY <1>4 DEF SenderStart, netVars, Calm, sVars
  <2>2. SenderExact' /\ Sent' = Sent /\ Acked' = Acked
    BY <1>1, <2>1, SenderKept
  <2>3. QueuesExact'
    BY <1>1, <1>2, <2>1, <2>2, QueuesKept
  <2>4. rstat # "aborted" /\ ~serr
    BY <1>1, <2>1 DEF ReceiverExact
  <2>5. ReceiverExact'
    BY <1>1, <2>1, <2>2, <2>4, ReceiverKept
  <2>. QED BY <2>2, <2>3, <2>5
<1>5. ~ SenderStartFails /\ ~ RecvNack /\ ~ RecvCorrupted /\ ~ ResendNacked
  <2>1. nack = NoNack
    BY <1>1 DEF SenderExact
  <2>. QED BY <1>3, <2>1
           DEF SenderStartFails, Fault, Calm, RecvNack, RecvCorrupted,
               SenderRead, ResendNacked, NackPending
<1>6. CASE RecvAck
  <2>1. /\ SenderExact' /\ Sent' = Sent /\ Acked' = Acked + 1
        /\ UNCHANGED <<dataCh, sstat, rstat, serr>>
        /\ ackCh # <<>> /\ ackCh' = Tail(ackCh)
    BY <1>6, AckExact
  <2> HIDE DEF Sent, Acked
  <2>2. /\ Len(ackCh') = Len(ackCh) - 1
        /\ \A i \in 1 .. Len(ackCh') : ackCh'[i] = ackCh[i + 1]
    BY <1>1, <2>1
  <2>3. ASSUME NEW i \in 1 .. Len(ackCh')
        PROVE  ackCh'[i] = ControlMsg("ack", SeqnumOf(Acked' + i), RecvWin)
    <3>1. i + 1 \in 1 .. Len(ackCh) /\ Acked' + i = Acked + (i + 1)
      BY <1>1, <2>1, <2>2
    <3>. QED BY <1>1, <2>2, <3>1 DEF QueuesExact
  <2>4. QueuesExact'
    BY <1>1, <1>2, <2>1, <2>2, <2>3 DEF QueuesExact
  <2>5. /\ rstat = "unbound" => sstat' = "idle"
        /\ rstat = "aborted" => sstat' = "killed"
        /\ serr' \/ sstat' \in {"closing", "done"} => Gone /\ sstat' # "idle"
    BY <1>1, <2>1 DEF ReceiverExact
  <2>6. ReceiverExact'
    BY <1>1, <2>1, <2>5, ReceiverKept
  <2>. QED BY <2>1, <2>4, <2>6
<1>7. ASSUME SenderUp, SenderExact', Sent' = Sent, Acked' = Acked,
             UNCHANGED <<dataCh, ackCh, rstat>>,
             sstat' \in {"running", "closing", "done"},
             sstat' = "running" => sstat = "running",
             serr' \/ sstat' \in {"closing", "done"} => Gone
      PROVE  QueuesExact' /\ ReceiverExact'
  <2>1. QueuesExact'
    BY <1>1, <1>2, <1>7, QueuesKept
  <2>2. rstat # "unbound" /\ rstat # "aborted" /\ sstat # "killed"
    BY <1>1, <1>7 DEF ReceiverExact, SenderUp
  <2>3. ReceiverExact'
    BY <1>1, <1>7, <2>2, ReceiverKept
  <2>. QED BY <2>1, <2>3
<1>8. CASE SenderIdle \/ SenderError \/ StartBurst \/ NoTimeout
  <2>1. /\ SenderUp
        /\ UNCHANGED <<dataCh, ackCh, rstat, serr, listPkt, freed, seqnum,
                       base, nextseqnum, window, lastAck, nack,
                       buffer_update>>
        /\ \/ spc = "poll" /\ spc' = spc
           \/ spc = "poll" /\ spc' = "write"
           \/ spc = "write" /\ buffer_update /\ spc' = "burst"
           \/ spc = "write" /\ ~buffer_update /\ spc' = "timer"
           \/ spc = "timer" /\ spc' = "poll"
        /\ \/ sstat' = sstat
           \/ sstat' \in {"closing", "done"} /\ (serr \/ sstat = "closing")
    BY <1>8 DEF SenderIdle, SenderError, StartBurst, NoTimeout, EndPass,
                netVars, SenderUp
  <2>2. Sent' = Sent /\ Acked' = Acked /\ (WindowIsFull <=> WindowIsFull')
    BY <2>1 DEF Sent, Acked, WindowIsFull
  <2>3. sstat' \in {"running", "closing", "done"}
        /\ (sstat' = "running" => sstat = "running")
    BY <2>1 DEF SenderUp
  <2>4. serr' \/ sstat' \in {"closing", "done"} => Gone
    BY <1>1, <2>1, ReceiverUpOrGone DEF SenderUp
  <2> HIDE DEF Sent, Acked, WindowIsFull
  <2>5. SenderExact'
    BY <1>1, <2>1, <2>2, <2>3 DEF SenderExact
  <2>. QED BY <1>7, <2>1, <2>2, <2>3, <2>4, <2>5
<1>9. CASE EndBurst
  <2>1. SenderExact' /\ Sent' = Sent /\ Acked' = Acked
    BY <1>9, EndBurstExact
  <2>2. /\ SenderUp
        /\ UNCHANGED <<dataCh, ackCh, rstat, serr, sstat>>
    BY <1>9 DEF EndBurst, netVars
  <2>3. serr' \/ sstat' \in {"closing", "done"} => Gone
    BY <1>1, <2>2, ReceiverUpOrGone DEF SenderUp
  <2> HIDE DEF Sent, Acked
  <2>. QED BY <1>7, <2>1, <2>2, <2>3 DEF SenderUp
<1>10. CASE SendNext
  <2>1. /\ SenderExact' /\ Sent' = Sent + 1 /\ Acked' = Acked
        /\ dataCh' = WriteTo(dataCh, serr, DataMsg(Sent), ReceiverUp).q
        /\ serr' = WriteTo(dataCh, serr, DataMsg(Sent), ReceiverUp).err
        /\ UNCHANGED <<ackCh, sstat, rstat>>
    BY <1>10, SendNextExact
  <2>2. SenderUp
    BY <1>10 DEF SendNext
  <2> HIDE DEF Sent, Acked
  <2>3. CASE ReceiverUp
    <3>1. sstat = "running" /\ ~ serr
      BY <1>1, <2>2, <2>3, ReceiverUpOrGone
    <3>2. dataCh' = Append(dataCh, DataMsg(Sent)) /\ ~ serr'
      BY <2>1, <2>3, <3>1 DEF WriteTo
    <3>3. /\ Len(dataCh') = Len(dataCh) + 1
          /\ \A i \in 1 .. Len(dataCh) : dataCh'[i] = dataCh[i]
          /\ dataCh'[Len(dataCh) + 1] = DataMsg(Sent)
      BY <1>1, <3>2
    <3>4. ASSUME NEW i \in 1 .. Len(dataCh')
          PROVE  dataCh'[i] = DataMsg((Sent' - Len(dataCh')) + (i - 1))
      <4>1. Sent' - Len(dataCh') = Sent - Len(dataCh)
        BY <1>1, <2>1, <3>3
      <4>2. CASE i = Len(dataCh) + 1
        <5>1. (Sent - Len(dataCh)) + (i - 1) = Sent
          BY <1>1, <4>2
        <5>. QED BY <3>3, <4>1, <4>2, <5>1
      <4>3. CASE i # Len(dataCh) + 1
        <5>1. i \in 1 .. Len(dataCh)
          BY <1>1, <3>3, <4>3
        <5>. QED BY <1>1, <3>3, <4>1, <5>1 DEF QueuesExact
      <4>. QED BY <4>2, <4>3
    <3>5. QueuesExact'
      <4>1. Len(dataCh') <= Sent' /\ Len(out') <= Sent'
        BY <1>1, <1>2, <2>1, <3>3 DEF QueuesExact
      <4>. QED BY <1>1, <1>2, <2>1, <3>4, <4>1 DEF QueuesExact
    <3>6. ASSUME NEW next \in Seqnums, Waiting(next) PROVE Waiting(next)'
      BY <1>1, <1>2, <2>1, <3>1, <3>3, <3>6 DEF Waiting, Alone
    <3>7. ASSUME NEW next \in Seqnums, NEW p \in Ptrs,
                 NEW id \in Nat \cup {NoPayload}, Holding(next, p, id)
          PROVE  Holding(next, p, id)'
      <4>1. id # NoPayload /\ Len(out) + 1 + Len(dataCh) = Sent
        BY <3>1, <3>7 DEF Holding, Alone
      <4>2. Len(out') + 1 + Len(dataCh') = Sent'
        BY <1>1, <1>2, <2>1, <3>3, <4>1
      <4>. QED BY <1>2, <2>1, <3>7, <4>1, <4>2 DEF Holding
    <3>8. ~ Leaving /\ ~ Gone
      BY <2>3, <3>1 DEF Leaving, Gone, ReceiverUp
    <3>. QED BY <1>1, <1>2, <2>1, <3>1, <3>2, <3>5, <3>6, <3>7, <3>8
             DEF ReceiverExact
  <2>4. CASE ~ ReceiverUp
    <3>1. Gone
      BY <1>1, <2>2, <2>4, ReceiverUpOrGone
    <3>2. dataCh' = dataCh
      BY <2>1, <2>4 DEF WriteTo
    <3>3. Len(dataCh) = 0
      BY <3>1 DEF Gone
    <3>4. QueuesExact'
      BY <1>1, <1>2, <2>1, <3>2, <3>3 DEF QueuesExact
    <3>5. rstat # "unbound" /\ rstat # "aborted" /\ sstat # "idle"
      BY <1>1, <2>2, <3>1 DEF ReceiverExact, SenderUp, Gone
    <3>6. ReceiverExact'
      BY <1>1, <2>1, <3>1, <3>2, <3>5, ReceiverKept
    <3>. QED BY <2>1, <3>4, <3>6
  <2>. QED BY <2>3, <2>4
<1>11. CASE Retransmit
  <2>1. /\ SenderUp /\ spc = "timer" /\ ~ HeadInFlight /\ ~ serr
    BY <1>11 DEF Retransmit, Timeout, Fault, Calm
  <2>2. ~ ReceiverUp
    BY <2>1, HeadIsInFlight
  <2>3. Gone
    BY <1>1, <2>1, <2>2, ReceiverUpOrGone
  <2>4. /\ UNCHANGED <<dataCh, ackCh, rstat, listPkt, freed, seqnum, base,
                       nextseqnum, window, lastAck, nack, buffer_update>>
        /\ spc' = "poll"
        /\ sstat' \in {sstat, "done"}
    BY <1>11, <2>1, <2>2 DEF Retransmit, Timeout, EndPass, WriteTo
  <2>5. Sent' = Sent /\ Acked' = Acked /\ (WindowIsFull <=> WindowIsFull')
    BY <2>4 DEF Sent, Acked, WindowIsFull
  <2>6. sstat' \in {"running", "closing", "done"}
        /\ (sstat' = "running" => sstat = "running")
    BY <2>1, <2>4 DEF SenderUp
  <2> HIDE DEF Sent, Acked, WindowIsFull
  <2>7. SenderExact'
    BY <1>1, <2>1, <2>4, <2>5, <2>6 DEF SenderExact
  <2>. QED BY <1>7, <2>1, <2>3, <2>4, <2>5, <2>6, <2>7
<1>. QED BY <1>4, <1>5, <1>6, <1>8, <1>9, <1>10, <1>11 DEF SenderStep

-----------------------------------------------------------------------------
(* A walk over no slot prints nothing. *)
LEMMA NoPayloads ==
    ASSUME NEW list
    PROVE  Payloads(list, 0) = <<>>
<1> DEFINE Step(f, i) == IF i = 0 THEN <<>>
                         ELSE IF list[i - 1].id = NoPayload THEN f[i - 1]
                         ELSE Append(f[i - 1], list[i - 1].id)
           h == CHOOSE f : f = [i \in 0 .. 0 |-> Step(f, i)]
           g == [i \in 0 .. 0 |-> <<>>]
<1>1. g = [i \in 0 .. 0 |-> Step(g, i)]
  OBVIOUS
<1>2. h = [i \in 0 .. 0 |-> Step(h, i)]
  BY <1>1
<1>3. Payloads(list, 0) = h[0]
  BY DEF Payloads
<1> HIDE DEF h
<1>. QED BY <1>2, <1>3

(* A walk over one slot prints its payload, if it has one. *)
LEMMA OnePayload ==
    ASSUME NEW list
    PROVE  Payloads(list, 1) = IF list[0].id = NoPayload THEN <<>>
                               ELSE <<list[0].id>>
<1> DEFINE Step(f, i) == IF i = 0 THEN <<>>
                         ELSE IF list[i - 1].id = NoPayload THEN f[i - 1]
                         ELSE Append(f[i - 1], list[i - 1].id)
           h == CHOOSE f : f = [i \in 0 .. 1 |-> Step(f, i)]
           one == IF list[0].id = NoPayload THEN <<>>
                  ELSE Append(<<>>, list[0].id)
           g == [i \in 0 .. 1 |-> IF i = 0 THEN <<>> ELSE one]
<1>0. one = IF list[0].id = NoPayload THEN <<>> ELSE <<list[0].id>>
  OBVIOUS
<1>1. g = [i \in 0 .. 1 |-> Step(g, i)]
  <2>1. ASSUME NEW i \in 0 .. 1 PROVE g[i] = Step(g, i)
    <3>1. g[0] = <<>> /\ g[1] = one
      OBVIOUS
    <3>2. i = 0 \/ (i = 1 /\ i - 1 = 0)
      OBVIOUS
    <3> HIDE DEF g
    <3>. QED BY <3>1, <3>2
  <2>. QED BY <2>1
<1>2. h = [i \in 0 .. 1 |-> Step(h, i)]
  <2> HIDE DEF g
  <2>. QED BY <1>1
<1>3. Payloads(list, 1) = h[1]
  BY DEF Payloads
<1> HIDE DEF h
<1>4. h[0] = <<>>
  BY <1>2
<1>5. h[1] = one
  <2>1. h[1] = Step(h, 1)
    <3> HIDE DEF Step
    <3>. QED BY <1>2
  <2>2. Step(h, 1) = IF list[0].id = NoPayload THEN h[0]
                     ELSE Append(h[0], list[0].id)
    OBVIOUS
  <2>. QED BY <1>4, <2>1, <2>2
<1>. QED BY <1>0, <1>3, <1>5

(* An empty list: nothing to print, all slots free for malloc's packet. *)
LEMMA NothingFacts ==
    ASSUME listPkt_r = Nothing
    PROVE  /\ FirstBlank(listPkt_r) = 0
           /\ SafeWalk(listPkt_r, 0)
           /\ listPkt_r[0] = Empty
           /\ NewPtr \in Ptrs
           /\ \A item : [listPkt_r EXCEPT ![0] = item] = Only(item)
<1>0. RecvWin \in Nat \ {0}
  BY SizesAssumption
<1>1. \A i \in 0 .. RecvWin : listPkt_r[i] = Empty
  BY DEF Nothing
<1>2. FirstBlank(listPkt_r) = 0
  <2> DEFINE S == {i \in 0 .. RecvWin : listPkt_r[i].id = NoPayload}
  <2>1. 0 \in S /\ S \in SUBSET Nat
    BY <1>0, <1>1 DEF Empty, Item
  <2> HIDE DEF S
  <2>2. Min(S) \in Nat /\ Min(S) <= 0
    BY <2>1, MinOfNaturals
  <2>3. Min(S) = 0
    BY <2>2
  <2>. QED BY <2>3 DEF FirstBlank, S
<1>3. SafeWalk(listPkt_r, 0)
  BY <1>0, <1>1 DEF SafeWalk, Empty, Junk, Item
<1>4. NewPtr \in Ptrs
  <2>1. 0 \in Ptrs
    BY <1>0 DEF Ptrs
  <2>2. \A i \in Window : listPkt_r[i].ptr # 0
    BY <1>0, <1>1 DEF Window, Empty, Item
  <2>. QED BY <2>1, <2>2 DEF NewPtr
<1>5. \A item : [listPkt_r EXCEPT ![0] = item] = Only(item)
  BY <1>0 DEF Nothing, Only
<1>. QED BY <1>0, <1>1, <1>2, <1>3, <1>4, <1>5

(* A list with one packet in its first slot: it is printed and freed. *)
LEMMA OnlyFacts ==
    ASSUME NEW p \in Ptrs, NEW id, listPkt_r = Only(Item(p, id))
    PROVE  /\ FirstEmpty(listPkt_r) = 1
           /\ \E i \in 0 .. RecvWin : listPkt_r[i] = Empty
           /\ SafeWalk(listPkt_r, 1)
           /\ SafeListing(listPkt_r, 1)
           /\ Cleared(listPkt_r, 1) = Nothing
           /\ Payloads(listPkt_r, 1) = IF id = NoPayload THEN <<>> ELSE <<id>>
<1>0. RecvWin \in Nat \ {0} /\ p \in Nat
  BY SizesAssumption DEF Ptrs
<1>1. /\ listPkt_r[0] = Item(p, id)
      /\ \A i \in 1 .. RecvWin : listPkt_r[i] = Empty
  BY <1>0 DEF Only
<1>2. Item(p, id) # Empty /\ Item(p, id) # Junk /\ Empty # Junk
      /\ Item(p, id).ptr = p /\ Empty.ptr # p /\ Item(p, id).id = id
  BY <1>0 DEF Item, Empty, Junk
<1>3. FirstEmpty(listPkt_r) = 1
  <2> DEFINE S == {i \in 0 .. RecvWin : listPkt_r[i] = Empty}
  <2>1. 1 \in S /\ 0 \notin S /\ S \in SUBSET Nat
    BY <1>0, <1>1, <1>2
  <2> HIDE DEF S
  <2>2. Min(S) \in S /\ Min(S) \in Nat /\ Min(S) <= 1
    BY <2>1, MinOfNaturals
  <2>3. Min(S) = 1
    BY <2>1, <2>2
  <2>. QED BY <2>3 DEF FirstEmpty, S
<1>4. SafeWalk(listPkt_r, 1)
  <2>1. ASSUME NEW i \in 0 .. 1, NEW j \in 0 .. i - 1
        PROVE  listPkt_r[j].ptr # listPkt_r[i].ptr
    <3>1. i = 1 /\ j = 0 /\ 1 \in 1 .. RecvWin
      BY <1>0
    <3>. QED BY <1>1, <1>2, <3>1
  <2>2. ASSUME NEW i \in 0 .. 1 PROVE listPkt_r[i] # Junk
    <3>1. i = 0 \/ i \in 1 .. RecvWin
      BY <1>0
    <3>. QED BY <1>1, <1>2, <3>1
  <2>. QED BY <2>1, <2>2 DEF SafeWalk
<1>5. Cleared(listPkt_r, 1) = Nothing
  <2>1. ASSUME NEW i \in 0 .. RecvWin
        PROVE  (IF i = RecvWin THEN listPkt_r[i]
                ELSE IF i + 1 < RecvWin THEN listPkt_r[i + 1]
                ELSE IF i < 1 THEN Empty
                ELSE listPkt_r[i]) = Empty
    <3>1. i = 0 \/ i \in 1 .. RecvWin
      BY <1>0
    <3>2. i + 1 < RecvWin => i + 1 \in 1 .. RecvWin
      BY <1>0
    <3>. QED BY <1>0, <1>1, <3>1, <3>2
  <2>. QED BY <2>1 DEF Cleared, Nothing
<1>6. SafeListing(listPkt_r, 1)
  <2>1. \A i \in Window : Cleared(listPkt_r, 1)[i] = Empty
    BY <1>0, <1>5 DEF Nothing, Window
  <2>2. \A j \in 0 .. 1 - 1 : j = 0
    OBVIOUS
  <2>. QED BY <1>1, <1>2, <2>1, <2>2 DEF SafeListing
<1>7. \E i \in 0 .. RecvWin : listPkt_r[i] = Empty
  BY <1>0, <1>1
<1>8. Payloads(listPkt_r, 1) = IF id = NoPayload THEN <<>> ELSE <<id>>
  BY <1>1, <1>2, OnePayload
<1>. QED BY <1>3, <1>4, <1>5, <1>6, <1>7, <1>8

(* The packet with the seqnum that is expected goes to the first slot. *)
LEMMA PlaceExact ==
    ASSUME NEW next \in Seqnums, NEW m, Place(m),
           listPkt_r = Nothing, base_r = next % RecvWin,
           next = IF m.type = "data" THEN SeqnumOf(m.id) ELSE m.seq
    PROVE  /\ listPkt_r' = Only(Item(NewPtr, IF m.type = "data" THEN m.id
                                             ELSE NoPayload))
           /\ free_place' = free_place - 1
           /\ base_r' = next % RecvWin
           /\ partial_ack' = AckFor(next)
           /\ UNCHANGED <<rstat, nack_r, out>>
<1> DEFINE b == IF next = 0 THEN 0 ELSE base_r
<1>0. RecvWin \in Nat \ {0} /\ next \in Nat /\ next \in Int
  BY SizesAssumption DEF Seqnums
<1>1. b = next % RecvWin
  <2>1. CASE next = 0
    <3>1. 0 = RecvWin * 0 + 0 /\ 0 \in 0 .. RecvWin - 1
      BY <1>0
    <3>2. 0 % RecvWin = 0
      BY <1>0, <3>1, ModOf
    <3>. QED BY <2>1, <3>2
  <2>2. CASE next # 0
    BY <2>2
  <2>. QED BY <2>1, <2>2
<1> HIDE DEF b
<1>2. next % RecvWin <= next /\ (next - (next % RecvWin)) % RecvWin = 0
      /\ next % RecvWin \in Nat
  <2>1. next % RecvWin \in 0 .. RecvWin - 1
    BY <1>0, ModRange
  <2>. QED BY <1>0, <2>1, ModOfMultiple
<1>3. ~ (next < b) /\ SlotOf(next, b) = 0
  BY <1>0, <1>1, <1>2 DEF SlotOf
<1>4. listPkt_r[0] = Empty
  BY NothingFacts
<1>5. /\ base_r' = b
      /\ listPkt_r' = [listPkt_r EXCEPT ![0] =
            Item(NewPtr, IF m.type = "data" THEN m.id ELSE NoPayload)]
      /\ free_place' = free_place - 1
      /\ partial_ack' = AckFor(next)
      /\ UNCHANGED <<rstat, nack_r, out>>
  BY <1>3, <1>4 DEF Place, b
<1>6. listPkt_r' = Only(Item(NewPtr, IF m.type = "data" THEN m.id
                                     ELSE NoPayload))
  BY <1>5, NothingFacts
<1>. QED BY <1>1, <1>5, <1>6

(* What is sent is unchanged when the sender's variables are. *)
LEMMA CountsKept ==
    ASSUME UNCHANGED sVars
    PROVE  /\ Sent' = Sent /\ Acked' = Acked
           /\ UNCHANGED <<serr, seqnum, base, nextseqnum>>
BY DEF sVars, Sent, Acked

(***************************************************************************)
(* A datagram is the packet the receiver waits for: the end of the file    *)
(* closes the transfer, any other goes to the first slot.                  *)
(***************************************************************************)
LEMMA ReceiveExact ==
    ASSUME Calm, CalmInv, Receive, UNCHANGED sVars
    PROVE  /\ QueuesExact' /\ ReceiverExact'
           /\ UNCHANGED <<sstat, out>>
           /\ rstat' = "closed" => Len(out) = FileLen
<1>1. /\ QueuesExact /\ ReceiverExact /\ dataCh \in Seq(DataMsgs)
      /\ out \in Seq(Nat) /\ Sent \in Nat /\ Acked \in Nat
      /\ Len(dataCh) \in Nat /\ Len(out) \in Nat
  <2>1. /\ SenderExact /\ QueuesExact /\ ReceiverExact
        /\ dataCh \in Seq(DataMsgs) /\ out \in Seq(Nat)
    BY DEF CalmInv, TypeOK, NetTypeOK, ReceiverTypeOK
  <2>. QED BY <2>1, SenderBounds
<1>2. Sent' = Sent /\ Acked' = Acked /\ serr' = serr
  BY CountsKept
<1> DEFINE m == Head(dataCh)
<1>id. PICK id \in Nat : id = Len(out)
  BY <1>1
<1>3. /\ rstat = "open" /\ rpc = "poll" /\ dataCh # <<>> /\ ~rerr
      /\ Handle(m)
      /\ dataCh' = IF rstat' = "closed" THEN <<>> ELSE Tail(dataCh)
      /\ rpc' = "write"
      /\ UNCHANGED <<ackCh, sstat, rerr>>
  BY DEF Receive, ThenAnswer, Fault, Calm
<1>4. PICK next \in Seqnums : Waiting(next)
  BY <1>1, <1>3 DEF ReceiverExact, Holding, Leaving, Gone
<1> HIDE DEF Sent, Acked
<1>5. /\ listPkt_r = Nothing /\ free_place = RecvWin
      /\ base_r = next % RecvWin
      /\ next = SeqnumOf(id) /\ id + Len(dataCh) = Sent
      /\ nack_r = NoSeqnum
  BY <1>1, <1>3, <1>4, <1>id DEF Waiting, ReceiverExact
<1>6. m = DataMsg(id) /\ id <= FileLen
  <2>1. 1 \in 1 .. Len(dataCh) /\ m = dataCh[1]
    BY <1>1, <1>3
  <2>2. dataCh[1] = DataMsg((Sent - Len(dataCh)) + (1 - 1))
    BY <1>1, <2>1 DEF QueuesExact
  <2>3. (Sent - Len(dataCh)) + (1 - 1) = id
    BY <1>1, <1>5
  <2>4. id <= FileLen
    BY <1>1, <1>id DEF QueuesExact
  <2>. QED BY <2>1, <2>2, <2>3, <2>4
<1>7. /\ Len(Tail(dataCh)) = Len(dataCh) - 1
      /\ \A i \in 1 .. Len(dataCh) - 1 : Tail(dataCh)[i] = dataCh[i + 1]
  BY <1>1, <1>3
<1> HIDE DEF m
<1>8. m.type = "data" /\ m.id = id /\ DecodesOk(m)
  BY <1>6 DEF DataMsg, DecodesOk
<1>9. /\ ~ Refuse(m)
      /\ rstat # "unbound" /\ sstat # "idle" /\ ~serr
      /\ sstat \notin {"closing", "done"}
  <2>1. ~ Refuse(m)
    BY <1>8 DEF Refuse
  <2>2. Sent # 0
    BY <1>1, <1>3, <1>5
  <2>3. sstat # "idle"
    BY <2>2 DEF CalmInv, SenderExact
  <2>4. rstat \notin {"closed", "aborted", "killed"}
    BY <1>3
  <2>. QED BY <1>1, <1>3, <2>1, <2>3, <2>4 DEF ReceiverExact, Gone
<1>10. CASE Close(m)
  <2>1. FirstBlank(listPkt_r) = 0 /\ SafeWalk(listPkt_r, 0)
    BY <1>5, NothingFacts
  <2>2. Payloads(listPkt_r, 0) = <<>>
    BY NoPayloads
  <2>3. rstat' = "closed" /\ out' = out /\ id >= FileLen
    <3>1. out \o <<>> = out
      BY <1>1
    <3>. QED BY <1>8, <1>10, <2>1, <2>2, <3>1 DEF Close, IsEof
  <2>4. nack_r' = NoSeqnum
    BY <1>5, <1>10 DEF Close
  <2>5. Len(out) = FileLen
    BY <1>1, <1>6, <1>id, <2>3, SizesAssumption
  <2>6. Gone' /\ Len(dataCh') = 0
    BY <1>3, <2>3 DEF Gone
  <2>7. QueuesExact'
    BY <1>1, <1>2, <1>3, <2>3, <2>6 DEF QueuesExact
  <2>8. ReceiverExact'
    BY <1>2, <1>3, <1>9, <2>3, <2>4, <2>5, <2>6 DEF ReceiverExact
  <2>. QED BY <1>3, <2>3, <2>5, <2>7, <2>8
<1>11. CASE Place(m)
  <2>1. /\ listPkt_r' = Only(Item(NewPtr, id))
        /\ free_place' = free_place - 1
        /\ base_r' = next % RecvWin
        /\ partial_ack' = AckFor(next)
        /\ UNCHANGED <<rstat, nack_r, out>>
    BY <1>5, <1>8, <1>11, PlaceExact
  <2>2. id < FileLen
    BY <1>6, <1>8, <1>11, <1>id, SizesAssumption DEF Place, IsEof
  <2>0. dataCh' = Tail(dataCh)
    BY <1>3, <2>1
  <2>3. Len(dataCh') = Len(dataCh) - 1
    BY <1>7, <2>0
  <2>4. QueuesExact'
    <3>1. Len(dataCh') <= Sent'
      BY <1>1, <1>2, <2>3 DEF QueuesExact
    <3>2. ASSUME NEW i \in 1 .. Len(dataCh')
          PROVE  dataCh'[i] = DataMsg((Sent' - Len(dataCh')) + (i - 1))
      <4>1. i + 1 \in 1 .. Len(dataCh) /\ i \in 1 .. Len(dataCh) - 1
        BY <1>1, <2>3
      <4>2. dataCh'[i] = DataMsg((Sent - Len(dataCh)) + ((i + 1) - 1))
        BY <1>1, <1>7, <2>0, <4>1 DEF QueuesExact
      <4>3. (Sent' - Len(dataCh')) + (i - 1)
               = (Sent - Len(dataCh)) + ((i + 1) - 1)
        BY <1>1, <1>2, <2>3
      <4>. QED BY <4>2, <4>3
    <3>. QED BY <1>1, <1>2, <1>3, <2>1, <3>1, <3>2 DEF QueuesExact
  <2>5. PICK p \in Ptrs : p = NewPtr
    BY <1>5, NothingFacts
  <2>6. Holding(next, p, id)'
    <3>1. id # NoPayload /\ id = Len(out')
      BY <1>id, <2>1 DEF NoPayload
    <3>2. Len(out') + 1 + Len(dataCh') = Sent'
      BY <1>1, <1>2, <1>5, <1>id, <2>1, <2>3
    <3>. QED BY <1>3, <1>5, <2>1, <2>2, <2>5, <3>1, <3>2 DEF Holding
  <2>7. ReceiverExact'
    <3>1. nack_r' = NoSeqnum /\ rstat' = "open"
      BY <1>3, <1>5, <2>1
    <3>. QED BY <1>2, <1>3, <1>9, <2>6, <3>1 DEF ReceiverExact
  <2>. QED BY <1>3, <2>1, <2>4, <2>7
<1>. QED BY <1>3, <1>9, <1>10, <1>11 DEF Handle

(***************************************************************************)
(* A receiver that is alone takes its own answer for a control packet, and *)
(* makes of it a packet without payload.                                   *)
(***************************************************************************)
LEMMA ReceiveErrorExact ==
    ASSUME Calm, CalmInv, ReceiveError, UNCHANGED sVars
    PROVE  /\ QueuesExact' /\ ReceiverExact'
           /\ UNCHANGED <<sstat, rstat, out>>
<1>1. QueuesExact /\ ReceiverExact
  BY DEF CalmInv
<1>2. Sent' = Sent /\ Acked' = Acked /\ serr' = serr
  BY CountsKept
<1>3. /\ rstat = "open" /\ rpc = "poll" /\ rerr
      /\ Handle(buffer)
      /\ rerr' = FALSE /\ rpc' = "write"
      /\ UNCHANGED <<dataCh, ackCh, sstat, buffer>>
  BY DEF ReceiveError, ThenAnswer, Fault, Calm
<1>4. PICK next \in Seqnums : Waiting(next)
  BY <1>1, <1>3 DEF ReceiverExact, Holding, Leaving, Gone
<1> HIDE DEF Sent, Acked
<1>5. /\ listPkt_r = Nothing /\ free_place = RecvWin
      /\ base_r = next % RecvWin
      /\ Alone /\ buffer = ControlMsg("ack", next, RecvWin)
      /\ nack_r = NoSeqnum
  BY <1>1, <1>3, <1>4 DEF Waiting, ReceiverExact
<1>6. buffer.type = "ack" /\ buffer.seq = next /\ DecodesOk(buffer)
  BY <1>5 DEF ControlMsg, DecodesOk
<1>7. Place(buffer)
  BY <1>3, <1>6 DEF Handle, Refuse, Close
<1>8. /\ listPkt_r' = Only(Item(NewPtr, NoPayload))
      /\ free_place' = free_place - 1
      /\ base_r' = next % RecvWin
      /\ partial_ack' = AckFor(next)
      /\ UNCHANGED <<rstat, nack_r, out>>
  BY <1>5, <1>6, <1>7, PlaceExact
<1>9. PICK p \in Ptrs : p = NewPtr
  BY <1>5, NothingFacts
<1>10. Holding(next, p, NoPayload)'
  BY <1>3, <1>5, <1>8, <1>9 DEF Holding, Alone
<1>11. QueuesExact'
  BY <1>1, <1>2, <1>3, <1>8, QueuesKept
<1>12. ReceiverExact'
  <2>1. rstat' = "open" /\ nack_r' = NoSeqnum
    BY <1>3, <1>5, <1>8
  <2>2. ~serr /\ sstat = "killed"
    BY <1>1, <1>3, <1>5 DEF ReceiverExact, Gone, Alone
  <2>. QED BY <1>2, <1>3, <1>10, <2>1, <2>2 DEF ReceiverExact
<1>. QED BY <1>3, <1>8, <1>11, <1>12

(***************************************************************************)
(* An answer: the packet of the first slot is printed, and acked if the    *)
(* sender is there to read it.  A receiver that is leaving answers         *)
(* nothing.                                                                *)
(***************************************************************************)
LEMMA AnswerExact ==
    ASSUME Calm, CalmInv, Answer, UNCHANGED sVars
    PROVE  /\ QueuesExact' /\ ReceiverExact' /\ sstat' = sstat
           /\ \/ out' = out
              \/ out' = Append(out, Len(out)) /\ Len(out) < FileLen
           /\ \/ rstat = "open" /\ rstat' = "open"
              \/ sstat = "killed" /\ rstat' = "aborted" /\ out' = out
<1>1. /\ QueuesExact /\ ReceiverExact /\ ackCh \in Seq(ControlMsgs)
      /\ out \in Seq(Nat) /\ Sent \in Nat /\ Acked \in Nat
      /\ Len(dataCh) \in Nat /\ Len(ackCh) \in Nat /\ Len(out) \in Nat
      /\ (sstat = "idle" => Sent = 0)
      /\ sstat \in {"idle", "running", "closing", "done", "killed"}
  <2>1. /\ SenderExact /\ QueuesExact /\ ReceiverExact
        /\ ackCh \in Seq(ControlMsgs) /\ out \in Seq(Nat)
        /\ dataCh \in Seq(DataMsgs)
    BY DEF CalmInv, TypeOK, NetTypeOK, ReceiverTypeOK
  <2>. QED BY <2>1, SenderBounds DEF SenderExact
<1>2. Sent' = Sent /\ Acked' = Acked /\ serr' = serr
  BY CountsKept
<1>3. /\ rstat \in {"open", "closing"} /\ rpc = "write" /\ rpc' = "poll"
      /\ nack_r' = NoSeqnum /\ partial_ack' = NoSeqnum
      /\ UNCHANGED <<dataCh, faults, sstat>>
      /\ nack_r = NoSeqnum
  BY <1>1 DEF Answer, ReceiverExact
<1> HIDE DEF Sent, Acked
<1>4. CASE Leaving
  <2>1. UNCHANGED <<ackCh, out>> /\ rstat' = "aborted"
    BY <1>3, <1>4 DEF Answer, Leaving
  <2>2. QueuesExact'
    BY <1>1, <1>2, <1>3, <2>1, QueuesKept
  <2>3. Gone' /\ sstat = "killed" /\ ~ Gone
    BY <1>3, <1>4, <2>1 DEF Gone, Leaving
  <2>4. ~serr
    BY <1>1, <2>3 DEF ReceiverExact
  <2>5. ReceiverExact'
    BY <1>2, <1>3, <2>1, <2>3, <2>4 DEF ReceiverExact
  <2>. QED BY <1>3, <2>1, <2>2, <2>3, <2>5
<1>5. ASSUME NEW next \in Seqnums, NEW p \in Ptrs,
             NEW id \in Nat \cup {NoPayload}, Holding(next, p, id)
      PROVE  /\ QueuesExact' /\ ReceiverExact'
             /\ \/ out' = out
                \/ out' = Append(out, Len(out)) /\ Len(out) < FileLen
             /\ rstat = "open" /\ rstat' = "open"
  <2> DEFINE msg == ControlMsg("ack", AckFor(next), RecvWin)
             w == WriteTo(ackCh, FALSE, msg, SenderUp)
  <2>1. /\ rstat = "open" /\ ~rerr /\ free_place = RecvWin - 1
        /\ listPkt_r = Only(Item(p, id))
        /\ base_r = next % RecvWin /\ partial_ack = AckFor(next)
    BY <1>5 DEF Holding
  <2>2. /\ RecvWin \in Nat \ {0} /\ SeqSpace \in Nat \ {0}
        /\ next \in Nat /\ next + 1 \in Nat /\ next < SeqSpace
    BY SizesAssumption DEF Seqnums
  <2>3. AckFor(next) \in Seqnums /\ AckFor(next) # NoSeqnum
    <3>1. AckFor(next) \in 0 .. SeqSpace - 1
      <4>1. next + 1 \in Int
        BY <2>2
      <4>. QED BY <2>2, <4>1, ModRange DEF AckFor
    <3>. QED BY <3>1 DEF Seqnums, NoSeqnum
  <2>4. /\ FirstEmpty(listPkt_r) = 1
        /\ \E i \in 0 .. RecvWin : listPkt_r[i] = Empty
        /\ SafeWalk(listPkt_r, 1)
        /\ SafeListing(listPkt_r, 1)
        /\ Cleared(listPkt_r, 1) = Nothing
        /\ Payloads(listPkt_r, 1) = IF id = NoPayload THEN <<>> ELSE <<id>>
    BY <2>1, OnlyFacts
  <2>5. (RecvWin - 1) + 1 = RecvWin
    BY <2>2
  <2>6. /\ ackCh' = w.q /\ rerr' = w.err
        /\ buffer' = msg
        /\ rstat' = rstat
        /\ listPkt_r' = Nothing
        /\ base_r' = IF partial_ack = 0 THEN 0 ELSE (base_r + 1) % RecvWin
        /\ free_place' = RecvWin
        /\ out' = out \o (IF id = NoPayload THEN <<>> ELSE <<id>>)
    <3>1. FirstEmpty(listPkt_r) = 1 /\ partial_ack # NoSeqnum
          /\ nack_r = NoSeqnum /\ rerr = FALSE
          /\ rstat # "closing" /\ free_place + 1 = RecvWin
      BY <1>1, <1>3, <2>1, <2>3, <2>4, <2>5
         DEF CalmInv, TypeOK, ReceiverTypeOK
    <3>. QED BY <2>1, <2>4, <3>1 DEF Answer
  <2>7. base_r' = AckFor(next) % RecvWin
    <3>1. AckFor(next) = IF next + 1 = SeqSpace THEN 0 ELSE next + 1
      <4>1. next % SeqSpace = next
        <5>1. next = SeqSpace * 0 + next /\ next \in 0 .. SeqSpace - 1
          BY <2>2
        <5>. QED BY <2>2, <5>1, ModOf
      <4>2. (next + 1) % SeqSpace =
               IF (next % SeqSpace) + 1 = SeqSpace THEN 0
               ELSE (next % SeqSpace) + 1
        BY <2>2, ModSucc
      <4>. QED BY <4>1, <4>2 DEF AckFor
    <3>2. CASE next + 1 = SeqSpace
      <4>1. 0 = RecvWin * 0 + 0 /\ 0 \in 0 .. RecvWin - 1
        BY <2>2
      <4>2. 0 % RecvWin = 0
        BY <2>2, <4>1, ModOf
      <4>. QED BY <2>1, <2>6, <3>1, <3>2, <4>2
    <3>3. CASE next + 1 # SeqSpace
      <4>1. AckFor(next) = next + 1 /\ AckFor(next) # 0
        BY <2>2, <3>1, <3>3
      <4>2. ((next % RecvWin) + 1) % RecvWin = (next + 1) % RecvWin
        BY <2>2, ModSucc
      <4>. QED BY <2>1, <2>6, <4>1, <4>2
    <3>. QED BY <3>2, <3>3
  <2> HIDE DEF msg
  <2>8. rpc' = "poll" /\ rstat' = "open" /\ partial_ack' = NoSeqnum
        /\ ~Gone /\ ~serr /\ sstat \notin {"closing", "done"}
    BY <1>1, <1>3, <2>1, <2>6 DEF ReceiverExact, Gone
  <2>9. CASE id = NoPayload
    <3>1. sstat = "killed" /\ ~Proxied
      BY <1>5, <2>9 DEF Holding, Alone
    <3>2. ackCh' = ackCh /\ rerr'
      BY <2>6, <3>1 DEF WriteTo, SenderUp
    <3>3. out' = out
      <4>1. out \o <<>> = out
        BY <1>1
      <4>. QED BY <2>6, <2>9, <4>1
    <3>4. Waiting(AckFor(next))'
      BY <1>3, <2>6, <2>7, <2>8, <3>1, <3>2 DEF Waiting, Alone, msg
    <3>5. QueuesExact'
      BY <1>1, <1>2, <1>3, <3>2, <3>3, QueuesKept
    <3>6. ReceiverExact'
      BY <1>2, <1>3, <2>3, <2>8, <3>1, <3>4 DEF ReceiverExact
    <3>. QED BY <2>1, <2>8, <3>3, <3>5, <3>6
  <2>10. CASE id # NoPayload
    <3>1. /\ id = Len(out) /\ next = SeqnumOf(id) /\ id < FileLen
          /\ Len(out) + 1 + Len(dataCh) = Sent
      BY <1>5, <2>10 DEF Holding
    <3>2. out' = Append(out, id)
      <4>1. \A x \in Nat : out \o <<x>> = Append(out, x)
        BY <1>1
      <4>. QED BY <2>6, <2>10, <4>1
    <3>3. AckFor(next) = SeqnumOf(Len(out) + 1)
      BY <1>1, <3>1, SeqnumOfNext
    <3>4. /\ Len(out') = Len(out) + 1
          /\ \A i \in 1 .. Len(out) : out'[i] = out[i]
          /\ out'[Len(out) + 1] = id
      BY <1>1, <3>1, <3>2
    <3>5. \A i \in 1 .. Len(out') : out'[i] = i - 1
      <4>1. ASSUME NEW i \in 1 .. Len(out') PROVE out'[i] = i - 1
        <5>1. CASE i = Len(out) + 1
          BY <1>1, <3>1, <3>4, <5>1
        <5>2. CASE i # Len(out) + 1
          <6>1. i \in 1 .. Len(out)
            BY <1>1, <3>4, <5>2
          <6>. QED BY <1>1, <3>4, <6>1 DEF QueuesExact
        <5>. QED BY <5>1, <5>2
      <4>. QED BY <4>1
    <3>6. /\ Len(out') <= Sent' /\ Len(out') <= FileLen
          /\ Len(out') + Len(dataCh') = Sent'
      BY <1>1, <1>2, <1>3, <3>1, <3>4, SizesAssumption
    <3>7. sstat # "idle"
      BY <1>1, <3>1
    <3>8. CASE SenderUp
      <4>1. /\ ackCh' = Append(ackCh, msg) /\ ~rerr' /\ sstat = "running"
        BY <2>6, <2>8, <3>8 DEF WriteTo, SenderUp
      <4>2. /\ Len(ackCh') = Len(ackCh) + 1
            /\ \A i \in 1 .. Len(ackCh) : ackCh'[i] = ackCh[i]
            /\ ackCh'[Len(ackCh) + 1] = msg
        BY <1>1, <4>1
      <4>3. Acked + Len(ackCh) = Len(out)
        BY <1>1, <4>1 DEF QueuesExact
      <4>4. ASSUME NEW i \in 1 .. Len(ackCh')
            PROVE  ackCh'[i] = ControlMsg("ack", SeqnumOf(Acked' + i), RecvWin)
        <5>1. CASE i = Len(ackCh) + 1
          <6>1. Acked' + i = Len(out) + 1
            BY <1>1, <1>2, <4>3, <5>1
          <6>. QED BY <3>3, <4>2, <5>1, <6>1 DEF msg
        <5>2. CASE i # Len(ackCh) + 1
          <6>1. i \in 1 .. Len(ackCh)
            BY <1>1, <4>2, <5>2
          <6>. QED BY <1>1, <1>2, <4>2, <6>1 DEF QueuesExact
        <5>. QED BY <5>1, <5>2
      <4>5. Acked' + Len(ackCh') = Len(out')
        BY <1>1, <1>2, <3>4, <4>2, <4>3
      <4>6. QueuesExact'
        <5>1. Acked' + Len(ackCh') <= Len(out')
          BY <1>1, <3>4, <4>5
        <5>. QED BY <1>1, <1>2, <1>3, <3>5, <3>6, <4>4, <4>5, <5>1
                 DEF QueuesExact
      <4>7. Waiting(AckFor(next))'
        BY <1>3, <2>6, <2>7, <2>8, <3>3, <3>4, <3>6, <4>1 DEF Waiting
      <4>8. ReceiverExact'
        BY <1>2, <1>3, <2>3, <2>8, <3>7, <4>7 DEF ReceiverExact
      <4>. QED BY <2>1, <2>8, <3>1, <3>2, <4>6, <4>8
    <3>9. CASE ~SenderUp
      <4>1. sstat = "killed"
        BY <1>1, <2>8, <3>7, <3>9 DEF SenderUp
      <4>2. ackCh' = ackCh /\ rerr' = ~Proxied
        BY <2>6, <3>9 DEF WriteTo
      <4>3. QueuesExact'
        <5>1. Acked' + Len(ackCh') <= Len(out')
          BY <1>1, <1>2, <3>4, <4>2 DEF QueuesExact
        <5>. QED BY <1>1, <1>2, <1>3, <3>5, <3>6, <4>1, <4>2, <5>1
                 DEF QueuesExact
      <4>4. Waiting(AckFor(next))'
        BY <1>3, <2>6, <2>7, <2>8, <3>3, <3>4, <3>6, <4>1, <4>2
           DEF Waiting, Alone, msg
      <4>5. ReceiverExact'
        BY <1>2, <1>3, <2>3, <2>8, <3>7, <4>4 DEF ReceiverExact
      <4>. QED BY <2>1, <2>8, <3>1, <3>2, <4>3, <4>5
    <3>. QED BY <3>8, <3>9
  <2>. QED BY <2>9, <2>10
<1>6. \/ Leaving
      \/ \E next \in Seqnums, p \in Ptrs, id \in Nat \cup {NoPayload} :
            Holding(next, p, id)
  BY <1>1, <1>3 DEF ReceiverExact, Waiting, Gone
<1>. QED BY <1>3, <1>4, <1>5, <1>6

(* One step per action of the receiver. *)
LEMMA ReceiverStaysExact ==
    ASSUME Calm, CalmInv, ReceiverStep, UNCHANGED sVars
    PROVE  QueuesExact' /\ ReceiverExact'
<1>1. QueuesExact /\ ReceiverExact
  BY DEF CalmInv
<1>2. Sent' = Sent /\ Acked' = Acked /\ serr' = serr
  BY CountsKept
<1> HIDE DEF Sent, Acked
<1>3. CASE Bind \/ Accept
  <2>1. /\ UNCHANGED <<dataCh, ackCh, sstat, rpc, rerr, listPkt_r, base_r,
                       free_place, partial_ack, nack_r, buffer, out>>
        /\ rstat \in {"unbound", "bound"} /\ rstat' \in {"bound", "open"}
    BY <1>3 DEF Bind, Accept, netVars, rVars
  <2>2. QueuesExact'
    BY <1>1, <1>2, <2>1, QueuesKept
  <2>3. PICK next \in Seqnums : Waiting(next)
    BY <1>1, <2>1 DEF ReceiverExact, Holding, Leaving, Gone
  <2>4. Waiting(next)'
    BY <1>2, <2>1, <2>3 DEF Waiting, Alone
  <2>5. ReceiverExact'
    BY <1>1, <1>2, <2>1, <2>4 DEF ReceiverExact, Gone
  <2>. QED BY <2>2, <2>5
<1>4. CASE Receive
  BY <1>4, ReceiveExact
<1>5. CASE ReceiveError
  BY <1>5, ReceiveErrorExact
<1>6. CASE PollError
  <2>1. /\ rstat = "open" /\ rpc = "poll" /\ dataCh = <<>> /\ rerr
        /\ rstat' = "closing" /\ rpc' = "write"
        /\ UNCHANGED <<dataCh, ackCh, sstat, partial_ack, nack_r, out>>
    BY <1>6 DEF PollError, netVars
  <2>2. PICK next \in Seqnums : Waiting(next)
    BY <1>1, <2>1 DEF ReceiverExact, Holding, Leaving, Gone
  <2>3. Leaving'
    BY <2>1, <2>2 DEF Leaving, Waiting, Alone
  <2>4. QueuesExact'
    BY <1>1, <1>2, <2>1, QueuesKept
  <2>5. ReceiverExact'
    BY <1>1, <1>2, <2>1, <2>3 DEF ReceiverExact, Gone
  <2>. QED BY <2>4, <2>5
<1>7. CASE Answer
  BY <1>7, AnswerExact
<1>8. ~ ReceiverStartFails /\ ~ ReceiverIdle
  <2>1. ~ ReceiverStartFails
    BY DEF ReceiverStartFails, Fault, Calm
  <2>2. ASSUME ReceiverIdle PROVE FALSE
    <3>1. /\ rstat = "open" /\ rpc = "poll"
          /\ partial_ack # NoSeqnum \/ nack_r # NoSeqnum
      BY <2>2 DEF ReceiverIdle
    <3>. QED BY <1>1, <3>1 DEF ReceiverExact, Waiting, Holding, Leaving, Gone
  <2>. QED BY <2>1, <2>2
<1>. QED BY <1>3, <1>4, <1>5, <1>6, <1>7, <1>8 DEF ReceiverStep

(* Killing a program leaves the other where it was. *)
LEMMA KillStaysExact ==
    ASSUME CalmInv, Kill, UNCHANGED <<sVars, rVars>>
    PROVE  SenderExact' /\ QueuesExact' /\ ReceiverExact'
<1>1. SenderExact /\ QueuesExact /\ ReceiverExact
  BY DEF CalmInv
<1>2. Sent' = Sent /\ Acked' = Acked /\ serr' = serr
  BY CountsKept
<1>3. Sent \in Nat
  BY <1>1, SenderBounds
<1>4. out' = out /\ nack_r' = nack_r
  BY DEF rVars
<1>5. CASE KillSender
  <2>1. /\ SenderUp /\ sstat' = "killed"
        /\ UNCHANGED <<dataCh, ackCh, rstat>>
    BY <1>5 DEF KillSender
  <2>2. SenderExact'
    BY <1>1, <2>1, SenderKept
  <2> HIDE DEF Sent, Acked
  <2>3. QueuesExact'
    BY <1>1, <1>2, <1>4, <2>1, QueuesKept
  <2>4. rstat # "unbound" /\ (serr => Gone)
    BY <1>1, <2>1 DEF ReceiverExact, SenderUp
  <2>5. ReceiverExact'
    BY <1>1, <1>2, <2>1, <2>4, ReceiverKept
  <2>. QED BY <2>2, <2>3, <2>5
<1>6. CASE KillReceiver
  <2>1. /\ ReceiverUp /\ rstat' = "killed" /\ dataCh' = <<>>
        /\ UNCHANGED <<ackCh, sstat>>
    BY <1>6 DEF KillReceiver
  <2>2. SenderExact'
    BY <1>1, <2>1, SenderKept DEF SenderExact
  <2> HIDE DEF Sent, Acked
  <2>3. Len(dataCh') = 0
    BY <2>1
  <2>4. QueuesExact'
    BY <1>1, <1>2, <1>3, <1>4, <2>1, <2>3 DEF QueuesExact
  <2>5. ReceiverExact'
    <3>1. Gone' /\ ~ Gone
      BY <2>1 DEF Gone, ReceiverUp
    <3>. QED BY <1>1, <1>2, <1>4, <2>1, <3>1 DEF ReceiverExact
  <2>. QED BY <2>2, <2>4, <2>5
<1>. QED BY <1>5, <1>6 DEF Kill

(* So the programs start. *)
LEMMA CalmStarts ==
    ASSUME Calm, Init
    PROVE  SenderExact /\ QueuesExact /\ ReceiverExact
<1>0. /\ RecvWin \in Nat \ {0} /\ BufSize \in Nat /\ SeqSpace \in Nat \ {0}
      /\ RecvWin < BufSize /\ BufSize < SeqSpace /\ FileLen \in Nat
  BY SizesAssumption
<1>1. /\ dataCh = <<>> /\ ackCh = <<>> /\ out = <<>>
      /\ Len(dataCh) = 0 /\ Len(ackCh) = 0 /\ Len(out) = 0
  BY DEF Init, NetInit, ReceiverInit
<1>2. /\ sstat = "idle" /\ spc = "poll" /\ serr = FALSE
      /\ listPkt = [i \in Slots |-> i] /\ freed = {}
      /\ seqnum = BufSize /\ base = 0 /\ nextseqnum = 0 /\ window = 1
      /\ lastAck = 0 /\ nack = NoNack /\ buffer_update = TRUE
  BY DEF Init, SenderInit
<1>3. Acked = 0 /\ Sent = 0
  BY <1>0, <1>2 DEF Acked, Sent
<1>4. 0 % SeqSpace = 0 /\ 0 % RecvWin = 0
  <2>1. 0 = SeqSpace * 0 + 0 /\ 0 \in 0 .. SeqSpace - 1
    BY <1>0
  <2>2. 0 = RecvWin * 0 + 0 /\ 0 \in 0 .. RecvWin - 1
    BY <1>0
  <2>. QED BY <1>0, <2>1, <2>2, ModOf
<1> HIDE DEF Acked, Sent
<1>5. SenderExact
  <2>1. listPkt = [i \in Slots |-> Acked + i]
    <3>1. \A i \in Slots : 0 + i = i
      BY <1>0 DEF Slots
    <3>. QED BY <1>2, <1>3, <3>1
  <2>2. base + window <= SeqSpace /\ nextseqnum # SeqSpace
    BY <1>0, <1>2
  <2>. QED BY <1>0, <1>2, <1>3, <1>4, <2>1, <2>2 DEF SenderExact, SeqnumOf
<1>6. QueuesExact
  BY <1>0, <1>1, <1>3 DEF QueuesExact
<1>7. ReceiverExact
  <2>1. /\ rstat = "unbound" /\ rpc = "poll" /\ rerr = FALSE
        /\ listPkt_r = Nothing
        /\ base_r = 0 /\ free_place = RecvWin
        /\ partial_ack = NoSeqnum /\ nack_r = NoSeqnum
    BY DEF Init, ReceiverInit, Calm, Nothing
  <2>2. 0 \in Seqnums /\ 0 = SeqnumOf(Len(out))
    BY <1>0, <1>1, <1>4 DEF Seqnums, SeqnumOf
  <2>3. Waiting(0)
    BY <1>1, <1>3, <1>4, <2>1, <2>2 DEF Waiting
  <2>. QED BY <1>2, <2>1, <2>2, <2>3 DEF ReceiverExact
<1>. QED BY <1>5, <1>6, <1>7

-----------------------------------------------------------------------------
(* Every step of a calm transfer keeps it exact. *)
LEMMA CalmStays ==
    ASSUME Calm, CalmInv, TypeOK', [Next]_vars
    PROVE  CalmInv'
<1>1. CASE SenderStep /\ UNCHANGED rVars
  BY <1>1, SenderStaysExact DEF CalmInv
<1>2. CASE ReceiverStep /\ UNCHANGED sVars
  <2>1. QueuesExact' /\ ReceiverExact'
    BY <1>2, ReceiverStaysExact
  <2>2. sstat' = sstat
    BY <1>2 DEF ReceiverStep, Bind, ReceiverStartFails, Accept, Receive,
                ReceiveError, PollError, ReceiverIdle, Answer
  <2>3. SenderExact'
    BY <1>2, <2>2, SenderKept DEF CalmInv, SenderExact
  <2>. QED BY <2>1, <2>3 DEF CalmInv
<1>3. ~ Link
  BY DEF Link, LoseData, LoseAck, CutData, CorruptData, CorruptAck, SwapData,
         SwapAck, Fault, Calm
<1>4. CASE Kill /\ UNCHANGED <<sVars, rVars>>
  BY <1>4, KillStaysExact DEF CalmInv
<1>5. CASE UNCHANGED vars
  <2>1. UNCHANGED <<dataCh, ackCh, sstat, rstat, sVars, rVars, out, serr>>
    BY <1>5 DEF vars, netVars, rVars, sVars
  <2>2. SenderExact' /\ Sent' = Sent /\ Acked' = Acked
    BY <2>1, SenderKept DEF CalmInv, SenderExact
  <2>3. QueuesExact'
    BY <2>1, <2>2, QueuesKept DEF CalmInv
  <2>4. ReceiverExact'
    BY <2>1, <2>2, ReceiverKept DEF CalmInv, ReceiverExact
  <2>. QED BY <2>2, <2>3, <2>4 DEF CalmInv
<1>. QED BY <1>1, <1>2, <1>3, <1>4, <1>5 DEF Next, Terminated

(* What is known of a calm transfer is known in all its states. *)
THEOREM CalmInvariance ==
    ASSUME Calm
    PROVE  Spec => []CalmInv
<1>1. Init /\ TypeOK => CalmInv
  BY CalmStarts DEF CalmInv
<1>2. CalmInv /\ TypeOK' /\ [Next]_vars => CalmInv'
  BY CalmStays
<1>. QED BY <1>1, <1>2, TypeCorrect, PTL DEF Spec


-----------------------------------------------------------------------------
(***************************************************************************)
(* Neither program reads, frees or follows memory that is no packet of its *)
(* list, whatever is killed and when: in particular the receiver that goes *)
(* on alone after its sender was killed, and answers its own answers.      *)
(***************************************************************************)
THEOREM CalmNeverCrashes ==
    ASSUME Calm
    PROVE  Spec => []NoUndefinedBehaviour
<1>1. CalmInv => NoUndefinedBehaviour
  BY DEF CalmInv, SenderExact, ReceiverExact, Waiting, Holding, Leaving,
         Gone, NoUndefinedBehaviour
<1>. QED BY <1>1, CalmInvariance, PTL

(***************************************************************************)
(* The sender's list holds, without a gap, the BufSize packets that follow *)
(* the last one acked: as no ACK is lost, every shift is by one slot, the  *)
(* only distance the copy of clear_and_fill_buffer gets right.             *)
(***************************************************************************)
THEOREM CalmKeepsTheList ==
    ASSUME Calm
    PROVE  Spec => []ListIsContiguous
<1>1. CalmInv => ListIsContiguous
  <2>1. SUFFICES ASSUME SenderExact, NEW i \in Slots
                 PROVE  listPkt[i] = (seqnum - BufSize) + i
    BY DEF CalmInv, ListIsContiguous
  <2>. QED BY <2>1 DEF SenderExact, Acked
<1>. QED BY <1>1, CalmInvariance, PTL

(***************************************************************************)
(* No packet is under way for which the receiver has no slot: the sender   *)
(* counts its window from the last ACK it read, and what was printed since *)
(* only leaves the receiver more room.                                     *)
(***************************************************************************)
THEOREM CalmNeverOverruns ==
    ASSUME Calm
    PROVE  Spec => []NoOverrun
<1>1. CalmInv => NoOverrun
  <2>1. SUFFICES ASSUME CalmInv, NEW i \in DOMAIN dataCh
                 PROVE  dataCh[i].id < Len(out) + RecvWin
    BY DEF NoOverrun
  <2>2. /\ SenderExact /\ QueuesExact
        /\ dataCh \in Seq(DataMsgs) /\ ackCh \in Seq(ControlMsgs)
        /\ out \in Seq(Nat)
    BY <2>1 DEF CalmInv, TypeOK, NetTypeOK, ReceiverTypeOK
  <2>3. /\ Len(dataCh) \in Nat /\ Len(ackCh) \in Nat /\ Len(out) \in Nat
        /\ i \in 1 .. Len(dataCh)
    BY <2>1, <2>2
  <2>4. /\ RecvWin \in Nat /\ Acked \in Nat
        /\ Sent \in Nat /\ Sent <= Acked + RecvWin
    BY <2>2, SenderBounds
  <2>5. dataCh[i] = DataMsg((Sent - Len(dataCh)) + (i - 1))
    BY <2>2, <2>3 DEF QueuesExact
  <2>6. Acked <= Len(out)
    <3>1. Acked + Len(ackCh) <= Len(out)
      BY <2>2 DEF QueuesExact
    <3> HIDE DEF Acked
    <3>. QED BY <2>3, <2>4, <3>1
  <2> HIDE DEF Acked, Sent
  <2>. QED BY <2>3, <2>4, <2>5, <2>6 DEF DataMsg
<1>. QED BY <1>1, CalmInvariance, PTL

(***************************************************************************)
(* What the receiver has printed is at all times the beginning of the      *)
(* file, and no more than the file.                                        *)
(***************************************************************************)
THEOREM CalmPrintsThePrefix ==
    ASSUME Calm
    PROVE  Spec => [](OutputIsPrefix /\ Len(out) <= FileLen)
<1>1. CalmInv => OutputIsPrefix /\ Len(out) <= FileLen
  <2>1. CalmInv => QueuesExact /\ DOMAIN out = 1 .. Len(out)
    BY DEF CalmInv, TypeOK, ReceiverTypeOK
  <2>. QED BY <2>1 DEF QueuesExact, OutputIsPrefix
<1>. QED BY <1>1, CalmInvariance, PTL

-----------------------------------------------------------------------------
(* A transfer starts as the abstract one. *)
LEMMA TransferStarts == Init => Transfer!Init
BY DEF Init, ReceiverInit, SenderInit, Transfer!Init

(* Printing nothing, or the block after those printed, is a delivery. *)
LEMMA NoBlocks ==
    ASSUME out \in Seq(Nat)
    PROVE  out \o Transfer!NextBlocks(0) = out
<1>1. Transfer!NextBlocks(0) = <<>>
  BY DEF Transfer!NextBlocks
<1>. QED BY <1>1

(* The block after those printed. *)
LEMMA OneBlock ==
    ASSUME out \in Seq(Nat)
    PROVE  out \o Transfer!NextBlocks(1) = Append(out, Len(out))
<1>0. Len(out) \in Nat
  OBVIOUS
<1> DEFINE b == Transfer!NextBlocks(1)
<1>1. b \in Seq(Nat) /\ Len(b) = 1 /\ b[1] = Len(out)
  <2>1. b = [i \in 1 .. 1 |-> Len(out) + i - 1]
    BY DEF Transfer!NextBlocks
  <2>2. \A i \in 1 .. 1 : Len(out) + i - 1 = Len(out)
    BY <1>0
  <2>3. b = [i \in 1 .. 1 |-> Len(out)]
    BY <2>1, <2>2
  <2> HIDE DEF b
  <2>. QED BY <1>0, <2>3
<1> HIDE DEF b
<1>2. b = <<Len(out)>>
  BY <1>0, <1>1
<1>3. out \o b = Append(out, Len(out))
  <2>1. \A x \in Nat : out \o <<x>> = Append(out, x)
    OBVIOUS
  <2>. QED BY <1>0, <1>2, <2>1
<1>. QED BY <1>3 DEF b

(***************************************************************************)
(* What a step of the receiver does to what is seen of it: it delivers a   *)
(* block, or ends after the last one, or neither.                          *)
(***************************************************************************)
LEMMA ReceiverDelivers ==
    ASSUME Calm, CalmInv, CalmInv', ReceiverStep, UNCHANGED sVars
    PROVE  /\ rstat \notin {"closed", "killed"} /\ rstat' # "killed"
           /\ sstat # "done" /\ sstat' = sstat
           /\ \/ out' = out
              \/ out' = Append(out, Len(out)) /\ Len(out) < FileLen
           /\ rstat' = "closed" => Len(out') = FileLen
<1>1. ReceiverExact /\ ReceiverExact'
  BY DEF CalmInv
<1>2. sstat' = sstat /\ rstat \in {"unbound", "bound", "open", "closing"}
  BY DEF ReceiverStep, Bind, ReceiverStartFails, Accept, Receive,
         ReceiveError, PollError, ReceiverIdle, Answer
<1>3. rstat' = "closed" => Len(out') = FileLen
  BY <1>1 DEF ReceiverExact
<1>4. sstat # "done"
  BY <1>1, <1>2 DEF ReceiverExact, Gone
<1>5. CASE Answer
  BY <1>2, <1>3, <1>4, <1>5, AnswerExact
<1>6. CASE ReceiveError
  BY <1>2, <1>3, <1>4, <1>6, ReceiveErrorExact
<1>7. CASE Receive
  <2>1. out' = out
    BY <1>7, ReceiveExact
  <2>2. rstat' # "killed"
    BY <1>2, <1>7 DEF Receive, Handle, Refuse, Close, Place
  <2>. QED BY <1>2, <1>3, <1>4, <2>1, <2>2
<1>8. CASE Bind \/ ReceiverStartFails \/ Accept \/ PollError \/ ReceiverIdle
  <2>1. out' = out /\ rstat' # "killed"
    BY <1>2, <1>8 DEF Bind, ReceiverStartFails, Accept, PollError,
                      ReceiverIdle, rVars
  <2>. QED BY <1>2, <1>3, <1>4, <2>1
<1>. QED BY <1>5, <1>6, <1>7, <1>8 DEF ReceiverStep

(***************************************************************************)
(* Every step is a step of the abstract transfer or nothing seen from      *)
(* outside: the sender returns only once the receiver has closed.          *)
(***************************************************************************)
LEMMA TransferSteps ==
    ASSUME Calm, CalmInv, CalmInv', [Next]_vars
    PROVE  [Transfer!Next]_(Transfer!vars)
<1>1. /\ out \in Seq(Nat) /\ Len(out) \in Nat /\ FileLen \in Nat
      /\ ReceiverExact /\ ReceiverExact' /\ Len(out) <= FileLen
  BY SizesAssumption
     DEF CalmInv, TypeOK, ReceiverTypeOK, QueuesExact
<1>2. CASE SenderStep /\ UNCHANGED rVars
  <2>1. rstat' = rstat /\ out' = out /\ sstat \in {"idle", "running", "closing"}
    BY <1>2 DEF SenderStep, SenderStart, SenderStartFails, RecvAck, RecvNack,
                RecvCorrupted, SenderIdle, SenderError, ResendNacked,
                StartBurst, SendNext, EndBurst, NoTimeout, Retransmit, Timeout,
                SenderRead, SenderUp, rVars
  <2>2. CASE sstat' = "done" /\ rstat # "killed"
    <3>1. rstat = "closed"
      BY <1>1, <2>1, <2>2 DEF ReceiverExact, Gone
    <3>2. Transfer!Return
      BY <2>1, <2>2, <3>1 DEF Transfer!Return
    <3>. QED BY <3>2 DEF Transfer!Next
  <2>3. CASE ~(sstat' = "done" /\ rstat # "killed")
    BY <2>1, <2>3 DEF Transfer!vars
  <2>. QED BY <2>2, <2>3
<1>3. CASE ReceiverStep /\ UNCHANGED sVars
  <2>1. /\ rstat \notin {"closed", "killed"} /\ rstat' # "killed"
        /\ sstat # "done" /\ sstat' = sstat
        /\ \/ out' = out
           \/ out' = Append(out, Len(out)) /\ Len(out) < FileLen
        /\ rstat' = "closed" => Len(out') = FileLen
    BY <1>3, ReceiverDelivers
  <2>2. \E n \in 0 .. FileLen - Len(out) :
           out' = out \o Transfer!NextBlocks(n)
    <3>1. CASE out' = out
      <4>1. 0 \in 0 .. FileLen - Len(out)
        BY <1>1
      <4>. QED BY <1>1, <3>1, <4>1, NoBlocks
    <3>2. CASE out' = Append(out, Len(out)) /\ Len(out) < FileLen
      <4>1. 1 \in 0 .. FileLen - Len(out)
        BY <1>1, <3>2
      <4>. QED BY <1>1, <3>2, <4>1, OneBlock
    <3>. QED BY <2>1, <3>1, <3>2
  <2>3. (rstat' = "closed") \in {FALSE, Len(out') = FileLen}
    BY <2>1
  <2>4. (sstat' = "done" /\ rstat' # "killed")
           = (sstat = "done" /\ rstat # "killed")
    BY <2>1
  <2>5. Transfer!Deliver
    BY <2>1, <2>2, <2>3, <2>4 DEF Transfer!Deliver
  <2>. QED BY <2>5 DEF Transfer!Next
<1>4. ~ Link
  BY DEF Link, LoseData, LoseAck, CutData, CorruptData, CorruptAck, SwapData,
         SwapAck, Fault, Calm
<1>5. CASE Kill /\ UNCHANGED <<sVars, rVars>>
  <2>1. /\ out' = out /\ (rstat' = "closed") = (rstat = "closed")
        /\ sstat # "done" /\ sstat' # "done"
    BY <1>1, <1>5 DEF Kill, KillSender, KillReceiver, SenderUp, ReceiverUp,
                      ReceiverExact, Gone, rVars
  <2>. QED BY <2>1 DEF Transfer!vars
<1>6. CASE UNCHANGED vars
  BY <1>6 DEF vars, rVars, Transfer!vars
<1>. QED BY <1>2, <1>3, <1>4, <1>5, <1>6 DEF Next, Terminated

(***************************************************************************)
(* A calm transfer implements the abstract FileTransfer: the file appears  *)
(* block by block, the receiver ends after the last one, the sender        *)
(* returns after the receiver has ended, whichever program is killed.      *)
(***************************************************************************)
THEOREM CalmIsAFileTransfer ==
    ASSUME Calm
    PROVE  Spec => ImplementsFileTransfer
<1>1. Init => Transfer!Init
  BY TransferStarts
<1>2. CalmInv /\ CalmInv' /\ [Next]_vars => [Transfer!Next]_(Transfer!vars)
  BY TransferSteps
<1>. QED BY <1>1, <1>2, CalmInvariance, PTL
         DEF Spec, ImplementsFileTransfer, Transfer!Spec
=============================================================================
