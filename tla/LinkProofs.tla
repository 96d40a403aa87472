----------------------------- MODULE LinkProofs -----------------------------
(***************************************************************************)
(* The link simulator for every delay and jitter, any number of packets in *)
(* any order from anybody, whatever call fails: a packet is in one place,  *)
(* none is forgotten, one connection is served, only the jitter changes    *)
(* the order, and a delay is missed by less than a second either way.      *)
(***************************************************************************)
EXTENDS LinkSim, NaturalLemmas, FiniteSetTheorems, SequenceTheorems, Functions

(* What lies in the queue, known by its packet. *)
SlotType == [ts : [sec : Nat, usec : Nat], dir : {FORWARD, REVERSE},
             pkt : Packets, read : Nat, wait : Nat]
IdOf(slot) == slot.pkt.id

Heap == INSTANCE HeapProofs WITH Items <- SlotType, cmp <- pkt_slot_cmp,
                                 address <- IdOf, e <- pkt_queue

-----------------------------------------------------------------------------
(* pkt_slot_cmp is an order, though dates are compared field by field. *)
LEMMA DatesAreOrdered ==
    \A a, b, c \in SlotType :
        /\ pkt_slot_cmp(a, b) => ~pkt_slot_cmp(b, a)
        /\ ~pkt_slot_cmp(a, b) /\ ~pkt_slot_cmp(b, c) => ~pkt_slot_cmp(a, c)
<1>1. \A a \in SlotType : a.ts.sec \in Nat /\ a.ts.usec \in Nat
  BY DEF SlotType
<1>. QED BY <1>1 DEF pkt_slot_cmp, timeval_cmp

(* The arrays a heap of delayed packets can be. *)
HeapOf(q, n) ==
    /\ q \in Heap!Arrays(n) /\ Heap!Ordered(n, q) /\ Heap!Distinct(n, q)
IsHeap(q) == \E n \in Nat : HeapOf(q, n)

(* Its size is the number of its packets. *)
LEMMA HeapSize ==
    ASSUME NEW q, NEW n \in Nat, HeapOf(q, n)
    PROVE  /\ Size(q) = n /\ DOMAIN q = 0 .. n - 1
           /\ \A i \in DOMAIN q : q[i] \in SlotType
           /\ \A i, j \in DOMAIN q : q[i].pkt.id = q[j].pkt.id => i = j
<1>1. DOMAIN q = 0 .. n - 1 /\ \A i \in 0 .. n - 1 : q[i] \in SlotType
  BY DEF HeapOf, Heap!Arrays
<1>2. Size(q) = n
  BY <1>1, FS_Interval DEF Size
<1>3. \A i, j \in 0 .. n - 1 : q[i].pkt.id = q[j].pkt.id => i = j
  BY DEF HeapOf, Heap!Distinct, IdOf
<1>. QED BY <1>1, <1>2, <1>3

(* The operators of min_queue.c, here and in the proofs about them. *)
LEMMA SameHeap ==
    /\ \A q : Size(q) = Heap!Size(q)
    /\ \A q, i : has_child(q, i) = Heap!has_child(q, i)
    /\ \A q, v : Ascent(q, v) = Heap!Ascent(q, v)
    /\ \A q : Descent(q) = Heap!Descent(q)
    /\ \A S : Min(S) = Heap!Min(S) /\ Max(S) = Heap!Max(S)
<1>1. ASSUME NEW q PROVE Size(q) = Heap!Size(q)
  BY DEF Size, Heap!Size, Cardinality, Heap!Cardinality
<1>2. ASSUME NEW q, NEW i PROVE has_child(q, i) = Heap!has_child(q, i)
  BY <1>1 DEF has_child, Heap!has_child, LCHILD, Heap!LCHILD, RCHILD,
              Heap!RCHILD
<1>3. ASSUME NEW q, NEW v PROVE Ascent(q, v) = Heap!Ascent(q, v)
  BY <1>1 DEF Ascent, Heap!Ascent, PARENT, Heap!PARENT
<1>4. ASSUME NEW q PROVE Descent(q) = Heap!Descent(q)
  BY <1>2 DEF Descent, Heap!Descent
<1>5. ASSUME NEW S PROVE Min(S) = Heap!Min(S) /\ Max(S) = Heap!Max(S)
  BY DEF Min, Heap!Min, Max, Heap!Max
<1>. QED BY <1>1, <1>2, <1>3, <1>4, <1>5

(* minq_push keeps a heap, and adds its packet. *)
LEMMA PushFact ==
    ASSUME NEW q, IsHeap(q), NEW v \in SlotType,
           \A s \in Range(q) : s.pkt.id # v.pkt.id
    PROVE  /\ IsHeap(minq_push(q, v))
           /\ Range(minq_push(q, v)) = Range(q) \cup {v}
<1>1. PICK n \in Nat : HeapOf(q, n)
  BY DEF IsHeap
<1>2. \A i \in 0 .. n - 1 : IdOf(q[i]) # IdOf(v)
  BY <1>1, HeapSize DEF Range, IdOf
<1>3. minq_push(q, v) = Heap!minq_push(q, v)
  BY SameHeap DEF minq_push, Heap!minq_push, PARENT, Heap!PARENT
<1>4. Heap!minq_push(q, v) \in Heap!Arrays(n + 1)
  BY <1>1, DatesAreOrdered, Heap!PushType DEF HeapOf
<1>5. Heap!Ordered(n + 1, Heap!minq_push(q, v))
  BY <1>1, DatesAreOrdered, Heap!PushKeepsOrder DEF HeapOf
<1>6. /\ Heap!Range(Heap!minq_push(q, v)) = Heap!Range(q) \cup {v}
      /\ Heap!Distinct(n + 1, Heap!minq_push(q, v))
  BY <1>1, <1>2, DatesAreOrdered, Heap!PushAdds DEF HeapOf
<1>7. HeapOf(minq_push(q, v), n + 1)
  BY <1>3, <1>4, <1>5, <1>6 DEF HeapOf
<1>8. Range(minq_push(q, v)) = Range(q) \cup {v}
  BY <1>3, <1>6 DEF Range, Heap!Range
<1>9. n + 1 \in Nat
  OBVIOUS
<1>. QED BY <1>7, <1>8, <1>9 DEF IsHeap

(* minq_pop keeps it, and takes a packet none is due before. *)
LEMMA PopFact ==
    ASSUME NEW q, IsHeap(q), ~minq_empty(q)
    PROVE  /\ minq_peek(q) \in Range(q)
           /\ \A s \in Range(q) : ~pkt_slot_cmp(minq_peek(q), s)
           /\ IsHeap(minq_pop(q))
           /\ Range(minq_pop(q)) = Range(q) \ {minq_peek(q)}
<1>1. PICK n \in Nat : HeapOf(q, n)
  BY DEF IsHeap
<1>2. n # 0 /\ n - 1 \in Nat /\ (n - 1) + 1 = n
  BY <1>1, HeapSize DEF minq_empty
<1>3. DOMAIN q = 0 .. n - 1 /\ 0 \in 0 .. n - 1
  BY <1>1, <1>2, HeapSize
<1>4. minq_pop(q) = Heap!minq_pop(q)
  <2> DEFINE m == Size(q) - 1
             f == [i \in 0 .. m - 1 |-> IF i = 0 THEN q[m] ELSE q[i]]
  <2>0. Size(q) = Heap!Size(q)
    BY SameHeap
  <2>1. minq_pop(q) =
            IF Size(q) <= 1 THEN EmptyQueue
            ELSE [i \in 0 .. m - 1 |->
                    IF i \notin Descent(f) THEN f[i]
                    ELSE IF i = Max(Descent(f)) THEN f[0]
                    ELSE f[has_child(f, i)]]
    BY DEF minq_pop
  <2>2. Heap!minq_pop(q) =
            IF Size(q) <= 1 THEN Heap!EmptyQueue
            ELSE [i \in 0 .. m - 1 |->
                    IF i \notin Heap!Descent(f) THEN f[i]
                    ELSE IF i = Heap!Max(Heap!Descent(f)) THEN f[0]
                    ELSE f[Heap!has_child(f, i)]]
    BY <2>0 DEF Heap!minq_pop
  <2>3. EmptyQueue = Heap!EmptyQueue
    BY DEF EmptyQueue, Heap!EmptyQueue
  <2> HIDE DEF m, f
  <2>4. /\ Descent(f) = Heap!Descent(f)
        /\ Max(Heap!Descent(f)) = Heap!Max(Heap!Descent(f))
        /\ \A i : has_child(f, i) = Heap!has_child(f, i)
    BY SameHeap
  <2>. QED BY <2>1, <2>2, <2>3, <2>4
<1>5. Heap!minq_pop(q) \in Heap!Arrays(n - 1)
  BY <1>1, <1>2, DatesAreOrdered, Heap!PopType DEF HeapOf
<1>6. Heap!Ordered(n - 1, Heap!minq_pop(q))
  BY <1>1, <1>2, DatesAreOrdered, Heap!PopKeepsOrder DEF HeapOf
<1>7. /\ Heap!Range(Heap!minq_pop(q)) = Heap!Range(q) \ {q[0]}
      /\ Heap!Distinct(n - 1, Heap!minq_pop(q))
  BY <1>1, <1>2, DatesAreOrdered, Heap!PopTakes DEF HeapOf
<1>8. \A j \in 0 .. n - 1 : ~pkt_slot_cmp(q[0], q[j])
  BY <1>1, <1>2, DatesAreOrdered, Heap!RootIsFirst DEF HeapOf
<1>. QED BY <1>2, <1>3, <1>4, <1>5, <1>6, <1>7, <1>8
         DEF IsHeap, HeapOf, Range, Heap!Range, minq_peek

-----------------------------------------------------------------------------
(* Dividing by a second keeps the order; equal seconds leave it to units. *)
LEMMA Seconds ==
    ASSUME NEW a \in Nat, NEW b \in Nat
    PROVE  /\ a \div PerSec \in Nat /\ a % PerSec \in 0 .. PerSec - 1
           /\ a = PerSec * (a \div PerSec) + (a % PerSec)
           /\ a >= b => a \div PerSec >= b \div PerSec
           /\ a >= b /\ a \div PerSec = b \div PerSec
                => a % PerSec >= b % PerSec
           /\ a > b /\ a \div PerSec = b \div PerSec
                => a % PerSec > b % PerSec
<1>0. PerSec \in Nat \ {0}
  BY LinkSimAssumption
<1> DEFINE qa == a \div PerSec
           qb == b \div PerSec
           ra == a % PerSec
           rb == b % PerSec
<1>1. /\ qa \in Nat /\ a = PerSec * qa + ra
      /\ qb \in Nat /\ b = PerSec * qb + rb
  BY <1>0, Division
<1>2. ra \in 0 .. PerSec - 1 /\ rb \in 0 .. PerSec - 1
  BY <1>0, ModRange
<1> HIDE DEF qa, qb, ra, rb
<1>3. a >= b => qa >= qb
  <2> SUFFICES ASSUME a >= b, qa < qb PROVE FALSE
    BY <1>1
  <2> DEFINE d == qb - qa
  <2>1. d \in Nat /\ d >= 1 /\ qb = qa + d
    BY <1>1
  <2> HIDE DEF d
  <2>2. PerSec * qb = PerSec * qa + PerSec * d
    BY <1>0, <1>1, <2>1
  <2>3. PerSec * d >= PerSec
    <3>1. d - 1 \in Nat /\ PerSec * (d - 1) \in Nat
      BY <1>0, <2>1
    <3>2. PerSec * d = PerSec * (d - 1) + PerSec
      BY <1>0, <2>1
    <3>. QED BY <1>0, <3>1, <3>2
  <2>4. PerSec * qa \in Nat /\ PerSec * d \in Nat /\ PerSec * qb \in Nat
    BY <1>0, <1>1, <2>1
  <2>. QED BY <1>0, <1>1, <1>2, <2>2, <2>3, <2>4
<1>4. PerSec * qa \in Nat /\ (qa = qb => PerSec * qa = PerSec * qb)
  BY <1>0, <1>1
<1>. QED BY <1>0, <1>1, <1>2, <1>3, <1>4 DEF qa, qb, ra, rb

(***************************************************************************)
(* A packet read later, and delayed no less, has the later expiration      *)
(* date, although the units of dates are not carried into seconds.         *)
(***************************************************************************)
LEMMA LaterReadLaterDue ==
    ASSUME NEW r1 \in Nat, NEW r2 \in Nat, r1 > r2,
           NEW w1 \in Nat, NEW w2 \in Nat, w1 >= w2
    PROVE  timeval_cmp(Expiration(r1, w1), Expiration(r2, w2))
<1>1. /\ r1 \div PerSec \in Nat /\ r2 \div PerSec \in Nat
      /\ w1 \div PerSec \in Nat /\ w2 \div PerSec \in Nat
      /\ r1 % PerSec \in Nat /\ r2 % PerSec \in Nat
      /\ w1 % PerSec \in Nat /\ w2 % PerSec \in Nat
  BY Seconds, LinkSimAssumption
<1>2. /\ r1 \div PerSec >= r2 \div PerSec
      /\ r1 \div PerSec = r2 \div PerSec => r1 % PerSec > r2 % PerSec
  BY Seconds
<1>3. /\ w1 \div PerSec >= w2 \div PerSec
      /\ w1 \div PerSec = w2 \div PerSec => w1 % PerSec >= w2 % PerSec
  BY Seconds
<1>. QED BY <1>1, <1>2, <1>3 DEF timeval_cmp, Expiration, Timeval

(* A date is past when its delay is, or will be in less than a second. *)
LEMMA DueWithinASecond ==
    ASSUME NEW now \in Nat, NEW r \in Nat, NEW w \in Nat,
           timeval_cmp(ToTimeval(now), Expiration(r, w))
    PROVE  now > r + w - PerSec
<1>0. PerSec \in Nat \ {0}
  BY LinkSimAssumption
<1> DEFINE qn == now \div PerSec
           qr == r \div PerSec
           qw == w \div PerSec
           mn == now % PerSec
           mr == r % PerSec
           mw == w % PerSec
<1>1. /\ qn \in Nat /\ mn \in 0 .. PerSec - 1 /\ now = PerSec * qn + mn
      /\ qr \in Nat /\ mr \in 0 .. PerSec - 1 /\ r = PerSec * qr + mr
      /\ qw \in Nat /\ mw \in 0 .. PerSec - 1 /\ w = PerSec * qw + mw
  BY Seconds
<1>2. \/ qn = qr + qw /\ mn > mr + mw
      \/ qn # qr + qw /\ qn > qr + qw
  BY DEF timeval_cmp, Expiration, ToTimeval, Timeval
<1> HIDE DEF qn, qr, qw, mn, mr, mw
<1>3. /\ PerSec * qn \in Nat /\ PerSec * qr \in Nat /\ PerSec * qw \in Nat
      /\ PerSec * (qr + qw) = PerSec * qr + PerSec * qw
  BY <1>0, <1>1
<1>4. CASE qn = qr + qw /\ mn > mr + mw
  BY <1>0, <1>1, <1>3, <1>4
<1>5. CASE qn > qr + qw
  <2> DEFINE d == qn - (qr + qw) - 1
  <2>1. d \in Nat /\ qn = (qr + qw) + d + 1
    BY <1>1, <1>5
  <2> HIDE DEF d
  <2>2. /\ PerSec * qn = PerSec * (qr + qw) + PerSec * d + PerSec
        /\ PerSec * d \in Nat
    BY <1>0, <1>1, <2>1
  <2>. QED BY <1>0, <1>1, <1>3, <2>2
<1>. QED BY <1>2, <1>4, <1>5

(* The delays that can be applied are naturals. *)
LEMMA DelaysAreNaturals == AppliedDelays \subseteq Nat
<1> SUFFICES ASSUME NEW x \in AppliedDelays PROVE x \in Nat
  OBVIOUS
<1>0. PerSec \in Nat \ {0} /\ delay \in Nat /\ jitter \in Nat
  BY LinkSimAssumption
<1>1. PICK d \in Int : x = d % (10 * PerSec)
  BY <1>0 DEF AppliedDelays
<1> DEFINE b == 10 * PerSec
<1>2. b \in Nat \ {0}
  BY <1>0
<1> HIDE DEF b
<1>3. d % b \in 0 .. b - 1
  BY <1>2, ModRange
<1>4. d % b \in Nat
  BY <1>2, <1>3
<1>. QED BY <1>1, <1>4 DEF b

-----------------------------------------------------------------------------
(***************************************************************************)
(* The inductive invariant.  What is queued and what is written, in terms  *)
(* of a queue q and a sequence w of packets written out, because one pass  *)
(* of the loop takes many steps from one to the other.                     *)
(***************************************************************************)
Writings == [id : Nat, from : {Sender, Dest, Alien},
             to : {Sender, Dest, Alien}, at : Nat, read : Nat, wait : Nat]

(* Whom a packet of this direction is written to. *)
Target(dir, src) == IF dir = FORWARD THEN Dest ELSE src

(* A packet in the queue was read, and is delayed in its direction. *)
Queued(s, src, now) ==
    /\ s.dir \in link_direction /\ delay # 0
    /\ s.ts = Expiration(s.read, s.wait)
    /\ s.read <= now
    /\ src # Nobody
    /\ s.dir = FORWARD => s.pkt.from = src

(* One written went from or to the connection's source, and in time. *)
Written(p, src, now) ==
    /\ p.read <= now
    /\ p.at > p.read + p.wait - PerSec
    /\ src # Nobody
    /\ IF p.to = Dest THEN p.from = src ELSE p.to = src

(* Written before one read at that time, for that delay. *)
MayPrecede(p, read, wait, to) ==
    p.read > read /\ p.to = to => p.wait < wait

Ids(q) == {q[i].pkt.id : i \in DOMAIN q}
IdsOut(w) == {w[i].id : i \in DOMAIN w}

Carried(q, w, src, now) ==
    /\ IsHeap(q)
    /\ w \in Seq(Writings)
    /\ \A s \in Range(q) : Queued(s, src, now)
    /\ \A i \in DOMAIN w : Written(w[i], src, now)
    /\ \A i \in DOMAIN w, s \in Range(q) :
          /\ w[i].id # s.pkt.id
          /\ MayPrecede(w[i], s.read, s.wait, Target(s.dir, src))
    /\ \A i, j \in DOMAIN w :
          i < j => /\ w[i].id # w[j].id
                   /\ MayPrecede(w[i], w[j].read, w[j].wait, w[j].to)

(* The ids in the queue, by its packets. *)
LEMMA IdsAre ==
    ASSUME NEW q
    PROVE  Ids(q) = {s.pkt.id : s \in Range(q)}
BY DEF Ids, Range

(* The elements of a sequence with one more at its end. *)
LEMMA OneMore ==
    ASSUME NEW S, NEW w \in Seq(S), NEW p \in S
    PROVE  /\ Append(w, p) \in Seq(S)
           /\ Len(w) \in Nat /\ DOMAIN w = 1 .. Len(w)
           /\ DOMAIN Append(w, p) = 1 .. Len(w) + 1
           /\ \A i \in 1 .. Len(w) : Append(w, p)[i] = w[i]
           /\ Append(w, p)[Len(w) + 1] = p
OBVIOUS

(***************************************************************************)
(* A packet written out keeps all of it, when it may follow those written  *)
(* and precede those in the queue.                                         *)
(***************************************************************************)
LEMMA WriteOut ==
    ASSUME NEW q, NEW w, NEW src, NEW now, Carried(q, w, src, now),
           NEW q2, IsHeap(q2), Range(q2) \subseteq Range(q),
           NEW p \in Writings, Written(p, src, now),
           \A i \in DOMAIN w :
              w[i].id # p.id /\ MayPrecede(w[i], p.read, p.wait, p.to),
           \A s \in Range(q2) :
              /\ s.pkt.id # p.id
              /\ MayPrecede(p, s.read, s.wait, Target(s.dir, src))
    PROVE  /\ Carried(q2, Append(w, p), src, now)
           /\ IdsOut(Append(w, p)) = IdsOut(w) \cup {p.id}
<1> DEFINE v == Append(w, p)
           n == Len(w)
<1>0. w \in Seq(Writings)
  BY DEF Carried
<1>1. /\ v \in Seq(Writings) /\ n \in Nat /\ DOMAIN w = 1 .. n
      /\ DOMAIN v = 1 .. n + 1
      /\ \A i \in 1 .. n : v[i] = w[i]
      /\ v[n + 1] = p
  BY <1>0, OneMore
<1> HIDE DEF v, n
<1>2. \A i \in 1 .. n + 1 : i \in 1 .. n \/ i = n + 1
  BY <1>1
<1>3. \A s \in Range(q2) : Queued(s, src, now)
  BY DEF Carried
<1>4. \A i \in DOMAIN v : Written(v[i], src, now)
  BY <1>1, <1>2 DEF Carried
<1>5. \A i \in DOMAIN v, s \in Range(q2) :
        /\ v[i].id # s.pkt.id
        /\ MayPrecede(v[i], s.read, s.wait, Target(s.dir, src))
  BY <1>1, <1>2 DEF Carried
<1>6. ASSUME NEW i \in DOMAIN v, NEW j \in DOMAIN v, i < j
      PROVE  /\ v[i].id # v[j].id
             /\ MayPrecede(v[i], v[j].read, v[j].wait, v[j].to)
  <2>1. i \in 1 .. n
    BY <1>1, <1>6
  <2>2. CASE j = n + 1
    BY <2>1, <2>2, <1>1
  <2>3. CASE j \in 1 .. n
    BY <2>1, <2>3, <1>1, <1>6 DEF Carried
  <2>. QED BY <2>2, <2>3, <1>1, <1>2
<1>7. IdsOut(v) = IdsOut(w) \cup {p.id}
  <2>1. n + 1 \in 1 .. n + 1 /\ \A i \in 1 .. n : i \in 1 .. n + 1
    BY <1>1
  <2>. QED BY <2>1, <1>1, <1>2 DEF IdsOut
<1>8. Carried(q2, v, src, now)
  BY <1>1, <1>3, <1>4, <1>5, <1>6 DEF Carried
<1>. QED BY <1>7, <1>8 DEF v

(***************************************************************************)
(* deliver_delayed_pkt writes the root and pops it: nobody in the queue is *)
(* due before it, so that those read earlier have a longer delay.          *)
(***************************************************************************)
RootOut(q, src, now) ==
    Out(minq_peek(q).pkt, minq_peek(q).dir, src, now, minq_peek(q).read,
        minq_peek(q).wait)

LEMMA PopOut ==
    ASSUME NEW q, NEW w, NEW src \in {Sender, Alien, Nobody},
           NEW now \in Nat, Carried(q, w, src, now),
           ~minq_empty(q), Expired(now, minq_peek(q))
    PROVE  /\ RootOut(q, src, now) \in Writings
           /\ Carried(minq_pop(q), Append(w, RootOut(q, src, now)), src, now)
           /\ Ids(minq_pop(q)) \cup IdsOut(Append(w, RootOut(q, src, now)))
                = Ids(q) \cup IdsOut(w)
<1> DEFINE r == minq_peek(q)
           p == RootOut(q, src, now)
           q2 == minq_pop(q)
<1>0. IsHeap(q)
  BY DEF Carried
<1>1. /\ r \in Range(q) /\ \A s \in Range(q) : ~pkt_slot_cmp(r, s)
      /\ IsHeap(q2) /\ Range(q2) = Range(q) \ {r}
  BY <1>0, PopFact
<1>2. \A s \in Range(q) : s \in SlotType
  BY <1>0, HeapSize DEF IsHeap, Range
<1>3. \A s, t \in Range(q) : s.pkt.id = t.pkt.id => s = t
  BY <1>0, HeapSize DEF IsHeap, Range
<1>4. r \in SlotType /\ Queued(r, src, now)
  BY <1>1, <1>2 DEF Carried
<1>5. /\ p.id = r.pkt.id /\ p.from = r.pkt.from /\ p.at = now
      /\ p.read = r.read /\ p.wait = r.wait /\ p.to = Target(r.dir, src)
  BY DEF RootOut, Out, Target
<1>6. p \in Writings
  <2>1. /\ r.pkt.id \in Nat /\ r.pkt.from \in {Sender, Dest, Alien}
        /\ r.read \in Nat /\ r.wait \in Nat
    BY <1>4, LinkSimAssumption DEF SlotType, Packets
  <2>2. Target(r.dir, src) \in {Sender, Dest, Alien}
    BY <1>4 DEF Target, Queued
  <2>. QED BY <2>1, <2>2 DEF RootOut, Out, Writings, Target
<1>7. Written(p, src, now)
  <2>1. timeval_cmp(ToTimeval(now), Expiration(r.read, r.wait))
    BY <1>4 DEF Expired, Queued
  <2>2. r.read \in Nat /\ r.wait \in Nat
    BY <1>4 DEF SlotType
  <2>3. now > r.read + r.wait - PerSec
    BY <2>1, <2>2, DueWithinASecond
  <2>4. src # Dest
    BY DEF Sender, Dest, Alien, Nobody
  <2>. QED BY <1>4, <1>5, <2>3, <2>4 DEF Written, Queued, Target, SlotType
<1>8. \A i \in DOMAIN w :
        w[i].id # p.id /\ MayPrecede(w[i], p.read, p.wait, p.to)
  BY <1>1, <1>5 DEF Carried
<1>9. ASSUME NEW s \in Range(q2)
      PROVE  /\ s.pkt.id # p.id
             /\ MayPrecede(p, s.read, s.wait, Target(s.dir, src))
  <2>1. s \in Range(q) /\ s # r /\ s \in SlotType
    BY <1>1, <1>2
  <2>2. s.pkt.id # p.id
    BY <1>1, <1>3, <1>5, <2>1
  <2>3. ~pkt_slot_cmp(r, s) /\ s.ts = Expiration(s.read, s.wait)
    BY <1>1, <2>1 DEF Carried, Queued
  <2>4. /\ r.read \in Nat /\ r.wait \in Nat
        /\ s.read \in Nat /\ s.wait \in Nat
    BY <1>4, <2>1 DEF SlotType
  <2>5. ~(r.read > s.read /\ r.wait >= s.wait)
    <3>1. ~timeval_cmp(Expiration(r.read, r.wait), Expiration(s.read, s.wait))
      BY <1>4, <2>3 DEF pkt_slot_cmp, Queued
    <3>. QED BY <2>4, <3>1, LaterReadLaterDue
  <2>. QED BY <1>5, <2>2, <2>4, <2>5 DEF MayPrecede
<1>10. /\ Carried(q2, Append(w, p), src, now)
       /\ IdsOut(Append(w, p)) = IdsOut(w) \cup {p.id}
  <2> HIDE DEF p, q2, r
  <2>. QED BY <1>1, <1>6, <1>7, <1>8, <1>9, WriteOut
<1>11. Ids(q) = Ids(q2) \cup {p.id}
  <2>1. Range(q) = Range(q2) \cup {r}
    BY <1>1
  <2>. QED BY <2>1, <1>5, IdsAre
<1>. QED BY <1>6, <1>10, <1>11

(* deliver_delayed_pkt, one packet after the other. *)
Delivery(s) ==
    IF minq_empty(s.queue) \/ ~Expired(clock, minq_peek(s.queue)) THEN s
    ELSE [queue |-> minq_pop(s.queue),
          out |-> Append(s.out, RootOut(s.queue, src_addr, clock))]

(* Deliver(n) is reached in n such steps. *)
LEMMA DeliverIs ==
    ASSUME NEW n \in Nat
    PROVE  \E done :
              /\ Deliver(n) = done[n]
              /\ done[0] = [queue |-> pkt_queue, out |-> <<>>]
              /\ \A k \in 0 .. n - 1 : done[k + 1] = Delivery(done[k])
<1> DEFINE Step(f, k) ==
              IF k = 0 THEN [queue |-> pkt_queue, out |-> <<>>]
              ELSE Delivery(f[k - 1])
           Good(k, f) == f = [i \in 0 .. k |-> Step(f, i)]
           Bad == {k \in 0 .. n : ~ \E f : Good(k, f)}
           h == CHOOSE f : f = [k \in 0 .. n |-> Step(f, k)]
<1>1. 0 \notin Bad
  <2> DEFINE f == [i \in 0 .. 0 |-> [queue |-> pkt_queue, out |-> <<>>]]
  <2>1. f = [i \in 0 .. 0 |-> Step(f, i)]
    OBVIOUS
  <2>. QED BY <2>1
<1>2. ASSUME NEW k \in Nat, k + 1 \in 0 .. n, NEW f, Good(k, f)
      PROVE  \E g : Good(k + 1, g)
  <2> DEFINE g == [i \in 0 .. k + 1 |->
                      IF i = k + 1 THEN Step(f, k + 1) ELSE f[i]]
  <2>1. ASSUME NEW i \in 0 .. k + 1 PROVE g[i] = Step(g, i)
    <3>1. i # 0 => i - 1 \in 0 .. k + 1 /\ i - 1 # k + 1
      OBVIOUS
    <3>2. i # 0 => g[i - 1] = f[i - 1]
      BY <3>1
    <3>3. Step(g, i) = Step(f, i)
      BY <3>2
    <3>4. CASE i = k + 1
      BY <3>3, <3>4
    <3>5. CASE i # k + 1
      <4>1. i \in 0 .. k
        BY <3>5
      <4>2. f[i] = Step(f, i)
        <5> HIDE DEF Step
        <5>1. f = [x \in 0 .. k |-> Step(f, x)]
          BY <1>2
        <5>. QED BY <4>1, <5>1
      <4>. QED BY <3>3, <3>5, <4>2
    <3>. QED BY <3>4, <3>5
  <2>2. g = [i \in 0 .. k + 1 |-> g[i]]
    OBVIOUS
  <2> HIDE DEF g, Step
  <2>3. g = [i \in 0 .. k + 1 |-> Step(g, i)]
    BY <2>1, <2>2
  <2>. QED BY <2>3
<1>3. Bad = {}
  <2>1. \A k \in Nat : k + 1 \in Bad => k \in Bad
    <3> HIDE DEF Good
    <3>. QED BY <1>2
  <2>2. Bad \in SUBSET Nat
    OBVIOUS
  <2> HIDE DEF Bad
  <2>. QED BY <1>1, <2>1, <2>2, NoCounterexample
<1>4. PICK f : Good(n, f)
  <2> HIDE DEF Good
  <2>1. n \in 0 .. n
    OBVIOUS
  <2>. QED BY <1>3, <2>1
<1>5. h = [k \in 0 .. n |-> Step(h, k)]
  <2>1. f = [k \in 0 .. n |-> Step(f, k)]
    BY <1>4
  <2> HIDE DEF Step
  <2>. QED BY <2>1
<1>6. Deliver(n) = h[n]
  BY DEF Deliver, Delivery, RootOut
<1> HIDE DEF h
<1>7. h[0] = [queue |-> pkt_queue, out |-> <<>>]
  BY <1>5
<1>8. \A k \in 0 .. n - 1 : h[k + 1] = Delivery(h[k])
  <2> SUFFICES ASSUME NEW k \in 0 .. n - 1 PROVE h[k + 1] = Delivery(h[k])
    OBVIOUS
  <2>1. k + 1 \in 0 .. n /\ k + 1 # 0 /\ (k + 1) - 1 = k
    OBVIOUS
  <2>2. h[k + 1] = Step(h, k + 1)
    <3> HIDE DEF Step
    <3>. QED BY <1>5, <2>1
  <2>. QED BY <2>1, <2>2
<1>. QED BY <1>6, <1>7, <1>8

(* Appending to the right of two sequences appends to both. *)
LEMMA JoinOneMore ==
    ASSUME NEW S, NEW v \in Seq(S), NEW w \in Seq(S), NEW p \in S
    PROVE  v \o Append(w, p) = Append(v \o w, p)
<1>1. Append(w, p) = w \o <<p>> /\ Append(v \o w, p) = (v \o w) \o <<p>>
  BY AppendIsConcat, ConcatProperties
<1>2. <<p>> \in Seq(S)
  OBVIOUS
<1>. QED BY <1>1, <1>2, ConcatAssociative

(* However many were written before a write blocked, all is kept. *)
LEMMA DeliverKeeps ==
    ASSUME Carried(pkt_queue, delivered, src_addr, clock),
           src_addr \in {Sender, Alien, Nobody}, clock \in Nat,
           NEW n \in Nat
    PROVE  /\ Deliver(n).out \in Seq(Writings)
           /\ Carried(Deliver(n).queue, delivered \o Deliver(n).out,
                      src_addr, clock)
           /\ Ids(Deliver(n).queue) \cup IdsOut(delivered \o Deliver(n).out)
                = Ids(pkt_queue) \cup IdsOut(delivered)
<1> DEFINE known == Ids(pkt_queue) \cup IdsOut(delivered)
           Kept(s) ==
              /\ s.out \in Seq(Writings)
              /\ Carried(s.queue, delivered \o s.out, src_addr, clock)
              /\ Ids(s.queue) \cup IdsOut(delivered \o s.out) = known
<1>1. PICK done :
         /\ Deliver(n) = done[n]
         /\ done[0] = [queue |-> pkt_queue, out |-> <<>>]
         /\ \A k \in 0 .. n - 1 : done[k + 1] = Delivery(done[k])
  BY DeliverIs
<1> DEFINE Bad == {k \in 0 .. n : ~Kept(done[k])}
<1>2. delivered \in Seq(Writings)
  BY DEF Carried
<1>3. 0 \notin Bad
  <2>1. done[0].queue = pkt_queue /\ done[0].out = <<>>
    BY <1>1
  <2>2. delivered \o <<>> = delivered /\ <<>> \in Seq(Writings)
    BY <1>2, ConcatEmptySeq
  <2>. QED BY <2>1, <2>2
<1>4. ASSUME NEW k \in Nat, k + 1 \in 0 .. n, Kept(done[k])
      PROVE  Kept(done[k + 1])
  <2>1. done[k + 1] = Delivery(done[k])
    BY <1>1, <1>4
  <2> DEFINE q == done[k].queue
             w == delivered \o done[k].out
             p == RootOut(q, src_addr, clock)
  <2>2. CASE minq_empty(q) \/ ~Expired(clock, minq_peek(q))
    <3>1. done[k + 1] = done[k]
      BY <2>1, <2>2 DEF Delivery
    <3>. QED BY <3>1, <1>4
  <2>3. CASE ~minq_empty(q) /\ Expired(clock, minq_peek(q))
    <3>1. /\ done[k + 1].queue = minq_pop(q)
          /\ done[k + 1].out = Append(done[k].out, p)
      BY <2>1, <2>3 DEF Delivery
    <3>2. Carried(q, w, src_addr, clock)
      BY <1>4
    <3>3. /\ p \in Writings
          /\ Carried(minq_pop(q), Append(w, p), src_addr, clock)
          /\ Ids(minq_pop(q)) \cup IdsOut(Append(w, p)) = Ids(q) \cup IdsOut(w)
      <4>1. p = RootOut(q, src_addr, clock)
        OBVIOUS
      <4>2. ~minq_empty(q) /\ Expired(clock, minq_peek(q))
        BY <2>3
      <4> HIDE DEF q, w, p
      <4>. QED BY <3>2, <4>1, <4>2, PopOut
    <3>4. done[k].out \in Seq(Writings) /\ Ids(q) \cup IdsOut(w) = known
      BY <1>4
    <3>5. /\ delivered \o done[k + 1].out = Append(w, p)
          /\ done[k + 1].out \in Seq(Writings)
      <4> DEFINE x == done[k].out
      <4>a. p \in Writings /\ x \in Seq(Writings)
        BY <3>3, <3>4
      <4> HIDE DEF p, x
      <4>b. delivered \o Append(x, p) = Append(delivered \o x, p)
        BY <1>2, <4>a, JoinOneMore
      <4>1. delivered \o Append(done[k].out, p) = Append(w, p)
        BY <4>b DEF x
      <4>2. Append(done[k].out, p) \in Seq(Writings)
        BY <3>3, <3>4
      <4>. QED BY <3>1, <4>1, <4>2
    <3> HIDE DEF q, w, p, known
    <3>. QED BY <3>1, <3>3, <3>4, <3>5
  <2>. QED BY <2>2, <2>3
<1>5. Bad = {}
  <2>1. \A k \in Nat : k + 1 \in Bad => k \in Bad
    <3> HIDE DEF Kept
    <3>. QED BY <1>4
  <2>2. Bad \in SUBSET Nat
    OBVIOUS
  <2> HIDE DEF Bad
  <2>. QED BY <1>3, <2>1, <2>2, NoCounterexample
<1>6. Kept(done[n])
  <2> HIDE DEF Kept
  <2>. QED BY <1>5
<1>. QED BY <1>1, <1>6

-----------------------------------------------------------------------------
(***************************************************************************)
(* Every packet is in one place; the places are those of known, unread and *)
(* lost packets.                                                           *)
(***************************************************************************)
Apart(known, unread, lost) ==
    /\ known \cup unread \cup lost \subseteq 0 .. sent - 1
    /\ known \cap unread = {} /\ known \cap lost = {} /\ unread \cap lost = {}

LinkInv ==
    /\ status \in {"starting", "running", "crashed", "exited"}
    /\ clock \in Nat /\ last_clock \in 0 .. clock
    /\ src_addr \in {Sender, Alien, Nobody}
    /\ sent \in 0 .. MaxPkts /\ blocks \in 0 .. MaxBlocks
    /\ status = "starting" => sent = 0
    /\ inbox \in Seq(Packets)
    /\ \A i \in DOMAIN inbox : inbox[i].from = Dest => src_addr # Nobody
    /\ \A i, j \in DOMAIN inbox : i < j => inbox[i].id # inbox[j].id
    /\ Carried(pkt_queue, delivered, src_addr, clock)
    /\ Apart(QueuedIds \cup WrittenIds, UnreadIds, dropped)
    /\ NothingVanishes

(* What is queued and written are Ids of the one and IdsOut of the other. *)
LEMMA IdsHere == QueuedIds = Ids(pkt_queue) /\ WrittenIds = IdsOut(delivered)
BY DEF QueuedIds, Ids, WrittenIds, IdsOut

(* A queue without packets is a heap. *)
LEMMA EmptyHeap == IsHeap(EmptyQueue) /\ Range(EmptyQueue) = {}
<1>1. DOMAIN EmptyQueue = {} /\ EmptyQueue = [i \in {} |-> 0]
  BY DEF EmptyQueue
<1>2. 0 .. 0 - 1 = {} /\ 1 .. 0 - 1 = {}
  OBVIOUS
<1>3. HeapOf(EmptyQueue, 0)
  BY <1>1, <1>2 DEF HeapOf, Heap!Arrays, Heap!Ordered, Heap!Distinct
<1>. QED BY <1>1, <1>3 DEF IsHeap, Range

(* The invariant holds at the start. *)
LEMMA LinkStarts == Init => LinkInv
<1> SUFFICES ASSUME Init PROVE LinkInv
  OBVIOUS
<1>1. clock \in Nat /\ last_clock \in 0 .. clock
  BY LinkSimAssumption DEF Init
<1>2. /\ inbox = <<>> /\ delivered = <<>> /\ dropped = {} /\ sent = 0
      /\ pkt_queue = EmptyQueue /\ src_addr = Nobody /\ blocks = 0
      /\ status = "starting"
  BY DEF Init
<1>3. Carried(pkt_queue, delivered, src_addr, clock)
  BY <1>2, EmptyHeap DEF Carried
<1>4. QueuedIds = {} /\ WrittenIds = {} /\ UnreadIds = {}
  BY <1>2 DEF QueuedIds, WrittenIds, UnreadIds, EmptyQueue
<1>5. NothingVanishes
  BY <1>2 DEF NothingVanishes
<1>6. Apart(QueuedIds \cup WrittenIds, UnreadIds, dropped)
  BY <1>2, <1>4 DEF Apart
<1>. QED BY <1>1, <1>2, <1>3, <1>5, <1>6, LinkSimAssumption DEF LinkInv

-----------------------------------------------------------------------------
(* The first to write becomes the source: until then nothing is carried. *)
LEMMA NewSource ==
    ASSUME NEW q, NEW w, Carried(q, w, src_addr, clock),
           NEW from
    PROVE  Carried(q, w, SourceAfter(from), clock)
<1>1. CASE src_addr # Nobody
  BY <1>1 DEF SourceAfter
<1>2. CASE src_addr = Nobody
  <2>1. Range(q) = {} /\ DOMAIN w = {}
    BY <1>2 DEF Carried, Queued, Written
  <2>. QED BY <2>1 DEF Carried
<1>. QED BY <1>1, <1>2

(* What is queued now has been there, or was read just now. *)
Grown(old, new) == \A s \in Range(new) : s \in Range(old) \/ s.read = clock

(* A packet queued keeps all of it: it was read last. *)
LEMMA QueueUp ==
    ASSUME NEW q, NEW w, NEW src, Carried(q, w, src, clock), clock \in Nat,
           NEW v \in SlotType, Queued(v, src, clock), v.read = clock,
           v.pkt.id \notin Ids(q) \cup IdsOut(w)
    PROVE  /\ Carried(minq_push(q, v), w, src, clock)
           /\ Ids(minq_push(q, v)) = Ids(q) \cup {v.pkt.id}
           /\ Grown(q, minq_push(q, v))
<1>1. /\ IsHeap(minq_push(q, v))
      /\ Range(minq_push(q, v)) = Range(q) \cup {v}
  BY IdsAre, PushFact DEF Carried
<1>2. Ids(minq_push(q, v)) = Ids(q) \cup {v.pkt.id}
  BY <1>1, IdsAre
<1>3. \A i \in DOMAIN w :
         /\ w[i].id # v.pkt.id
         /\ MayPrecede(w[i], v.read, v.wait, Target(v.dir, src))
  <2> SUFFICES ASSUME NEW i \in DOMAIN w
               PROVE  w[i].id # v.pkt.id /\ ~(w[i].read > v.read)
    BY DEF MayPrecede
  <2>1. w[i] \in Writings /\ w[i].read <= clock
    BY DEF Carried, Written
  <2>. QED BY <2>1 DEF IdsOut, Writings
<1>4. Carried(minq_push(q, v), w, src, clock)
  BY <1>1, <1>3 DEF Carried
<1>5. Grown(q, minq_push(q, v))
  BY <1>1 DEF Grown
<1>. QED BY <1>2, <1>4, <1>5

(* A packet relayed keeps all of it: no packet of its way is delayed. *)
LEMMA RelayOn ==
    ASSUME NEW q, NEW w, NEW src \in {Sender, Alien},
           Carried(q, w, src, clock), clock \in Nat,
           NEW pkt \in Packets, NEW dir \in {FORWARD, REVERSE},
           dir = FORWARD => pkt.from = src, ~Altered(dir) \/ delay = 0,
           pkt.id \notin Ids(q) \cup IdsOut(w)
    PROVE  LET p == Out(pkt, dir, src, clock, clock, 0)
           IN /\ Carried(q, Append(w, p), src, clock)
              /\ IdsOut(Append(w, p)) = IdsOut(w) \cup {pkt.id}
<1> DEFINE p == Out(pkt, dir, src, clock, clock, 0)
<1>1. /\ p.id = pkt.id /\ p.from = pkt.from /\ p.at = clock
      /\ p.read = clock /\ p.wait = 0 /\ p.to = Target(dir, src)
  BY DEF Out, Target
<1>2. p \in Writings
  BY LinkSimAssumption DEF Out, Writings, Packets
<1>3. src # Dest /\ src # Nobody /\ FORWARD # REVERSE
  BY DEF Sender, Dest, Alien, Nobody, FORWARD, REVERSE
<1>4. Written(p, src, clock)
  BY <1>1, <1>3, LinkSimAssumption DEF Written, Target
<1>5. \A i \in DOMAIN w :
        w[i].id # p.id /\ MayPrecede(w[i], p.read, p.wait, p.to)
  <2> SUFFICES ASSUME NEW i \in DOMAIN w
               PROVE  w[i].id # p.id /\ ~(w[i].read > p.read)
    BY DEF MayPrecede
  <2>1. w[i] \in Writings /\ w[i].read <= clock
    BY DEF Carried, Written
  <2>. QED BY <1>1, <2>1 DEF IdsOut, Writings
<1>6. \A s \in Range(q) :
        /\ s.pkt.id # p.id
        /\ MayPrecede(p, s.read, s.wait, Target(s.dir, src))
  <2> SUFFICES ASSUME NEW s \in Range(q)
               PROVE  s.pkt.id # p.id /\ p.to # Target(s.dir, src)
    BY DEF MayPrecede
  <2>1. s.pkt.id # p.id
    BY <1>1, IdsAre
  <2>2. s.dir \in link_direction /\ delay # 0
    BY DEF Carried, Queued
  <2>3. dir # s.dir /\ s.dir \in {FORWARD, REVERSE}
    BY <2>2, DirectionAssumption DEF Altered
  <2>. QED BY <1>1, <1>3, <2>1, <2>3 DEF Target
<1>7. IsHeap(q)
  BY DEF Carried
<1> HIDE DEF p
<1>8. /\ Carried(q, Append(w, p), src, clock)
      /\ IdsOut(Append(w, p)) = IdsOut(w) \cup {p.id}
  BY <1>2, <1>4, <1>5, <1>6, <1>7, WriteOut
<1>. QED BY <1>1, <1>8 DEF p

(* What recvfrom leaves in the socket's buffer. *)
LEMMA HeadTaken ==
    ASSUME LinkInv, inbox # <<>>, inbox' = Tail(inbox)
    PROVE  /\ Head(inbox) \in Packets
           /\ Head(inbox).from = Dest => src_addr # Nobody
           /\ inbox' \in Seq(Packets)
           /\ UnreadIds = UnreadIds' \cup {Head(inbox).id}
           /\ Head(inbox).id \notin UnreadIds'
           /\ \A i \in DOMAIN inbox' :
                 inbox'[i].from = Dest => src_addr # Nobody
           /\ \A i, j \in DOMAIN inbox' :
                 i < j => inbox'[i].id # inbox'[j].id
<1>0. /\ inbox \in Seq(Packets)
      /\ \A i \in DOMAIN inbox : inbox[i].from = Dest => src_addr # Nobody
      /\ \A i, j \in DOMAIN inbox : i < j => inbox[i].id # inbox[j].id
  BY DEF LinkInv
<1> DEFINE n == Len(inbox) - 1
<1>1. /\ n \in Nat /\ DOMAIN inbox = 1 .. n + 1
      /\ Head(inbox) = inbox[1]
  BY <1>0
<1>2. PICK t : t = inbox'
  OBVIOUS
<1>3. /\ t \in Seq(Packets) /\ DOMAIN t = 1 .. n
      /\ \A i \in 1 .. n : t[i] = inbox[i + 1]
  BY <1>0, <1>2
<1> HIDE DEF n
<1>4. \A i \in 1 .. n : i + 1 \in 1 .. n + 1 /\ i + 1 > 1
  BY <1>1
<1>5. Head(inbox) \in Packets /\ (Head(inbox).from = Dest => src_addr # Nobody)
  BY <1>0, <1>1
<1>6. \A i \in DOMAIN t : t[i].from = Dest => src_addr # Nobody
  BY <1>0, <1>1, <1>3, <1>4
<1>7. \A i, j \in DOMAIN t : i < j => t[i].id # t[j].id
  <2> SUFFICES ASSUME NEW i \in 1 .. n, NEW j \in 1 .. n, i < j
               PROVE  t[i].id # t[j].id
    BY <1>3
  <2>1. i + 1 \in 1 .. n + 1 /\ j + 1 \in 1 .. n + 1 /\ i + 1 < j + 1
    BY <1>1
  <2>2. inbox[i + 1].id # inbox[j + 1].id
    BY <2>1, <1>0, <1>1
  <2>. QED BY <2>2, <1>3
<1>8. UnreadIds' = {t[i].id : i \in DOMAIN t}
  BY <1>2 DEF UnreadIds
<1>9. UnreadIds = UnreadIds' \cup {Head(inbox).id}
  <2>1. \A i \in 1 .. n + 1 : i = 1 \/ (i - 1 \in 1 .. n /\ (i - 1) + 1 = i)
    BY <1>1
  <2>2. 1 \in 1 .. n + 1
    BY <1>1
  <2>3. UnreadIds \subseteq UnreadIds' \cup {Head(inbox).id}
    <3> SUFFICES ASSUME NEW i \in 1 .. n + 1
                 PROVE  inbox[i].id \in UnreadIds' \cup {Head(inbox).id}
      BY <1>1 DEF UnreadIds
    <3>1. CASE i = 1
      BY <3>1, <1>1
    <3>2. CASE i # 1
      <4>1. i - 1 \in 1 .. n /\ (i - 1) + 1 = i
        BY <2>1, <3>2
      <4>2. t[i - 1] = inbox[i]
        BY <4>1, <1>3
      <4>. QED BY <4>1, <4>2, <1>3, <1>8
    <3>. QED BY <3>1, <3>2
  <2>4. UnreadIds' \cup {Head(inbox).id} \subseteq UnreadIds
    BY <1>1, <1>3, <1>4, <1>8, <2>2 DEF UnreadIds
  <2>. QED BY <2>3, <2>4
<1>10. Head(inbox).id \notin UnreadIds'
  <2>1. 1 \in 1 .. n + 1
    BY <1>1
  <2>2. \A i \in 1 .. n : t[i].id # inbox[1].id
    BY <1>0, <1>1, <1>3, <1>4, <2>1
  <2>. QED BY <2>2, <1>1, <1>3, <1>8
<1>. QED BY <1>2, <1>3, <1>5, <1>6, <1>7, <1>9, <1>10

(***************************************************************************)
(* process_incoming_pkt, after some packets were delivered: whatever       *)
(* becomes of the packet read, it is in one place afterwards, and nothing  *)
(* is lost but by choice or by the error that ends the loop.               *)
(***************************************************************************)
LEMMA ProcessKeeps ==
    ASSUME LinkInv, status = "running", NEW q, NEW w,
           Carried(q, w, src_addr, clock),
           Ids(q) \cup IdsOut(w) = QueuedIds \cup WrittenIds,
           Process(q, w), UNCHANGED <<clock, sent>>
    PROVE  /\ status' \in {"running", "crashed"}
           /\ src_addr' \in {Sender, Alien, Nobody}
           /\ inbox' \in Seq(Packets)
           /\ \A i \in DOMAIN inbox' :
                 inbox'[i].from = Dest => src_addr' # Nobody
           /\ \A i, j \in DOMAIN inbox' : i < j => inbox'[i].id # inbox'[j].id
           /\ Carried(pkt_queue, delivered, src_addr, clock)'
           /\ Apart(QueuedIds \cup WrittenIds, UnreadIds, dropped)'
           /\ NothingVanishes'
           /\ Grown(q, pkt_queue')
<1> DEFINE known == Ids(q) \cup IdsOut(w)
<1>i. /\ src_addr \in {Sender, Alien, Nobody} /\ inbox \in Seq(Packets)
      /\ \A i \in DOMAIN inbox : inbox[i].from = Dest => src_addr # Nobody
      /\ \A i, j \in DOMAIN inbox : i < j => inbox[i].id # inbox[j].id
      /\ clock \in Nat
  BY DEF LinkInv
<1>a. /\ known \cup UnreadIds \cup dropped = 0 .. sent - 1
      /\ known \cap UnreadIds = {} /\ known \cap dropped = {}
      /\ UnreadIds \cap dropped = {}
  <2>1. Apart(known, UnreadIds, dropped) /\ NothingVanishes
    BY DEF LinkInv
  <2>2. UnreadIds \cup QueuedIds \cup WrittenIds \cup dropped = 0 .. sent - 1
    BY <2>1 DEF NothingVanishes
  <2>. QED BY <2>1, <2>2 DEF Apart
<1> DEFINE after == QueuedIds' \cup WrittenIds'
<1>g. Grown(q, q)
  BY DEF Grown
<1>s. clock' = clock /\ sent' = sent
  OBVIOUS
<1>b. ASSUME after \cup UnreadIds' \cup dropped' \subseteq 0 .. sent - 1,
             after \cap UnreadIds' = {}, after \cap dropped' = {},
             UnreadIds' \cap dropped' = {},
             status' = "running" =>
                0 .. sent - 1 \subseteq after \cup UnreadIds' \cup dropped'
      PROVE  /\ Apart(QueuedIds \cup WrittenIds, UnreadIds, dropped)'
             /\ NothingVanishes'
  <2> DEFINE u == UnreadIds'
             d == dropped'
             qi == QueuedIds'
             wi == WrittenIds'
  <2>1. Apart(QueuedIds \cup WrittenIds, UnreadIds, dropped)'
    BY <1>b, <1>s DEF Apart
  <2>2. NothingVanishes' <=>
           (status' = "running" => u \cup qi \cup wi \cup d = 0 .. sent - 1)
    BY <1>s DEF NothingVanishes
  <2> HIDE DEF u, qi, wi, d
  <2>3. after = qi \cup wi
    BY DEF qi, wi
  <2>. QED BY <1>b, <2>1, <2>2, <2>3 DEF u, d
<1>1. CASE /\ \/ inbox = <<>> /\ UNCHANGED status
              \/ inbox # <<>> /\ status' = "crashed"
           /\ pkt_queue' = q /\ delivered' = w
           /\ UNCHANGED <<src_addr, inbox, dropped>>
  <2>1. /\ after = known /\ UnreadIds' = UnreadIds /\ dropped' = dropped
    BY <1>1, IdsHere DEF QueuedIds, WrittenIds, Ids, IdsOut, UnreadIds
  <2>2. Carried(pkt_queue, delivered, src_addr, clock)'
    BY <1>1, <1>s
  <2> HIDE DEF after, known
  <2>. QED BY <1>1, <1>a, <1>b, <1>g, <1>i, <2>1, <2>2
<1>2. CASE inbox # <<>> /\ inbox' = Tail(inbox)
  <2> DEFINE pkt == Head(inbox)
             src == SourceAfter(pkt.from)
             dir == DirectionOf(pkt.from)
  <2>1. /\ pkt \in Packets /\ (pkt.from = Dest => src_addr # Nobody)
        /\ inbox' \in Seq(Packets)
        /\ UnreadIds = UnreadIds' \cup {pkt.id} /\ pkt.id \notin UnreadIds'
        /\ \A i \in DOMAIN inbox' :
              inbox'[i].from = Dest => src_addr # Nobody
        /\ \A i, j \in DOMAIN inbox' : i < j => inbox'[i].id # inbox'[j].id
    BY <1>2, HeadTaken
  <2>2. /\ pkt.id \in 0 .. sent - 1
        /\ pkt.id \notin known /\ pkt.id \notin dropped
    BY <1>a, <2>1
  <2>3. src \in {Sender, Alien} /\ (src_addr # Nobody => src = src_addr)
    <3>1. pkt.from \in {Sender, Dest, Alien}
      BY <2>1 DEF Packets
    <3>. QED BY <3>1, <2>1, <1>i DEF SourceAfter
  <2>4. Carried(q, w, src, clock)
    BY NewSource
  <2>5. ASSUME src_addr' = src
        PROVE  /\ src_addr' \in {Sender, Alien, Nobody}
               /\ \A i \in DOMAIN inbox' :
                     inbox'[i].from = Dest => src_addr' # Nobody
    BY <2>1, <2>3, <2>5 DEF Sender, Alien, Nobody
  <2>6. ASSUME pkt_queue' = q, delivered' = w PROVE after = known
    BY <2>6, IdsHere DEF QueuedIds, WrittenIds, Ids, IdsOut
  <2>7. CASE pkt.malformed /\ Malformed(pkt, q, w)
    <3>1. /\ dropped' = dropped \cup {pkt.id} /\ pkt_queue' = q
          /\ delivered' = w /\ status' = status /\ src_addr' = src_addr
      BY <2>7 DEF Malformed
    <3>2. after = known
      BY <3>1, <2>6
    <3>3. Carried(pkt_queue, delivered, src_addr, clock)'
      BY <3>1, <1>s
    <3>4. /\ Apart(QueuedIds \cup WrittenIds, UnreadIds, dropped)'
          /\ NothingVanishes'
      <4> HIDE DEF after, known, pkt
      <4>. QED BY <1>a, <1>b, <2>1, <2>2, <3>1, <3>2
    <3>. QED BY <3>1, <3>3, <3>4, <2>1, <1>i, <1>g
  <2>8. CASE src_addr' = src /\ Drop(pkt, dir, q, w)
    <3>1. /\ dropped' = dropped \cup {pkt.id} /\ pkt_queue' = q
          /\ delivered' = w /\ status' = status
      BY <2>8 DEF Drop
    <3>2. after = known
      BY <3>1, <2>6
    <3>3. Carried(pkt_queue, delivered, src_addr, clock)'
      BY <3>1, <1>s, <2>4, <2>8
    <3>4. /\ Apart(QueuedIds \cup WrittenIds, UnreadIds, dropped)'
          /\ NothingVanishes'
      <4> HIDE DEF after, known, pkt
      <4>. QED BY <1>a, <1>b, <2>1, <2>2, <3>1, <3>2
    <3>. QED BY <3>1, <3>3, <3>4, <2>1, <2>5, <2>8, <1>g
  <2>9. CASE src_addr' = src /\ Fail(dir, q, w)
    <3>1. /\ dropped' = dropped /\ pkt_queue' = q
          /\ delivered' = w /\ status' = "crashed"
      BY <2>9 DEF Fail
    <3>2. after = known
      BY <3>1, <2>6
    <3>3. Carried(pkt_queue, delivered, src_addr, clock)'
      BY <3>1, <1>s, <2>4, <2>9
    <3>4. /\ Apart(QueuedIds \cup WrittenIds, UnreadIds, dropped)'
          /\ NothingVanishes'
      <4> HIDE DEF after, known, pkt
      <4>. QED BY <1>a, <1>b, <2>1, <2>2, <3>1, <3>2
    <3>. QED BY <3>1, <3>3, <3>4, <2>1, <2>5, <2>9, <1>g
  <2>10. dir # Nobody =>
            dir \in {FORWARD, REVERSE} /\ (dir = FORWARD => pkt.from = src)
    BY DEF DirectionOf, FORWARD, REVERSE
  <2>11. CASE src_addr' = src /\ Relay(pkt, dir, q, w)
    <3> DEFINE p == Out(pkt, dir, src, clock, clock, 0)
    <3>1. /\ dropped' = dropped /\ pkt_queue' = q /\ status' = status
          /\ delivered' = Append(w, p)
          /\ dir # Nobody /\ (~Altered(dir) \/ delay = 0)
      BY <2>11 DEF Relay
    <3>2. /\ Carried(q, Append(w, p), src, clock)
          /\ IdsOut(Append(w, p)) = IdsOut(w) \cup {pkt.id}
      <4> HIDE DEF pkt, src, dir
      <4>. QED BY <1>i, <2>1, <2>2, <2>3, <2>4, <2>10, <3>1, RelayOn
    <3>3. after = known \cup {pkt.id}
      <4>1. QueuedIds' = Ids(q) /\ WrittenIds' = IdsOut(Append(w, p))
        BY <3>1 DEF QueuedIds, WrittenIds, Ids, IdsOut
      <4> HIDE DEF p
      <4>. QED BY <3>2, <4>1
    <3>4. Carried(pkt_queue, delivered, src_addr, clock)'
      BY <3>1, <3>2, <1>s, <2>11
    <3>5. /\ Apart(QueuedIds \cup WrittenIds, UnreadIds, dropped)'
          /\ NothingVanishes'
      <4> HIDE DEF after, known, pkt
      <4>. QED BY <1>a, <1>b, <2>1, <2>2, <3>1, <3>3
    <3>. QED BY <3>1, <3>4, <3>5, <2>1, <2>5, <2>11, <1>g
  <2>12. CASE src_addr' = src /\ Delay(pkt, dir, q, w)
    <3>1. /\ dropped' = dropped /\ delivered' = w /\ status' = status
          /\ Altered(dir) /\ delay # 0
      BY <2>12 DEF Delay
    <3>2. PICK d \in AppliedDelays :
             pkt_queue' = minq_push(q, [ts |-> Expiration(clock, d),
                                        dir |-> dir, pkt |-> pkt,
                                        read |-> clock, wait |-> d])
      BY <2>12 DEF Delay
    <3> DEFINE v == [ts |-> Expiration(clock, d), dir |-> dir, pkt |-> pkt,
                     read |-> clock, wait |-> d]
    <3>3. d \in Nat /\ dir \in link_direction /\ dir \in {FORWARD, REVERSE}
      BY <3>1, DelaysAreNaturals, DirectionAssumption DEF Altered
    <3>4. v \in SlotType
      <4>1. /\ clock \div PerSec \in Nat /\ clock % PerSec \in Nat
            /\ d \div PerSec \in Nat /\ d % PerSec \in Nat
        <5>1. \A a \in Nat : a \div PerSec \in Nat /\ a % PerSec \in Nat
          BY Seconds, LinkSimAssumption
        <5>. QED BY <1>i, <3>3, <5>1
      <4>2. Expiration(clock, d) \in [sec : Nat, usec : Nat]
        BY <4>1 DEF Expiration, Timeval
      <4>. QED BY <1>i, <2>1, <3>3, <4>2 DEF SlotType
    <3>5. Queued(v, src, clock)
      <4>1. src # Nobody /\ clock <= clock
        BY <1>i, <2>3 DEF Sender, Alien, Nobody
      <4>2. dir = FORWARD => pkt.from = src
        BY <2>10, <3>3 DEF FORWARD, REVERSE, Nobody
      <4>. QED BY <3>1, <3>3, <4>1, <4>2 DEF Queued
    <3>6. v.pkt.id = pkt.id /\ v.read = clock
      OBVIOUS
    <3>7. /\ Carried(minq_push(q, v), w, src, clock)
          /\ Ids(minq_push(q, v)) = Ids(q) \cup {pkt.id}
          /\ Grown(q, minq_push(q, v))
      <4> HIDE DEF v, pkt, src, dir
      <4>. QED BY <1>i, <2>2, <2>4, <3>4, <3>5, <3>6, QueueUp
    <3>8. after = known \cup {pkt.id}
      <4>1. QueuedIds' = Ids(minq_push(q, v)) /\ WrittenIds' = IdsOut(w)
        BY <3>1, <3>2 DEF QueuedIds, WrittenIds, Ids, IdsOut
      <4> HIDE DEF v
      <4>. QED BY <3>7, <4>1
    <3>9. Carried(pkt_queue, delivered, src_addr, clock)'
      BY <3>1, <3>2, <3>7, <1>s, <2>12
    <3>10. /\ Apart(QueuedIds \cup WrittenIds, UnreadIds, dropped)'
           /\ NothingVanishes'
      <4> HIDE DEF after, known, pkt
      <4>. QED BY <1>a, <1>b, <2>1, <2>2, <3>1, <3>8
    <3>11. Grown(q, pkt_queue')
      BY <3>2, <3>7
    <3>. QED BY <3>1, <3>9, <3>10, <3>11, <2>1, <2>5, <2>12
  <2>. QED BY <1>2, <2>7, <2>8, <2>9, <2>11, <2>12 DEF Process
<1>. QED BY <1>1, <1>2 DEF Process

(* Time passes: what was read in the past stays so. *)
LEMMA TimePasses ==
    ASSUME NEW q, NEW w, NEW src, NEW now \in Nat, NEW later \in Nat,
           now <= later, Carried(q, w, src, now)
    PROVE  Carried(q, w, src, later)
<1>1. \A s \in Range(q) : Queued(s, src, later)
  <2> SUFFICES ASSUME NEW s \in Range(q) PROVE Queued(s, src, later)
    OBVIOUS
  <2>1. s \in SlotType
    BY HeapSize DEF Carried, IsHeap, Range
  <2>2. Queued(s, src, now) /\ s.read \in Nat
    BY <2>1 DEF Carried, SlotType
  <2>. QED BY <2>2 DEF Queued
<1>2. \A i \in DOMAIN w : Written(w[i], src, later)
  <2> SUFFICES ASSUME NEW i \in DOMAIN w PROVE Written(w[i], src, later)
    OBVIOUS
  <2>1. Written(w[i], src, now) /\ w[i] \in Writings
    BY DEF Carried
  <2>2. w[i].read \in Nat
    BY <2>1 DEF Writings
  <2>. QED BY <2>1, <2>2 DEF Written
<1>. QED BY <1>1, <1>2 DEF Carried

(* A packet sent to the simulator is one more, at the end of the inbox. *)
LEMMA SendKeeps ==
    ASSUME LinkInv, NEW peer \in {Sender, Dest, Alien},
           NEW malformed \in BOOLEAN, Send(peer, malformed)
    PROVE  LinkInv'
<1> DEFINE m == [id |-> sent, from |-> peer, malformed |-> malformed]
<1>1. /\ sent < MaxPkts /\ sent \in 0 .. MaxPkts /\ sent' = sent + 1
      /\ inbox \in Seq(Packets) /\ inbox' = Append(inbox, m)
      /\ peer = Dest => \E i \in DOMAIN delivered : delivered[i].to = Dest
      /\ UNCHANGED <<status, clock, last_clock, pkt_queue, src_addr, blocks,
                     delivered, dropped>>
  BY DEF LinkInv, Send
<1>2. m \in Packets
  BY <1>1, LinkSimAssumption DEF Packets
<1>3. peer = Dest => src_addr # Nobody
  BY <1>1 DEF LinkInv, Carried, Written
<1>4. PICK t : t = inbox'
  OBVIOUS
<1> DEFINE n == Len(inbox)
<1>5. /\ t \in Seq(Packets) /\ n \in Nat /\ DOMAIN inbox = 1 .. n
      /\ DOMAIN t = 1 .. n + 1 /\ t[n + 1] = m
      /\ \A i \in 1 .. n : t[i] = inbox[i]
  <2> HIDE DEF m
  <2>. QED BY <1>1, <1>2, <1>4, OneMore
<1> HIDE DEF n
<1>6. \A i \in 1 .. n + 1 : i \in 1 .. n \/ i = n + 1
  BY <1>5
<1>7. \A i \in 1 .. n : inbox[i].id \in 0 .. sent - 1
  BY <1>5 DEF LinkInv, Apart, UnreadIds
<1>8. \A i \in DOMAIN t : t[i].from = Dest => src_addr # Nobody
  BY <1>3, <1>5, <1>6 DEF LinkInv
<1>9. ASSUME NEW i \in DOMAIN t, NEW j \in DOMAIN t, i < j
      PROVE  t[i].id # t[j].id
  <2>1. i \in 1 .. n
    BY <1>5, <1>9
  <2>2. CASE j = n + 1
    <3>1. t[i].id \in 0 .. sent - 1 /\ t[j].id = sent
      BY <1>5, <1>7, <2>1, <2>2
    <3>. QED BY <1>1, <3>1
  <2>3. CASE j \in 1 .. n
    <3>1. inbox[i].id # inbox[j].id
      BY <1>5, <1>9, <2>1, <2>3 DEF LinkInv
    <3>. QED BY <1>5, <2>1, <2>3, <3>1
  <2>. QED BY <2>2, <2>3, <1>5, <1>6
<1>10. UnreadIds' = UnreadIds \cup {sent}
  <2>1. UnreadIds' = {t[i].id : i \in 1 .. n + 1}
    BY <1>4, <1>5 DEF UnreadIds
  <2>2. UnreadIds = {inbox[i].id : i \in 1 .. n}
    BY <1>5 DEF UnreadIds
  <2>3. n + 1 \in 1 .. n + 1 /\ \A i \in 1 .. n : i \in 1 .. n + 1
    BY <1>5
  <2>4. t[n + 1].id = sent
    BY <1>5
  <2>. QED BY <1>5, <1>6, <2>1, <2>2, <2>3, <2>4
<1>11. QueuedIds' = QueuedIds /\ WrittenIds' = WrittenIds
  BY <1>1 DEF QueuedIds, WrittenIds
<1>12. 0 .. sent' - 1 = (0 .. sent - 1) \cup {sent}
  BY <1>1
<1>13. Apart(QueuedIds \cup WrittenIds, UnreadIds, dropped)'
  <2>1. /\ (QueuedIds \cup WrittenIds) \cup UnreadIds \cup dropped
              \subseteq 0 .. sent - 1
        /\ (QueuedIds \cup WrittenIds) \cap UnreadIds = {}
        /\ (QueuedIds \cup WrittenIds) \cap dropped = {}
        /\ UnreadIds \cap dropped = {}
    BY DEF LinkInv, Apart
  <2>2. sent \notin 0 .. sent - 1 /\ dropped' = dropped
    BY <1>1
  <2>. QED BY <1>10, <1>11, <1>12, <2>1, <2>2 DEF Apart
<1>14. NothingVanishes'
  <2>1. NothingVanishes /\ status' = status /\ dropped' = dropped
    BY <1>1 DEF LinkInv
  <2>. QED BY <1>10, <1>11, <1>12, <2>1 DEF NothingVanishes
<1>15. Carried(pkt_queue, delivered, src_addr, clock)'
  BY <1>1 DEF LinkInv
<1>16. /\ inbox' \in Seq(Packets)
       /\ \A i \in DOMAIN inbox' : inbox'[i].from = Dest => src_addr' # Nobody
       /\ \A i, j \in DOMAIN inbox' : i < j => inbox'[i].id # inbox'[j].id
  BY <1>1, <1>4, <1>5, <1>8, <1>9
<1>17. /\ status' \in {"starting", "running", "crashed", "exited"}
       /\ clock' \in Nat /\ last_clock' \in 0 .. clock'
       /\ src_addr' \in {Sender, Alien, Nobody}
       /\ sent' \in 0 .. MaxPkts /\ blocks' \in 0 .. MaxBlocks
       /\ status' # "starting"
  BY <1>1, LinkSimAssumption DEF LinkInv, Send
<1>. QED BY <1>13, <1>14, <1>15, <1>16, <1>17 DEF LinkInv

(* Every step keeps the invariant. *)
LEMMA LinkStays == LinkInv /\ [Next]_vars => LinkInv'
<1> SUFFICES ASSUME LinkInv, [Next]_vars PROVE LinkInv'
  OBVIOUS
<1>a. /\ clock \in Nat /\ last_clock \in 0 .. clock /\ blocks \in 0 .. MaxBlocks
      /\ Carried(pkt_queue, delivered, src_addr, clock)
      /\ MaxBlocks \in Nat
  BY LinkSimAssumption DEF LinkInv
<1>b. /\ QueuedIds' = {pkt_queue'[i].pkt.id : i \in DOMAIN pkt_queue'}
      /\ WrittenIds' = {delivered'[i].id : i \in DOMAIN delivered'}
      /\ UnreadIds' = {inbox'[i].id : i \in DOMAIN inbox'}
  BY DEF QueuedIds, WrittenIds, UnreadIds
<1>1. ASSUME UNCHANGED <<pkt_queue, src_addr, inbox, sent, delivered, dropped>>,
             status' \in {"starting", "running", "crashed", "exited"},
             status' = "running" => 
                 UnreadIds \cup QueuedIds \cup WrittenIds \cup dropped
                    = 0 .. sent - 1,
             status' = "starting" => status = "starting",
             clock' \in Nat, clock' >= clock, last_clock' \in 0 .. clock',
             blocks' \in 0 .. MaxBlocks
      PROVE  LinkInv'
  <2>1. /\ QueuedIds' = QueuedIds /\ WrittenIds' = WrittenIds
        /\ UnreadIds' = UnreadIds
    BY <1>1 DEF QueuedIds, WrittenIds, UnreadIds
  <2>2. Apart(QueuedIds \cup WrittenIds, UnreadIds, dropped)'
    BY <1>1, <2>1 DEF LinkInv, Apart
  <2>3. NothingVanishes'
    BY <1>1, <2>1 DEF NothingVanishes
  <2>4. Carried(pkt_queue, delivered, src_addr, clock)'
    <3>1. Carried(pkt_queue, delivered, src_addr, clock')
      BY <1>a, <1>1, TimePasses
    <3>. QED BY <1>1, <3>1
  <2>5. /\ inbox' = inbox /\ src_addr' = src_addr /\ sent' = sent
    BY <1>1
  <2>6. /\ src_addr' \in {Sender, Alien, Nobody} /\ sent' \in 0 .. MaxPkts
        /\ inbox' \in Seq(Packets)
        /\ \A i \in DOMAIN inbox' : inbox'[i].from = Dest => src_addr' # Nobody
        /\ \A i, j \in DOMAIN inbox' : i < j => inbox'[i].id # inbox'[j].id
    BY <2>5 DEF LinkInv
  <2>7. /\ status' \in {"starting", "running", "crashed", "exited"}
        /\ clock' \in Nat /\ last_clock' \in 0 .. clock'
        /\ blocks' \in 0 .. MaxBlocks
        /\ status' = "starting" => sent' = 0
    BY <1>1 DEF LinkInv
  <2>. QED BY <2>2, <2>3, <2>4, <2>6, <2>7 DEF LinkInv
<1>2. CASE Start
  <2>1. /\ sent = 0 /\ status' = "running" /\ last_clock' = clock
        /\ UNCHANGED <<clock, pkt_queue, src_addr, inbox, sent, blocks,
                       delivered, dropped>>
    BY <1>2 DEF Start, LinkInv
  <2>2. UnreadIds \cup QueuedIds \cup WrittenIds \cup dropped = 0 .. sent - 1
    <3>1. 0 .. sent - 1 = {}
      BY <2>1
    <3>. QED BY <3>1 DEF LinkInv, Apart
  <2>. QED BY <2>1, <2>2, <1>1, <1>a
<1>3. CASE StartFails
  BY <1>3, <1>1, <1>a DEF StartFails
<1>4. CASE PassFails
  <2> DEFINE expired == Len(Deliver(Size(pkt_queue)).out)
  <2>1. /\ status = "running" /\ status' = "crashed"
        /\ blocks' \in 0 .. MaxBlocks
        /\ UNCHANGED <<clock, src_addr, inbox, sent, dropped>>
        /\ \/ UNCHANGED <<last_clock, pkt_queue, delivered>>
           \/ /\ last_clock' = clock
              /\ \E n \in 0 .. expired - 1 :
                   /\ pkt_queue' = Left(n)
                   /\ delivered' = delivered \o Deliver(n).out
    BY <1>4, <1>a DEF PassFails
  <2>2. CASE UNCHANGED <<last_clock, pkt_queue, delivered>>
    BY <2>1, <2>2, <1>1, <1>a
  <2>3. CASE /\ last_clock' = clock
             /\ \E n \in 0 .. expired - 1 :
                  /\ pkt_queue' = Left(n)
                  /\ delivered' = delivered \o Deliver(n).out
    <3>1. expired \in Nat
      <4>1. Size(pkt_queue) \in Nat
        BY <1>a, HeapSize DEF Carried, IsHeap
      <4>2. Deliver(Size(pkt_queue)).out \in Seq(Writings)
        BY <1>a, <4>1, DeliverKeeps DEF LinkInv
      <4>. QED BY <4>2
    <3> HIDE DEF expired
    <3>2. PICK n \in 0 .. expired - 1 :
             /\ pkt_queue' = Left(n)
             /\ delivered' = delivered \o Deliver(n).out
      BY <2>3
    <3>3. n \in Nat
      BY <3>1
    <3> DEFINE q == Left(n)
               w == delivered \o Deliver(n).out
    <3>4. /\ Carried(q, w, src_addr, clock)
          /\ Ids(q) \cup IdsOut(w) = QueuedIds \cup WrittenIds
      BY <1>a, <3>3, DeliverKeeps, IdsHere DEF LinkInv, Left
    <3>5. pkt_queue' = q /\ delivered' = w
      BY <3>2
    <3> HIDE DEF q, w
    <3>6. Carried(pkt_queue, delivered, src_addr, clock)'
      BY <2>1, <3>4, <3>5
    <3>7. /\ (QueuedIds \cup WrittenIds)' = QueuedIds \cup WrittenIds
          /\ UnreadIds' = UnreadIds
      BY <2>1, <3>4, <3>5, <1>b DEF Ids, IdsOut, UnreadIds
    <3>8. Apart(QueuedIds \cup WrittenIds, UnreadIds, dropped)'
      BY <2>1, <3>7 DEF LinkInv, Apart
    <3>9. NothingVanishes'
      BY <2>1 DEF NothingVanishes
    <3>10. /\ inbox' = inbox /\ src_addr' = src_addr /\ sent' = sent
           /\ clock' = clock /\ last_clock' \in 0 .. clock'
           /\ status' = "crashed" /\ status' # "starting"
      BY <1>a, <2>1, <2>3
    <3>. QED BY <2>1, <3>6, <3>8, <3>9, <3>10 DEF LinkInv
  <2>. QED BY <2>1, <2>2, <2>3
<1>5. CASE Tick
  BY <1>5, <1>1, <1>a DEF Tick, LinkInv, NothingVanishes
<1>6. CASE Rest \/ UNCHANGED vars
  BY <1>6, <1>1, <1>a DEF Rest, vars, LinkInv, NothingVanishes
<1>7. CASE Exit
  <2>1. /\ status' = "exited" /\ pkt_queue' = EmptyQueue /\ inbox' = <<>>
        /\ UNCHANGED <<clock, last_clock, src_addr, sent, blocks, delivered,
                       dropped>>
    BY <1>7 DEF Exit
  <2>2. QueuedIds' = {} /\ UnreadIds' = {} /\ WrittenIds' = WrittenIds
    BY <2>1 DEF QueuedIds, UnreadIds, WrittenIds, EmptyQueue
  <2>3. Apart(QueuedIds \cup WrittenIds, UnreadIds, dropped)'
    BY <2>1, <2>2 DEF LinkInv, Apart
  <2>4. NothingVanishes'
    BY <2>1 DEF NothingVanishes
  <2>5. Carried(EmptyQueue, delivered, src_addr, clock)
    BY <1>a, EmptyHeap DEF Carried
  <2>6. Carried(pkt_queue, delivered, src_addr, clock)'
    BY <2>1, <2>5
  <2>7. /\ inbox' \in Seq(Packets)
        /\ \A i \in DOMAIN inbox' : inbox'[i].from = Dest => src_addr' # Nobody
        /\ \A i, j \in DOMAIN inbox' : i < j => inbox'[i].id # inbox'[j].id
        /\ status' \in {"starting", "running", "crashed", "exited"}
        /\ status' # "starting"
    BY <2>1
  <2>8. /\ clock' \in Nat /\ last_clock' \in 0 .. clock'
        /\ src_addr' \in {Sender, Alien, Nobody}
        /\ sent' \in 0 .. MaxPkts /\ blocks' \in 0 .. MaxBlocks
    BY <2>1 DEF LinkInv
  <2>. QED BY <2>3, <2>4, <2>6, <2>7, <2>8 DEF LinkInv
<1>8. CASE \E peer \in {Sender, Dest, Alien}, malformed \in BOOLEAN :
             Send(peer, malformed)
  BY <1>8, SendKeeps
<1>9. CASE Pass
  <2> DEFINE expired == Len(Deliver(Size(pkt_queue)).out)
  <2>1. /\ status = "running" /\ last_clock' = clock
        /\ UNCHANGED <<clock, sent>> /\ blocks' <= MaxBlocks
        /\ \E n \in 0 .. expired :
              /\ Process(Left(n), delivered \o Deliver(n).out)
              /\ blocks' = blocks + (IF n < expired THEN 1 ELSE 0)
                                  + (IF status' = "crashed" THEN 1 ELSE 0)
    BY <1>9 DEF Pass
  <2>2. expired \in Nat
    <3>1. Size(pkt_queue) \in Nat
      BY <1>a, HeapSize DEF Carried, IsHeap
    <3>2. Deliver(Size(pkt_queue)).out \in Seq(Writings)
      BY <1>a, <3>1, DeliverKeeps DEF LinkInv
    <3>. QED BY <3>2
  <2> HIDE DEF expired
  <2>3. PICK n \in 0 .. expired :
           /\ Process(Left(n), delivered \o Deliver(n).out)
           /\ blocks' = blocks + (IF n < expired THEN 1 ELSE 0)
                               + (IF status' = "crashed" THEN 1 ELSE 0)
    BY <2>1
  <2> DEFINE q == Left(n)
             w == delivered \o Deliver(n).out
  <2>4. /\ Carried(q, w, src_addr, clock)
        /\ Ids(q) \cup IdsOut(w) = QueuedIds \cup WrittenIds
    BY <1>a, <2>2, DeliverKeeps, IdsHere DEF LinkInv, Left
  <2>5. Process(q, w)
    BY <2>3
  <2>6. blocks' \in 0 .. MaxBlocks
    BY <1>a, <2>1, <2>3
  <2> HIDE DEF q, w
  <2>7. /\ status' \in {"running", "crashed"}
        /\ src_addr' \in {Sender, Alien, Nobody}
        /\ inbox' \in Seq(Packets)
        /\ \A i \in DOMAIN inbox' : inbox'[i].from = Dest => src_addr' # Nobody
        /\ \A i, j \in DOMAIN inbox' : i < j => inbox'[i].id # inbox'[j].id
        /\ Carried(pkt_queue, delivered, src_addr, clock)'
        /\ Apart(QueuedIds \cup WrittenIds, UnreadIds, dropped)'
        /\ NothingVanishes'
    BY <2>1, <2>4, <2>5, ProcessKeeps
  <2>8. clock' \in Nat /\ last_clock' \in 0 .. clock' /\ sent' \in 0 .. MaxPkts
    BY <1>a, <2>1 DEF LinkInv
  <2>. QED BY <2>6, <2>7, <2>8 DEF LinkInv
<1>. QED BY <1>2, <1>3, <1>4, <1>5, <1>6, <1>7, <1>8, <1>9 DEF Next

(* So it always holds. *)
LEMMA LinkInvariance == Spec => []LinkInv
BY LinkStarts, LinkStays, PTL DEF Spec

-----------------------------------------------------------------------------
(* The invariant contains the types of the simulator's state. *)
LEMMA LinkTypes == LinkInv => LinkTypeOK
<1> SUFFICES ASSUME LinkInv PROVE LinkTypeOK
  OBVIOUS
<1>1. Carried(pkt_queue, delivered, src_addr, clock)
  BY DEF LinkInv
<1>2. ASSUME NEW i \in DOMAIN pkt_queue
      PROVE  /\ pkt_queue[i].pkt \in Packets
             /\ pkt_queue[i].dir \in link_direction
             /\ pkt_queue[i].ts \in [sec : Nat, usec : 0 .. 2 * PerSec - 2]
  <2> DEFINE s == pkt_queue[i]
  <2>1. s \in SlotType
    BY <1>1, HeapSize DEF Carried, IsHeap
  <2>2. s \in Range(pkt_queue)
    BY DEF Range
  <2>3. s.dir \in link_direction /\ s.ts = Expiration(s.read, s.wait)
    BY <1>1, <2>2 DEF Carried, Queued
  <2>4. s.read \in Nat /\ s.wait \in Nat /\ s.pkt \in Packets
    BY <2>1 DEF SlotType
  <2> HIDE DEF s
  <2>5. /\ s.read \div PerSec \in Nat /\ s.read % PerSec \in 0 .. PerSec - 1
        /\ s.wait \div PerSec \in Nat /\ s.wait % PerSec \in 0 .. PerSec - 1
    BY <2>4, Seconds
  <2>6. s.read \div PerSec + s.wait \div PerSec \in Nat
    BY <2>5
  <2>7. (s.read % PerSec) + (s.wait % PerSec) \in 0 .. 2 * PerSec - 2
    BY <2>5, LinkSimAssumption
  <2>8. s.ts \in [sec : Nat, usec : 0 .. 2 * PerSec - 2]
    BY <2>3, <2>6, <2>7 DEF Expiration, Timeval
  <2>. QED BY <2>3, <2>4, <2>8 DEF s
<1>3. dropped \subseteq 0 .. MaxPkts - 1
  BY LinkSimAssumption DEF LinkInv, Apart
<1>. QED BY <1>2, <1>3 DEF LinkInv, LinkTypeOK

(* Where nothing is repeated there are as many elements as places. *)
LEMMA AsManyElements ==
    ASSUME NEW S, IsFiniteSet(S), NEW g, DOMAIN g = S,
           \A i, j \in S : g[i] = g[j] => i = j, g = [i \in S |-> g[i]]
    PROVE  /\ IsFiniteSet({g[i] : i \in S})
           /\ Cardinality({g[i] : i \in S}) = Cardinality(S)
<1> DEFINE T == {g[i] : i \in S}
<1>1. g \in [S -> T]
  OBVIOUS
<1>2. g \in Injection(S, T)
  BY <1>1 DEF Injection, IsInjective
<1>3. g \in Surjection(S, T)
  BY <1>1 DEF Surjection
<1>4. ExistsBijection(S, T)
  BY <1>2, <1>3 DEF ExistsBijection, Bijection
<1> HIDE DEF T
<1>5. IsFiniteSet(T) /\ Cardinality(T) = Cardinality(S)
  BY <1>4, FS_Bijection
<1>. QED BY <1>5 DEF T

(* So it is with the ids of a sequence of packets. *)
LEMMA AsManyIds ==
    ASSUME NEW S, NEW w \in Seq(S),
           \A i, j \in DOMAIN w : i < j => w[i].id # w[j].id
    PROVE  /\ IsFiniteSet({w[i].id : i \in DOMAIN w})
           /\ Cardinality({w[i].id : i \in DOMAIN w}) = Len(w)
<1>1. PICK n \in Nat : n = Len(w) /\ DOMAIN w = 1 .. n
  OBVIOUS
<1>2. IsFiniteSet(1 .. n) /\ Cardinality(1 .. n) = n
  BY FS_Interval
<1> DEFINE g == [i \in 1 .. n |-> w[i].id]
<1>3. \A i, j \in 1 .. n : g[i] = g[j] => i = j
  <2> SUFFICES ASSUME NEW i \in 1 .. n, NEW j \in 1 .. n, i # j
               PROVE  w[i].id # w[j].id
    OBVIOUS
  <2>1. i < j \/ j < i
    OBVIOUS
  <2>. QED BY <1>1, <2>1
<1>4. DOMAIN g = 1 .. n /\ g = [i \in 1 .. n |-> g[i]]
  OBVIOUS
<1>5. {w[i].id : i \in DOMAIN w} = {g[i] : i \in 1 .. n}
  BY <1>1
<1> HIDE DEF g
<1>6. /\ IsFiniteSet({g[i] : i \in 1 .. n})
      /\ Cardinality({g[i] : i \in 1 .. n}) = n
  BY <1>2, <1>3, <1>4, AsManyElements
<1>. QED BY <1>1, <1>5, <1>6

(* Three sets apart have as many elements as each has. *)
LEMMA ApartAdds ==
    ASSUME NEW A, IsFiniteSet(A), NEW B, IsFiniteSet(B), A \cap B = {}
    PROVE  /\ IsFiniteSet(A \cup B)
           /\ Cardinality(A \cup B) = Cardinality(A) + Cardinality(B)
           /\ Cardinality(A) \in Nat /\ Cardinality(B) \in Nat
<1>1. /\ IsFiniteSet(A \cup B)
      /\ Cardinality(A \cup B)
           = Cardinality(A) + Cardinality(B) - Cardinality(A \cap B)
  BY FS_Union
<1>2. Cardinality(A \cap B) = 0
  BY FS_EmptySet
<1>3. Cardinality(A) \in Nat /\ Cardinality(B) \in Nat
  BY FS_CardinalityType
<1>. QED BY <1>1, <1>2, <1>3

(* The invariant says that no packet is in two places, nor twice in one. *)
LEMMA NoneTwice == LinkInv => WrittenOnce
<1> SUFFICES ASSUME LinkInv PROVE WrittenOnce
  OBVIOUS
<1>1. Carried(pkt_queue, delivered, src_addr, clock)
  BY DEF LinkInv
<1>2. /\ IsFiniteSet(QueuedIds)
      /\ Cardinality(QueuedIds) = Size(pkt_queue)
  <2>1. PICK n \in Nat : HeapOf(pkt_queue, n)
    BY <1>1 DEF Carried, IsHeap
  <2>2. /\ Size(pkt_queue) = n /\ DOMAIN pkt_queue = 0 .. n - 1
        /\ \A i, j \in 0 .. n - 1 :
              pkt_queue[i].pkt.id = pkt_queue[j].pkt.id => i = j
    BY <2>1, HeapSize
  <2>3. IsFiniteSet(0 .. n - 1) /\ Cardinality(0 .. n - 1) = n
    BY FS_Interval
  <2> DEFINE g == [i \in 0 .. n - 1 |-> pkt_queue[i].pkt.id]
  <2>4. /\ DOMAIN g = 0 .. n - 1 /\ g = [i \in 0 .. n - 1 |-> g[i]]
        /\ \A i, j \in 0 .. n - 1 : g[i] = g[j] => i = j
    BY <2>2
  <2>5. QueuedIds = {g[i] : i \in 0 .. n - 1}
    BY <2>2 DEF QueuedIds
  <2> HIDE DEF g
  <2>6. /\ IsFiniteSet({g[i] : i \in 0 .. n - 1})
        /\ Cardinality({g[i] : i \in 0 .. n - 1}) = n
    BY <2>3, <2>4, AsManyElements
  <2>. QED BY <2>2, <2>5, <2>6
<1>3. /\ IsFiniteSet(WrittenIds)
      /\ Cardinality(WrittenIds) = Len(delivered)
  <2>1. /\ delivered \in Seq(Writings)
        /\ \A i, j \in DOMAIN delivered :
              i < j => delivered[i].id # delivered[j].id
    BY <1>1 DEF Carried
  <2>. QED BY <2>1, AsManyIds DEF WrittenIds
<1>4. /\ IsFiniteSet(UnreadIds)
      /\ Cardinality(UnreadIds) = Len(inbox)
  <2>1. /\ inbox \in Seq(Packets)
        /\ \A i, j \in DOMAIN inbox : i < j => inbox[i].id # inbox[j].id
    BY DEF LinkInv
  <2>. QED BY <2>1, AsManyIds DEF UnreadIds
<1>5. IsFiniteSet(dropped)
  <2>1. dropped \in SUBSET (0 .. sent - 1) /\ sent \in 0 .. MaxPkts
    BY DEF LinkInv, Apart
  <2>2. IsFiniteSet(0 .. sent - 1)
    BY <2>1, LinkSimAssumption, FS_Interval
  <2>. QED BY <2>1, <2>2, FS_Subset
<1>6. WrittenIds \cap QueuedIds = {}
  <2>1. \A i \in DOMAIN delivered, s \in Range(pkt_queue) :
           delivered[i].id # s.pkt.id
    BY <1>1 DEF Carried
  <2>. QED BY <2>1, IdsHere, IdsAre DEF IdsOut
<1>7. /\ (WrittenIds \cup QueuedIds) \cap UnreadIds = {}
      /\ (WrittenIds \cup QueuedIds \cup UnreadIds) \cap dropped = {}
  BY DEF LinkInv, Apart
<1>8. /\ IsFiniteSet(WrittenIds \cup QueuedIds)
      /\ Cardinality(WrittenIds \cup QueuedIds)
           = Len(delivered) + Size(pkt_queue)
  BY <1>2, <1>3, <1>6, ApartAdds
<1>9. /\ IsFiniteSet(WrittenIds \cup QueuedIds \cup UnreadIds)
      /\ Cardinality(WrittenIds \cup QueuedIds \cup UnreadIds)
           = Len(delivered) + Size(pkt_queue) + Len(inbox)
  BY <1>4, <1>7, <1>8, ApartAdds
<1>10. Cardinality(WrittenIds \cup QueuedIds \cup UnreadIds \cup dropped)
           = Len(delivered) + Size(pkt_queue) + Len(inbox)
                + Cardinality(dropped)
  BY <1>5, <1>7, <1>9, ApartAdds
<1>. QED BY <1>10 DEF WrittenOnce

(***************************************************************************)
(* The types of the simulator's state, in every run: no date of a queued   *)
(* packet has more units than two seconds, and the queue holds nothing of  *)
(* a direction the link leaves alone.                                      *)
(***************************************************************************)
THEOREM LinkTypeCorrect == Spec => []LinkTypeOK
BY LinkInvariance, LinkTypes, PTL

(***************************************************************************)
(* No packet is in two places: written twice, written and still queued,    *)
(* or dropped and yet written; whatever write of deliver_delayed_pkt would *)
(* have blocked, and however many packets there are.                       *)
(***************************************************************************)
THEOREM PacketsAreWrittenOnce == Spec => []WrittenOnce
BY LinkInvariance, NoneTwice, PTL

(***************************************************************************)
(* While proxy_loop runs, every packet sent to the simulator is unread,    *)
(* queued, written or dropped on purpose.                                  *)
(***************************************************************************)
THEOREM PacketsAreKept == Spec => []NothingVanishes
<1>1. LinkInv => NothingVanishes
  BY DEF LinkInv
<1>. QED BY <1>1, LinkInvariance, PTL

(***************************************************************************)
(* The simulator serves one connection, for packets of any hosts in any    *)
(* order: what the receiver gets comes from one host, which gets all of    *)
(* the answers.                                                            *)
(***************************************************************************)
THEOREM ServesOneConnection == Spec => []OneConnection
<1>1. LinkInv => OneConnection
  BY DEF LinkInv, OneConnection, Carried, Written
<1>. QED BY <1>1, LinkInvariance, PTL

(***************************************************************************)
(* For every delay and jitter, two packets of one way change places only   *)
(* if the one read later got the shorter delay: neither the heap's odd     *)
(* root nor the dates that simulate_link does not normalise reorder them.  *)
(***************************************************************************)
THEOREM OrderIsChangedByJitter == Spec => []OnlyJitterReorders
<1>1. LinkInv => OnlyJitterReorders
  <2> SUFFICES ASSUME LinkInv, NEW i \in DOMAIN delivered,
                      NEW j \in DOMAIN delivered, i < j
               PROVE  delivered[i].read > delivered[j].read
                         /\ delivered[i].to = delivered[j].to
                         => delivered[i].wait < delivered[j].wait
    BY DEF OnlyJitterReorders
  <2>1. MayPrecede(delivered[i], delivered[j].read, delivered[j].wait,
                   delivered[j].to)
    BY DEF LinkInv, Carried
  <2>. QED BY <2>1 DEF MayPrecede
<1>. QED BY <1>1, LinkInvariance, PTL

(***************************************************************************)
(* A packet is written less than a second before its delay has passed: a   *)
(* date whose units were not carried is compared to the clock's, which     *)
(* were.                                                                   *)
(***************************************************************************)
THEOREM DelaysAreKept == Spec => []LessThanASecondEarly
<1>1. LinkInv => LessThanASecondEarly
  BY DEF LinkInv, LessThanASecondEarly, Carried, Written
<1>. QED BY <1>1, LinkInvariance, PTL

-----------------------------------------------------------------------------
(***************************************************************************)
(* How late a packet may be.  Dates are compared field by field, so the    *)
(* root need not be due first; but no other packet is due a second before. *)
(***************************************************************************)
Due(s) == s.read + s.wait

(* What one date may be past the other and still not compare as greater.   *)
LEMMA NotGreater ==
    ASSUME NEW s1 \in Nat, NEW u1 \in Nat, NEW s2 \in Nat, NEW u2 \in Nat,
           ~timeval_cmp(Timeval(s1, u1), Timeval(s2, u2))
    PROVE  LET a == PerSec * s1 + u1
               b == PerSec * s2 + u2
           IN a <= b \/ a + PerSec <= b + u1
<1>0. PerSec \in Nat \ {0}
  BY LinkSimAssumption
<1>1. s1 < s2 \/ (s1 = s2 /\ u1 <= u2)
  BY DEF timeval_cmp, Timeval
<1>2. CASE s1 < s2
  <2> DEFINE d == s2 - s1 - 1
  <2>1. d \in Nat /\ s2 = s1 + d + 1
    BY <1>2
  <2> HIDE DEF d
  <2>2. /\ PerSec * s2 = PerSec * s1 + PerSec * d + PerSec
        /\ PerSec * d \in Nat /\ PerSec * s1 \in Nat
    BY <1>0, <2>1
  <2>3. PerSec * s2 \in Nat
    BY <1>0
  <2>. QED BY <1>0, <2>2, <2>3
<1>3. CASE s1 = s2 /\ u1 <= u2
  <2>1. PerSec * s1 \in Nat /\ PerSec * s1 = PerSec * s2
    BY <1>0, <1>3
  <2>. QED BY <1>3, <2>1
<1>. QED BY <1>1, <1>2, <1>3

(* The date a delay ends, in its two fields. *)
LEMMA DateIs ==
    ASSUME NEW r \in Nat, NEW w \in Nat
    PROVE  \E sec \in Nat, usec \in 0 .. 2 * PerSec - 2 :
              /\ Expiration(r, w) = Timeval(sec, usec)
              /\ r + w = PerSec * sec + usec
<1>0. PerSec \in Nat \ {0}
  BY LinkSimAssumption
<1> DEFINE qr == r \div PerSec
           qw == w \div PerSec
           mr == r % PerSec
           mw == w % PerSec
<1>1. /\ qr \in Nat /\ mr \in 0 .. PerSec - 1 /\ r = PerSec * qr + mr
      /\ qw \in Nat /\ mw \in 0 .. PerSec - 1 /\ w = PerSec * qw + mw
  BY Seconds
<1>2. Expiration(r, w) = Timeval(qr + qw, mr + mw)
  BY DEF Expiration
<1> HIDE DEF qr, qw, mr, mw
<1>3. /\ PerSec * (qr + qw) = PerSec * qr + PerSec * qw
      /\ PerSec * qr \in Nat /\ PerSec * qw \in Nat
  BY <1>0, <1>1
<1>4. qr + qw \in Nat /\ mr + mw \in 0 .. 2 * PerSec - 2
  BY <1>0, <1>1
<1>5. r + w = PerSec * (qr + qw) + (mr + mw)
  BY <1>1, <1>3
<1>. QED BY <1>2, <1>4, <1>5

(* So what is not greater is less than a second later, *)
LEMMA NoSecondLater ==
    ASSUME NEW r1 \in Nat, NEW w1 \in Nat, NEW r2 \in Nat, NEW w2 \in Nat,
           ~timeval_cmp(Expiration(r1, w1), Expiration(r2, w2))
    PROVE  r1 + w1 < r2 + w2 + PerSec
<1>0. PerSec \in Nat \ {0}
  BY LinkSimAssumption
<1>1. PICK s1 \in Nat, u1 \in 0 .. 2 * PerSec - 2 :
         /\ Expiration(r1, w1) = Timeval(s1, u1)
         /\ r1 + w1 = PerSec * s1 + u1
  BY DateIs
<1>2. PICK s2 \in Nat, u2 \in 0 .. 2 * PerSec - 2 :
         /\ Expiration(r2, w2) = Timeval(s2, u2)
         /\ r2 + w2 = PerSec * s2 + u2
  BY DateIs
<1>3. u1 \in Nat /\ u2 \in Nat /\ u1 <= 2 * PerSec - 2
  BY <1>0
<1>4. ~timeval_cmp(Timeval(s1, u1), Timeval(s2, u2))
  BY <1>1, <1>2
<1>5. \/ r1 + w1 <= r2 + w2
      \/ (r1 + w1) + PerSec <= (r2 + w2) + u1
  BY <1>1, <1>2, <1>3, <1>4, NotGreater
<1>. QED BY <1>0, <1>3, <1>5

(* and the clock, whose units are carried, is not later than a date it is  *)
(* not greater than. *)
LEMMA NotExpiredYet ==
    ASSUME NEW now \in Nat, NEW r \in Nat, NEW w \in Nat,
           ~timeval_cmp(ToTimeval(now), Expiration(r, w))
    PROVE  now <= r + w
<1>0. PerSec \in Nat \ {0}
  BY LinkSimAssumption
<1> DEFINE qn == now \div PerSec
           mn == now % PerSec
<1>1. /\ qn \in Nat /\ mn \in 0 .. PerSec - 1 /\ now = PerSec * qn + mn
      /\ ToTimeval(now) = Timeval(qn, mn)
  BY Seconds DEF ToTimeval
<1> HIDE DEF qn, mn
<1>2. PICK s \in Nat, u \in 0 .. 2 * PerSec - 2 :
         /\ Expiration(r, w) = Timeval(s, u)
         /\ r + w = PerSec * s + u
  BY DateIs
<1>3. mn \in Nat /\ u \in Nat /\ mn < PerSec
  BY <1>0, <1>1
<1>4. ~timeval_cmp(Timeval(qn, mn), Timeval(s, u))
  BY <1>1, <1>2
<1>5. now <= r + w \/ now + PerSec <= (r + w) + mn
  BY <1>1, <1>2, <1>3, <1>4, NotGreater
<1>. QED BY <1>0, <1>3, <1>5

(* How long select waits for a packet of this date. *)
Timeout(ts, now) ==
    LET timeout == timeval_diff(ts, ToTimeval(now))
    IN IF timeout.sec < 0 \/ (timeout.sec = 0 /\ timeout.usec <= 0)
       THEN Retry
       ELSE Value(timeout)

(***************************************************************************)
(* It is a millisecond, or exactly until the delay ends: the second that   *)
(* timeval_diff does not borrow is only missing where it is a millisecond. *)
(***************************************************************************)
LEMMA TimeoutIs ==
    ASSUME NEW r \in Nat, NEW w \in Nat, NEW now \in Nat
    PROVE  LET t == Timeout(Expiration(r, w), now)
           IN t \in Nat /\ t >= 1 /\ (t = Retry \/ now + t = r + w)
<1>0. PerSec \in Nat \ {0} /\ Retry \in Nat \ {0}
  BY LinkSimAssumption
<1> DEFINE qn == now \div PerSec
           mn == now % PerSec
           t == Timeout(Expiration(r, w), now)
<1>1. /\ qn \in Nat /\ mn \in 0 .. PerSec - 1 /\ now = PerSec * qn + mn
      /\ ToTimeval(now) = Timeval(qn, mn)
  BY Seconds DEF ToTimeval
<1> HIDE DEF qn, mn
<1>2. PICK s \in Nat, u \in 0 .. 2 * PerSec - 2 :
         /\ Expiration(r, w) = Timeval(s, u)
         /\ r + w = PerSec * s + u
  BY DateIs
<1> DEFINE a == s - qn
           b == u - mn
           diff == timeval_diff(Timeval(s, u), Timeval(qn, mn))
<1>3. /\ a \in Int /\ b \in Int /\ b + PerSec >= 1
      /\ PerSec * s = PerSec * qn + PerSec * a
  BY <1>0, <1>1
<1>4. /\ PerSec * a \in Int /\ PerSec * qn \in Int /\ PerSec * s \in Int
      /\ (a >= 1 => PerSec * a >= PerSec)
      /\ (a = 0 => PerSec * a = 0)
  <2> HIDE DEF a
  <2>1. PerSec * a \in Int /\ PerSec * qn \in Int /\ PerSec * s \in Int
    BY <1>0, <1>1, <1>3
  <2>2. ASSUME a >= 1 PROVE PerSec * a >= PerSec
    <3> DEFINE c == a - 1
    <3>1. c \in Nat /\ a = c + 1
      BY <1>3, <2>2
    <3> HIDE DEF c
    <3>2. PerSec * a = PerSec * c + PerSec /\ PerSec * c \in Nat
      BY <1>0, <3>1
    <3>. QED BY <1>0, <3>2
  <2>. QED BY <1>0, <2>1, <2>2
<1>5. (r + w) - now = PerSec * a + b
  BY <1>1, <1>2, <1>3, <1>4
<1>6. diff = IF b >= 0 THEN Timeval(a, b)
             ELSE IF a - 1 # 0 THEN Timeval(a - 1, b + PerSec)
             ELSE Timeval(0, b)
  BY DEF timeval_diff, Timeval
<1>7. t = IF diff.sec < 0 \/ (diff.sec = 0 /\ diff.usec <= 0) THEN Retry
          ELSE diff.sec * PerSec + diff.usec
  BY <1>1, <1>2 DEF Timeout, Value
<1> HIDE DEF diff, a, b, t
<1>8. CASE b >= 0
  <2>1. diff.sec = a /\ diff.usec = b
    BY <1>6, <1>8 DEF Timeval
  <2>2. t = Retry \/ (t = a * PerSec + b /\ (a >= 1 \/ (a = 0 /\ b >= 1)))
    BY <1>0, <1>3, <1>7, <2>1
  <2>3. a * PerSec = PerSec * a
    BY <1>0, <1>3
  <2>. QED BY <1>0, <1>1, <1>3, <1>4, <1>5, <1>8, <2>2, <2>3 DEF t
<1>9. CASE b < 0 /\ a - 1 # 0
  <2>1. diff.sec = a - 1 /\ diff.usec = b + PerSec
    BY <1>3, <1>6, <1>9 DEF Timeval
  <2>2. t = Retry \/ (t = (a - 1) * PerSec + (b + PerSec) /\ a >= 2)
    BY <1>0, <1>3, <1>7, <1>9, <2>1
  <2>3. (a - 1) * PerSec = PerSec * a - PerSec
    BY <1>0, <1>3
  <2>. QED BY <1>0, <1>1, <1>3, <1>4, <1>5, <2>2, <2>3 DEF t
<1>10. CASE b < 0 /\ a - 1 = 0
  <2>1. diff.sec = 0 /\ diff.usec = b
    BY <1>3, <1>6, <1>10 DEF Timeval
  <2>. QED BY <1>0, <1>3, <1>7, <1>10, <2>1 DEF t
<1>. QED BY <1>3, <1>8, <1>9, <1>10

(* A pop leaves one packet fewer. *)
LEMMA PopSize ==
    ASSUME NEW q, IsHeap(q), ~minq_empty(q)
    PROVE  /\ Size(q) \in Nat \ {0} /\ Size(minq_pop(q)) = Size(q) - 1
<1>1. PICK n \in Nat : HeapOf(q, n)
  BY DEF IsHeap
<1>2. Size(q) = n /\ n # 0
  BY <1>1, HeapSize DEF minq_empty
<1>3. CASE n = 1
  <2>1. minq_pop(q) = EmptyQueue
    BY <1>2, <1>3 DEF minq_pop
  <2>2. DOMAIN EmptyQueue = {}
    BY DEF EmptyQueue
  <2>3. Size(EmptyQueue) = 0
    BY <2>2, FS_EmptySet DEF Size
  <2>. QED BY <1>2, <1>3, <2>1, <2>3
<1>4. CASE n # 1
  <2>1. ~(Size(q) <= 1) /\ n - 1 \in Nat /\ (n - 1) - 1 + 1 = n - 1
    BY <1>2, <1>4
  <2>2. DOMAIN minq_pop(q) = 0 .. (n - 1) - 1
    BY <1>2, <2>1 DEF minq_pop
  <2>3. Cardinality(0 .. (n - 1) - 1) = n - 1
    <3>1. \A k \in Nat : Cardinality(0 .. k - 1) = k
      <4> TAKE k \in Nat
      <4>. QED BY FS_Interval
    <3>. QED BY <2>1, <3>1
  <2>. QED BY <1>2, <2>2, <2>3 DEF Size
<1>. QED BY <1>2, <1>3, <1>4

(* deliver_delayed_pkt stops at a packet that has not expired. *)
Stopped(q) == minq_empty(q) \/ ~Expired(clock, minq_peek(q))

(* One packet more is written, or there is none that has expired. *)
LEMMA DeliverNext ==
    /\ Deliver(0) = [queue |-> pkt_queue, out |-> <<>>]
    /\ \A n \in Nat : Deliver(n + 1) = Delivery(Deliver(n))
<1>1. Deliver(0) = [queue |-> pkt_queue, out |-> <<>>]
  BY DeliverIs
<1>2. ASSUME NEW n \in Nat PROVE Deliver(n + 1) = Delivery(Deliver(n))
  <2>1. PICK f : /\ Deliver(n) = f[n]
                 /\ f[0] = [queue |-> pkt_queue, out |-> <<>>]
                 /\ \A k \in 0 .. n - 1 : f[k + 1] = Delivery(f[k])
    BY DeliverIs
  <2>2. PICK g : /\ Deliver(n + 1) = g[n + 1]
                 /\ g[0] = [queue |-> pkt_queue, out |-> <<>>]
                 /\ \A k \in 0 .. (n + 1) - 1 : g[k + 1] = Delivery(g[k])
    <3>1. n + 1 \in Nat
      OBVIOUS
    <3>. QED BY <3>1, DeliverIs
  <2> DEFINE B == {k \in 0 .. n : f[k] # g[k]}
  <2>3. 0 \notin B
    BY <2>1, <2>2
  <2>4. ASSUME NEW k \in Nat, k + 1 \in B PROVE k \in B
    <3>1. k \in 0 .. n - 1 /\ k \in 0 .. (n + 1) - 1 /\ k \in 0 .. n
      BY <2>4
    <3>2. f[k + 1] = Delivery(f[k]) /\ g[k + 1] = Delivery(g[k])
      BY <2>1, <2>2, <3>1
    <3>. QED BY <2>4, <3>1, <3>2
  <2>5. B \in SUBSET Nat
    OBVIOUS
  <2>6. n \in 0 .. n /\ n \in 0 .. (n + 1) - 1
    OBVIOUS
  <2>7. B = {}
    <3> HIDE DEF B
    <3>. QED BY <2>3, <2>4, <2>5, NoCounterexample
  <2>8. f[n] = g[n]
    BY <2>6, <2>7
  <2>. QED BY <2>1, <2>2, <2>6, <2>8
<1>. QED BY <1>1, <1>2

(* No packet comes into the queue that was not there. *)
LEMMA DeliverTakes ==
    ASSUME Carried(pkt_queue, delivered, src_addr, clock),
           src_addr \in {Sender, Alien, Nobody}, clock \in Nat,
           NEW n \in Nat
    PROVE  Range(Deliver(n).queue) \subseteq Range(pkt_queue)
<1> DEFINE R(k) == Range(Deliver(k).queue) \subseteq Range(pkt_queue)
           B == {k \in Nat : ~R(k)}
<1>1. 0 \notin B
  BY DeliverNext
<1>2. ASSUME NEW k \in Nat, R(k) PROVE R(k + 1)
  <2>1. Deliver(k + 1) = Delivery(Deliver(k))
    BY DeliverNext
  <2>2. IsHeap(Deliver(k).queue)
    BY DeliverKeeps DEF Carried
  <2>3. CASE Stopped(Deliver(k).queue)
    BY <1>2, <2>1, <2>3 DEF Stopped, Delivery
  <2>4. CASE ~Stopped(Deliver(k).queue)
    <3>1. Deliver(k + 1).queue = minq_pop(Deliver(k).queue)
      BY <2>1, <2>4 DEF Stopped, Delivery
    <3>2. Range(minq_pop(Deliver(k).queue)) \subseteq Range(Deliver(k).queue)
      BY <2>2, <2>4, PopFact DEF Stopped
    <3>. QED BY <1>2, <3>1, <3>2
  <2>. QED BY <2>3, <2>4
<1>3. \A k \in Nat : k + 1 \in B => k \in B
  <2> HIDE DEF R
  <2>. QED BY <1>2
<1>4. B \in SUBSET Nat
  OBVIOUS
<1>5. B = {}
  <2> HIDE DEF B
  <2>. QED BY <1>1, <1>3, <1>4, NoCounterexample
<1>. QED BY <1>5

(***************************************************************************)
(* When as many packets were written as had expired, none has expired that *)
(* is first in the queue.                                                  *)
(***************************************************************************)
LEMMA DeliverStops ==
    ASSUME Carried(pkt_queue, delivered, src_addr, clock),
           src_addr \in {Sender, Alien, Nobody}, clock \in Nat
    PROVE  Stopped(Deliver(Len(Deliver(Size(pkt_queue)).out)).queue)
<1> DEFINE N == Size(pkt_queue)
           P(k) == \E m \in 0 .. k :
                      /\ Len(Deliver(k).out) = m
                      /\ Deliver(k) = Deliver(m)
                      /\ Size(Deliver(k).queue) = N - m
                      /\ m = k \/ Stopped(Deliver(k).queue)
           B == {k \in 0 .. N : ~P(k)}
<1>0. N \in Nat
  BY HeapSize DEF Carried, IsHeap
<1> HIDE DEF N
<1>1. P(0)
  <2>1. Deliver(0).queue = pkt_queue /\ Deliver(0).out = <<>>
    BY DeliverNext
  <2>2. Len(<<>>) = 0 /\ 0 \in 0 .. 0 /\ N - 0 = N
    BY <1>0
  <2>. QED BY <2>1, <2>2 DEF N
<1>2. ASSUME NEW k \in Nat, P(k) PROVE P(k + 1)
  <2>1. PICK m \in 0 .. k : /\ Len(Deliver(k).out) = m
                            /\ Deliver(k) = Deliver(m)
                            /\ Size(Deliver(k).queue) = N - m
                            /\ m = k \/ Stopped(Deliver(k).queue)
    BY <1>2
  <2>2. Deliver(k + 1) = Delivery(Deliver(k))
    BY DeliverNext
  <2>3. IsHeap(Deliver(k).queue) /\ Deliver(k).out \in Seq(Writings)
    BY DeliverKeeps DEF Carried
  <2>4. CASE Stopped(Deliver(k).queue)
    <3>1. Deliver(k + 1) = Deliver(k)
      BY <2>2, <2>4 DEF Stopped, Delivery
    <3>2. m \in 0 .. k + 1
      OBVIOUS
    <3>. QED BY <2>1, <2>4, <3>1, <3>2
  <2>5. CASE ~Stopped(Deliver(k).queue)
    <3> DEFINE p == RootOut(Deliver(k).queue, src_addr, clock)
    <3>1. /\ Deliver(k + 1).queue = minq_pop(Deliver(k).queue)
          /\ Deliver(k + 1).out = Append(Deliver(k).out, p)
      BY <2>2, <2>5 DEF Stopped, Delivery
    <3> HIDE DEF p
    <3>2. Len(Append(Deliver(k).out, p)) = k + 1
      BY <2>1, <2>3, <2>5
    <3>3. Size(minq_pop(Deliver(k).queue)) = (N - k) - 1
      BY <2>1, <2>3, <2>5, PopSize DEF Stopped
    <3>4. k + 1 \in 0 .. k + 1 /\ (N - k) - 1 = N - (k + 1)
      BY <1>0
    <3>. QED BY <3>1, <3>2, <3>3, <3>4
  <2>. QED BY <2>4, <2>5
<1>3. \A k \in Nat : k + 1 \in B => k \in B
  <2> HIDE DEF P
  <2>. QED BY <1>0, <1>2
<1>4. B \in SUBSET Nat /\ 0 \notin B
  <2> HIDE DEF P
  <2>. QED BY <1>1
<1>5. B = {}
  <2> HIDE DEF B
  <2>. QED BY <1>3, <1>4, NoCounterexample
<1>6. PICK m \in 0 .. N : /\ Len(Deliver(N).out) = m
                          /\ Deliver(N) = Deliver(m)
                          /\ Size(Deliver(N).queue) = N - m
                          /\ m = N \/ Stopped(Deliver(N).queue)
  BY <1>0, <1>5
<1>7. m = N => minq_empty(Deliver(N).queue)
  BY <1>0, <1>6 DEF minq_empty
<1>8. Stopped(Deliver(N).queue)
  BY <1>6, <1>7 DEF Stopped
<1>9. Stopped(Deliver(Len(Deliver(N).out)).queue)
  BY <1>6, <1>8
<1>. QED BY <1>9 DEF N

(***************************************************************************)
(* A pass never comes more than MaxLate after select's timeout, and when   *)
(* the last one ended no packet was later than the failed calls explain.   *)
(***************************************************************************)
Waits ==
    ~minq_empty(pkt_queue) =>
        clock <= last_clock + Timeout(minq_peek(pkt_queue).ts, last_clock)
                   + MaxLate

(* What n retries cost. *)
Retries(n) == n * (Retry + MaxLate)

OnTime ==
    \A s \in Range(pkt_queue) :
        last_clock < Due(s) + PerSec + Retries(blocks)

LateInv == status = "running" => Waits /\ OnTime

(* One retry more. *)
LEMMA RetriesAre ==
    ASSUME NEW n \in Nat
    PROVE  /\ Retries(n) \in Nat /\ Retry \in Nat \ {0} /\ MaxLate \in Nat
           /\ Retries(n + 1) = Retries(n) + Retry + MaxLate
<1>1. Retry \in Nat \ {0} /\ MaxLate \in Nat
  BY LinkSimAssumption
<1> DEFINE slack == Retry + MaxLate
<1>2. slack \in Nat
  BY <1>1
<1> HIDE DEF slack
<1>3. n * slack \in Nat /\ (n + 1) * slack = n * slack + slack
  BY <1>2
<1>. QED BY <1>1, <1>3 DEF Retries, slack

(* The packets of a queue and their dates; the root is among them. *)
LEMMA QueueFacts ==
    ASSUME NEW q, NEW w, NEW src, NEW now, Carried(q, w, src, now)
    PROVE  /\ \A s \in Range(q) : /\ s.read \in Nat /\ s.wait \in Nat
                                 /\ s.ts = Expiration(s.read, s.wait)
           /\ ~minq_empty(q) => minq_peek(q) \in Range(q)
           /\ minq_empty(q) => Range(q) = {}
<1>1. ASSUME NEW s \in Range(q)
      PROVE  s.read \in Nat /\ s.wait \in Nat
  <2>1. s \in SlotType
    BY HeapSize DEF Carried, IsHeap, Range
  <2>. QED BY <2>1 DEF SlotType
<1>2. \A s \in Range(q) : s.ts = Expiration(s.read, s.wait)
  BY DEF Carried, Queued
<1>3. IsHeap(q)
  BY DEF Carried
<1>4. minq_empty(q) => Range(q) = {}
  BY <1>3, HeapSize DEF IsHeap, minq_empty, Range
<1>. QED BY <1>1, <1>2, <1>3, <1>4, PopFact

(* Then no packet is late now either. *)
LEMMA NoneIsLate ==
    ASSUME LinkInv, Waits, OnTime, NEW s \in Range(pkt_queue)
    PROVE  clock < Due(s) + PerSec + Retries(blocks + 1)
<1>0. /\ PerSec \in Nat \ {0} /\ clock \in Nat /\ last_clock \in Nat
      /\ blocks \in Nat /\ s.read \in Nat /\ s.wait \in Nat
      /\ Carried(pkt_queue, delivered, src_addr, clock)
  BY QueueFacts, LinkSimAssumption DEF LinkInv
<1> DEFINE r == minq_peek(pkt_queue)
           t == Timeout(r.ts, last_clock)
<1>1. ~minq_empty(pkt_queue) /\ r \in Range(pkt_queue)
  BY <1>0, QueueFacts
<1>2. r.read \in Nat /\ r.wait \in Nat /\ r.ts = Expiration(r.read, r.wait)
  BY <1>0, <1>1, QueueFacts
<1>3. t \in Nat /\ (t = Retry \/ last_clock + t = r.read + r.wait)
  <2>1. LET x == Timeout(Expiration(r.read, r.wait), last_clock)
        IN x \in Nat /\ (x = Retry \/ last_clock + x = r.read + r.wait)
    <3> HIDE DEF r
    <3>. QED BY <1>0, <1>2, TimeoutIs
  <2>. QED BY <1>2, <2>1
<1>4. clock <= last_clock + t + MaxLate
  BY <1>1 DEF Waits
<1>5. r.read + r.wait < s.read + s.wait + PerSec
  <2>1. ~pkt_slot_cmp(r, s)
    BY <1>0, <1>1, PopFact DEF Carried
  <2>2. s.ts = Expiration(s.read, s.wait)
    BY <1>0, QueueFacts
  <2> HIDE DEF r
  <2>3. ~timeval_cmp(Expiration(r.read, r.wait), Expiration(s.read, s.wait))
    BY <1>2, <2>1, <2>2 DEF pkt_slot_cmp
  <2>. QED BY <1>0, <1>2, <2>3, NoSecondLater
<1>6. last_clock < Due(s) + PerSec + Retries(blocks)
  BY DEF OnTime
<1>10. /\ Retries(blocks) \in Nat /\ Retry \in Nat \ {0} /\ MaxLate \in Nat
       /\ Retries(blocks + 1) = Retries(blocks) + Retry + MaxLate
  BY <1>0, RetriesAre
<1> HIDE DEF r, t
<1>7. Due(s) = s.read + s.wait
  BY DEF Due
<1>8. CASE t = Retry
  BY <1>0, <1>3, <1>4, <1>6, <1>7, <1>8, <1>10
<1>9. CASE last_clock + t = r.read + r.wait
  BY <1>0, <1>2, <1>3, <1>4, <1>5, <1>7, <1>9, <1>10
<1>. QED BY <1>3, <1>8, <1>9

(***************************************************************************)
(* A pass leaves the packets that are not late: when it has written all    *)
(* that had expired the rest is due within a second or not yet, and a call *)
(* that failed lets them wait for a retry more.                            *)
(***************************************************************************)
LEMMA PassInTime ==
    ASSUME LinkInv, LateInv, Pass, LinkInv'
    PROVE  LateInv'
<1> SUFFICES ASSUME status' = "running" PROVE Waits' /\ OnTime'
  BY DEF LateInv
<1> DEFINE expired == Len(Deliver(Size(pkt_queue)).out)
<1>1. /\ status = "running" /\ last_clock' = clock /\ clock' = clock
      /\ sent' = sent
      /\ \E n \in 0 .. expired :
            /\ Process(Left(n), delivered \o Deliver(n).out)
            /\ blocks' = blocks + (IF n < expired THEN 1 ELSE 0)
                                + (IF status' = "crashed" THEN 1 ELSE 0)
  BY DEF Pass
<1>2. /\ Carried(pkt_queue, delivered, src_addr, clock)
      /\ src_addr \in {Sender, Alien, Nobody} /\ clock \in Nat
      /\ blocks \in Nat /\ PerSec \in Nat \ {0}
      /\ Carried(pkt_queue', delivered', src_addr', clock')
  BY LinkSimAssumption DEF LinkInv
<1>3. expired \in Nat
  <2>1. Size(pkt_queue) \in Nat
    BY <1>2, HeapSize DEF Carried, IsHeap
  <2>2. Deliver(Size(pkt_queue)).out \in Seq(Writings)
    BY <1>2, <2>1, DeliverKeeps
  <2>. QED BY <2>2
<1>4. Stopped(Deliver(expired).queue)
  BY <1>2, DeliverStops
<1> HIDE DEF expired
<1>5. PICK n \in 0 .. expired :
         /\ Process(Left(n), delivered \o Deliver(n).out)
         /\ blocks' = blocks + (IF n < expired THEN 1 ELSE 0)
  BY <1>1, <1>2
<1>6. n \in Nat /\ n <= expired
  BY <1>3
<1> DEFINE q == Left(n)
           w == delivered \o Deliver(n).out
<1>7. /\ Carried(q, w, src_addr, clock)
      /\ Ids(q) \cup IdsOut(w) = QueuedIds \cup WrittenIds
      /\ Range(q) \subseteq Range(pkt_queue)
  BY <1>2, <1>6, DeliverKeeps, DeliverTakes, IdsHere DEF Left
<1>8. n = expired => Stopped(q)
  BY <1>4 DEF Left
<1>9. Process(q, w)
  BY <1>5
<1> HIDE DEF q, w
<1>10. Grown(q, pkt_queue')
  BY <1>1, <1>7, <1>9, ProcessKeeps
<1>11. \A s \in Range(q) : /\ s.read \in Nat /\ s.wait \in Nat
                           /\ s.ts = Expiration(s.read, s.wait)
  BY <1>2, <1>7, QueueFacts
<1>12. ASSUME NEW s \in Range(q)
       PROVE  clock < Due(s) + PerSec + Retries(blocks')
  <2>0. s.read \in Nat /\ s.wait \in Nat /\ s.ts = Expiration(s.read, s.wait)
    BY <1>11
  <2>1. CASE n < expired
    <3>1. clock < Due(s) + PerSec + Retries(blocks + 1)
      BY <1>1, <1>7, NoneIsLate DEF LateInv
    <3>2. blocks' = blocks + 1
      BY <1>5, <2>1
    <3>. QED BY <3>1, <3>2
  <2>2. CASE n = expired
    <3> DEFINE r == minq_peek(q)
    <3>1. ~minq_empty(q)
      BY <1>7, HeapSize DEF Carried, IsHeap, minq_empty, Range
    <3>2. r \in Range(q) /\ ~pkt_slot_cmp(r, s)
      BY <1>7, <3>1, PopFact DEF Carried
    <3>3. ~Expired(clock, r)
      BY <1>8, <2>2, <3>1 DEF Stopped
    <3> HIDE DEF r
    <3>4. r.read \in Nat /\ r.wait \in Nat /\ r.ts = Expiration(r.read, r.wait)
      BY <1>11, <3>2
    <3>5. clock <= r.read + r.wait
      BY <1>2, <3>3, <3>4, NotExpiredYet DEF Expired
    <3>6. r.read + r.wait < s.read + s.wait + PerSec
      BY <2>0, <3>2, <3>4, NoSecondLater DEF pkt_slot_cmp
    <3>7. blocks' = blocks
      BY <1>2, <1>3, <1>5, <2>2
    <3>8. Retries(blocks) \in Nat
      BY <1>2, RetriesAre
    <3>. QED BY <1>2, <2>0, <3>4, <3>5, <3>6, <3>7, <3>8 DEF Due
  <2>. QED BY <1>3, <1>6, <2>1, <2>2
<1>13. OnTime'
  <2>1. \A s \in Range(pkt_queue') : s.read \in Nat /\ s.wait \in Nat
    BY <1>2, QueueFacts
  <2>2. blocks' \in Nat
    BY <1>2, <1>5
  <2>3. ASSUME NEW s \in Range(pkt_queue')
        PROVE  clock < Due(s) + PerSec + Retries(blocks')
    <3>1. s \in Range(q) \/ s.read = clock
      BY <1>10 DEF Grown
    <3>2. CASE s.read = clock
      <4>1. Retries(blocks') \in Nat
        BY <2>2, RetriesAre
      <4>. QED BY <1>2, <2>1, <3>2, <4>1 DEF Due
    <3>. QED BY <1>12, <3>1, <3>2
  <2>4. OnTime' <=> \A s \in Range(pkt_queue') :
                       last_clock' < Due(s) + PerSec + Retries(blocks')
    BY DEF OnTime, Range, Due, Retries
  <2>. QED BY <1>1, <2>3, <2>4
<1>14. Waits'
  <2> DEFINE r == minq_peek(pkt_queue')
             t == Timeout(r.ts, clock)
  <2>1. Waits' <=> (~minq_empty(pkt_queue') =>
                       clock' <= last_clock'
                                   + Timeout(r.ts, last_clock')
                                   + MaxLate)
    BY DEF Waits, minq_empty, minq_peek, Timeout, Size
  <2>2. ASSUME ~minq_empty(pkt_queue') PROVE t \in Nat
    <3>1. r \in Range(pkt_queue')
      BY <1>2, <2>2, QueueFacts
    <3>2. /\ r.read \in Nat /\ r.wait \in Nat
          /\ r.ts = Expiration(r.read, r.wait)
      BY <1>2, <3>1, QueueFacts
    <3> HIDE DEF r
    <3>. QED BY <1>2, <3>2, TimeoutIs
  <2> HIDE DEF r
  <2>. QED BY <1>1, <1>2, <2>1, <2>2, LinkSimAssumption
<1>. QED BY <1>13, <1>14

(* The lateness of packets is bounded from the start, *)
LEMMA LateStarts == Init => LateInv
BY DEF Init, LateInv

(* and by every step. *)
LEMMA LateSteps == LinkInv /\ LateInv /\ [Next]_vars /\ LinkInv' => LateInv'
<1> SUFFICES ASSUME LinkInv, LateInv, [Next]_vars, LinkInv' PROVE LateInv'
  OBVIOUS
<1>1. ASSUME UNCHANGED <<last_clock, pkt_queue, blocks>>,
             status' = "running" =>
                status = "running"
                /\ (~minq_empty(pkt_queue) =>
                       clock' <= last_clock
                                   + Timeout(minq_peek(pkt_queue).ts,
                                             last_clock)
                                   + MaxLate)
      PROVE  LateInv'
  BY <1>1 DEF LateInv, Waits, OnTime
<1>2. CASE Start
  <2>1. sent = 0 /\ last_clock' = clock /\ UNCHANGED <<clock, pkt_queue>>
    BY <1>2 DEF Start, LinkInv
  <2>2. QueuedIds = {}
    <3>1. 0 .. sent - 1 = {}
      BY <2>1
    <3>. QED BY <3>1 DEF LinkInv, Apart
  <2>3. DOMAIN pkt_queue = {} /\ Range(pkt_queue) = {}
    BY <2>2 DEF QueuedIds, Range
  <2>4. Size(pkt_queue) = 0
    BY <2>3, FS_EmptySet DEF Size
  <2>5. minq_empty(pkt_queue') /\ Range(pkt_queue') = {}
    BY <2>1, <2>3, <2>4 DEF minq_empty
  <2>6. Waits' /\ OnTime'
    BY <2>5 DEF Waits, OnTime
  <2>. QED BY <2>6 DEF LateInv
<1>3. CASE StartFails \/ PassFails \/ Exit
  BY <1>3 DEF StartFails, PassFails, Exit, LateInv
<1>4. CASE Tick
  <2>1. /\ status = "running" /\ clock' = clock + 1
        /\ UNCHANGED <<status, last_clock, pkt_queue, blocks>>
        /\ ~minq_empty(pkt_queue) =>
               clock < last_clock + get_queue_timeout + MaxLate
    BY <1>4 DEF Tick
  <2>2. ASSUME ~minq_empty(pkt_queue)
        PROVE  clock' <= last_clock
                           + Timeout(minq_peek(pkt_queue).ts, last_clock)
                           + MaxLate
    <3> DEFINE r == minq_peek(pkt_queue)
               t == Timeout(r.ts, last_clock)
    <3>1. /\ Carried(pkt_queue, delivered, src_addr, clock)
          /\ clock \in Nat /\ last_clock \in Nat /\ MaxLate \in Nat
      BY LinkSimAssumption DEF LinkInv
    <3>2. /\ r.read \in Nat /\ r.wait \in Nat
          /\ r.ts = Expiration(r.read, r.wait)
      BY <2>2, <3>1, QueueFacts
    <3>3. t \in Nat
      <4> HIDE DEF r
      <4>. QED BY <3>1, <3>2, TimeoutIs
    <3>4. get_queue_timeout = t
      BY DEF get_queue_timeout, TimeoutFor, Timeout
    <3> HIDE DEF r, t
    <3>5. clock' <= last_clock + t + MaxLate
      BY <2>1, <2>2, <3>1, <3>3, <3>4
    <3>. QED BY <3>5 DEF r, t
  <2>. QED BY <1>1, <2>1, <2>2
<1>5. CASE Rest \/ UNCHANGED vars
  BY <1>1, <1>5 DEF Rest, vars, LateInv, Waits
<1>6. CASE \E peer \in {Sender, Dest, Alien}, malformed \in BOOLEAN :
             Send(peer, malformed)
  <2>1. UNCHANGED <<status, clock, last_clock, pkt_queue, blocks>>
    BY <1>6 DEF Send
  <2>. QED BY <1>1, <2>1 DEF LateInv, Waits
<1>7. CASE Pass
  BY <1>7, PassInTime
<1>. QED BY <1>2, <1>3, <1>4, <1>5, <1>6, <1>7 DEF Next

(***************************************************************************)
(* No packet stays queued for a second past the end of its delay, but for  *)
(* a retry and the loop's lateness, once and again for each call that      *)
(* failed, for every delay, jitter, length of the retry and precision of   *)
(* the clock: select may wait for the wrong packet's date, but the right   *)
(* one's is less than a second before it.                                  *)
(***************************************************************************)
THEOREM DelaysEnd == Spec => []LessThanASecondLate
<1>1. LinkInv /\ LateInv => LessThanASecondLate
  <2> SUFFICES ASSUME LinkInv, LateInv, status = "running",
                      NEW i \in DOMAIN pkt_queue
               PROVE  clock < pkt_queue[i].read + pkt_queue[i].wait + PerSec
                                + (blocks + 1) * (Retry + MaxLate)
    BY DEF LessThanASecondLate
  <2>1. pkt_queue[i] \in Range(pkt_queue)
    BY DEF Range
  <2>2. Waits /\ OnTime
    BY DEF LateInv
  <2>3. clock < Due(pkt_queue[i]) + PerSec + Retries(blocks + 1)
    BY <2>1, <2>2, NoneIsLate
  <2>. QED BY <2>3 DEF Due, Retries
<1>. QED BY <1>1, LinkInvariance, LateStarts, LateSteps, PTL DEF Spec
=============================================================================
