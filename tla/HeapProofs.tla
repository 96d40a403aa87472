----------------------------- MODULE HeapProofs -----------------------------
(***************************************************************************)
(* The delay queue for every number of packets and all dates: pushes and   *)
(* pops keep the heap's order, and do to the packets in the array what     *)
(* PriorityQueue's do to a set.                                            *)
(***************************************************************************)
EXTENDS DelayQueue, NaturalLemmas, FiniteSetTheorems

(* The arrays of n packets. *)
Arrays(n) == [0 .. n - 1 -> Items]

(* minq_size of one of them. *)
LEMMA SizeIs ==
    ASSUME NEW n \in Nat, NEW f \in Arrays(n)
    PROVE  Size(f) = n
<1>1. DOMAIN f = 0 .. n - 1
  BY DEF Arrays
<1>2. Cardinality(0 .. n - 1) = n
  BY FS_Interval
<1>. QED BY <1>1, <1>2 DEF Size

(***************************************************************************)
(* What a push visits, from slot i on its way to the root, as far as m.    *)
(***************************************************************************)
Ascends(e0, v, i, A, m) ==
    /\ A \subseteq 0 .. i /\ i \in A
    /\ m \in A /\ \A k \in A : m <= k
    /\ m = 0 \/ ~cmp(e0[m \div 2], v)
    /\ \A k \in A : k < i => cmp(e0[k], v)
    /\ \A k \in A \ {m} : k # 0 /\ k \div 2 \in A
    /\ \A k \in A \ {i} : \E l \in A \ {m} : l \div 2 = k
    /\ \A k, l \in A \ {m} : k \div 2 = l \div 2 => k = l

(* The walk of minq_push is of this form. *)
LEMMA AscentFacts ==
    ASSUME NEW n \in Nat, NEW e0 \in Arrays(n), NEW v \in Items
    PROVE  \E m \in 0 .. n : Ascends(e0, v, n, Ascent(e0, v), m)
<1> DEFINE Step(f, i) == IF i # 0 /\ cmp(e0[i \div 2], v)
                         THEN {i} \cup f[i \div 2] ELSE {i}
           Good(k, f) == /\ f \in [0 .. k -> SUBSET Nat]
                         /\ \A i \in 0 .. k : f[i] = Step(f, i)
           Bad == {k \in 0 .. n : ~ \E f : Good(k, f)}
           h == CHOOSE f : f = [i \in 0 .. n |-> Step(f, i)]
           Wrong == {i \in 0 .. n : ~ \E m \in 0 .. i :
                                        Ascends(e0, v, i, h[i], m)}
<1>half. \A i \in Nat : i \div 2 \in Nat /\ (i # 0 => i \div 2 < i)
  OBVIOUS
<1>1. 0 \notin Bad
  <2>1. Good(0, [i \in 0 .. 0 |-> {0}])
    OBVIOUS
  <2>. QED BY <2>1
<1>2. ASSUME NEW k \in Nat, k + 1 \in 0 .. n, NEW f, Good(k, f)
      PROVE  \E g : Good(k + 1, g)
  <2> DEFINE g == [i \in 0 .. k + 1 |->
                      IF i = k + 1 THEN Step(f, k + 1) ELSE f[i]]
  <2>1. (k + 1) \div 2 \in 0 .. k
    OBVIOUS
  <2>2. Step(f, k + 1) \in SUBSET Nat
    BY <1>2, <2>1
  <2>3. g \in [0 .. k + 1 -> SUBSET Nat]
    BY <2>2, <1>2
  <2>4. ASSUME NEW i \in 0 .. k + 1 PROVE g[i] = Step(g, i)
    <3>1. i # 0 => i \div 2 \in 0 .. k
      OBVIOUS
    <3>2. i # 0 => g[i \div 2] = f[i \div 2]
      BY <3>1
    <3>3. Step(g, i) = Step(f, i)
      BY <3>2
    <3>4. i # k + 1 => i \in 0 .. k
      OBVIOUS
    <3>. QED BY <3>3, <3>4, <1>2
  <2>. QED BY <2>3, <2>4
<1>3. Bad = {}
  <2>1. \A k \in Nat : k + 1 \in Bad => k \in Bad
    <3> HIDE DEF Good
    <3>. QED BY <1>2
  <2>2. Bad \in SUBSET Nat
    OBVIOUS
  <2> HIDE DEF Bad
  <2>. QED BY <1>1, <2>1, <2>2, NoCounterexample
<1>4. PICK f : Good(n, f)
  <2> HIDE DEF Good
  <2>1. n \in 0 .. n
    OBVIOUS
  <2>. QED BY <1>3, <2>1
<1>5. h = [i \in 0 .. n |-> Step(h, i)]
  <2>1. f = [i \in 0 .. n |-> Step(f, i)]
    BY <1>4
  <2>. QED BY <2>1
<1>6. Ascent(e0, v) = h[n]
  BY SizeIs DEF Ascent, PARENT
<1> HIDE DEF h
<1>7. ASSUME NEW i \in 0 .. n, i # 0 => i \div 2 \notin Wrong
      PROVE  \E m \in 0 .. i : Ascends(e0, v, i, h[i], m)
  <2>1. CASE i # 0 /\ cmp(e0[i \div 2], v)
    <3> DEFINE p == i \div 2
    <3>1. p \in 0 .. n /\ p < i
      BY <2>1
    <3>2. PICK m \in 0 .. p : Ascends(e0, v, p, h[p], m)
      BY <3>1, <1>7, <2>1
    <3>3. h[i] = {i} \cup h[p]
      BY <1>5, <2>1
    <3>4. \A k \in h[i] \ {i} : \E l \in h[i] \ {m} : l \div 2 = k
      <4> SUFFICES ASSUME NEW k \in h[i] \ {i}
                   PROVE  \E l \in h[i] \ {m} : l \div 2 = k
        OBVIOUS
      <4>1. CASE k = p
        BY <4>1, <3>1, <3>2, <3>3
      <4>2. CASE k # p
        <5>1. PICK l \in h[p] \ {m} : l \div 2 = k
          BY <4>2, <3>2, <3>3 DEF Ascends
        <5>. QED BY <5>1, <3>3
      <4>. QED BY <4>1, <4>2
    <3>5. \A k \in h[p] \ {m} : k \div 2 # i \div 2
      BY <3>1, <3>2 DEF Ascends
    <3>6. \A k, l \in h[i] \ {m} : k \div 2 = l \div 2 => k = l
      BY <3>2, <3>3, <3>5 DEF Ascends
    <3>7. /\ h[i] \subseteq 0 .. i /\ i \in h[i]
          /\ m \in h[i] /\ \A k \in h[i] : m <= k
          /\ m = 0 \/ ~cmp(e0[m \div 2], v)
          /\ \A k \in h[i] : k < i => cmp(e0[k], v)
          /\ \A k \in h[i] \ {m} : k # 0 /\ k \div 2 \in h[i]
      BY <3>1, <3>2, <3>3, <2>1 DEF Ascends
    <3>8. Ascends(e0, v, i, h[i], m)
      BY <3>4, <3>6, <3>7 DEF Ascends
    <3>. QED BY <3>1, <3>2, <3>8
  <2>2. CASE ~(i # 0 /\ cmp(e0[i \div 2], v))
    <3>1. h[i] = {i}
      BY <1>5, <2>2
    <3>. QED BY <3>1, <2>2 DEF Ascends
  <2>. QED BY <2>1, <2>2
<1>8. Wrong = {}
  <2> SUFFICES ASSUME Wrong # {} PROVE FALSE
    OBVIOUS
  <2>1. PICK i \in Wrong : \A k \in Wrong : i <= k
    <3>1. Wrong \in SUBSET Nat
      OBVIOUS
    <3> HIDE DEF Wrong
    <3>. QED BY <3>1, LeastElement
  <2>2. i \in 0 .. n
    OBVIOUS
  <2>3. i # 0 => i \div 2 \notin Wrong
    <3> HIDE DEF Wrong
    <3>. QED BY <2>1, <2>2
  <2>. QED BY <2>2, <2>3, <1>7
<1>9. n \notin Wrong
  <2> HIDE DEF Wrong
  <2>. QED BY <1>8
<1>. QED BY <1>9, <1>6

(* minq_push, slot by slot. *)
LEMMA PushIs ==
    ASSUME NEW n \in Nat, NEW e0 \in Arrays(n), NEW v \in Items,
           NEW m \in 0 .. n, Ascends(e0, v, n, Ascent(e0, v), m)
    PROVE  LET A == Ascent(e0, v)
           IN minq_push(e0, v) =
                  [i \in 0 .. n |-> IF i \notin A THEN e0[i]
                                    ELSE IF i = m THEN v ELSE e0[i \div 2]]
<1> DEFINE A == Ascent(e0, v)
<1>1. Min(A) = m
  BY DEF Ascends, Min
<1>. QED BY <1>1, SizeIs DEF minq_push, PARENT

(* A push leaves an array of one packet more. *)
LEMMA PushType ==
    ASSUME NEW n \in Nat, NEW e0 \in Arrays(n), NEW v \in Items
    PROVE  minq_push(e0, v) \in Arrays(n + 1)
<1> DEFINE A == Ascent(e0, v)
<1>1. PICK m \in 0 .. n : Ascends(e0, v, n, A, m)
  BY AscentFacts
<1>2. ASSUME NEW i \in 0 .. n
      PROVE  (IF i \notin A THEN e0[i]
              ELSE IF i = m THEN v ELSE e0[i \div 2]) \in Items
  <2>1. CASE i \notin A
    <3>1. n \in A
      BY <1>1 DEF Ascends
    <3>2. i # n
      BY <2>1, <3>1
    <3>3. i \in 0 .. n - 1
      BY <3>2
    <3>. QED BY <2>1, <3>3 DEF Arrays
  <2>2. CASE i \in A /\ i # m
    <3>1. i \div 2 \in 0 .. n - 1
      BY <2>2, <1>1 DEF Ascends
    <3>. QED BY <2>2, <3>1 DEF Arrays
  <2>. QED BY <2>1, <2>2
<1>. QED BY <1>1, <1>2, PushIs DEF Arrays

(* No packet of the first n below a later one. *)
Ordered(n, f) == \A j \in 1 .. n - 1 : ~cmp(f[j \div 2], f[j])

(* It is the order min_queue.c asks for. *)
LEMMA OrderedIs ==
    ASSUME NEW n \in Nat, NEW f \in Arrays(n)
    PROVE  HeapOrdered(f) <=> Ordered(n, f)
<1>1. DOMAIN f = 0 .. n - 1
  BY DEF Arrays
<1>2. (0 .. n - 1) \ {0} = 1 .. n - 1
  OBVIOUS
<1>. QED BY <1>1, <1>2 DEF Ordered, HeapOrdered, PARENT

(* minq_push keeps the heap's order. *)
LEMMA PushKeepsOrder ==
    ASSUME NEW n \in Nat, NEW e0 \in Arrays(n), NEW v \in Items,
           Ordered(n, e0)
    PROVE  Ordered(n + 1, minq_push(e0, v))
<1> DEFINE A == Ascent(e0, v)
           g == minq_push(e0, v)
<1>1. PICK m \in 0 .. n : Ascends(e0, v, n, A, m)
  BY AscentFacts
<1>2. g = [i \in 0 .. n |-> IF i \notin A THEN e0[i]
                            ELSE IF i = m THEN v ELSE e0[i \div 2]]
  BY <1>1, PushIs
<1> HIDE DEF g, A
<1>s. (n + 1) - 1 = n
  OBVIOUS
<1> SUFFICES ASSUME NEW j \in 1 .. n PROVE ~cmp(g[j \div 2], g[j])
  BY <1>s DEF Ordered, g
<1> DEFINE p == j \div 2
<1>3. p \in 0 .. n - 1 /\ p < j
  OBVIOUS
<1>4. e0[p] \in Items
  BY <1>3 DEF Arrays
<1>5. \A i \in 1 .. n - 1 :
        /\ i \div 2 \in 0 .. n - 1
        /\ e0[i] \in Items /\ e0[i \div 2] \in Items
        /\ ~cmp(e0[i \div 2], e0[i])
  BY DEF Ordered, Arrays
<1>6. CASE j \notin A
  <2>1. j \in 1 .. n - 1 /\ g[j] = e0[j]
    BY <1>6, <1>1, <1>2 DEF Ascends
  <2>2. CASE p \notin A
    <3>1. g[p] = e0[p]
      BY <1>2, <1>3, <2>2
    <3>. QED BY <3>1, <2>1, <1>5
  <2>3. CASE p = m
    <3>1. g[p] = v
      BY <1>2, <1>3, <2>3, <1>1 DEF Ascends
    <3>2. cmp(e0[p], v)
      BY <2>3, <1>1, <1>3 DEF Ascends
    <3>. QED BY <3>1, <3>2, <2>1, <1>5, <1>4, OrderAssumption
  <2>4. CASE p \in A /\ p # m
    <3>1. p \in 1 .. n - 1 /\ g[p] = e0[p \div 2]
      BY <2>4, <1>1, <1>2, <1>3 DEF Ascends
    <3>. QED BY <3>1, <2>1, <1>5, <1>4, OrderAssumption
  <2>. QED BY <2>2, <2>3, <2>4
<1>7. CASE j = m
  <2>1. g[j] = v /\ p \notin A /\ ~cmp(e0[p], v)
    BY <1>7, <1>1, <1>2, <1>3 DEF Ascends
  <2>2. g[p] = e0[p]
    BY <2>1, <1>2, <1>3
  <2>. QED BY <2>1, <2>2
<1>8. CASE j \in A /\ j # m
  <2>1. g[j] = e0[p] /\ p \in A /\ cmp(e0[p], v)
    BY <1>8, <1>1, <1>2, <1>3 DEF Ascends
  <2>2. CASE p = m
    <3>1. g[p] = v
      BY <2>1, <2>2, <1>2, <1>3
    <3>. QED BY <3>1, <2>1, <1>4, OrderAssumption
  <2>3. CASE p # m
    <3>1. p \in 1 .. n - 1 /\ g[p] = e0[p \div 2]
      BY <2>3, <2>1, <1>1, <1>2, <1>3 DEF Ascends
    <3>. QED BY <3>1, <2>1, <1>5
  <2>. QED BY <2>2, <2>3
<1>. QED BY <1>6, <1>7, <1>8

-----------------------------------------------------------------------------
(* has_child: the smallest child, though slot 0 is a child of itself. *)
LEMMA ChildFacts ==
    ASSUME NEW n \in Nat, NEW f \in Arrays(n), NEW i \in 0 .. n - 1
    PROVE  LET c == has_child(f, i)
           IN /\ c = 0 \/ (c \in 1 .. n - 1 /\ i < c /\ c \div 2 = i)
              /\ \A j \in 1 .. n - 1 :
                   j \div 2 = i => IF c = 0 THEN i = 0 /\ ~cmp(f[i], f[j])
                                  ELSE ~cmp(f[c], f[j])
<1> DEFINE c == has_child(f, i)
<1>1. c = IF 2 * i >= n THEN 0
          ELSE IF 2 * i + 1 < n /\ cmp(f[2 * i], f[2 * i + 1])
          THEN 2 * i + 1 ELSE 2 * i
  BY SizeIs DEF has_child, LCHILD, RCHILD
<1>2. \A j \in 1 .. n - 1 : j \div 2 = i => j \in {2 * i, 2 * i + 1}
  OBVIOUS
<1>3. (2 * i) \div 2 = i /\ (2 * i + 1) \div 2 = i
  OBVIOUS
<1>4. \A j \in 0 .. n - 1 : f[j] \in Items
  BY DEF Arrays
<1> HIDE DEF c
<1>5. c = 0 \/ (c \in 1 .. n - 1 /\ i < c /\ c \div 2 = i)
  BY <1>1, <1>3
<1>6. ASSUME NEW j \in 1 .. n - 1, j \div 2 = i
      PROVE  IF c = 0 THEN i = 0 /\ ~cmp(f[i], f[j])
             ELSE ~cmp(f[c], f[j])
  <2>1. j \in {2 * i, 2 * i + 1} /\ 2 * i < n
    BY <1>2, <1>6
  <2>2. CASE c = 0
    <3>1. i = 0 /\ j = 1
      BY <2>1, <2>2, <1>1
    <3>2. 1 < n
      BY <3>1
    <3>. QED BY <3>1, <3>2, <2>2, <1>1
  <2>3. CASE c # 0 /\ c = j
    BY <2>3, <1>4, OrderAssumption
  <2>4. CASE c = 2 * i + 1 /\ j = 2 * i
    <3>1. cmp(f[2 * i], f[2 * i + 1])
      BY <2>4, <1>1, <2>1
    <3>2. f[2 * i] \in Items /\ f[2 * i + 1] \in Items
      BY <2>4, <1>5, <1>4
    <3>. QED BY <2>4, <3>1, <3>2, OrderAssumption
  <2>5. CASE c # 0 /\ c = 2 * i /\ j = 2 * i + 1
    <3>1. ~cmp(f[2 * i], f[2 * i + 1])
      BY <2>5, <1>1, <2>1
    <3>. QED BY <2>5, <3>1
  <2>. QED BY <2>1, <2>2, <2>3, <2>4, <2>5, <1>1
<1>. QED BY <1>5, <1>6 DEF c

(***************************************************************************)
(* What a pop visits, from slot i down to M, with the value of the root.   *)
(***************************************************************************)
Descends(f, n, i, D, M) ==
    /\ D \subseteq i .. n - 1 /\ i \in D
    /\ M \in D /\ \A k \in D : k <= M
    /\ \/ has_child(f, M) = 0
       \/ ~cmp(f[0], f[has_child(f, M)])
    /\ \A k \in D \ {M} : LET c == has_child(f, k)
                          IN c \in D /\ c # 0 /\ cmp(f[0], f[c])
    /\ \A k \in D \ {i} : LET q == k \div 2
                          IN q \in D \ {M} /\ has_child(f, q) = k

(* The walk of minq_pop is of this form. *)
LEMMA DescentFacts ==
    ASSUME NEW n \in Nat, n > 0, NEW f \in Arrays(n)
    PROVE  \E M \in 0 .. n - 1 : Descends(f, n, 0, Descent(f), M)
<1> DEFINE c(i) == has_child(f, i)
           Goes(i) == c(i) # 0 /\ cmp(f[0], f[c(i)])
           Step(g, i) == IF Goes(i) THEN {i} \cup g[c(i)] ELSE {i}
           Good(k, g) == /\ g \in [n - k .. n - 1 -> SUBSET Nat]
                         /\ \A i \in n - k .. n - 1 : g[i] = Step(g, i)
           Bad == {k \in 0 .. n : ~ \E g : Good(k, g)}
           h == CHOOSE g : g = [i \in DOMAIN f |-> Step(g, i)]
           Wrong == {k \in 0 .. n - 1 : ~ \E M \in 0 .. n - 1 :
                       Descends(f, n, n - 1 - k, h[n - 1 - k], M)}
<1>d. DOMAIN f = 0 .. n - 1
  BY DEF Arrays
<1>c. \A i \in 0 .. n - 1 :
        c(i) # 0 => c(i) \in 1 .. n - 1 /\ i < c(i) /\ c(i) \div 2 = i
  BY ChildFacts
<1> HIDE DEF c
<1>1. 0 \notin Bad
  <2>1. Good(0, [i \in n .. n - 1 |-> {}])
    OBVIOUS
  <2>2. 0 = 0
    OBVIOUS
  <2>. QED BY <2>1
<1>2. ASSUME NEW k \in Nat, k + 1 \in 0 .. n, NEW g, Good(k, g)
      PROVE  \E gg : Good(k + 1, gg)
  <2> DEFINE b == n - (k + 1)
             gg == [i \in b .. n - 1 |-> IF i = b THEN Step(g, b) ELSE g[i]]
  <2>0. b \in 0 .. n - 1 /\ b + 1 = n - k
    BY <1>2
  <2>1. Goes(b) => c(b) \in n - k .. n - 1
    BY <2>0, <1>c
  <2>2. Step(g, b) \in SUBSET Nat
    BY <1>2, <2>1, <2>0
  <2>3. gg \in [b .. n - 1 -> SUBSET Nat]
    BY <2>2, <2>0, <1>2
  <2>4. ASSUME NEW i \in b .. n - 1 PROVE gg[i] = Step(gg, i)
    <3>1. Goes(i) => c(i) \in n - k .. n - 1
      BY <2>0, <1>c
    <3>2. Goes(i) => gg[c(i)] = g[c(i)]
      BY <3>1, <2>0
    <3>3. Step(gg, i) = Step(g, i)
      BY <3>2
    <3>4. i # b => i \in n - k .. n - 1
      BY <2>0
    <3>. QED BY <3>3, <3>4, <1>2
  <2>. QED BY <2>3, <2>4
<1>3. Bad = {}
  <2>1. \A k \in Nat : k + 1 \in Bad => k \in Bad
    <3> HIDE DEF Good
    <3>. QED BY <1>2
  <2>2. Bad \in SUBSET Nat
    OBVIOUS
  <2> HIDE DEF Bad
  <2>. QED BY <1>1, <2>1, <2>2, NoCounterexample
<1>4. PICK g : Good(n, g)
  <2> HIDE DEF Good
  <2>1. n \in 0 .. n
    OBVIOUS
  <2>. QED BY <1>3, <2>1
<1>5. h = [i \in 0 .. n - 1 |-> Step(h, i)]
  <2>0. n - n = 0
    OBVIOUS
  <2>1. g = [i \in 0 .. n - 1 |-> Step(g, i)]
    BY <1>4, <2>0
  <2>. QED BY <2>1, <1>d
<1>6. Descent(f) = h[0]
  BY DEF Descent, c
<1> HIDE DEF h
<1>7. ASSUME NEW i \in 0 .. n - 1,
             Goes(i) => n - 1 - c(i) \notin Wrong
      PROVE  \E M \in 0 .. n - 1 : Descends(f, n, i, h[i], M)
  <2>1. CASE Goes(i)
    <3>1. c(i) \in 1 .. n - 1 /\ i < c(i) /\ c(i) \div 2 = i
      BY <2>1, <1>c
    <3>2. n - 1 - c(i) \in 0 .. n - 1 /\ n - 1 - (n - 1 - c(i)) = c(i)
      BY <3>1
    <3>3. PICK M \in 0 .. n - 1 : Descends(f, n, c(i), h[c(i)], M)
      BY <3>2, <2>1, <1>7
    <3>4. h[i] = {i} \cup h[c(i)]
      BY <1>5, <2>1
    <3>5. Descends(f, n, i, h[i], M)
      BY <3>1, <3>3, <3>4, <2>1 DEF Descends, c
    <3>. QED BY <3>5
  <2>2. CASE ~Goes(i)
    <3>1. h[i] = {i}
      BY <1>5, <2>2
    <3>. QED BY <3>1, <2>2 DEF Descends, c
  <2>. QED BY <2>1, <2>2
<1>8. Wrong = {}
  <2> SUFFICES ASSUME Wrong # {} PROVE FALSE
    OBVIOUS
  <2>1. PICK k \in Wrong : \A kk \in Wrong : k <= kk
    <3>1. Wrong \in SUBSET Nat
      OBVIOUS
    <3> HIDE DEF Wrong
    <3>. QED BY <3>1, LeastElement
  <2>2. k \in 0 .. n - 1
    OBVIOUS
  <2> DEFINE i == n - 1 - k
  <2>3. i \in 0 .. n - 1
    BY <2>2
  <2>4. Goes(i) => n - 1 - c(i) \notin Wrong
    <3>1. Goes(i) => n - 1 - c(i) < k
      BY <2>2, <2>3, <1>c
    <3> HIDE DEF Wrong
    <3>. QED BY <2>1, <2>2, <3>1, <1>c, <2>3
  <2>5. \E M \in 0 .. n - 1 : Descends(f, n, i, h[i], M)
    <3> HIDE DEF Wrong
    <3>. QED BY <2>3, <2>4, <1>7
  <2>. QED BY <2>5
<1>9. n - 1 \notin Wrong
  <2> HIDE DEF Wrong
  <2>. QED BY <1>8
<1>10. n - 1 \in 0 .. n - 1 /\ n - 1 - (n - 1) = 0
  OBVIOUS
<1>. QED BY <1>9, <1>10, <1>6

(* The array minq_pop starts its walk with: the last packet at the root. *)
Lifted(n, e0) == [i \in 0 .. n - 1 |-> IF i = 0 THEN e0[n] ELSE e0[i]]

(* minq_pop, slot by slot. *)
LEMMA PopIs ==
    ASSUME NEW n \in Nat, n > 0, NEW e0 \in Arrays(n + 1),
           NEW M \in 0 .. n - 1,
           Descends(Lifted(n, e0), n, 0, Descent(Lifted(n, e0)), M)
    PROVE  LET f == Lifted(n, e0)
               D == Descent(f)
           IN minq_pop(e0) =
                  [i \in 0 .. n - 1 |-> IF i \notin D THEN f[i]
                                        ELSE IF i = M THEN f[0]
                                        ELSE f[has_child(f, i)]]
<1> DEFINE D == Descent(Lifted(n, e0))
<1>1. Max(D) = M
  BY DEF Descends, Max
<1>2. Size(e0) = n + 1
  BY SizeIs
<1>3. (n + 1) - 1 = n /\ ~ (n + 1 <= 1)
  OBVIOUS
<1>. QED BY <1>1, <1>2, <1>3 DEF minq_pop, Lifted

(* It is an array of one packet less. *)
LEMMA LiftedType ==
    ASSUME NEW n \in Nat, n > 0, NEW e0 \in Arrays(n + 1)
    PROVE  Lifted(n, e0) \in Arrays(n)
<1>1. (n + 1) - 1 = n
  OBVIOUS
<1>2. \A i \in 0 .. n : e0[i] \in Items
  BY <1>1 DEF Arrays
<1>. QED BY <1>2 DEF Lifted, Arrays

(* A pop leaves an array of one packet less. *)
LEMMA PopType ==
    ASSUME NEW n \in Nat, NEW e0 \in Arrays(n + 1)
    PROVE  minq_pop(e0) \in Arrays(n)
<1>1. CASE n = 0
  <2>1. Size(e0) = 1
    BY SizeIs, <1>1
  <2>2. minq_pop(e0) = EmptyQueue
    BY <2>1 DEF minq_pop
  <2>3. 0 .. n - 1 = {}
    BY <1>1
  <2>. QED BY <2>2, <2>3 DEF EmptyQueue, Arrays
<1>2. CASE n > 0
  <2> DEFINE f == Lifted(n, e0)
             D == Descent(f)
             c(i) == has_child(f, i)
  <2>1. f \in Arrays(n)
    BY <1>2, LiftedType
  <2>2. PICK M \in 0 .. n - 1 : Descends(f, n, 0, D, M)
    BY <2>1, <1>2, DescentFacts
  <2>3. minq_pop(e0) =
            [i \in 0 .. n - 1 |-> IF i \notin D THEN f[i]
                                  ELSE IF i = M THEN f[0] ELSE f[c(i)]]
    BY <1>2, <2>2, PopIs
  <2>4. \A i \in 0 .. n - 1 : c(i) \in 0 .. n - 1
    BY <2>1, <1>2, ChildFacts
  <2>5. \A i \in 0 .. n - 1 : f[i] \in Items
    BY <2>1 DEF Arrays
  <2> HIDE DEF f, D, c
  <2>. QED BY <2>3, <2>4, <2>5, <1>2 DEF Arrays
<1>. QED BY <1>1, <1>2

(* minq_pop keeps the heap's order. *)
LEMMA PopKeepsOrder ==
    ASSUME NEW n \in Nat, NEW e0 \in Arrays(n + 1), Ordered(n + 1, e0)
    PROVE  Ordered(n, minq_pop(e0))
<1> SUFFICES ASSUME NEW j \in 1 .. n - 1
             PROVE  ~cmp(minq_pop(e0)[j \div 2], minq_pop(e0)[j])
  BY DEF Ordered
<1> DEFINE f == Lifted(n, e0)
           D == Descent(f)
           c(i) == has_child(f, i)
           g == minq_pop(e0)
           p == j \div 2
<1>0. n > 0 /\ (n + 1) - 1 = n
  OBVIOUS
<1>1. f \in Arrays(n)
  BY <1>0, LiftedType
<1>2. PICK M \in 0 .. n - 1 : Descends(f, n, 0, D, M)
  BY <1>1, <1>0, DescentFacts
<1>3. g = [i \in 0 .. n - 1 |-> IF i \notin D THEN f[i]
                                ELSE IF i = M THEN f[0] ELSE f[c(i)]]
  BY <1>0, <1>2, PopIs
<1>4. \A i \in 0 .. n - 1 :
        /\ c(i) = 0 \/ (c(i) \in 1 .. n - 1 /\ c(i) \div 2 = i)
        /\ \A k \in 1 .. n - 1 :
             k \div 2 = i => IF c(i) = 0 THEN i = 0 /\ ~cmp(f[i], f[k])
                            ELSE ~cmp(f[c(i)], f[k])
  BY <1>1, ChildFacts
<1>5. \A i \in 0 .. n - 1 : f[i] \in Items
  BY <1>1 DEF Arrays
<1>6. \A k \in 1 .. n - 1 : k \div 2 # 0 => ~cmp(f[k \div 2], f[k])
  <2> SUFFICES ASSUME NEW k \in 1 .. n - 1, k \div 2 # 0
               PROVE  ~cmp(f[k \div 2], f[k])
    OBVIOUS
  <2>1. k \in 1 .. n /\ k \div 2 \in 1 .. n - 1
    OBVIOUS
  <2>2. ~cmp(e0[k \div 2], e0[k])
    BY <1>0, <2>1 DEF Ordered
  <2>. QED BY <2>1, <2>2 DEF Lifted
<1>7. /\ 0 \in D /\ M \in D
      /\ c(M) = 0 \/ ~cmp(f[0], f[c(M)])
      /\ \A k \in D \ {M} : c(k) \in D /\ c(k) # 0 /\ cmp(f[0], f[c(k)])
      /\ \A k \in D \ {0} : k \div 2 \in D \ {M} /\ c(k \div 2) = k
  BY <1>2 DEF Descends
<1>8. p \in 0 .. n - 1 /\ j \in 0 .. n - 1 /\ j # 0
  OBVIOUS
<1> HIDE DEF f, D, c
<1> SUFFICES ~cmp(g[p], g[j])
  OBVIOUS
<1> HIDE DEF g
<1>9. CASE j \notin D
  <2>1. g[j] = f[j]
    BY <1>3, <1>8, <1>9
  <2>2. CASE p \notin D
    <3>1. g[p] = f[p] /\ p # 0
      BY <1>3, <1>7, <1>8, <2>2
    <3>. QED BY <3>1, <2>1, <1>6
  <2>3. CASE p = M
    <3>1. g[p] = f[0]
      BY <1>3, <1>7, <1>8, <2>3
    <3>2. IF c(p) = 0 THEN p = 0 /\ ~cmp(f[p], f[j])
          ELSE ~cmp(f[c(p)], f[j])
      BY <1>4, <1>8
    <3>3. CASE c(p) = 0
      BY <3>1, <3>2, <3>3, <2>1
    <3>4. CASE c(p) # 0
      <4>1. ~cmp(f[0], f[c(p)]) /\ ~cmp(f[c(p)], f[j])
        BY <3>2, <3>4, <2>3, <1>7
      <4>2. c(p) \in 0 .. n - 1 /\ 0 \in 0 .. n - 1
        BY <1>4, <1>8, <3>4, <1>0
      <4>3. f[0] \in Items /\ f[c(p)] \in Items /\ f[j] \in Items
        BY <4>2, <1>5, <1>8
      <4>. QED BY <4>1, <4>3, <3>1, <2>1, OrderAssumption
    <3>. QED BY <3>3, <3>4
  <2>4. CASE p \in D /\ p # M
    <3>1. g[p] = f[c(p)] /\ c(p) # 0
      BY <1>3, <1>7, <1>8, <2>4
    <3>2. ~cmp(f[c(p)], f[j])
      BY <3>1, <1>4, <1>8
    <3>. QED BY <3>1, <3>2, <2>1
  <2>. QED BY <2>2, <2>3, <2>4
<1>10. CASE j \in D
  <2>1. p \in D /\ p # M /\ c(p) = j
    BY <1>7, <1>8, <1>10
  <2>2. g[p] = f[j] /\ cmp(f[0], f[j])
    BY <2>1, <1>3, <1>7, <1>8
  <2>3. CASE j = M
    <3>1. g[j] = f[0]
      BY <1>3, <1>8, <1>10, <2>3
    <3>2. f[0] \in Items /\ f[j] \in Items
      BY <1>5, <1>8, <1>0
    <3>. QED BY <3>1, <3>2, <2>2, OrderAssumption
  <2>4. CASE j # M
    <3>1. g[j] = f[c(j)] /\ c(j) # 0
      BY <1>3, <1>7, <1>8, <1>10, <2>4
    <3>2. c(j) \in 1 .. n - 1 /\ c(j) \div 2 = j
      BY <3>1, <1>4, <1>8
    <3>3. ~cmp(f[j], f[c(j)])
      BY <3>2, <1>6, <1>8
    <3>. QED BY <3>1, <3>3, <2>2
  <2>. QED BY <2>3, <2>4
<1>. QED BY <1>9, <1>10

-----------------------------------------------------------------------------
(* No two of the first n packets lie in one slot of memory. *)
Distinct(n, f) ==
    \A i, j \in 0 .. n - 1 : address(f[i]) = address(f[j]) => i = j

(* A push adds its packet to those in the queue, and no other. *)
LEMMA PushAdds ==
    ASSUME NEW n \in Nat, NEW e0 \in Arrays(n), NEW v \in Items,
           Distinct(n, e0), \A i \in 0 .. n - 1 : address(e0[i]) # address(v)
    PROVE  /\ Range(minq_push(e0, v)) = Range(e0) \cup {v}
           /\ Distinct(n + 1, minq_push(e0, v))
<1> DEFINE A == Ascent(e0, v)
           g == minq_push(e0, v)
<1>1. PICK m \in 0 .. n : Ascends(e0, v, n, A, m)
  BY AscentFacts
<1>2. g = [i \in 0 .. n |-> IF i \notin A THEN e0[i]
                            ELSE IF i = m THEN v ELSE e0[i \div 2]]
  BY <1>1, PushIs
<1>3. /\ A \subseteq 0 .. n /\ n \in A /\ m \in A
      /\ \A k \in A \ {m} : k # 0 /\ k \div 2 \in A
      /\ \A k \in A \ {n} : \E l \in A \ {m} : l \div 2 = k
      /\ \A k, l \in A \ {m} : k \div 2 = l \div 2 => k = l
  BY <1>1 DEF Ascends
<1>4. DOMAIN e0 = 0 .. n - 1 /\ DOMAIN g = 0 .. n
  BY <1>2 DEF Arrays
<1> HIDE DEF g, A
<1>5. \A i \in A \ {m} : i \div 2 \in 0 .. n - 1
  BY <1>3
<1>6. \A i \in (0 .. n) \ A : i \in 0 .. n - 1
  BY <1>3
<1>7. \A i \in 0 .. n : g[i] = v \/ \E k \in 0 .. n - 1 : g[i] = e0[k]
  BY <1>2, <1>5, <1>6
<1>8. g[m] = v
  BY <1>2, <1>3
<1>9. \A k \in 0 .. n - 1 : \E i \in 0 .. n : g[i] = e0[k]
  <2> SUFFICES ASSUME NEW k \in 0 .. n - 1
               PROVE  \E i \in 0 .. n : g[i] = e0[k]
    OBVIOUS
  <2>1. CASE k \notin A
    BY <2>1, <1>2
  <2>2. CASE k \in A
    <3>1. PICK l \in A \ {m} : l \div 2 = k
      BY <2>2, <1>3
    <3>2. l \in 0 .. n /\ g[l] = e0[k]
      BY <3>1, <1>2, <1>3
    <3>. QED BY <3>2
  <2>. QED BY <2>1, <2>2
<1>10. Range(g) = Range(e0) \cup {v}
  <2>1. Range(g) = {g[x] : x \in 0 .. n}
    BY <1>4 DEF Range
  <2>2. Range(e0) = {e0[x] : x \in 0 .. n - 1}
    BY <1>4 DEF Range
  <2>3. Range(g) \subseteq Range(e0) \cup {v}
    BY <2>1, <2>2, <1>7
  <2>4. Range(e0) \subseteq Range(g)
    BY <2>1, <2>2, <1>9
  <2>5. v \in Range(g)
    BY <2>1, <1>8
  <2>. QED BY <2>3, <2>4, <2>5
<1>11. ASSUME NEW i \in 0 .. n, NEW j \in 0 .. n, address(g[i]) = address(g[j])
       PROVE  i = j
  <2> DEFINE from(k) == IF k \in A THEN k \div 2 ELSE k
  <2>1. \A k \in (0 .. n) \ {m} : from(k) \in 0 .. n - 1 /\ g[k] = e0[from(k)]
    BY <1>2, <1>5, <1>6
  <2>2. CASE i = m \/ j = m
    <3> HIDE DEF from
    <3>. QED BY <2>1, <2>2, <1>8, <1>11
  <2>3. CASE i # m /\ j # m
    <3>1. from(i) = from(j)
      <4> HIDE DEF from
      <4>. QED BY <2>1, <2>3, <1>11 DEF Distinct
    <3>2. from(i) \in A <=> i \in A
      BY <1>3, <2>3
    <3>3. from(j) \in A <=> j \in A
      BY <1>3, <2>3
    <3>. QED BY <3>1, <3>2, <3>3, <1>3, <2>3
  <2>. QED BY <2>2, <2>3
<1>12. (n + 1) - 1 = n
  OBVIOUS
<1>13. Distinct(n + 1, g)
  BY <1>11, <1>12 DEF Distinct
<1>. QED BY <1>10, <1>13 DEF g

(* A pop takes away the root's packet, and no other. *)
LEMMA PopTakes ==
    ASSUME NEW n \in Nat, NEW e0 \in Arrays(n + 1), Distinct(n + 1, e0)
    PROVE  /\ Range(minq_pop(e0)) = Range(e0) \ {e0[0]}
           /\ Distinct(n, minq_pop(e0))
<1>0. DOMAIN e0 = 0 .. n /\ (n + 1) - 1 = n
  BY DEF Arrays
<1>1. CASE n = 0
  <2>1. Size(e0) = 1
    BY SizeIs, <1>1
  <2>2. minq_pop(e0) = EmptyQueue
    BY <2>1 DEF minq_pop
  <2>3. Range(minq_pop(e0)) = {}
    BY <2>2 DEF EmptyQueue, Range
  <2>4. Range(e0) = {e0[0]}
    BY <1>0, <1>1 DEF Range
  <2>5. Distinct(n, minq_pop(e0))
    BY <1>1 DEF Distinct
  <2>. QED BY <2>3, <2>4, <2>5
<1>2. CASE n > 0
  <2> DEFINE f == Lifted(n, e0)
             D == Descent(f)
             c(i) == has_child(f, i)
             g == minq_pop(e0)
  <2>1. f \in Arrays(n)
    BY <1>2, LiftedType
  <2>2. PICK M \in 0 .. n - 1 : Descends(f, n, 0, D, M)
    BY <2>1, <1>2, DescentFacts
  <2>3. g = [i \in 0 .. n - 1 |-> IF i \notin D THEN f[i]
                                  ELSE IF i = M THEN f[0] ELSE f[c(i)]]
    BY <1>2, <2>2, PopIs
  <2>4. \A i \in 0 .. n - 1 : c(i) # 0 => c(i) \in 1 .. n - 1 /\ c(i) \div 2 = i
    BY <2>1, <1>2, ChildFacts
  <2>5. /\ D \subseteq 0 .. n - 1 /\ 0 \in D /\ M \in D
        /\ \A k \in D \ {M} : c(k) \in D /\ c(k) # 0
        /\ \A k \in D \ {0} : k \div 2 \in D \ {M} /\ c(k \div 2) = k
    BY <2>2 DEF Descends
  <2>6. f = [i \in 0 .. n - 1 |-> IF i = 0 THEN e0[n] ELSE e0[i]]
    BY DEF Lifted
  <2>7. \A i, j \in 0 .. n : address(e0[i]) = address(e0[j]) => i = j
    BY <1>0 DEF Distinct
  <2> HIDE DEF f, D, c, g
  <2>8. \A i, j \in 0 .. n - 1 : address(f[i]) = address(f[j]) => i = j
    <3> SUFFICES ASSUME NEW i \in 0 .. n - 1, NEW j \in 0 .. n - 1,
                        address(f[i]) = address(f[j])
                 PROVE  i = j
      OBVIOUS
    <3> DEFINE of(k) == IF k = 0 THEN n ELSE k
    <3>1. of(i) \in 0 .. n /\ of(j) \in 0 .. n
      BY <1>2
    <3>2. f[i] = e0[of(i)] /\ f[j] = e0[of(j)]
      BY <2>6
    <3>3. of(i) = of(j)
      <4> HIDE DEF of
      <4>. QED BY <3>1, <3>2, <2>7
    <3>. QED BY <3>3
  <2>9. Range(f) = Range(e0) \ {e0[0]}
    <3>1. \A i \in 0 .. n - 1 : \E k \in 1 .. n : f[i] = e0[k]
      BY <2>6, <1>2
    <3>2. \A k \in 1 .. n : \E i \in 0 .. n - 1 : f[i] = e0[k]
      <4> SUFFICES ASSUME NEW k \in 1 .. n
                   PROVE  \E i \in 0 .. n - 1 : f[i] = e0[k]
        OBVIOUS
      <4>1. CASE k = n
        BY <4>1, <2>6, <1>2
      <4>2. CASE k # n
        BY <4>2, <2>6
      <4>. QED BY <4>1, <4>2
    <3>3. \A k \in 1 .. n : e0[k] # e0[0] /\ k \in 0 .. n
      BY <2>7
    <3>4. \A k \in 0 .. n : k = 0 \/ k \in 1 .. n
      OBVIOUS
    <3>5. DOMAIN f = 0 .. n - 1
      BY <2>6
    <3>6. Range(f) = {f[x] : x \in 0 .. n - 1}
      BY <3>5 DEF Range
    <3>7. Range(e0) = {e0[x] : x \in 0 .. n}
      BY <1>0 DEF Range
    <3>8. Range(f) \subseteq Range(e0) \ {e0[0]}
      BY <3>1, <3>3, <3>6, <3>7
    <3>9. Range(e0) \ {e0[0]} \subseteq Range(f)
      BY <3>2, <3>4, <3>6, <3>7
    <3>. QED BY <3>8, <3>9
  <2> DEFINE from(k) == IF k \notin D THEN k ELSE IF k = M THEN 0 ELSE c(k)
  <2>10. \A k \in 0 .. n - 1 : from(k) \in 0 .. n - 1 /\ g[k] = f[from(k)]
    BY <2>3, <2>4, <2>5
  <2>11. \A k \in 0 .. n - 1 : \E i \in 0 .. n - 1 : from(i) = k
    <3> SUFFICES ASSUME NEW k \in 0 .. n - 1
                 PROVE  \E i \in 0 .. n - 1 : from(i) = k
      OBVIOUS
    <3>1. CASE k \notin D
      BY <3>1
    <3>2. CASE k = 0
      BY <3>2, <2>5
    <3>3. CASE k \in D \ {0}
      <4>1. k \div 2 \in D \ {M} /\ c(k \div 2) = k
        BY <3>3, <2>5
      <4>2. k \div 2 \in 0 .. n - 1
        OBVIOUS
      <4>. QED BY <4>1, <4>2
    <3>. QED BY <3>1, <3>2, <3>3
  <2>12. \A i, j \in 0 .. n - 1 : from(i) = from(j) => i = j
    <3> SUFFICES ASSUME NEW i \in 0 .. n - 1, NEW j \in 0 .. n - 1,
                        from(i) = from(j)
                 PROVE  i = j
      OBVIOUS
    <3>1. from(i) \in D <=> i \in D
      BY <2>5
    <3>2. from(j) \in D <=> j \in D
      BY <2>5
    <3>3. CASE i \notin D
      BY <3>3, <3>1, <3>2
    <3>4. CASE i \in D
      <4>1. j \in D
        BY <3>4, <3>1, <3>2
      <4>2. CASE i = M \/ j = M
        BY <4>1, <4>2, <3>4, <2>5
      <4>3. CASE i # M /\ j # M
        <5>1. c(i) = c(j) /\ c(i) # 0 /\ c(j) # 0
          BY <4>1, <4>3, <3>4, <2>5
        <5>2. c(i) \div 2 = i /\ c(j) \div 2 = j
          BY <5>1, <2>4
        <5>. QED BY <5>1, <5>2
      <4>. QED BY <4>2, <4>3
    <3>. QED BY <3>3, <3>4
  <2> HIDE DEF from
  <2>13. Range(g) = Range(f)
    <3>1. DOMAIN g = 0 .. n - 1 /\ DOMAIN f = 0 .. n - 1
      BY <2>3, <2>6
    <3>. QED BY <3>1, <2>10, <2>11 DEF Range
  <2>14. Distinct(n, g)
    BY <2>8, <2>10, <2>12 DEF Distinct
  <2>. QED BY <2>9, <2>13, <2>14 DEF g
<1>. QED BY <1>1, <1>2

(* No packet of a heap is earlier than the one at its root. *)
LEMMA RootIsFirst ==
    ASSUME NEW n \in Nat, NEW f \in Arrays(n), Ordered(n, f),
           NEW j \in 0 .. n - 1
    PROVE  ~cmp(f[0], f[j])
<1> DEFINE Wrong == {k \in 0 .. n - 1 : cmp(f[0], f[k])}
<1> SUFFICES ASSUME Wrong # {} PROVE FALSE
  OBVIOUS
<1>1. PICK k \in Wrong : \A i \in Wrong : k <= i
  <2>1. Wrong \in SUBSET Nat
    OBVIOUS
  <2> HIDE DEF Wrong
  <2>. QED BY <2>1, LeastElement
<1>2. k \in 0 .. n - 1 /\ cmp(f[0], f[k])
  OBVIOUS
<1>3. \A i \in 0 .. n - 1 : f[i] \in Items
  BY DEF Arrays
<1>4. k # 0
  <2>1. f[0] \in Items
    BY <1>2, <1>3
  <2>. QED BY <2>1, <1>2, OrderAssumption
<1>5. k \in 1 .. n - 1 /\ k \div 2 \in 0 .. n - 1 /\ k \div 2 < k
  BY <1>2, <1>4
<1>6. ~cmp(f[k \div 2], f[k])
  BY <1>5 DEF Ordered
<1>7. ~cmp(f[0], f[k \div 2])
  BY <1>1, <1>5
<1>8. f[0] \in Items /\ f[k] \in Items /\ f[k \div 2] \in Items
  BY <1>3, <1>5
<1>. QED BY <1>2, <1>6, <1>7, <1>8, OrderAssumption

-----------------------------------------------------------------------------
(***************************************************************************)
(* The inductive invariant: an array of some size, in the heap's order, of *)
(* packets at different addresses.                                         *)
(***************************************************************************)
Good(n) == e \in Arrays(n) /\ Ordered(n, e) /\ Distinct(n, e)
HeapInv == \E n \in Nat : Good(n)

(* It holds of the empty queue. *)
LEMMA InitHeap == Init => HeapInv
<1> SUFFICES ASSUME Init PROVE HeapInv
  OBVIOUS
<1>1. e \in Arrays(0)
  BY DEF Init, EmptyQueue, Arrays
<1>2. Ordered(0, e) /\ Distinct(0, e)
  BY DEF Ordered, Distinct
<1>. QED BY <1>1, <1>2 DEF HeapInv, Good

(* Every push keeps it, and adds its packet to those in the queue. *)
LEMMA PushStep ==
    ASSUME HeapInv, Push
    PROVE  HeapInv' /\ Queue!Push
<1>1. PICK n \in Nat : Good(n)
  BY DEF HeapInv
<1>2. PICK v \in Items : /\ \A i \in DOMAIN e : address(e[i]) # address(v)
                         /\ e' = minq_push(e, v)
  BY DEF Push
<1>3. DOMAIN e = 0 .. n - 1
  BY <1>1 DEF Good, Arrays
<1>4. /\ e' \in Arrays(n + 1) /\ Ordered(n + 1, e')
      /\ Range(e') = Range(e) \cup {v} /\ Distinct(n + 1, e')
  BY <1>1, <1>2, <1>3, PushType, PushKeepsOrder, PushAdds DEF Good
<1>5. v \notin Range(e)
  BY <1>2 DEF Range
<1>6. HeapInv'
  BY <1>4 DEF HeapInv, Good
<1>. QED BY <1>4, <1>5, <1>6 DEF Queue!Push

(* Every pop keeps it, and takes a packet none is earlier than. *)
LEMMA PopStep ==
    ASSUME HeapInv, Pop
    PROVE  HeapInv' /\ Queue!Pop
<1>1. PICK n \in Nat : Good(n)
  BY DEF HeapInv
<1>2. n # 0 /\ e' = minq_pop(e)
  BY <1>1, SizeIs DEF Pop, minq_empty, Good
<1>3. n - 1 \in Nat /\ (n - 1) + 1 = n
  BY <1>2
<1>4. /\ e' \in Arrays(n - 1) /\ Ordered(n - 1, e')
      /\ Range(e') = Range(e) \ {e[0]} /\ Distinct(n - 1, e')
  BY <1>1, <1>2, <1>3, PopType, PopKeepsOrder, PopTakes DEF Good
<1>5. DOMAIN e = 0 .. n - 1 /\ 0 \in 0 .. n - 1
  BY <1>1, <1>2 DEF Good, Arrays
<1>6. \A w \in Range(e) : ~cmp(e[0], w)
  BY <1>1, <1>5, RootIsFirst DEF Good, Range
<1>7. e[0] \in Range(e)
  BY <1>5 DEF Range
<1>8. HeapInv'
  BY <1>3, <1>4 DEF HeapInv, Good
<1>. QED BY <1>4, <1>6, <1>7, <1>8 DEF Queue!Pop

(* Every step keeps it, and is one of the abstract queue or a stutter. *)
LEMMA HeapStep ==
    HeapInv /\ [Next]_e => HeapInv' /\ [Queue!Next]_(Range(e))
<1> SUFFICES ASSUME HeapInv, [Next]_e
             PROVE  HeapInv' /\ [Queue!Next]_(Range(e))
  OBVIOUS
<1>1. CASE Push
  BY <1>1, PushStep DEF Queue!Next
<1>2. CASE Pop
  BY <1>2, PopStep DEF Queue!Next
<1>3. CASE UNCHANGED e
  BY <1>3 DEF HeapInv, Good, Range
<1>. QED BY <1>1, <1>2, <1>3 DEF Next

(***************************************************************************)
(* "A node in the tree is always < than its child nodes" (min_queue.c), as *)
(* not greater: for all dates, and any number of packets pushed and popped *)
(* in any order, though the root is its own left child.                    *)
(***************************************************************************)
THEOREM HeapIsOrdered == Spec => []HeapOrder
<1>1. HeapInv => HeapOrder
  BY OrderedIs DEF HeapInv, HeapOrder, Good
<1>. QED BY <1>1, InitHeap, HeapStep, PTL DEF Spec

(***************************************************************************)
(* The heap of min_queue.c is the queue min_queue.h promises: for all      *)
(* dates and addresses a push adds its packet and nothing else, and a pop  *)
(* takes one packet, none in the queue being earlier.                      *)
(***************************************************************************)
THEOREM HeapIsPriorityQueue == Spec => ImplementsPriorityQueue
<1>1. Init => Queue!Init
  BY DEF Init, EmptyQueue, Queue!Init, Range
<1>. QED BY <1>1, InitHeap, HeapStep, PTL
         DEF Spec, ImplementsPriorityQueue, Queue!Spec
=============================================================================
