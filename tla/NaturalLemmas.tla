--------------------------- MODULE NaturalLemmas ---------------------------
(***************************************************************************)
(* Facts about naturals the proofs rest on: the minimum that FirstEmpty,   *)
(* find_buffer and LeadingNulls choose exists; an induction principle that *)
(* speaks of a set of counterexamples; and the arithmetic of / and %, for  *)
(* seqnums that wrap, dates cut into seconds and numbers cut into bytes.   *)
(***************************************************************************)
EXTENDS Integers, FiniteSetsExt, WellFoundedInduction, TLAPS

(* A set of naturals that is not empty has a least element. *)
LEMMA LeastElement ==
    ASSUME NEW S \in SUBSET Nat, S # {}
    PROVE  \E m \in S : \A k \in S : m <= k
<1> DEFINE R == {ss \in Nat \X Nat : ss[1] < ss[2]}
<1>1. IsWellFoundedOn(R, Nat)
  BY NatLessThanWellFounded DEF OpToRel
<1>2. PICK m \in S : \A k \in S : ~ (<<k, m>> \in R)
  BY <1>1, WFMin
<1>3. ASSUME NEW k \in S PROVE m <= k
  <2>1. /\ <<k, m>> \in Nat \X Nat
        /\ <<k, m>>[1] = k /\ <<k, m>>[2] = m
    OBVIOUS
  <2>2. ~ (k < m)
    BY <1>2, <2>1
  <2>. QED BY <2>2
<1>. QED BY <1>3

(* Min returns it. *)
LEMMA MinOfNaturals ==
    ASSUME NEW S \in SUBSET Nat, S # {}
    PROVE  Min(S) \in S /\ \A k \in S : Min(S) <= k
BY LeastElement DEF Min

(***************************************************************************)
(* Induction: a set of counterexamples without 0 that holds the number     *)
(* before each of its members is empty.                                    *)
(***************************************************************************)
LEMMA NoCounterexample ==
    ASSUME NEW B \in SUBSET Nat, 0 \notin B,
           \A k \in Nat : k + 1 \in B => k \in B
    PROVE  B = {}
<1> SUFFICES ASSUME B # {} PROVE FALSE
  OBVIOUS
<1>1. PICK m \in B : \A k \in B : m <= k
  BY LeastElement
<1>2. m # 0 /\ m \in Nat /\ m - 1 \in Nat /\ (m - 1) + 1 = m
  BY <1>1
<1>3. m - 1 \in B
  BY <1>2
<1>. QED BY <1>1, <1>2, <1>3

-----------------------------------------------------------------------------
(* A remainder is below its divisor. *)
LEMMA ModRange ==
    ASSUME NEW a \in Int, NEW b \in Nat \ {0}
    PROVE  a % b \in 0 .. b - 1
OBVIOUS

(* The division with remainder of a natural. *)
LEMMA Division ==
    ASSUME NEW a \in Nat, NEW b \in Nat \ {0}
    PROVE  /\ a \div b \in Nat
           /\ a = b * (a \div b) + (a % b)
<1> DEFINE q == a \div b
<1>1. a = q * b + (a % b) /\ q \in Nat
  BY SMTT(30)
<1> HIDE DEF q
<1>2. q * b = b * q
  BY <1>1
<1>. QED BY <1>1, <1>2 DEF q

(* The same, when the quotient itself does not matter. *)
LEMMA DivMod ==
    ASSUME NEW a \in Nat, NEW b \in Nat \ {0}
    PROVE  \E q \in Nat : a = b * q + (a % b)
BY Division

(* The remainder is the only number below b to differ from a by a multiple. *)
LEMMA ModOf ==
    ASSUME NEW a \in Nat, NEW b \in Nat \ {0}, NEW q \in Int,
           NEW r \in 0 .. b - 1, a = b * q + r
    PROVE  a % b = r
OBVIOUS

(* Adding less than b goes past b at most once. *)
LEMMA ModPlus ==
    ASSUME NEW a \in Nat, NEW b \in Nat \ {0}, NEW i \in 0 .. b - 1
    PROVE  (a + i) % b =
              IF (a % b) + i < b THEN (a % b) + i ELSE (a % b) + i - b
<1>1. PICK q \in Nat : a = b * q + (a % b)
  BY DivMod
<1>2. a % b \in 0 .. b - 1
  BY ModRange
<1> DEFINE r == a % b
<1>3. CASE r + i < b
  <2>1. a + i = b * q + (r + i)
    BY <1>1
  <2>2. r + i \in 0 .. b - 1 /\ a + i \in Nat /\ q \in Int
    BY <1>2, <1>3
  <2> HIDE DEF r
  <2>3. (a + i) % b = r + i
    <3>1. \A x \in Nat : x = b * q + (r + i) => x % b = r + i
      BY <2>2, ModOf
    <3>. QED BY <2>1, <2>2, <3>1
  <2>. QED BY <1>3, <2>3 DEF r
<1>4. CASE ~ (r + i < b)
  <2>1. a + i = b * (q + 1) + (r + i - b)
    BY <1>1, <1>2
  <2>2. r + i - b \in 0 .. b - 1 /\ a + i \in Nat /\ q + 1 \in Int
    BY <1>2, <1>4
  <2> HIDE DEF r
  <2>3. (a + i) % b = r + i - b
    <3>1. \A x \in Nat : x = b * (q + 1) + (r + i - b)
                            => x % b = r + i - b
      BY <2>2, ModOf
    <3>. QED BY <2>1, <2>2, <3>1
  <2>. QED BY <1>4, <2>3 DEF r
<1>. QED BY <1>3, <1>4

(* Counting on from a remainder or from the number itself is the same. *)
LEMMA ModSucc ==
    ASSUME NEW a \in Nat, NEW b \in Nat \ {0}
    PROVE  /\ ((a % b) + 1) % b = (a + 1) % b
           /\ (a + 1) % b = IF (a % b) + 1 = b THEN 0 ELSE (a % b) + 1
<1> DEFINE r == a % b
<1>1. r \in 0 .. b - 1
  BY ModRange
<1>2. (a + 1) % b = IF r + 1 = b THEN 0 ELSE r + 1
  <2>1. CASE b = 1
    <3>1. (a + 1) % b \in 0 .. b - 1
      BY ModRange
    <3>. QED BY <1>1, <2>1, <3>1
  <2>2. CASE b # 1
    <3>1. 1 \in 0 .. b - 1
      BY <2>2
    <3>2. (a + 1) % b = IF r + 1 < b THEN r + 1 ELSE r + 1 - b
      BY <3>1, ModPlus
    <3> HIDE DEF r
    <3>. QED BY <1>1, <3>2
  <2>. QED BY <2>1, <2>2
<1>3. (r + 1) % b = IF r + 1 = b THEN 0 ELSE r + 1
  <2> HIDE DEF r
  <2>1. CASE r + 1 = b
    <3>1. r + 1 = b * 1 + 0 /\ 0 \in 0 .. b - 1
      BY <2>1
    <3>. QED BY <1>1, <2>1, <3>1, ModOf
  <2>2. CASE r + 1 # b
    <3>1. r + 1 = b * 0 + (r + 1) /\ r + 1 \in 0 .. b - 1
      BY <1>1, <2>2
    <3>. QED BY <1>1, <2>2, <3>1, ModOf
  <2>. QED BY <2>1, <2>2
<1>. QED BY <1>2, <1>3

(* A number less its remainder is a multiple. *)
LEMMA ModOfMultiple ==
    ASSUME NEW a \in Nat, NEW b \in Nat \ {0}
    PROVE  a % b <= a /\ (a - (a % b)) % b = 0
<1>1. PICK q \in Nat : a = b * q + (a % b)
  BY DivMod
<1> DEFINE r == a % b
<1>2. r \in 0 .. b - 1
  BY ModRange
<1>3. b * q \in Nat
  OBVIOUS
<1>4. a = b * q + r
  BY <1>1
<1> HIDE DEF r
<1>5. a - r = b * q + 0 /\ a - r \in Nat /\ 0 \in 0 .. b - 1 /\ q \in Int
  BY <1>2, <1>3, <1>4
<1>6. (a - r) % b = 0
  <2>1. \A x \in Nat : x = b * q + 0 => x % b = 0
    BY <1>5, ModOf
  <2>. QED BY <1>5, <2>1
<1>. QED BY <1>5, <1>6, <1>2 DEF r
=============================================================================
