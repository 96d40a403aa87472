------------------------------ MODULE MinQueue ------------------------------
(***************************************************************************)
(* min_queue.c: the binary heap that orders link_sim's delayed datagrams.  *)
(* A queue of size n is a function e on 0 .. n-1.  Slot 0 is the root; the *)
(* macros put the children of i at 2i and 2i+1, so slot 0 is its own left  *)
(* child and slot 1 the only other one.                                    *)
(***************************************************************************)
EXTENDS Integers, FiniteSetsExt

CONSTANT cmp(_, _)      \* cmp(a, b): a is greater than b

EmptyQueue == [i \in {} |-> 0]
Size(e) == Cardinality(DOMAIN e)

LCHILD(i) == 2 * i
RCHILD(i) == 2 * i + 1
PARENT(i) == i \div 2

(***************************************************************************)
(* minq_push: v rises from the slot past the end until its parent is not   *)
(* greater; each ancestor it passes moves one level down.                  *)
(***************************************************************************)
Ascent(e, v) ==
    LET up[i \in 0 .. Size(e)] ==
            IF i # 0 /\ cmp(e[PARENT(i)], v) THEN {i} \cup up[PARENT(i)]
            ELSE {i}
    IN up[Size(e)]

(* A mutant of minq_push: the value is put at the end. *)
PushAtEnd(e, v) ==
    [i \in 0 .. Size(e) |-> IF i = Size(e) THEN v ELSE e[i]]

minq_push(e, v) ==
    [i \in 0 .. Size(e) |->
        IF i \notin Ascent(e, v) THEN e[i]
        ELSE IF i = Min(Ascent(e, v)) THEN v
        ELSE e[PARENT(i)]]

(* A mutant of has_child: the right child is never looked at. *)
LeftChild(e, i) == IF LCHILD(i) >= Size(e) THEN 0 ELSE LCHILD(i)

(* The smallest child there is, or 0, the root, if there is none. *)
has_child(e, i) ==
    IF LCHILD(i) >= Size(e) THEN 0
    ELSE IF RCHILD(i) < Size(e) /\ cmp(e[LCHILD(i)], e[RCHILD(i)])
    THEN RCHILD(i) ELSE LCHILD(i)

(***************************************************************************)
(* minq_pop: the last value v takes the root's place and sinks until it is *)
(* not greater than its smallest child.                                    *)
(***************************************************************************)
Descent(e) ==
    LET down[i \in DOMAIN e] ==
            IF has_child(e, i) # 0 /\ cmp(e[0], e[has_child(e, i)])
            THEN {i} \cup down[has_child(e, i)]
            ELSE {i}
    IN down[0]

(* A mutant of minq_pop: the last slot is forgotten, but the root stays. *)
PopLast(e) ==
    IF Size(e) <= 1 THEN EmptyQueue
    ELSE [i \in 0 .. Size(e) - 2 |-> e[i]]

minq_pop(e) ==
    IF Size(e) <= 1 THEN EmptyQueue
    ELSE LET n == Size(e) - 1
             f == [i \in 0 .. n - 1 |-> IF i = 0 THEN e[n] ELSE e[i]]
         IN [i \in 0 .. n - 1 |->
                IF i \notin Descent(f) THEN f[i]
                ELSE IF i = Max(Descent(f)) THEN f[0]
                ELSE f[has_child(f, i)]]

minq_peek(e) == e[0]
minq_empty(e) == Size(e) = 0

(* The invariant min_queue.c's comment asks for: no node above a smaller.  *)
HeapOrdered(e) == \A i \in DOMAIN e \ {0} : ~ cmp(e[PARENT(i)], e[i])
=============================================================================
