----------------------------- MODULE DelayQueue -----------------------------
(***************************************************************************)
(* A min_queue in use: items are pushed and popped in any order.  The      *)
(* comparison is minq_new's argument; the queue holds pointers, so that an *)
(* item in it is known by its address.  A push whose realloc fails changes *)
(* nothing: it is a stuttering step.                                       *)
(***************************************************************************)
EXTENDS MinQueue, Functions

CONSTANTS
    Items,       \* what may be pushed; cmp(a, b): a is greater than b
    address(_)   \* where an item lies in memory

(* What a comparison has to be: a strict order, but items may be alike. *)
ASSUME OrderAssumption ==
    \A a, b, c \in Items :
        /\ cmp(a, b) => ~cmp(b, a)
        /\ ~cmp(a, b) /\ ~cmp(b, c) => ~cmp(a, c)

VARIABLE e       \* the heap's array: size is that of its domain

Init == e = EmptyQueue

Push ==
    \E v \in Items :
        /\ \A i \in DOMAIN e : address(e[i]) # address(v)
        /\ e' = minq_push(e, v)

Pop ==
    /\ ~minq_empty(e)
    /\ e' = minq_pop(e)

Next == Push \/ Pop

Spec == Init /\ [][Next]_e

-----------------------------------------------------------------------------
(***************************************************************************)
(* "A node in the tree is always < than its child nodes" (min_queue.c),    *)
(* read as not greater, for dates may be equal: although the root is its   *)
(* own left child, every push and pop restores the order of the heap.      *)
(***************************************************************************)
HeapOrder == HeapOrdered(e)

(***************************************************************************)
(* The heap is a priority queue: a push adds its item and nothing else, a  *)
(* pop takes one item that none in the queue comes before.                 *)
(***************************************************************************)
Queue == INSTANCE PriorityQueue WITH contents <- Range(e)

ImplementsPriorityQueue == Queue!Spec
=============================================================================
