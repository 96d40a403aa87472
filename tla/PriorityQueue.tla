--------------------------- MODULE PriorityQueue ---------------------------
(***************************************************************************)
(* What min_queue.h promises: a collection one can add items to, and take  *)
(* an item from that no other one in it is smaller than.                   *)
(***************************************************************************)
CONSTANTS
    Items,
    cmp(_, _)       \* cmp(a, b): a is greater than b

VARIABLE contents

Init == contents = {}

Push == \E v \in Items \ contents : contents' = contents \cup {v}

Pop ==
    \E v \in contents :
        /\ \A w \in contents : ~ cmp(v, w)
        /\ contents' = contents \ {v}

Next == Push \/ Pop

Spec == Init /\ [][Next]_contents
=============================================================================
