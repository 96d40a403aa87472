---------------------------- MODULE MCDelayQueue ----------------------------
(***************************************************************************)
(* DelayQueue for TLC: link_sim's packets, compared by expiration date.    *)
(* Dates are few, so that some are equal; the slots are as many as make    *)
(* heaps with a choice of children on two levels.                          *)
(***************************************************************************)
EXTENDS DelayQueue, TLC

CONSTANTS p1, p2, p3, p4, p5, p6, p7

SevenSlots == {p1, p2, p3, p4, p5, p6, p7}
Alike == Permutations(SevenSlots)

Delayed == [date : 0 .. 3, slot : SevenSlots]
Later(a, b) == a.date > b.date
SlotOf(packet) == packet.slot
=============================================================================
