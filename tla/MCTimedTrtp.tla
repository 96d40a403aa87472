---------------------------- MODULE MCTimedTrtp ----------------------------
(***************************************************************************)
(* TimedTrtp for TLC: a clock of 8 ticks to a wrap of the timestamp.       *)
(***************************************************************************)
EXTENDS TimedTrtp

(* A datagram is lost, or cut: then the receiver may answer with a NACK. *)
LostOrCut == {"loseData", "cutData"}

OneOrThree == {1, 3}
=============================================================================
