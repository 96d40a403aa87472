------------------------------- MODULE MCTrtp -------------------------------
(***************************************************************************)
(* Trtp for TLC: the sets of faults its runs choose from.  The sizes of    *)
(* each run are in its .cfg.                                               *)
(***************************************************************************)
EXTENDS Trtp

NoFault == {}

(* One datagram is lost, cut or late; but no ACK is lost. *)
Mishaps == {"loseData", "cutData", "swapData", "swapAck"}

(* Somebody stops one of the programs. *)
Stopped == {"killSender", "killReceiver"}

LostData == {"loseData"}
LostAck == {"loseAck"}

AnyFault == FaultKinds
=============================================================================
