----------------------------- MODULE MCLinkSim -----------------------------
(***************************************************************************)
(* LinkSim for TLC: the directions the link alters.                        *)
(***************************************************************************)
EXTENDS LinkSim

Forward == {FORWARD}
BothWays == {FORWARD, REVERSE}
=============================================================================
