----------------------------- MODULE MCN2Handover -----------------------------
(* Three gNBs and two UEs at different gNBs, so that two sources can ask   *)
(* for a handover to the same target at the same time.                     *)
EXTENDS N2Handover, TLC

CONSTANTS g1, g2, g3, u1, u2
MCHome == u1 :> g1 @@ u2 :> g2
=============================================================================
