--------------------------- MODULE MCDiameterServer ---------------------------
(* Two connections, so that a peer can reconnect or two peers can use one  *)
(* Session-Id, and two callers.                                            *)
EXTENDS DiameterServer, TLC

CONSTANTS c1, c2, t1, t2
=============================================================================
