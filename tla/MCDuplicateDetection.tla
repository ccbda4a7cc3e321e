------------------------ MODULE MCDuplicateDetection ------------------------
(* A Create and a Release, three handlers, a wait of two polls. *)
EXTENDS DuplicateDetection

CONSTANTS create, release, bad, w1, w2, w3
=============================================================================
