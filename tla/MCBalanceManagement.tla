------------------------ MODULE MCBalanceManagement ------------------------
(* Two buckets, two charging sessions, amounts that cross every guard. *)
EXTENDS BalanceManagement, TLC

CONSTANTS b1, b2, r1, r2

MCBucket == {b1, b2}
MCRef == {r1, r2}
MCAdjustAmount == {-1, 1}
MCReserveAmount == {-1, 1, 2}

MCSymmetry == Permutations(MCBucket) \union Permutations(MCRef)
=============================================================================
