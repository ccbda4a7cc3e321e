-------------------------- MODULE MCSpendingLimit --------------------------
(* Two subscriptions, one policy counter, two handlers at once. *)
EXTENDS SpendingLimit, TLC

CONSTANTS w1, w2

MCWorkers == {w1, w2}
MCContexts == SpendingLimitContext \ {NoContext}
MCSymmetry == Permutations(MCWorkers)
=============================================================================
