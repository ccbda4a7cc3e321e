------------------------ MODULE MCConvergedCharging ------------------------
(***************************************************************************)
(* One subscriber with or without a shared bucket, one or two              *)
(* ChargingDataRefs, two handlers in progress.  Prices are such that the   *)
(* division of the debit is exact in these runs.                           *)
(***************************************************************************)
EXTENDS ConvergedCharging, TLC

CONSTANTS alice, family, w1, w2

MCWorkers == {w1, w2}

UnitPrice == 2
MCOffer == {[priced |-> TRUE, cost |-> UnitPrice, units |-> 1]}
MCAmounts == -MaxMoney .. MaxMoney

\* The same money for two units, so that a part of a grant can be used.
MCPair == {[priced |-> TRUE, cost |-> UnitPrice, units |-> 2]}

\* A zero-cost promotional price next to the ordinary one.
MCPromotion == MCOffer \union {[priced |-> TRUE, cost |-> 0, units |-> 1]}

\* A price object without a value, read as some number above zero.
MCValueless == {[priced |-> FALSE, cost |-> UnitPrice, units |-> 1]}

MCSymmetry == Permutations(MCWorkers)
=============================================================================
