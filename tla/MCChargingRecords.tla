------------------------- MODULE MCChargingRecords -------------------------
(* One session over two instances, in each kind of configuration: *)
(* a row at a time, batches of two, and the event bus alone.       *)
EXTENDS ChargingRecords

CONSTANTS i1, i2

MCInstances == {i1, i2}
MCUsages == {<<>>, <<"g1">>, <<"g1", "g2">>}
MCModes == {[batch |-> 1, direct |-> TRUE, bus |-> FALSE],
            [batch |-> 2, direct |-> TRUE, bus |-> FALSE],
            [batch |-> 1, direct |-> FALSE, bus |-> TRUE]}
=============================================================================
