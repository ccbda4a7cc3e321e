--------------------------- MODULE MCChargedUsage ---------------------------
(***************************************************************************)
(* A small catalog: one price per dimension, a pooled price, and a price   *)
(* whose unit of measure comes to no whole unit.                           *)
(***************************************************************************)
EXTENDS ChargedUsage

Plain == [units |-> 0, time |-> 0]
Price(dim, units, cost, rates) == [dim |-> dim, units |-> units, cost |-> cost, rates |-> rates]

MCOffers == {Price("volume", 1, 4, Plain),
             Price("volume", 2, 6, [units |-> 1, time |-> 2]),
             Price("units", 1, 3, Plain),
             Price("time", 2, 6, Plain),
             Price("units", 0, 5, Plain)}
=============================================================================
