------------------------- MODULE ProportionalDebit -------------------------
(***************************************************************************)
(* What a charging session pays: the consumed share of its grants, applied *)
(* to the money reserved for them (proportional_debit.cpp), after the      *)
(* operator's unit pooling (unit_pooling.cpp) has been applied to the      *)
(* usage, as the Release handler composes the two.                         *)
(*                                                                         *)
(* The code works in doubles.  Quantities here are naturals and the one    *)
(* division rounds down; nothing below depends on the fraction that is     *)
(* lost.                                                                   *)
(***************************************************************************)
EXTENDS Integers

\* The dimensions a rating group can be granted in: totalVolume (octets),
\* serviceSpecificUnits, time (seconds).
Dim == {"volume", "units", "time"}

\* Mutant of Lesser: usage above the grant is dropped as implausible.
LesserOrNothing(a, b) == IF a <= b THEN a ELSE 0

Lesser(a, b) == IF a < b THEN a ELSE b

Weight(q) == q["volume"] + q["units"] + q["time"]

\* Mutant of Consumed: no clamp to the grant.
ConsumedUnclamped(granted, used) == used

\* std::min(used, granted) per granted dimension; a dimension without a grant
\* contributes nothing because its grant is 0.
Consumed(granted, used) == [d \in Dim |-> Lesser(used[d], granted[d])]

Debit(total, granted, used) ==
    IF total <= 0 THEN 0
    ELSE IF Weight(granted) = 0 THEN total
    ELSE (total * Weight(Consumed(granted, used))) \div Weight(granted)

\* The operator's unit_pooling rates of a price.
Rates == [units : Nat, time : Nat]

NoPooling == [units |-> 0, time |-> 0]

\* Octets that stand for one service unit and for one second; 0 is "not pooled".
\* With any rate configured the other two dimensions are consumed through the
\* volume and no longer proportion on their own.
Pooled(pooling, used) ==
    IF pooling = NoPooling THEN used
    ELSE [used EXCEPT !["volume"] = @ + used["time"] * pooling.time
                                      + used["units"] * pooling.units,
                      !["units"] = 0,
                      !["time"] = 0]

ReleaseDebit(total, granted, used, pooling) == Debit(total, granted, Pooled(pooling, used))
=============================================================================
