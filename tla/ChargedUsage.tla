---------------------------- MODULE ChargedUsage ----------------------------
(***************************************************************************)
(* The meter of one charging session: reservations add money and granted   *)
(* units to it in one of three dimensions (charge_one_usage), the consumer *)
(* reports use, and the debit is what Release would take from it now.      *)
(* Every reachable state is one input of ProportionalDebit, so the runs    *)
(* check the arithmetic over all sessions up to the bounds.                *)
(***************************************************************************)
EXTENDS ProportionalDebit

CONSTANTS
    Offers,     \* the catalog: [dim, units, cost, rates] per ProductOfferingPrice
    MaxUnits,   \* bound of the model: units granted and used per dimension
    MaxTotal    \* bound of the model: money reserved for the session

ASSUME MeterAssumption ==
    /\ Offers \subseteq [dim : Dim, units : Nat, cost : Nat, rates : Rates]
    /\ MaxUnits \in Nat
    /\ MaxTotal \in Nat

VARIABLES
    total,    \* reserved_total of chf:cdr:content:{ref}
    granted,  \* granted_volume, granted_service_units, granted_time
    used,     \* the usage of the Release request, summed over its containers
    pooling   \* pool_octets_per_second, pool_octets_per_service_unit

meterVars == <<total, granted, used, pooling>>

NoUnits == [d \in Dim |-> 0]

MeterInit ==
    /\ total = 0
    /\ granted = NoUnits
    /\ used = NoUnits
    /\ pooling = NoPooling

\* The reservation for one matched offer completed: add_reserved, add_granted_*
\* and, when the price carries rates, set_unit_pooling, which overwrites.
Grant(o) ==
    /\ granted[o.dim] + o.units <= MaxUnits
    /\ total + o.cost <= MaxTotal
    /\ total' = total + o.cost
    /\ granted' = [granted EXCEPT ![o.dim] = @ + o.units]
    /\ pooling' = [k \in {"units", "time"} |->
                      IF o.rates[k] > 0 THEN o.rates[k] ELSE pooling[k]]
    /\ UNCHANGED used

Use(d, units) ==
    /\ used[d] + units <= MaxUnits
    /\ used' = [used EXCEPT ![d] = @ + units]
    /\ UNCHANGED <<total, granted, pooling>>

MeterNext ==
    \/ \E o \in Offers : Grant(o)
    \/ \E d \in Dim, units \in 1 .. MaxUnits : Use(d, units)

MeterSpec == MeterInit /\ [][MeterNext]_meterVars

Owed == ReleaseDebit(total, granted, used, pooling)

-----------------------------------------------------------------------------
MeterTypeOK ==
    /\ total \in Nat
    /\ granted \in [Dim -> Nat]
    /\ used \in [Dim -> Nat]
    /\ pooling \in Rates

\* The clamp of proportional_debit: whatever is reported, and whatever the
\* pooling rates make of it, a session pays between nothing and what was reserved.
DebitWithinReservation == Owed \in 0 .. total

\* An unmeasurable session is not a free session (proportional_debit.cpp): money
\* reserved under a price whose unitOfMeasure comes to no whole unit is charged
\* in full.
NothingGrantedPaysInFull == granted = NoUnits => Owed = total

\* A subscriber who reported at least the whole of every grant pays the whole
\* reservation; one who reported nothing pays nothing.  Pooled sessions are in
\* this as long as their grants are in volume, which is what pooling is sold on.
Endpoints ==
    granted # NoUnits =>
        /\ (pooling = NoPooling \/ granted["units"] + granted["time"] = 0)
             => ((\A d \in Dim : used[d] >= granted[d]) => Owed = total)
        /\ used = NoUnits => Owed = 0

\* Reporting more use never lowers the debit, in any dimension and under any
\* pooling rates.
UseNeverCheapens == [][used' # used => Owed' >= Owed]_meterVars
=============================================================================
