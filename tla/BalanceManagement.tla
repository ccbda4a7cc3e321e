------------------------- MODULE BalanceManagement -------------------------
(***************************************************************************)
(* The account balance function: bss/balance-management, TMF654 buckets in *)
(* PostgreSQL (bss/balance-management/src/store.cpp).                      *)
(*                                                                         *)
(* Every mutation of the service is one database transaction: one          *)
(* conditional UPDATE of the bucket row, one event row that records the    *)
(* attempt with status "completed" or "failed", one audit row.  The row    *)
(* lock makes it atomic, so an action below is a whole POST handler.       *)
(*                                                                         *)
(* The event tables are kept as the sums a reconciliation reads from them: *)
(* per bucket over the completed rows, and per ChargingDataRef both over   *)
(* the completed rows and over all of them, because the recovery query of  *)
(* the charging function does not look at the status column.               *)
(***************************************************************************)
EXTENDS Integers

CONSTANTS
    Bucket,        \* bucket ids: one per subscriber (the SUPI), and shared ones
    Ref,           \* ChargingDataRefs, the x-chf-charging-data-ref header
    TopupAmount,   \* amounts of POST /topupBalance, which looks at no sign
    AdjustAmount,  \* signed amounts of POST /adjustBalance
    ReserveAmount, \* signed amounts of POST /reserveBalance
    MaxMoney       \* bound of the model: largest row sum that is explored

ASSUME AmountsAssumption ==
    /\ TopupAmount \subseteq Int
    /\ AdjustAmount \subseteq Int
    /\ ReserveAmount \subseteq Int
    /\ MaxMoney \in Nat

\* What the service relies on its clients for: a top-up is a credit.
TopupsCredit == TopupAmount \subseteq Nat

VARIABLES
    provisioned, \* the buckets that have a row
    remaining,   \* bucket.remaining_value_amount
    reserved,    \* bucket.reserved_value_amount
    topupRows,   \* topup_balance: sum of the amounts, per bucket
    adjustRows,  \* adjust_balance: sum of the completed amounts, per bucket
    reserveRows, \* reserve_balance: sum of the completed amounts, per bucket
    heldFor,     \* reserve_balance: sum of the completed amounts, per ref
    claimedFor   \* reserve_balance: sum of ALL amounts, per ref

bucketVars == <<provisioned, remaining, reserved>>
rowVars    == <<topupRows, adjustRows, reserveRows, heldFor, claimedFor>>
balanceVars == <<provisioned, remaining, reserved,
                 topupRows, adjustRows, reserveRows, heldFor, claimedFor>>

Credit(f, x, amount) == [f EXCEPT ![x] = @ + amount]

-----------------------------------------------------------------------------
BalanceInit ==
    /\ provisioned = {}
    /\ remaining = [b \in Bucket |-> 0]
    /\ reserved = [b \in Bucket |-> 0]
    /\ topupRows = [b \in Bucket |-> 0]
    /\ adjustRows = [b \in Bucket |-> 0]
    /\ reserveRows = [b \in Bucket |-> 0]
    /\ heldFor = [r \in Ref |-> 0]
    /\ claimedFor = [r \in Ref |-> 0]

\* POST /topupBalance: the upsert creates the bucket or credits it; it has no
\* failure of its own, and no condition on the amount.
TopupBalance(b, amount) ==
    /\ provisioned' = provisioned \union {b}
    /\ remaining' = Credit(remaining, b, amount)
    /\ topupRows' = Credit(topupRows, b, amount)
    /\ UNCHANGED <<reserved, adjustRows, reserveRows, heldFor, claimedFor>>

\* Mutant of CanAdjust: a WHERE clause without the balance.
AdjustUnguarded(b, amount) == b \in provisioned

\* The WHERE clause of the adjust UPDATE: never below zero.
CanAdjust(b, amount) == b \in provisioned /\ remaining[b] + amount >= 0

\* POST /adjustBalance, the UPDATE matched the row: status "completed".
AdjustCompleted(b, amount) ==
    /\ CanAdjust(b, amount)
    /\ remaining' = Credit(remaining, b, amount)
    /\ adjustRows' = Credit(adjustRows, b, amount)
    /\ UNCHANGED <<provisioned, reserved, topupRows, reserveRows, heldFor, claimedFor>>

\* Mutant of AdjustFailed: the row of a failed attempt says "completed".
AdjustFailedCounts(b, amount) ==
    /\ ~CanAdjust(b, amount)
    /\ adjustRows' = Credit(adjustRows, b, amount)
    /\ UNCHANGED <<bucketVars, topupRows, reserveRows, heldFor, claimedFor>>

\* POST /adjustBalance, no row matched: status "failed", answered 201 all the same.
AdjustFailed(b, amount) ==
    /\ ~CanAdjust(b, amount)
    /\ UNCHANGED balanceVars

AdjustBalance(b, amount) == AdjustCompleted(b, amount) \/ AdjustFailed(b, amount)

\* The two conditional UPDATEs of reserve: a positive amount needs that much
\* remaining, a negative one needs that much reserved.
CanReserve(b, amount) ==
    /\ b \in provisioned
    /\ amount >= 0 => remaining[b] >= amount
    /\ amount < 0 => reserved[b] >= -amount

\* POST /reserveBalance, status "completed": money moves between the two columns.
ReserveCompleted(b, amount, r) ==
    /\ CanReserve(b, amount)
    /\ remaining' = Credit(remaining, b, -amount)
    /\ reserved' = Credit(reserved, b, amount)
    /\ reserveRows' = Credit(reserveRows, b, amount)
    /\ heldFor' = Credit(heldFor, r, amount)
    /\ claimedFor' = Credit(claimedFor, r, amount)
    /\ UNCHANGED <<provisioned, topupRows, adjustRows>>

\* POST /reserveBalance, status "failed": the row is inserted with its amount
\* and its charging_data_ref, the bucket is untouched, the answer is a 201.
ReserveFailed(b, amount, r) ==
    /\ ~CanReserve(b, amount)
    /\ claimedFor' = Credit(claimedFor, r, amount)
    /\ UNCHANGED <<provisioned, remaining, reserved,
                   topupRows, adjustRows, reserveRows, heldFor>>

ReserveBalance(b, amount, r) ==
    ReserveCompleted(b, amount, r) \/ ReserveFailed(b, amount, r)

-----------------------------------------------------------------------------
\* What any client of the service can do to it.
BalanceStep ==
    \E b \in Bucket :
        \/ \E amount \in TopupAmount : TopupBalance(b, amount)
        \/ \E amount \in AdjustAmount : AdjustBalance(b, amount)
        \/ \E amount \in ReserveAmount, r \in Ref : ReserveBalance(b, amount, r)

\* Bound of the model on the sums of the event rows.
WithinBounds ==
    /\ \A b \in Bucket : topupRows[b] \in -MaxMoney .. MaxMoney /\ adjustRows[b] <= MaxMoney
    /\ \A r \in Ref : /\ heldFor[r] \in -MaxMoney .. MaxMoney
                      /\ claimedFor[r] \in -MaxMoney .. MaxMoney

BalanceNext == BalanceStep /\ WithinBounds'

BalanceSpec == BalanceInit /\ [][BalanceNext]_balanceVars

\* The service with no bound on the sums of its rows.
BalanceService == BalanceInit /\ [][BalanceStep]_balanceVars

-----------------------------------------------------------------------------
BalanceTypeOK ==
    /\ provisioned \subseteq Bucket
    /\ remaining \in [Bucket -> Int]
    /\ reserved \in [Bucket -> Int]
    /\ topupRows \in [Bucket -> Int]
    /\ adjustRows \in [Bucket -> Int]
    /\ reserveRows \in [Bucket -> Int]
    /\ heldFor \in [Ref -> Int]
    /\ claimedFor \in [Ref -> Int]

\* No interleaving of top-ups, adjustments, reservations and refunds takes either
\* column of a bucket below zero: the conditional UPDATEs are the only guard the
\* service has (store.cpp, adjust and reserve).  "a topup/credit has no balance
\* floor to violate" (store.hpp, topup), which holds as long as TopupsCredit.
NeverOverdrawn == \A b \in Bucket : remaining[b] >= 0 /\ reserved[b] >= 0

\* The event tables account for the bucket to the last unit: what was topped up
\* and adjusted is what remains plus what is reserved, and the completed
\* reserve_balance rows add up to the reserved column.  A failed attempt leaves a
\* row and moves nothing.
LedgerReconciles ==
    \A b \in Bucket :
        /\ reserved[b] = reserveRows[b]
        /\ remaining[b] + reserved[b] = topupRows[b] + adjustRows[b]

\* A bucket nobody ever topped up holds nothing: an adjustment or a reservation
\* cannot create one, and a refund cannot credit one.
OnlyTopupsProvision ==
    \A b \in Bucket \ provisioned :
        remaining[b] = 0 /\ reserved[b] = 0 /\ adjustRows[b] = 0
=============================================================================
