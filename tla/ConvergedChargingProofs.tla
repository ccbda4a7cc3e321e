---------------------- MODULE ConvergedChargingProofs -----------------------
(***************************************************************************)
(* The arithmetic of the debit, and what a session owes, for every grant,  *)
(* use and pooling rate; the books of the account balance function for any *)
(* number of buckets, sessions and amounts and any interleaving of its     *)
(* clients; charging sessions for any number of subscribers, handlers,     *)
(* sessions and faults: types, the single settlement, the bound on the     *)
(* debit, the promise of PrepaidSession to the subscriber, what is held    *)
(* against what is recorded, and when money stays held after a Release.    *)
(***************************************************************************)
EXTENDS ConvergedCharging, ChargedUsage, TLAPS

(* The consumed share of a reservation. *)

Quantities == [Dim -> Nat]

\* A share of at most the whole comes to at most the whole, after the division too.
LEMMA ShareBounds ==
    ASSUME NEW t \in Nat, NEW part \in Nat, NEW whole \in Nat \ {0}, part <= whole
    PROVE  (t * part) \div whole \in 0 .. t
  <1>1. t * part \in Nat /\ t * part <= t * whole
    BY SMT
  <1>2. ASSUME NEW x \in Nat, x <= t * whole PROVE x \div whole \in 0 .. t
    BY <1>2
  <1> QED  BY <1>1, <1>2

\* The whole of the grants owes the whole of the reservation.
LEMMA WholeShare == \A t \in Nat, whole \in Nat \ {0} : (t * whole) \div whole = t
  OBVIOUS

\* A larger share never comes to less.
LEMMA ShareMonotone ==
    ASSUME NEW t \in Nat, NEW part \in Nat, NEW more \in Nat, NEW whole \in Nat \ {0},
           part <= more
    PROVE  (t * part) \div whole <= (t * more) \div whole
  <1>1. t * part \in Nat /\ t * more \in Nat /\ t * part <= t * more
    BY SMT
  <1>2. ASSUME NEW x \in Nat, NEW y \in Nat, x <= y PROVE x \div whole <= y \div whole
    BY <1>2
  <1> QED  BY <1>1, <1>2

\* The clamp: what is consumed is a quantity and weighs at most what was granted.
LEMMA ConsumedBounds ==
    ASSUME NEW g \in Quantities, NEW u \in Quantities
    PROVE  /\ Consumed(g, u) \in Quantities
           /\ Weight(g) \in Nat
           /\ Weight(Consumed(g, u)) \in 0 .. Weight(g)
  BY DEF Quantities, Dim, Consumed, Lesser, Weight

\* Pooling turns quantities into quantities and is monotone in the use.
LEMMA PooledIsQuantity ==
    ASSUME NEW p \in Rates, NEW u \in Quantities
    PROVE  Pooled(p, u) \in Quantities
  <1>1. u["time"] * p.time \in Nat /\ u["units"] * p.units \in Nat
    BY DEF Quantities, Dim, Rates
  <1> QED  BY <1>1 DEF Quantities, Dim, Pooled

\* More use of one dimension never lowers any pooled quantity.
LEMMA PooledMonotone ==
    ASSUME NEW p \in Rates, NEW u \in Quantities, NEW v \in Quantities,
           \A d \in Dim : u[d] <= v[d]
    PROVE  \A d \in Dim : Pooled(p, u)[d] <= Pooled(p, v)[d]
  <1>1. /\ u["time"] * p.time \in Nat /\ v["time"] * p.time \in Nat
        /\ u["units"] * p.units \in Nat /\ v["units"] * p.units \in Nat
    BY DEF Quantities, Dim, Rates
  <1>2. u["time"] * p.time <= v["time"] * p.time
    BY SMT DEF Quantities, Dim, Rates
  <1>3. u["units"] * p.units <= v["units"] * p.units
    BY SMT DEF Quantities, Dim, Rates
  <1> QED  BY <1>1, <1>2, <1>3 DEF Quantities, Dim, Pooled

\* A session never owes less than nothing nor more than was reserved.
LEMMA DebitBounds ==
    ASSUME NEW t \in Nat, NEW g \in Quantities, NEW u \in Quantities
    PROVE  Debit(t, g, u) \in 0 .. t
  <1>1. Weight(g) \in Nat /\ Weight(Consumed(g, u)) \in 0 .. Weight(g)
    BY ConsumedBounds
  <1>2. CASE t <= 0 \/ Weight(g) = 0
    BY <1>2 DEF Debit
  <1>3. CASE t > 0 /\ Weight(g) # 0
    <2>1. (t * Weight(Consumed(g, u))) \div Weight(g) \in 0 .. t
      BY <1>1, <1>3, ShareBounds
    <2> QED  BY <1>3, <2>1 DEF Debit
  <1> QED  BY <1>2, <1>3

\* More use of any dimension never lowers the debit.
LEMMA DebitMonotone ==
    ASSUME NEW t \in Nat, NEW g \in Quantities, NEW u \in Quantities, NEW v \in Quantities,
           \A d \in Dim : u[d] <= v[d]
    PROVE  Debit(t, g, u) <= Debit(t, g, v)
  <1>1. /\ Weight(g) \in Nat
        /\ Weight(Consumed(g, u)) \in Nat /\ Weight(Consumed(g, v)) \in Nat
    BY ConsumedBounds
  <1>2. Weight(Consumed(g, u)) <= Weight(Consumed(g, v))
    BY DEF Quantities, Dim, Consumed, Lesser, Weight
  <1>3. CASE t <= 0 \/ Weight(g) = 0
    BY <1>3 DEF Debit
  <1>4. CASE t > 0 /\ Weight(g) # 0
    <2>1. (t * Weight(Consumed(g, u))) \div Weight(g)
            <= (t * Weight(Consumed(g, v))) \div Weight(g)
      BY <1>1, <1>2, <1>4, ShareMonotone
    <2> QED  BY <1>4, <2>1 DEF Debit
  <1> QED  BY <1>3, <1>4

-----------------------------------------------------------------------------
\* The meter's money, grants, use and rates have their types in every state.
THEOREM MeterTypeCorrect == MeterSpec => []MeterTypeOK
  <1>1. MeterInit => MeterTypeOK
    BY DEF MeterInit, MeterTypeOK, NoUnits, NoPooling, Rates
  <1>2. MeterTypeOK /\ [MeterNext]_meterVars => MeterTypeOK'
    <2> SUFFICES ASSUME MeterTypeOK, [MeterNext]_meterVars PROVE MeterTypeOK'
      OBVIOUS
    <2>1. ASSUME NEW o \in Offers, Grant(o) PROVE MeterTypeOK'
      <3>1. o \in [dim : Dim, units : Nat, cost : Nat, rates : Rates]
        BY MeterAssumption
      <3>2. o.dim \in Dim /\ o.units \in Nat /\ o.cost \in Nat /\ o.rates \in Rates
        BY <3>1
      <3>3. total' \in Nat /\ granted' \in [Dim -> Nat] /\ used' \in [Dim -> Nat]
        BY <2>1, <3>2 DEF Grant, MeterTypeOK
      <3>4. pooling' \in Rates
        BY <2>1, <3>2 DEF Grant, MeterTypeOK, Rates
      <3> QED  BY <3>3, <3>4 DEF MeterTypeOK
    <2>2. ASSUME NEW d \in Dim, NEW units \in 1 .. MaxUnits, Use(d, units) PROVE MeterTypeOK'
      BY <2>2, MeterAssumption DEF Use, MeterTypeOK
    <2>3. CASE UNCHANGED meterVars
      BY <2>3 DEF meterVars, MeterTypeOK
    <2> QED  BY <2>1, <2>2, <2>3 DEF MeterNext
  <1> QED  BY <1>1, <1>2, PTL DEF MeterSpec

\* A session pays between nothing and what was reserved for it, whatever is
\* reported and whatever the pooling rates make of it.
THEOREM DebitWithinReservationHolds == MeterSpec => []DebitWithinReservation
  <1>1. MeterTypeOK => DebitWithinReservation
    BY PooledIsQuantity, DebitBounds
       DEF MeterTypeOK, DebitWithinReservation, Owed, ReleaseDebit, Quantities
  <1> QED  BY <1>1, MeterTypeCorrect, PTL

\* A session whose grants come to nothing measurable pays its whole reservation.
THEOREM NothingGrantedPaysInFullHolds == MeterSpec => []NothingGrantedPaysInFull
  <1>1. ASSUME MeterTypeOK, granted = NoUnits PROVE Owed = total
    <2>1. Weight(granted) = 0
      BY <1>1 DEF Weight, NoUnits, Dim
    <2> QED  BY <1>1, <2>1 DEF MeterTypeOK, Owed, ReleaseDebit, Debit
  <1> QED  BY <1>1, MeterTypeCorrect, PTL DEF NothingGrantedPaysInFull

\* Full use pays the whole reservation and no use pays nothing, also when the use
\* is pooled into volume, provided the grants are in volume.
THEOREM EndpointsHold == MeterSpec => []Endpoints
  <1>1. ASSUME MeterTypeOK, granted # NoUnits PROVE Endpoints
    <2>1. /\ total \in Nat /\ granted \in Quantities /\ used \in Quantities
          /\ pooling \in Rates /\ Pooled(pooling, used) \in Quantities
      BY <1>1, PooledIsQuantity DEF MeterTypeOK, Quantities
    <2>2. Weight(granted) \in Nat \ {0}
      BY <1>1, <2>1 DEF Weight, Quantities, Dim, NoUnits
    <2>3. ASSUME pooling = NoPooling \/ granted["units"] + granted["time"] = 0,
                 \A d \in Dim : used[d] >= granted[d]
          PROVE  Owed = total
      <3>1. \A d \in Dim : Pooled(pooling, used)[d] >= granted[d]
        <4>1. CASE pooling = NoPooling
          BY <2>3, <4>1 DEF Pooled
        <4>2. CASE pooling # NoPooling
          <5>1. /\ used["time"] * pooling.time \in Nat /\ used["units"] * pooling.units \in Nat
            BY <2>1 DEF Quantities, Dim, Rates
          <5> QED  BY <2>1, <2>3, <4>2, <5>1 DEF Pooled, Quantities, Dim
        <4> QED  BY <4>1, <4>2
      <3>2. Weight(Consumed(granted, Pooled(pooling, used))) = Weight(granted)
        BY <2>1, <3>1 DEF Consumed, Lesser, Weight, Quantities, Dim
      <3>3. (total * Weight(granted)) \div Weight(granted) = total
        BY <2>1, <2>2, WholeShare
      <3> QED  BY <2>1, <2>2, <3>2, <3>3 DEF Owed, ReleaseDebit, Debit
    <2>4. ASSUME used = NoUnits PROVE Owed = 0
      <3>1. Weight(Consumed(granted, Pooled(pooling, used))) = 0
        <4>1. used["time"] * pooling.time = 0 /\ used["units"] * pooling.units = 0
          BY <2>1, <2>4 DEF NoUnits, Dim, Rates
        <4>2. \A d \in Dim : Pooled(pooling, used)[d] = 0
          BY <2>1, <2>4, <4>1 DEF Pooled, NoUnits, Quantities, Dim
        <4> QED  BY <2>1, <4>2 DEF Consumed, Lesser, Weight, Quantities, Dim
      <3>2. (total * 0) \div Weight(granted) = 0
        BY <2>1, <2>2
      <3> QED  BY <2>1, <2>2, <3>1, <3>2 DEF Owed, ReleaseDebit, Debit
    <2> QED  BY <2>3, <2>4 DEF Endpoints
  <1>2. MeterTypeOK => Endpoints
    BY <1>1 DEF Endpoints
  <1> QED  BY <1>2, MeterTypeCorrect, PTL

\* No report of further use makes a session cheaper.
THEOREM UseNeverCheapensHolds == MeterSpec => UseNeverCheapens
  <1>1. ASSUME MeterTypeOK, MeterTypeOK', [MeterNext]_meterVars
        PROVE  [used' # used => Owed' >= Owed]_meterVars
    <2>1. CASE UNCHANGED meterVars
      BY <2>1
    <2>2. ASSUME NEW o \in Offers, Grant(o) PROVE used' = used
      BY <2>2 DEF Grant
    <2>3. ASSUME NEW d \in Dim, NEW units \in 1 .. MaxUnits, Use(d, units)
          PROVE  Owed' >= Owed
      <3>1. total \in Nat /\ granted \in Quantities /\ used \in Quantities
              /\ used' \in Quantities /\ pooling \in Rates
        BY <1>1 DEF MeterTypeOK, Quantities
      <3>2. total' = total /\ granted' = granted /\ pooling' = pooling
        BY <2>3 DEF Use
      <3>3. \A e \in Dim : used[e] <= used'[e]
        BY <2>3, <3>1, MeterAssumption DEF Use, Quantities
      <3>4. /\ Pooled(pooling, used) \in Quantities /\ Pooled(pooling, used') \in Quantities
            /\ \A e \in Dim : Pooled(pooling, used)[e] <= Pooled(pooling, used')[e]
        BY <3>1, <3>3, PooledIsQuantity, PooledMonotone
      <3>5. /\ Debit(total, granted, Pooled(pooling, used)) \in 0 .. total
            /\ Debit(total, granted, Pooled(pooling, used')) \in 0 .. total
            /\ Debit(total, granted, Pooled(pooling, used))
                 <= Debit(total, granted, Pooled(pooling, used'))
        BY <3>1, <3>4, DebitBounds, DebitMonotone
      <3> QED  BY <3>1, <3>2, <3>5 DEF Owed, ReleaseDebit
    <2> QED  BY <1>1, <2>1, <2>2, <2>3 DEF MeterNext
  <1> QED  BY <1>1, MeterTypeCorrect, PTL DEF MeterSpec, UseNeverCheapens

-----------------------------------------------------------------------------
(* The account balance function. *)

\* The inductive invariant: the three properties of the ledger need each other's
\* facts about the same columns, and the type of the columns.  Only the first of
\* them relies on the clients.
BalanceInv ==
    /\ BalanceTypeOK
    /\ TopupsCredit => NeverOverdrawn
    /\ LedgerReconciles
    /\ OnlyTopupsProvision

\* Before the first top-up nothing is provisioned and nothing is owed.
LEMMA BalanceInitInv == BalanceInit => BalanceInv
  BY DEF BalanceInit, BalanceInv, BalanceTypeOK, NeverOverdrawn, LedgerReconciles,
         OnlyTopupsProvision

\* A top-up, which may provision the bucket, keeps the books.
LEMMA TopupPreserves ==
    ASSUME BalanceInv, NEW b \in Bucket, NEW amount \in Int, TopupBalance(b, amount),
           TopupsCredit => amount >= 0
    PROVE  BalanceInv'
  <1>1. /\ Credit(remaining, b, amount) \in [Bucket -> Int]
        /\ Credit(remaining, b, amount)[b] = remaining[b] + amount
        /\ \A c \in Bucket \ {b} : Credit(remaining, b, amount)[c] = remaining[c]
    BY DEF Credit, BalanceInv, BalanceTypeOK
  <1>2. /\ Credit(topupRows, b, amount) \in [Bucket -> Int]
        /\ Credit(topupRows, b, amount)[b] = topupRows[b] + amount
        /\ \A c \in Bucket \ {b} : Credit(topupRows, b, amount)[c] = topupRows[c]
    BY DEF Credit, BalanceInv, BalanceTypeOK
  <1>3. BalanceTypeOK'
    BY <1>1, <1>2 DEF BalanceInv, BalanceTypeOK, TopupBalance
  <1>4. ASSUME NEW c \in Bucket
        PROVE  /\ TopupsCredit => remaining'[c] >= 0 /\ reserved'[c] >= 0
               /\ reserved'[c] = reserveRows'[c]
               /\ remaining'[c] + reserved'[c] = topupRows'[c] + adjustRows'[c]
               /\ c \notin provisioned' =>
                    remaining'[c] = 0 /\ reserved'[c] = 0 /\ adjustRows'[c] = 0
    <2>1. CASE c = b
      <3>1. /\ remaining'[b] = remaining[b] + amount /\ reserved'[b] = reserved[b]
            /\ topupRows'[b] = topupRows[b] + amount /\ adjustRows'[b] = adjustRows[b]
            /\ reserveRows'[b] = reserveRows[b] /\ b \in provisioned'
        BY <1>1, <1>2 DEF TopupBalance
      <3>2. /\ remaining[b] \in Int /\ reserved[b] \in Int /\ topupRows[b] \in Int
            /\ adjustRows[b] \in Int
            /\ TopupsCredit => remaining[b] >= 0 /\ reserved[b] >= 0
            /\ reserved[b] = reserveRows[b]
            /\ remaining[b] + reserved[b] = topupRows[b] + adjustRows[b]
        BY DEF BalanceInv, BalanceTypeOK, NeverOverdrawn, LedgerReconciles
      <3> QED  BY <2>1, <3>1, <3>2
    <2>2. CASE c # b
      BY <2>2, <1>1, <1>2 DEF TopupBalance, BalanceInv, BalanceTypeOK, NeverOverdrawn,
                              LedgerReconciles, OnlyTopupsProvision
    <2> QED  BY <2>1, <2>2
  <1> QED  BY <1>3, <1>4 DEF BalanceInv, NeverOverdrawn, LedgerReconciles, OnlyTopupsProvision

\* A completed adjustment keeps the books: the WHERE clause keeps the column
\* non-negative and the bucket provisioned.
LEMMA AdjustPreserves ==
    ASSUME BalanceInv, NEW b \in Bucket, NEW amount \in Int, AdjustCompleted(b, amount)
    PROVE  BalanceInv'
  <1>1. /\ Credit(remaining, b, amount) \in [Bucket -> Int]
        /\ Credit(remaining, b, amount)[b] = remaining[b] + amount
        /\ \A c \in Bucket \ {b} : Credit(remaining, b, amount)[c] = remaining[c]
    BY DEF Credit, BalanceInv, BalanceTypeOK
  <1>2. /\ Credit(adjustRows, b, amount) \in [Bucket -> Int]
        /\ Credit(adjustRows, b, amount)[b] = adjustRows[b] + amount
        /\ \A c \in Bucket \ {b} : Credit(adjustRows, b, amount)[c] = adjustRows[c]
    BY DEF Credit, BalanceInv, BalanceTypeOK
  <1>3. BalanceTypeOK'
    BY <1>1, <1>2 DEF BalanceInv, BalanceTypeOK, AdjustCompleted
  <1>4. ASSUME NEW c \in Bucket
        PROVE  /\ TopupsCredit => remaining'[c] >= 0 /\ reserved'[c] >= 0
               /\ reserved'[c] = reserveRows'[c]
               /\ remaining'[c] + reserved'[c] = topupRows'[c] + adjustRows'[c]
               /\ c \notin provisioned' =>
                    remaining'[c] = 0 /\ reserved'[c] = 0 /\ adjustRows'[c] = 0
    <2>1. CASE c = b
      <3>1. /\ remaining'[b] = remaining[b] + amount /\ reserved'[b] = reserved[b]
            /\ adjustRows'[b] = adjustRows[b] + amount /\ topupRows'[b] = topupRows[b]
            /\ reserveRows'[b] = reserveRows[b] /\ b \in provisioned'
            /\ remaining[b] + amount >= 0
        BY <1>1, <1>2 DEF AdjustCompleted, CanAdjust
      <3>2. /\ remaining[b] \in Int /\ reserved[b] \in Int /\ topupRows[b] \in Int
            /\ adjustRows[b] \in Int
            /\ TopupsCredit => reserved[b] >= 0
            /\ reserved[b] = reserveRows[b]
            /\ remaining[b] + reserved[b] = topupRows[b] + adjustRows[b]
        BY DEF BalanceInv, BalanceTypeOK, NeverOverdrawn, LedgerReconciles
      <3> QED  BY <2>1, <3>1, <3>2
    <2>2. CASE c # b
      BY <2>2, <1>1, <1>2 DEF AdjustCompleted, BalanceInv, BalanceTypeOK, NeverOverdrawn,
                              LedgerReconciles, OnlyTopupsProvision
    <2> QED  BY <2>1, <2>2
  <1> QED  BY <1>3, <1>4 DEF BalanceInv, NeverOverdrawn, LedgerReconciles, OnlyTopupsProvision

\* A completed reservation or refund keeps the books: what leaves one column
\* arrives in the other, and the guard covers the column it leaves.
LEMMA ReservePreserves ==
    ASSUME BalanceInv, NEW b \in Bucket, NEW amount \in Int, NEW r \in Ref,
           ReserveCompleted(b, amount, r)
    PROVE  BalanceInv'
  <1>1. /\ Credit(remaining, b, -amount) \in [Bucket -> Int]
        /\ Credit(remaining, b, -amount)[b] = remaining[b] + -amount
        /\ \A c \in Bucket \ {b} : Credit(remaining, b, -amount)[c] = remaining[c]
    BY DEF Credit, BalanceInv, BalanceTypeOK
  <1>2. /\ Credit(reserved, b, amount) \in [Bucket -> Int]
        /\ Credit(reserved, b, amount)[b] = reserved[b] + amount
        /\ \A c \in Bucket \ {b} : Credit(reserved, b, amount)[c] = reserved[c]
    BY DEF Credit, BalanceInv, BalanceTypeOK
  <1>3. /\ Credit(reserveRows, b, amount) \in [Bucket -> Int]
        /\ Credit(reserveRows, b, amount)[b] = reserveRows[b] + amount
        /\ \A c \in Bucket \ {b} : Credit(reserveRows, b, amount)[c] = reserveRows[c]
    BY DEF Credit, BalanceInv, BalanceTypeOK
  <1>4. /\ Credit(heldFor, r, amount) \in [Ref -> Int]
        /\ Credit(claimedFor, r, amount) \in [Ref -> Int]
    BY DEF Credit, BalanceInv, BalanceTypeOK
  <1>5. BalanceTypeOK'
    BY <1>1, <1>2, <1>3, <1>4 DEF BalanceInv, BalanceTypeOK, ReserveCompleted
  <1>6. ASSUME NEW c \in Bucket
        PROVE  /\ TopupsCredit => remaining'[c] >= 0 /\ reserved'[c] >= 0
               /\ reserved'[c] = reserveRows'[c]
               /\ remaining'[c] + reserved'[c] = topupRows'[c] + adjustRows'[c]
               /\ c \notin provisioned' =>
                    remaining'[c] = 0 /\ reserved'[c] = 0 /\ adjustRows'[c] = 0
    <2>1. CASE c = b
      <3>1. /\ remaining'[b] = remaining[b] + -amount /\ reserved'[b] = reserved[b] + amount
            /\ adjustRows'[b] = adjustRows[b] /\ topupRows'[b] = topupRows[b]
            /\ reserveRows'[b] = reserveRows[b] + amount /\ b \in provisioned'
            /\ amount >= 0 => remaining[b] >= amount
            /\ amount < 0 => reserved[b] >= -amount
        BY <1>1, <1>2, <1>3 DEF ReserveCompleted, CanReserve
      <3>2. /\ remaining[b] \in Int /\ reserved[b] \in Int /\ topupRows[b] \in Int
            /\ adjustRows[b] \in Int
            /\ TopupsCredit => remaining[b] >= 0 /\ reserved[b] >= 0
            /\ reserved[b] = reserveRows[b]
            /\ remaining[b] + reserved[b] = topupRows[b] + adjustRows[b]
        BY DEF BalanceInv, BalanceTypeOK, NeverOverdrawn, LedgerReconciles
      <3> QED  BY <2>1, <3>1, <3>2
    <2>2. CASE c # b
      BY <2>2, <1>1, <1>2, <1>3 DEF ReserveCompleted, BalanceInv, BalanceTypeOK,
                                    NeverOverdrawn, LedgerReconciles, OnlyTopupsProvision
    <2> QED  BY <2>1, <2>2
  <1> QED  BY <1>5, <1>6 DEF BalanceInv, NeverOverdrawn, LedgerReconciles, OnlyTopupsProvision

\* A failed reservation leaves a row behind and nothing else.
LEMMA ReserveFailedPreserves ==
    ASSUME BalanceInv, NEW b \in Bucket, NEW amount \in Int, NEW r \in Ref,
           ReserveFailed(b, amount, r)
    PROVE  BalanceInv'
  <1>1. Credit(claimedFor, r, amount) \in [Ref -> Int]
    BY DEF Credit, BalanceInv, BalanceTypeOK
  <1> QED  BY <1>1 DEF ReserveFailed, BalanceInv, BalanceTypeOK, NeverOverdrawn,
                       LedgerReconciles, OnlyTopupsProvision

\* Whatever a client of the service calls keeps the books.
LEMMA BalanceStepPreserves == BalanceInv /\ [BalanceStep]_balanceVars => BalanceInv'
  <1> SUFFICES ASSUME BalanceInv, [BalanceStep]_balanceVars PROVE BalanceInv'
    OBVIOUS
  <1>1. ASSUME NEW b \in Bucket, NEW amount \in TopupAmount, TopupBalance(b, amount)
        PROVE  BalanceInv'
    <2>1. amount \in Int /\ (TopupsCredit => amount >= 0)
      BY AmountsAssumption DEF TopupsCredit
    <2> QED  BY <1>1, <2>1, TopupPreserves
  <1>2. ASSUME NEW b \in Bucket, NEW amount \in AdjustAmount, AdjustBalance(b, amount)
        PROVE  BalanceInv'
    <2>1. CASE AdjustCompleted(b, amount)
      BY <2>1, AdjustPreserves, AmountsAssumption
    <2>2. CASE AdjustFailed(b, amount)
      BY <2>2 DEF AdjustFailed, balanceVars, BalanceInv, BalanceTypeOK, NeverOverdrawn,
                  LedgerReconciles, OnlyTopupsProvision
    <2> QED  BY <1>2, <2>1, <2>2 DEF AdjustBalance
  <1>3. ASSUME NEW b \in Bucket, NEW amount \in ReserveAmount, NEW r \in Ref,
               ReserveBalance(b, amount, r)
        PROVE  BalanceInv'
    BY <1>3, ReservePreserves, ReserveFailedPreserves, AmountsAssumption DEF ReserveBalance
  <1>4. CASE UNCHANGED balanceVars
    BY <1>4 DEF balanceVars, BalanceInv, BalanceTypeOK, NeverOverdrawn, LedgerReconciles,
                OnlyTopupsProvision
  <1> QED  BY <1>1, <1>2, <1>3, <1>4 DEF BalanceStep

\* Every behaviour of the account balance function, whoever calls it in whatever
\* order, keeps every event row accounted for, and both columns non-negative as
\* long as top-ups are credits
\* (store.cpp: topup, adjust, reserve).
THEOREM ServiceKeepsBooks == BalanceService => []BalanceInv
  <1> QED  BY BalanceInitInv, BalanceStepPreserves, PTL DEF BalanceService

\* The model that TLC explores is the service with a bound.
THEOREM BoundedIsService == BalanceSpec => BalanceService
  <1>1. [BalanceNext]_balanceVars => [BalanceStep]_balanceVars
    BY DEF BalanceNext
  <1> QED  BY <1>1, PTL DEF BalanceSpec, BalanceService

\* The columns and the sums of the event rows have their types in every state.
THEOREM BalanceTypeCorrect == BalanceSpec => []BalanceTypeOK
  <1>1. BalanceInv => BalanceTypeOK
    BY DEF BalanceInv
  <1> QED  BY <1>1, ServiceKeepsBooks, BoundedIsService, PTL

\* No sequence of top-ups, adjustments, reservations and refunds overdraws a
\* bucket, in either column, when every top-up is a credit.
THEOREM NeverOverdrawnHolds ==
    ASSUME TopupsCredit
    PROVE  BalanceSpec => []NeverOverdrawn
  <1>1. BalanceInv => NeverOverdrawn
    BY DEF BalanceInv
  <1> QED  BY <1>1, ServiceKeepsBooks, BoundedIsService, PTL

\* The completed event rows always account for the bucket to the last unit.
THEOREM LedgerReconcilesHolds == BalanceSpec => []LedgerReconciles
  <1>1. BalanceInv => LedgerReconciles
    BY DEF BalanceInv
  <1> QED  BY <1>1, ServiceKeepsBooks, BoundedIsService, PTL

\* Only a top-up brings a bucket into being.
THEOREM OnlyTopupsProvisionHolds == BalanceSpec => []OnlyTopupsProvision
  <1>1. BalanceInv => OnlyTopupsProvision
    BY DEF BalanceInv
  <1> QED  BY <1>1, ServiceKeepsBooks, BoundedIsService, PTL

-----------------------------------------------------------------------------
(* Charging sessions. *)

Rating == {"resolve", "reserve", "addReserved", "addGranted", "cdr"}
Calling == {"reserve", "unreserve", "debit"}

\* What a handler's place implies about its locals: it works on a session that
\* exists, it has a usage to rate while it is rating one, and it has resolved a
\* bucket before it calls the balance function.  It holds no cost below the catalog's.
Located(v) ==
    /\ NoNegativePrice => job[v].cost >= 0
    /\ pc[v] # "idle" => job[v].ref \in created
    /\ pc[v] \in Rating => job[v].left > 0
    /\ pc[v] \in Calling => job[v].bucket \in Bucket

TypeInv == TypeOK /\ \A v \in Worker : Located(v)

\* A handler that runs nothing has well-typed locals.
LEMMA NoJobTyped == NoJob \in Job /\ NoJob.cost = 0
  BY DEF NoJob, Job, Operation, NoRef

\* The first state is well typed and every handler idle.
LEMMA InitTypeInv == Init => TypeInv
  <1> SUFFICES ASSUME Init PROVE TypeInv
    OBVIOUS
  <1>1. BalanceTypeOK
    BY DEF Init, BalanceInit, BalanceTypeOK
  <1>2. drawsFrom \in [Subscriber -> Bucket]
    BY DEF Init
  <1>3. supiOf \in [created -> Subscriber]
    BY DEF Init
  <1>d. DeviationTypeOK
    BY Zenon DEF Init, DeviationTypeOK
  <1>4. TypeOK
    BY <1>1, <1>2, <1>3, <1>d, NoJobTyped DEF Init, TypeOK, Label
  <1>5. \A v \in Worker : Located(v)
    BY NoJobTyped DEF Init, Located, Rating, Calling
  <1> QED  BY <1>4, <1>5 DEF TypeInv

\* A call that the balance function answers, or that it committed without its
\* answer arriving, keeps the types of its columns and rows.
LEMMA ReserveTyped ==
    ASSUME BalanceTypeOK, NEW b \in Bucket, NEW amount \in Int, NEW r \in Ref,
           ReserveBalance(b, amount, r) \/ UNCHANGED balanceVars
    PROVE  BalanceTypeOK'
  <1>1. CASE ReserveCompleted(b, amount, r)
    BY <1>1 DEF ReserveCompleted, Credit, BalanceTypeOK
  <1>2. CASE ReserveFailed(b, amount, r)
    BY <1>2 DEF ReserveFailed, Credit, BalanceTypeOK
  <1>3. CASE UNCHANGED balanceVars
    BY <1>3 DEF balanceVars, BalanceTypeOK
  <1> QED  BY <1>1, <1>2, <1>3 DEF ReserveBalance

\* The same for a debit or a credit of the remaining column.
LEMMA AdjustTyped ==
    ASSUME BalanceTypeOK, NEW b \in Bucket, NEW amount \in Int,
           AdjustBalance(b, amount) \/ UNCHANGED balanceVars
    PROVE  BalanceTypeOK'
  <1>1. CASE AdjustCompleted(b, amount)
    BY <1>1 DEF AdjustCompleted, Credit, BalanceTypeOK
  <1>2. CASE AdjustFailed(b, amount) \/ UNCHANGED balanceVars
    BY <1>2 DEF AdjustFailed, balanceVars, BalanceTypeOK
  <1> QED  BY <1>1, <1>2 DEF AdjustBalance

\* A step that makes no call leaves the columns as they were.
LEMMA BalanceUnchangedTyped ==
    ASSUME BalanceTypeOK, UNCHANGED balanceVars
    PROVE  BalanceTypeOK'
  BY DEF balanceVars, BalanceTypeOK

\* What is noted of a disturbed session, and of calls that may meet another bucket.
LEMMA DeviationTyped ==
    ASSUME TypeInv,
           \/ UNCHANGED deviationVars
           \/ \E r \in Ref, c \in BOOLEAN : Disturb(r, c)
    PROVE  DeviationTypeOK'
  <1>1. DeviationTypeOK
    BY Zenon DEF TypeInv, TypeOK
  <1>2. CASE UNCHANGED deviationVars
    BY <1>1, <1>2, Zenon DEF DeviationTypeOK, deviationVars
  <1>3. ASSUME NEW r \in Ref, NEW c \in BOOLEAN, Disturb(r, c) PROVE DeviationTypeOK'
    <2>1. disturbed' \subseteq Ref
      BY <1>1, <1>3 DEF DeviationTypeOK, Disturb
    <2>2. rerouted' \in BOOLEAN
      BY <1>1, <1>3, Zenon DEF DeviationTypeOK, Disturb
    <2> QED  BY <2>1, <2>2 DEF DeviationTypeOK
  <1> QED  BY <1>2, <1>3

-----------------------------------------------------------------------------
(* Create and Update. *)

\* What an Update changes when it arrives.
LEMMA UpdateArrives ==
    ASSUME NEW w \in Worker, NEW r \in Ref, NEW n, NEW u, Update(w, r, n, u)
    PROVE  /\ pc[w] = "idle" /\ r \in known /\ r \in active
           /\ job' = [job EXCEPT ![w] = [NoJob EXCEPT !.op = "Update", !.ref = r, !.left = n,
                                                    !.used = u]]
           /\ pc' = [pc EXCEPT ![w] = "rate"]
           /\ disturbed' = IF ReleasesOf(r) # {} THEN disturbed \union {r} ELSE disturbed
           /\ rerouted' = rerouted
           /\ UNCHANGED sessionVars /\ debited' = debited
           /\ UNCHANGED <<balanceVars, drawsFrom, reported>>
  BY Zenon DEF Update, MaySend, Disturb, Goto

\* A Release reads the total as it arrives.
LEMMA ReleaseArrives ==
    ASSUME NEW w \in Worker, NEW r \in Ref, NEW u, Release(w, r, u)
    PROVE  /\ pc[w] = "idle" /\ r \in known
           /\ job' = [job EXCEPT ![w] = [NoJob EXCEPT !.op = "Release", !.ref = r, !.used = u,
                                                    !.total = reservedTotal[r]]]
           /\ pc' = [pc EXCEPT ![w] = "readGranted"]
           /\ disturbed' = IF ReleasesOf(r) # Handling(r) THEN disturbed \union {r}
                                                         ELSE disturbed
           /\ rerouted' = rerouted
           /\ UNCHANGED sessionVars /\ debited' = debited
           /\ UNCHANGED <<balanceVars, drawsFrom, reported>>
  BY Zenon DEF Release, MaySend, Disturb, Goto

\* A new session gets a number nobody has, and its handler starts on it.
LEMMA CreateTyped ==
    ASSUME TypeInv, NEW w \in Worker, NEW s \in Subscriber, NEW n \in UsageCount,
           Create(w, s, n)
    PROVE  TypeInv'
  <1> DEFINE j(r) == [NoJob EXCEPT !.op = "Create", !.ref = r, !.left = n]
  <1>1. PICK r \in Ref \ created :
            /\ created' = created \union {r}
            /\ active' = active \union {r}
            /\ supiOf' = [q \in created' |-> IF q = r THEN s ELSE supiOf[q]]
            /\ job' = [job EXCEPT ![w] = j(r)]
    BY Zenon DEF Create
  <1>2. j(r) \in Job /\ j(r).ref = r /\ j(r).cost = 0
    BY NoJobTyped, ChargingAssumption DEF Job, Operation, NoJob, NoRef
  <1>3. BalanceTypeOK'
    BY BalanceUnchangedTyped DEF TypeInv, TypeOK, Create
  <1>d. DeviationTypeOK'
    BY DeviationTyped DEF Create, historyVars, deviationVars
  <1>4. TypeOK'
    BY <1>d, <1>1, <1>2, <1>3 DEF TypeInv, TypeOK, Create, Goto, Label, consumerVars, historyVars
  <1>5. ASSUME NEW v \in Worker PROVE Located(v)'
    BY <1>1, <1>2 DEF TypeInv, TypeOK, Located, Create, Goto, Rating, Calling
  <1> QED  BY <1>4, <1>5 DEF TypeInv

\* An Update starts on a session that exists.
LEMMA UpdateTyped ==
    ASSUME TypeInv, NEW w \in Worker, NEW r \in Ref, NEW n \in UsageCount, NEW u \in UsedUnits,
           Update(w, r, n, u)
    PROVE  TypeInv'
  <1> DEFINE j == [NoJob EXCEPT !.op = "Update", !.ref = r, !.left = n, !.used = u]
  <1>1. j \in Job /\ j.ref = r /\ j.cost = 0
    BY NoJobTyped, ChargingAssumption DEF Job, Operation, NoJob, NoRef
  <1>2. job' = [job EXCEPT ![w] = j] /\ r \in created
    BY DEF Update, MaySend, TypeInv, TypeOK
  <1>3. BalanceTypeOK'
    BY BalanceUnchangedTyped DEF TypeInv, TypeOK, Update
  <1>d. DeviationTypeOK' /\ UNCHANGED <<reported, debited>>
    BY DeviationTyped DEF Update, Disturb
  <1>4. TypeOK'
    BY <1>d, <1>1, <1>2, <1>3 DEF TypeInv, TypeOK, Update, Goto, Label, sessionVars, historyVars
  <1>5. ASSUME NEW v \in Worker PROVE Located(v)'
    BY <1>1, <1>2 DEF TypeInv, TypeOK, Located, Update, Goto, Rating, Calling, sessionVars
  <1> QED  BY <1>4, <1>5 DEF TypeInv

\* A Release starts on a session that exists, with the total it read.
LEMMA ReleaseTyped ==
    ASSUME TypeInv, NEW w \in Worker, NEW r \in Ref, NEW u \in Nat, Release(w, r, u)
    PROVE  TypeInv'
  <1> DEFINE j == [NoJob EXCEPT !.op = "Release", !.ref = r, !.used = u,
                                !.total = reservedTotal[r]]
  <1>1. j \in Job /\ j.ref = r /\ j.cost = 0
    BY NoJobTyped DEF Job, Operation, NoJob, NoRef, TypeInv, TypeOK
  <1>2. job' = [job EXCEPT ![w] = j] /\ r \in created
    BY DEF Release, MaySend, TypeInv, TypeOK
  <1>3. BalanceTypeOK'
    BY BalanceUnchangedTyped DEF TypeInv, TypeOK, Release
  <1>d. DeviationTypeOK' /\ UNCHANGED <<reported, debited>>
    BY DeviationTyped DEF Release, Disturb
  <1>4. TypeOK'
    BY <1>d, <1>1, <1>2, <1>3
       DEF TypeInv, TypeOK, Release, Goto, Label, sessionVars, historyVars, consumerVars
  <1>5. ASSUME NEW v \in Worker PROVE Located(v)'
    BY <1>1, <1>2 DEF TypeInv, TypeOK, Located, Release, Goto, Rating, Calling, sessionVars
  <1> QED  BY <1>4, <1>5 DEF TypeInv

\* Rating a usage gives the handler a cost and units of the catalog.
LEMMA RateTyped ==
    ASSUME TypeInv, NEW w \in Worker, Rate(w)
    PROVE  TypeInv'
  <1>1. BalanceTypeOK'
    BY BalanceUnchangedTyped DEF TypeInv, TypeOK, Rate
  <1>d. DeviationTypeOK'
    BY DeviationTyped DEF Rate, historyVars, deviationVars
  <1>u. UNCHANGED <<sessionVars, drawsFrom, consumerVars, faults, reported, debited>>
    BY DEF Rate, historyVars
  <1>2. CASE \E o \in Offer :
                /\ job' = [job EXCEPT ![w].cost = o.cost, ![w].units = o.units]
                /\ Goto(w, IF ToReserve(o) THEN "resolve" ELSE "addReserved")
    <2>1. PICK o \in Offer :
                /\ job' = [job EXCEPT ![w].cost = o.cost, ![w].units = o.units]
                /\ Goto(w, IF ToReserve(o) THEN "resolve" ELSE "addReserved")
      BY <1>2
    <2>2. o.cost \in Int /\ o.units \in Nat /\ (NoNegativePrice => o.cost >= 0)
      BY ChargingAssumption DEF NoNegativePrice
    <2>3. job' \in [Worker -> Job]
      <3>1. job \in [Worker -> Job]
        BY DEF TypeInv, TypeOK
      <3>2. [job[w] EXCEPT !.cost = o.cost, !.units = o.units] \in Job
        BY <2>2, <3>1 DEF Job
      <3> QED BY <2>1, <3>1, <3>2
    <2>4. TypeOK'
      <3>1. pc' \in [Worker -> Label]
        BY <2>1 DEF TypeInv, TypeOK, Goto, Label
      <3> QED  BY <2>3, <1>1, <1>u, <1>d, <3>1 DEF TypeInv, TypeOK, sessionVars, consumerVars
    <2>5. \A v \in Worker : /\ job'[v].ref = job[v].ref /\ job'[v].left = job[v].left
                            /\ job'[v].bucket = job[v].bucket
                            /\ job'[v].cost \in {job[v].cost, o.cost}
      <3>1. job \in [Worker -> Job]
        BY DEF TypeInv, TypeOK
      <3>2. /\ job'[w] = [job[w] EXCEPT !.cost = o.cost, !.units = o.units]
            /\ \A v \in Worker \ {w} : job'[v] = job[v]
        BY <2>1, <3>1
      <3>3. job[w] \in Job
        BY <3>1
      <3>4. /\ job'[w].ref = job[w].ref /\ job'[w].left = job[w].left
            /\ job'[w].bucket = job[w].bucket /\ job'[w].cost = o.cost
        BY <3>2, <3>3 DEF Job
      <3> QED BY <3>2, <3>4
    <2>6. ASSUME NEW v \in Worker PROVE Located(v)'
      <3>1. /\ created' = created /\ pc \in [Worker -> Label] /\ Located(v)
            /\ NoNegativePrice => job'[v].cost >= 0
        BY <2>2, <2>5 DEF TypeInv, TypeOK, Located, Rate, sessionVars
      <3>2. CASE v # w
        <4>1. pc'[v] = pc[v]
          BY <2>1, <3>1, <3>2 DEF Goto
        <4> QED BY <2>5, <3>1, <4>1 DEF Located
      <3>3. CASE v = w
        <4>1. pc[w] = "rate" /\ job[w].left > 0 /\ pc'[w] \in {"resolve", "addReserved"}
          BY <2>1, <3>1 DEF Rate, HasUsage, Goto
        <4> QED BY <2>5, <3>1, <3>3, <4>1 DEF Located, Rating, Calling
      <3> QED BY <3>2, <3>3
    <2> QED  BY <2>4, <2>6 DEF TypeInv
  <1>3. CASE Goto(w, "cdr") /\ UNCHANGED job
    <2>1. TypeOK'
      BY <1>3, <1>1, <1>u, <1>d
         DEF TypeInv, TypeOK, Goto, Label, sessionVars, consumerVars
    <2>2. ASSUME NEW v \in Worker PROVE Located(v)'
      BY <1>3 DEF TypeInv, TypeOK, Located, Rate, HasUsage, Goto, Rating, Calling, sessionVars
    <2> QED  BY <2>1, <2>2 DEF TypeInv
  <1> QED  BY <1>2, <1>3 DEF Rate

\* The bucket lookup gives a bucket, whether it is answered or not.
LEMMA ResolveTyped ==
    ASSUME TypeInv, NEW w \in Worker,
           \/ ResolveBucket(w, "resolve", "reserve")
           \/ ResolveBucket(w, "resolveAgain", "unreserve")
    PROVE  TypeInv'
  <1>1. BalanceTypeOK'
    BY BalanceUnchangedTyped DEF TypeInv, TypeOK, ResolveBucket
  <1>2. PICK b \in Bucket : job' = [job EXCEPT ![w].bucket = b]
    <2>1. job[w].ref \in created
      BY DEF TypeInv, Located, ResolveBucket
    <2>2. supiOf[job[w].ref] \in Subscriber
      BY <2>1 DEF TypeInv, TypeOK
    <2>3. supiOf[job[w].ref] \in Bucket /\ drawsFrom[supiOf[job[w].ref]] \in Bucket
      BY <2>2, ChargingAssumption DEF TypeInv, TypeOK
    <2> QED  BY <2>3 DEF ResolveBucket
  <1>3. job' \in [Worker -> Job] /\ faults' \in Nat
    BY <1>2 DEF TypeInv, TypeOK, Job, ResolveBucket, Fault
  <1>d. DeviationTypeOK' /\ UNCHANGED <<reported, debited>>
    <2>1. disturbed' = disturbed /\ UNCHANGED <<reported, debited>>
      BY DEF ResolveBucket
    <2>2. rerouted' \in BOOLEAN
      <3>1. rerouted \in BOOLEAN
        BY Zenon DEF TypeInv, TypeOK, DeviationTypeOK
      <3> DEFINE moved == supiOf[job[w].ref] # drawsFrom[supiOf[job[w].ref]]
      <3>2. rerouted' = rerouted \/ rerouted' = (rerouted \/ moved)
        BY Zenon DEF ResolveBucket
      <3> QED  BY <3>1, <3>2
    <2> QED  BY <2>1, <2>2 DEF TypeInv, TypeOK, DeviationTypeOK
  <1>4. TypeOK'
    BY <1>d, <1>1, <1>3
       DEF TypeInv, TypeOK, ResolveBucket, Goto, Label, sessionVars, consumerVars
  <1>5. ASSUME NEW v \in Worker PROVE Located(v)'
    BY <1>2 DEF TypeInv, TypeOK, Located, ResolveBucket, Goto, Rating, Calling, sessionVars, Job
  <1> QED  BY <1>4, <1>5 DEF TypeInv

\* The reservation call, answered or lost.
LEMMA ReserveCallTyped ==
    ASSUME TypeInv, NEW w \in Worker, Reserve(w) \/ ReserveLost(w)
    PROVE  TypeInv'
  <1>1. job[w].bucket \in Bucket /\ job[w].cost \in Int /\ job[w].ref \in Ref
    BY DEF TypeInv, TypeOK, Located, Calling, Job, Reserve, ReserveLost
  <1>2. BalanceTypeOK'
    BY <1>1, ReserveTyped DEF TypeInv, TypeOK, Reserve, ReserveLost
  <1>d. DeviationTypeOK' /\ UNCHANGED <<reported, debited>>
    <2>1. CASE Reserve(w)
      BY <2>1, DeviationTyped DEF Reserve, historyVars, deviationVars
    <2>2. CASE ReserveLost(w)
      BY <1>1, <2>2, DeviationTyped DEF ReserveLost, Disturb
    <2> QED  BY <2>1, <2>2
  <1>3. TypeOK'
    BY <1>d, <1>2 DEF TypeInv, TypeOK, Reserve, ReserveLost, Fault, Goto, Label, sessionVars,
                consumerVars
  <1>4. ASSUME NEW v \in Worker PROVE Located(v)'
    BY DEF TypeInv, TypeOK, Located, Reserve, ReserveLost, Goto, Rating, Calling, sessionVars
  <1> QED  BY <1>3, <1>4 DEF TypeInv

\* The two increments on the session.
LEMMA RecordTyped ==
    ASSUME TypeInv, NEW w \in Worker, AddReserved(w) \/ AddGranted(w)
    PROVE  TypeInv'
  <1>1. BalanceTypeOK'
    BY BalanceUnchangedTyped DEF TypeInv, TypeOK, AddReserved, AddGranted
  <1>2. job[w].cost \in Int /\ job[w].units \in Nat
    BY DEF TypeInv, TypeOK, Job
  <1>d. DeviationTypeOK' /\ UNCHANGED <<reported, debited>>
    BY DeviationTyped DEF AddReserved, AddGranted, historyVars, deviationVars
  <1>3. TypeOK'
    BY <1>d, <1>1, <1>2 DEF TypeInv, TypeOK, AddReserved, AddGranted, Goto, Label,
                      consumerVars
  <1>4. ASSUME NEW v \in Worker PROVE Located(v)'
    BY DEF TypeInv, TypeOK, Located, AddReserved, AddGranted, Goto, Rating, Calling
  <1> QED  BY <1>3, <1>4 DEF TypeInv

\* The CDR of a usage ends the rating of it.
LEMMA WriteCdrTyped ==
    ASSUME TypeInv, NEW w \in Worker, WriteCdr(w)
    PROVE  TypeInv'
  <1>1. BalanceTypeOK'
    BY BalanceUnchangedTyped DEF TypeInv, TypeOK, WriteCdr
  <1>2. /\ job[w] \in Job /\ job[w].used \in Nat /\ job[w].left - 1 \in Nat
        /\ job[w].ref \in Ref
    <2>1. job[w] \in Job /\ job[w].left > 0 /\ job[w].ref \in Ref
      BY DEF TypeInv, TypeOK, Located, Rating, WriteCdr
    <2> QED  BY <2>1 DEF Job
  <1> DEFINE j == [job[w] EXCEPT !.left = job[w].left - 1, !.cost = 0, !.units = 0,
                                 !.bucket = NoBucket]
  <1>3. j \in Job
    <2>1. 0 \in Int /\ 0 \in Nat /\ NoBucket \in Bucket \union {NoBucket}
      OBVIOUS
    <2> QED  BY <1>2, <2>1, Zenon DEF Job
  <1>4. job' = [job EXCEPT ![w] = j]
    BY DEF WriteCdr
  <1>5. job' \in [Worker -> Job]
    BY <1>3, <1>4 DEF TypeInv, TypeOK
  <1>6. reported' \in [Ref -> Nat]
    BY <1>2 DEF TypeInv, TypeOK, WriteCdr
  <1>d. DeviationTypeOK'
    BY DeviationTyped DEF WriteCdr, deviationVars
  <1>7. TypeOK'
    BY <1>d, <1>1, <1>5, <1>6 DEF TypeInv, TypeOK, WriteCdr, Goto, Label, sessionVars, consumerVars
  <1>8. ASSUME NEW v \in Worker PROVE Located(v)'
    BY DEF TypeInv, TypeOK, Located, WriteCdr, Goto, Rating, Calling, sessionVars, Job
  <1> QED  BY <1>7, <1>8 DEF TypeInv

\* A handler that returns leaves no locals behind and disturbs no other handler.
LEMMA ReturnTyped ==
    ASSUME TypeInv, NEW w \in Worker, Return(w), created' = created
    PROVE  /\ job' \in [Worker -> Job] /\ pc' \in [Worker -> Label]
           /\ \A v \in Worker : Located(v)'
  BY NoJobTyped DEF TypeInv, TypeOK, Return, Label, Located, Rating, Calling

\* The answer ends the handler.
LEMMA AnswerTyped ==
    ASSUME TypeInv, NEW w \in Worker, Answer(w)
    PROVE  TypeInv'
  <1>1. BalanceTypeOK'
    BY BalanceUnchangedTyped DEF TypeInv, TypeOK, Answer
  <1>2. job[w].ref \in created
    BY DEF TypeInv, Located, Answer
  <1>3. known' \subseteq created /\ faults' \in Nat
    BY <1>2 DEF TypeInv, TypeOK, Answer, Fault
  <1>4. Return(w) /\ created' = created
    BY DEF Answer, sessionVars
  <1>d. DeviationTypeOK'
    BY DeviationTyped DEF Answer, historyVars, deviationVars
  <1>5. TypeOK'
    BY <1>d, <1>1, <1>3, <1>4, ReturnTyped DEF TypeInv, TypeOK, Answer, sessionVars, historyVars
  <1> QED  BY <1>4, <1>5, ReturnTyped DEF TypeInv

-----------------------------------------------------------------------------
(* Release. *)

\* A Release reads the units granted to a session that exists.
LEMMA ReadGrantedTyped ==
    ASSUME TypeInv, NEW w \in Worker, ReadGranted(w)
    PROVE  TypeInv'
  <1>1. BalanceTypeOK'
    BY BalanceUnchangedTyped DEF TypeInv, TypeOK, ReadGranted
  <1>2. job[w].ref \in Ref
    BY DEF TypeInv, TypeOK, Located, ReadGranted
  <1> DEFINE j == [job[w] EXCEPT !.units = grantedUnits[job[w].ref]]
  <1>3. j \in Job
    BY <1>2 DEF TypeInv, TypeOK, Job
  <1>4. job' = [job EXCEPT ![w] = j]
    BY DEF ReadGranted
  <1>d. DeviationTypeOK'
    BY DeviationTyped DEF ReadGranted, historyVars, deviationVars
  <1>5. TypeOK'
    BY <1>d, <1>1, <1>3, <1>4 DEF TypeInv, TypeOK, ReadGranted, Goto, Label, sessionVars,
                            historyVars, consumerVars
  <1>6. ASSUME NEW v \in Worker PROVE Located(v)'
    BY DEF TypeInv, TypeOK, Located, ReadGranted, Goto, Rating, Calling, sessionVars, Job
  <1> QED  BY <1>5, <1>6 DEF TypeInv

\* The debit a Release computes lies between nothing and the total it read, and is
\* nothing when that is below zero.
LEMMA ReleaseDebitBounds ==
    ASSUME NEW j \in Job
    PROVE  /\ Debit(j.total, InVolume(j.units), InVolume(j.used)) \in Nat
           /\ j.total > 0 => Debit(j.total, InVolume(j.units), InVolume(j.used)) <= j.total
  <1>1. j.total \in Int /\ j.units \in Nat /\ j.used \in Nat
    BY DEF Job
  <1>2. InVolume(j.units) \in Quantities /\ InVolume(j.used) \in Quantities
    BY <1>1 DEF InVolume, Quantities
  <1>3. CASE j.total > 0
    BY <1>1, <1>2, <1>3, DebitBounds
  <1>4. CASE j.total <= 0
    BY <1>1, <1>4 DEF Debit
  <1> QED  BY <1>1, <1>3, <1>4

\* SREM, and what the debit is computed from.
LEMMA RemoveTyped ==
    ASSUME TypeInv, NEW w \in Worker, Remove(w)
    PROVE  TypeInv'
  <1> DEFINE d == Debit(job[w].total, InVolume(job[w].units), InVolume(job[w].used))
             j == [job[w] EXCEPT !.debit = d]
  <1>1. BalanceTypeOK' /\ created' = created
    BY BalanceUnchangedTyped DEF TypeInv, TypeOK, Remove
  <1>2. /\ job[w] \in Job /\ job[w].total \in Int /\ job[w].used \in Nat
        /\ job[w].ref \in Ref
    <2>1. job[w] \in Job /\ job[w].ref \in Ref
      BY DEF TypeInv, TypeOK, Located, Remove
    <2> QED  BY <2>1 DEF Job
  <1>3. reported' \in [Ref -> Nat]
    BY <1>2 DEF TypeInv, TypeOK, Remove
  <1>d. DeviationTypeOK'
    BY DeviationTyped DEF Remove, deviationVars
  <1>4. ASSUME job' \in [Worker -> Job], pc' \in [Worker -> Label] PROVE TypeOK'
    BY <1>d, <1>1, <1>3, <1>4 DEF TypeInv, TypeOK, Remove, consumerVars
  <1>5. CASE Return(w)
    BY <1>1, <1>4, <1>5, ReturnTyped DEF TypeInv
  <1>6. CASE Goto(w, "resolveAgain") /\ job' = [job EXCEPT ![w].debit = d]
    <2>1. d \in Nat
      BY <1>2, ReleaseDebitBounds
    <2>2. j \in Job
      BY <1>2, <2>1 DEF Job
    <2>3. job' = [job EXCEPT ![w] = j]
      BY <1>6
    <2>4. job' \in [Worker -> Job] /\ pc' \in [Worker -> Label]
      BY <1>6, <2>2, <2>3 DEF TypeInv, TypeOK, Goto, Label
    <2>5. j.ref = job[w].ref /\ j.cost = job[w].cost
      BY <1>2 DEF Job
    <2>6. ASSUME NEW v \in Worker PROVE Located(v)'
      BY <1>1, <1>6, <2>3, <2>5
         DEF TypeInv, TypeOK, Located, Remove, Goto, Rating, Calling
    <2> QED  BY <1>4, <2>4, <2>6 DEF TypeInv
  <1> QED  BY <1>5, <1>6 DEF Remove

\* The refund call, answered or lost.
LEMMA UnreserveTyped ==
    ASSUME TypeInv, NEW w \in Worker, Unreserve(w) \/ UnreserveLost(w)
    PROVE  TypeInv'
  <1>1. job[w].bucket \in Bucket /\ -job[w].total \in Int /\ job[w].ref \in Ref
    BY DEF TypeInv, TypeOK, Located, Calling, Job, Unreserve, UnreserveLost
  <1>2. BalanceTypeOK'
    BY <1>1, ReserveTyped DEF TypeInv, TypeOK, Unreserve, UnreserveLost, Refund
  <1>3. created' = created /\ faults' \in Nat
    BY DEF TypeInv, TypeOK, Unreserve, UnreserveLost, Fault, sessionVars
  <1>d. DeviationTypeOK' /\ UNCHANGED <<reported, debited>>
    <2>1. CASE Unreserve(w)
      BY <2>1, DeviationTyped DEF Unreserve, historyVars, deviationVars
    <2>2. CASE UnreserveLost(w)
      BY <1>1, <2>2, DeviationTyped DEF UnreserveLost, Disturb
    <2> QED  BY <2>1, <2>2
  <1>4. ASSUME job' \in [Worker -> Job], pc' \in [Worker -> Label] PROVE TypeOK'
    BY <1>d, <1>2, <1>3, <1>4
       DEF TypeInv, TypeOK, Unreserve, UnreserveLost, sessionVars, consumerVars
  <1>5. CASE Return(w)
    BY <1>3, <1>4, <1>5, ReturnTyped DEF TypeInv
  <1>6. CASE Goto(w, "debit") /\ UNCHANGED job /\ pc[w] = "unreserve"
    <2>1. job' \in [Worker -> Job] /\ pc' \in [Worker -> Label]
      BY <1>6 DEF TypeInv, TypeOK, Goto, Label
    <2>2. ASSUME NEW v \in Worker PROVE Located(v)'
      BY <1>3, <1>6 DEF TypeInv, TypeOK, Located, Goto, Rating, Calling
    <2> QED  BY <1>4, <2>1, <2>2 DEF TypeInv
  <1> QED  BY <1>5, <1>6 DEF Unreserve, UnreserveLost

\* The debit call, answered or lost.
LEMMA CommitTyped ==
    ASSUME TypeInv, NEW w \in Worker, CommitCall(w) \/ CommitLost(w)
    PROVE  TypeInv'
  <1>1. job[w].bucket \in Bucket /\ job[w].debit \in Nat /\ job[w].ref \in Ref
    BY DEF TypeInv, TypeOK, Located, Calling, Job, CommitCall, CommitLost
  <1>2. BalanceTypeOK'
    <2>1. -job[w].debit \in Int
      BY <1>1
    <2>2. AdjustBalance(job[w].bucket, -job[w].debit) \/ UNCHANGED balanceVars
      BY DEF CommitCall, CommitLost, CommitDebit
    <2> QED  BY <1>1, <2>1, <2>2, AdjustTyped DEF TypeInv, TypeOK
  <1>3. debited' \in [Ref -> Nat] /\ faults' \in Nat /\ created' = created
    BY <1>1 DEF TypeInv, TypeOK, CommitCall, CommitLost, CommitDebit, Fault, sessionVars
  <1>4. job' \in [Worker -> Job] /\ pc' \in [Worker -> Label] /\ \A v \in Worker : Located(v)'
    BY <1>3, ReturnTyped DEF CommitCall, CommitLost
  <1>d. DeviationTypeOK'
    BY DeviationTyped DEF CommitCall, CommitLost, deviationVars
  <1>5. TypeOK'
    BY <1>d, <1>2, <1>3, <1>4 DEF TypeInv, TypeOK, CommitCall, CommitLost, sessionVars, consumerVars
  <1> QED  BY <1>4, <1>5 DEF TypeInv

-----------------------------------------------------------------------------
(* The surroundings. *)

\* A handler that dies leaves nothing behind but what it wrote.
LEMMA CrashTyped ==
    ASSUME TypeInv, NEW w \in Worker, Crash(w)
    PROVE  TypeInv'
  <1>1. BalanceTypeOK' /\ faults' \in Nat /\ created' = created
    BY BalanceUnchangedTyped DEF TypeInv, TypeOK, Crash, Fault, sessionVars
  <1>2. job' \in [Worker -> Job] /\ pc' \in [Worker -> Label] /\ \A v \in Worker : Located(v)'
    BY <1>1, ReturnTyped DEF Crash
  <1>d. DeviationTypeOK' /\ UNCHANGED <<reported, debited>>
    <2>1. job[w].ref \in Ref
      BY DEF TypeInv, TypeOK, Located, Crash
    <2> QED  BY <2>1, DeviationTyped DEF Crash, Disturb
  <1>3. TypeOK'
    BY <1>d, <1>1, <1>2 DEF TypeInv, TypeOK, Crash, sessionVars, consumerVars
  <1> QED  BY <1>2, <1>3 DEF TypeInv

\* Top-ups and moves between shared buckets.
LEMMA SurroundingsTyped ==
    ASSUME TypeInv,
           \/ \E s \in Subscriber : MoveSubscriber(s)
           \/ \E b \in Bucket, amount \in TopupAmount : Topup(b, amount)
           \/ UNCHANGED vars
    PROVE  TypeInv'
  <1>1. BalanceTypeOK'
    <2>1. ASSUME NEW s \in Subscriber, MoveSubscriber(s) PROVE BalanceTypeOK'
      BY <2>1, BalanceUnchangedTyped DEF MoveSubscriber, TypeInv, TypeOK
    <2>2. ASSUME NEW b \in Bucket, NEW amount \in TopupAmount, Topup(b, amount)
          PROVE  BalanceTypeOK'
      BY <2>2, AmountsAssumption
         DEF Topup, TopupBalance, Credit, TypeInv, TypeOK, BalanceTypeOK
    <2>3. CASE UNCHANGED vars
      BY <2>3, BalanceUnchangedTyped DEF vars, TypeInv, TypeOK
    <2> QED  BY <2>1, <2>2, <2>3
  <1>2. drawsFrom' \in [Subscriber -> Bucket] /\ faults' \in Nat
    BY ChargingAssumption
       DEF MoveSubscriber, Fault, Topup, Shared, TypeInv, TypeOK, vars, historyVars
  <1>3. UNCHANGED <<sessionVars, consumerVars, pc, job, reported, debited>>
    BY DEF MoveSubscriber, Topup, vars, historyVars
  <1>d. DeviationTypeOK'
    <2>1. ASSUME NEW s \in Subscriber, MoveSubscriber(s) PROVE DeviationTypeOK'
      <3>1. disturbed \subseteq Ref /\ disturbed' = disturbed
        BY <2>1 DEF MoveSubscriber, TypeInv, TypeOK, DeviationTypeOK
      <3>2. rerouted' = TRUE
        BY <2>1, Zenon DEF MoveSubscriber
      <3> QED  BY <3>1, <3>2, Zenon DEF DeviationTypeOK
    <2>2. ASSUME NEW b \in Bucket, NEW amount \in TopupAmount, Topup(b, amount)
          PROVE  DeviationTypeOK'
      BY <2>2, DeviationTyped DEF Topup, historyVars, deviationVars
    <2>3. CASE UNCHANGED vars
      BY <2>3, DeviationTyped DEF vars, historyVars, deviationVars
    <2> QED  BY <2>1, <2>2, <2>3
  <1>4. TypeOK'
    BY <1>1, <1>2, <1>3, <1>d DEF TypeInv, TypeOK, sessionVars, consumerVars
  <1>5. ASSUME NEW v \in Worker PROVE Located(v)'
    BY <1>3 DEF TypeInv, Located, sessionVars
  <1> QED  BY <1>4, <1>5 DEF TypeInv

\* Every step of the charging function keeps the type invariant.
LEMMA TypeInvInductive == TypeInv /\ [Next]_vars => TypeInv'
  <1> SUFFICES ASSUME TypeInv, [Next]_vars PROVE TypeInv'
    OBVIOUS
  <1>1. ASSUME NEW w \in Worker, ConsumerStep(w) PROVE TypeInv'
    BY <1>1, CreateTyped, UpdateTyped, ReleaseTyped, ChargingAssumption DEF ConsumerStep
  <1>2. ASSUME NEW w \in Worker, HandlerStep(w) PROVE TypeInv'
    BY <1>2, RateTyped, ResolveTyped, ReserveCallTyped, RecordTyped, WriteCdrTyped, AnswerTyped,
       ReadGrantedTyped, RemoveTyped, UnreserveTyped, CommitTyped
       DEF HandlerStep
  <1>3. ASSUME NEW w \in Worker, Crash(w) PROVE TypeInv'
    BY <1>3, CrashTyped
  <1> QED  BY <1>1, <1>2, <1>3, SurroundingsTyped DEF Next

\* Every state of the charging function, under every interleaving and fault, is
\* well typed, and every handler is where its locals say it is.
THEOREM ChargingTypeCorrect == Spec => []TypeOK
  <1>1. TypeInv => TypeOK
    BY DEF TypeInv
  <1> QED  BY <1>1, InitTypeInv, TypeInvInductive, PTL DEF Spec

-----------------------------------------------------------------------------
(* The settlement.                                                         *)
(*                                                                         *)
(* DebitedWithinRecorded is not inductive: that a debit is covered by the  *)
(* session's reserved_total rests on the total the Release read earlier,   *)
(* which reserved_total can only have outgrown since, and that it is not   *)
(* added to an earlier debit rests on there being one settlement.  The     *)
(* settlement itself is single whatever the catalog says.                  *)

Releasing == {"readGranted", "remove", "resolveAgain", "unreserve", "debit"}

Covered(v) ==
    /\ pc[v] \in Releasing => job[v].total <= reservedTotal[job[v].ref]
    /\ Settling(v) => job[v].debit <= job[v].total /\ debited[job[v].ref] = 0
    /\ pc[v] = "debit" => job[v].debit > 0

SettleInv ==
    /\ OneSettlement
    /\ NoNegativePrice => DebitedWithinRecorded /\ \A v \in Worker : Covered(v)

Others(w) == \A v \in Worker \ {w} : pc'[v] = pc[v] /\ job'[v] = job[v]

\* A step that neither opens nor closes a session, debits nothing and moves no
\* handler into the settlement keeps the invariant.
LEMMA SettleFrame ==
    ASSUME TypeInv, TypeInv', SettleInv, NEW w \in Worker, Others(w),
           created' = created, active' = active, debited' = debited,
           NoNegativePrice => \A r \in Ref : reservedTotal'[r] >= reservedTotal[r],
           NoNegativePrice /\ pc'[w] \in Releasing
               => job'[w].total <= reservedTotal'[job'[w].ref],
           Settling(w)' => /\ Settling(w)
                           /\ job'[w].ref = job[w].ref
                           /\ job'[w].total = job[w].total
                           /\ job'[w].debit = job[w].debit,
           NoNegativePrice /\ pc'[w] = "debit" => job'[w].debit > 0
    PROVE  SettleInv'
  <1>1. \A v \in Worker : Settling(v)' => Settling(v) /\ job'[v].ref = job[v].ref
    BY DEF Others, Settling
  <1>2. OneSettlement'
    BY <1>1 DEF SettleInv, OneSettlement
  <1>3. ASSUME NoNegativePrice PROVE DebitedWithinRecorded'
    <2>1. ASSUME NEW r \in Ref PROVE debited'[r] <= reservedTotal'[r]
      <3>1. /\ debited[r] \in Nat /\ reservedTotal[r] \in Int /\ reservedTotal'[r] \in Int
            /\ debited[r] <= reservedTotal[r] /\ reservedTotal'[r] >= reservedTotal[r]
        BY <1>3 DEF TypeInv, TypeOK, SettleInv, DebitedWithinRecorded
      <3> QED  BY <3>1
    <2> QED  BY <1>3, <2>1 DEF SettleInv, DebitedWithinRecorded
  <1>4. ASSUME NoNegativePrice, NEW v \in Worker PROVE Covered(v)'
    <2>1. CASE v = w
      BY <1>4, <2>1 DEF SettleInv, Covered
    <2>2. CASE v # w
      <3>1. pc'[v] = pc[v] /\ job'[v] = job[v]
        BY <2>2 DEF Others
      <3>2. ASSUME pc[v] \in Releasing PROVE job[v].total <= reservedTotal'[job[v].ref]
        <4>1. job[v].ref \in Ref /\ job[v].total \in Int
          BY <3>2 DEF TypeInv, TypeOK, Located, Releasing, Job
        <4>2. /\ reservedTotal[job[v].ref] \in Int /\ reservedTotal'[job[v].ref] \in Int
              /\ reservedTotal'[job[v].ref] >= reservedTotal[job[v].ref]
              /\ job[v].total <= reservedTotal[job[v].ref]
          BY <1>4, <3>2, <4>1 DEF TypeInv, TypeOK, SettleInv, Covered
        <4> QED  BY <4>1, <4>2
      <3> QED  BY <1>4, <3>1, <3>2 DEF SettleInv, Covered, Settling
    <2> QED  BY <2>1, <2>2
  <1> QED  BY <1>2, <1>3, <1>4 DEF SettleInv

\* Nothing is released, recorded or debited at first.
LEMMA InitSettleInv == Init => SettleInv
  BY DEF Init, SettleInv, OneSettlement, DebitedWithinRecorded, Covered, Settling, Releasing

\* A new session is nobody's yet.
LEMMA CreateSettles ==
    ASSUME TypeInv, TypeInv', SettleInv, NEW w \in Worker, NEW s \in Subscriber,
           NEW n \in UsageCount, Create(w, s, n)
    PROVE  SettleInv'
  <1>1. PICK r \in Ref \ created : created' = created \union {r} /\ active' = active \union {r}
    BY DEF Create
  <1>2. Others(w) /\ pc'[w] = "rate"
    BY DEF Create, Goto, Others, TypeInv, TypeOK
  <1>3. reservedTotal' = reservedTotal /\ debited' = debited
    BY DEF Create, historyVars
  <1>4. \A v \in Worker : Settling(v)' => Settling(v) /\ job'[v] = job[v] /\ v # w
    BY <1>2 DEF Others, Settling
  <1>5. OneSettlement'
    BY <1>1, <1>4 DEF SettleInv, OneSettlement, TypeInv, TypeOK
  <1>6. ASSUME NoNegativePrice PROVE DebitedWithinRecorded'
    BY <1>1, <1>3, <1>6 DEF SettleInv, DebitedWithinRecorded, TypeInv, TypeOK
  <1>7. ASSUME NoNegativePrice, NEW v \in Worker PROVE Covered(v)'
    BY <1>2, <1>3, <1>7 DEF SettleInv, Covered, Others, Settling, Releasing
  <1> QED  BY <1>5, <1>6, <1>7 DEF SettleInv

\* SREM lets one Release into the settlement, with the total it read.
LEMMA RemoveSettles ==
    ASSUME TypeInv, TypeInv', SettleInv, NEW w \in Worker, Remove(w)
    PROVE  SettleInv'
  <1>1. /\ created' = created /\ active' = active \ {job[w].ref} /\ debited' = debited
        /\ reservedTotal' = reservedTotal
    BY DEF Remove
  <1>2. job[w] \in Job /\ job[w].ref \in created
    BY DEF TypeInv, TypeOK, Located, Remove
  <1>3. Others(w)
    BY DEF Remove, Return, Goto, Others, TypeInv, TypeOK
  <1>4. ASSUME NoNegativePrice PROVE DebitedWithinRecorded'
    BY <1>1, <1>4 DEF SettleInv, DebitedWithinRecorded
  <1>5. CASE Return(w)
    <2>1. pc'[w] = "idle"
      BY <1>5 DEF Return, TypeInv, TypeOK
    <2>2. OneSettlement'
      BY <1>1, <1>3, <2>1 DEF SettleInv, OneSettlement, Settling, Others
    <2>3. ASSUME NoNegativePrice, NEW v \in Worker PROVE Covered(v)'
      BY <1>1, <1>3, <2>1, <2>3 DEF SettleInv, Covered, Others, Settling, Releasing
    <2> QED  BY <1>4, <2>2, <2>3 DEF SettleInv
  <1>6. CASE /\ job[w].ref \in active
             /\ Outstanding(job[w])
             /\ Goto(w, "resolveAgain")
             /\ job' = [job EXCEPT ![w].debit =
                            Debit(job[w].total, InVolume(job[w].units), InVolume(job[w].used))]
    <2>1. /\ pc'[w] = "resolveAgain" /\ job'[w].ref = job[w].ref
          /\ job'[w].total = job[w].total
          /\ job'[w].debit = Debit(job[w].total, InVolume(job[w].units), InVolume(job[w].used))
      BY <1>2, <1>6 DEF Goto, TypeInv, TypeOK, Job
    <2>2. \A v \in Worker : Settling(v) => job[v].ref # job[w].ref
      BY <1>6 DEF SettleInv, OneSettlement
    <2>3. OneSettlement'
      BY <1>1, <1>2, <1>3, <2>1, <2>2 DEF SettleInv, OneSettlement, Settling, Others
    <2>4. ASSUME NoNegativePrice PROVE Covered(w)'
      <3>1. job'[w].debit <= job[w].total
        BY <1>2, <1>6, <2>1, ReleaseDebitBounds DEF Job, Outstanding
      <3>2. debited[job[w].ref] = 0
        BY <1>2, <1>6, <2>4 DEF SettleInv, DebitedWithinRecorded, TypeInv, TypeOK
      <3>3. job[w].total <= reservedTotal[job[w].ref]
        BY <2>4 DEF SettleInv, Covered, Releasing, Remove
      <3> QED  BY <1>1, <2>1, <3>1, <3>2, <3>3 DEF Covered
    <2>5. ASSUME NoNegativePrice, NEW v \in Worker \ {w} PROVE Covered(v)'
      BY <1>1, <1>3, <2>5 DEF SettleInv, Covered, Others, Settling
    <2> QED  BY <1>4, <2>3, <2>4, <2>5 DEF SettleInv
  <1> QED  BY <1>5, <1>6 DEF Remove, Admitted

\* The one debit of a session, if it is completed at all.
LEMMA CommitSettles ==
    ASSUME TypeInv, TypeInv', SettleInv, NEW w \in Worker, CommitCall(w) \/ CommitLost(w)
    PROVE  SettleInv'
  <1> DEFINE r == job[w].ref
  <1>1. /\ created' = created /\ active' = active /\ reservedTotal' = reservedTotal
        /\ pc[w] = "debit" /\ Return(w)
    BY DEF CommitCall, CommitLost, sessionVars
  <1>2. pc'[w] = "idle" /\ Others(w)
    BY <1>1 DEF Return, Others, TypeInv, TypeOK
  <1>3. Settling(w) /\ r \in Ref /\ r \in created \ active /\ job[w].debit \in Nat
    BY <1>1 DEF Settling, SettleInv, OneSettlement, TypeInv, TypeOK, Job
  <1>4. debited' = debited \/ debited' = [debited EXCEPT ![r] = @ + job[w].debit]
    BY DEF CommitCall, CommitLost, CommitDebit
  <1>5. ASSUME NoNegativePrice
        PROVE  /\ debited[r] = 0 /\ job[w].debit <= job[w].total /\ job[w].total \in Int
               /\ job[w].total <= reservedTotal[r] /\ reservedTotal[r] \in Int
    BY <1>1, <1>3, <1>5 DEF SettleInv, Covered, Releasing, TypeInv, TypeOK, Job
  <1>6. OneSettlement'
    BY <1>1, <1>2 DEF SettleInv, OneSettlement, Settling, Others
  <1>7. ASSUME NoNegativePrice PROVE DebitedWithinRecorded'
    <2>1. ASSUME NEW q \in Ref
          PROVE  /\ debited'[q] <= reservedTotal[q]
                 /\ debited'[q] > 0 => q \in created \ active
      <3>1. CASE debited'[q] = debited[q]
        BY <1>7, <3>1 DEF SettleInv, DebitedWithinRecorded
      <3>2. CASE q = r /\ debited'[q] = debited[q] + job[w].debit
        BY <1>3, <1>5, <1>7, <3>2
      <3> QED  BY <1>3, <1>4, <3>1, <3>2 DEF TypeInv, TypeOK
    <2> QED  BY <1>1, <2>1 DEF DebitedWithinRecorded
  <1>8. ASSUME NoNegativePrice, NEW v \in Worker PROVE Covered(v)'
    <2>1. CASE v = w
      BY <1>2, <2>1 DEF Covered, Settling, Releasing
    <2>2. CASE v # w
      <3>1. pc'[v] = pc[v] /\ job'[v] = job[v]
        BY <1>2, <2>2 DEF Others
      <3>2. ASSUME Settling(v) PROVE debited'[job[v].ref] = debited[job[v].ref]
        <4>1. job[v].ref # r /\ job[v].ref \in Ref
          BY <1>3, <2>2, <3>2 DEF SettleInv, OneSettlement, TypeInv, TypeOK
        <4> QED  BY <1>4, <4>1 DEF TypeInv, TypeOK
      <3> QED  BY <1>1, <1>8, <3>1, <3>2 DEF SettleInv, Covered, Settling
    <2> QED  BY <2>1, <2>2
  <1> QED  BY <1>6, <1>7, <1>8 DEF SettleInv

\* Everything a handler does outside of Create, SREM and the debit fits the frame.
LEMMA OtherStepsSettle ==
    ASSUME TypeInv, TypeInv', SettleInv, NEW w \in Worker,
           \/ \E r \in Ref, n \in UsageCount, u \in UsedUnits : Update(w, r, n, u)
           \/ \E r \in Ref, u \in Nat : Release(w, r, u)
           \/ Rate(w) \/ ResolveBucket(w, "resolve", "reserve")
           \/ Reserve(w) \/ ReserveLost(w) \/ AddReserved(w) \/ AddGranted(w)
           \/ WriteCdr(w) \/ Answer(w) \/ ReadGranted(w)
           \/ ResolveBucket(w, "resolveAgain", "unreserve")
           \/ Unreserve(w) \/ UnreserveLost(w) \/ Crash(w)
    PROVE  SettleInv'
  <1> USE DEF sessionVars, historyVars, Releasing
  <1>t. job \in [Worker -> Job] /\ pc \in [Worker -> Label] /\ reservedTotal \in [Ref -> Int]
    BY DEF TypeInv, TypeOK
  <1>1. ASSUME NEW r \in Ref, NEW n \in UsageCount, NEW u \in UsedUnits, Update(w, r, n, u)
        PROVE  SettleInv'
    <2>1. Others(w) /\ pc'[w] = "rate" /\ UNCHANGED <<sessionVars, debited>>
      <3>1. /\ UNCHANGED sessionVars /\ debited' = debited /\ pc' = [pc EXCEPT ![w] = "rate"]
            /\ \E j : job' = [job EXCEPT ![w] = j]
        BY <1>1, UpdateArrives, Zenon
      <3> QED  BY ONLY <1>t, <3>1 DEF Others
    <2> QED  BY <2>1, <1>t, SettleFrame DEF Settling
  <1>2. ASSUME NEW r \in Ref, NEW u \in Nat, Release(w, r, u) PROVE SettleInv'
    <2>1. /\ Others(w) /\ pc'[w] = "readGranted" /\ UNCHANGED <<sessionVars, debited>>
          /\ job'[w].ref = r /\ job'[w].total = reservedTotal[r]
      <3>1. /\ UNCHANGED sessionVars /\ debited' = debited /\ pc' = [pc EXCEPT ![w] = "readGranted"]
            /\ job' = [job EXCEPT ![w] = [NoJob EXCEPT !.op = "Release", !.ref = r, !.used = u,
                                                     !.total = reservedTotal[r]]]
        BY <1>2, ReleaseArrives, Zenon
      <3> QED  BY ONLY <1>t, <3>1 DEF Others, NoJob
    <2>2. job'[w].total <= reservedTotal'[job'[w].ref]
      BY <2>1, <1>t
    <2> QED  BY <2>1, <2>2, <1>t, SettleFrame DEF Settling
  <1>3. CASE \/ Rate(w) \/ ResolveBucket(w, "resolve", "reserve") \/ Reserve(w) \/ ReserveLost(w)
             \/ WriteCdr(w) \/ Answer(w) \/ Crash(w) \/ UnreserveLost(w)
    <2>1. Others(w) /\ pc'[w] \notin Releasing /\ UNCHANGED <<sessionVars, debited>>
      <3>1. debited' = debited
        BY <1>3 DEF Rate, ResolveBucket, Reserve, ReserveLost, WriteCdr, Answer, Crash,
                    UnreserveLost, Disturb
      <3> QED  BY <1>t, <1>3, <3>1
         DEF Rate, ResolveBucket, Reserve, ReserveLost, WriteCdr, Answer, Crash, UnreserveLost,
             Goto, Return, Others
    <2> QED  BY <2>1, <1>t, SettleFrame DEF Settling
  <1>4. CASE AddReserved(w) \/ AddGranted(w)
    <2>1. /\ Others(w) /\ pc'[w] \notin Releasing /\ UNCHANGED <<created, active, debited>>
      BY <1>t, <1>4 DEF AddReserved, AddGranted, Goto, Others
    <2>2. ASSUME NoNegativePrice, NEW r \in Ref PROVE reservedTotal'[r] >= reservedTotal[r]
      <3>1. job[w].cost \in Nat
        BY <1>t, <2>2 DEF Job, TypeInv, Located
      <3> QED  BY <1>t, <1>4, <3>1 DEF AddReserved, AddGranted
    <2> QED  BY <2>1, <2>2, SettleFrame DEF Settling
  <1>5. CASE ReadGranted(w)
    <2>1. /\ Others(w) /\ pc'[w] = "remove" /\ UNCHANGED <<sessionVars, debited>>
          /\ job'[w].ref = job[w].ref /\ job'[w].total = job[w].total /\ pc[w] = "readGranted"
      BY <1>t, <1>5 DEF ReadGranted, Goto, Others, Job
    <2>2. NoNegativePrice => job'[w].total <= reservedTotal'[job'[w].ref]
      BY <2>1 DEF SettleInv, Covered
    <2> QED  BY <2>1, <2>2, <1>t, SettleFrame DEF Settling
  <1>6. CASE ResolveBucket(w, "resolveAgain", "unreserve")
    <2>1. /\ Others(w) /\ pc'[w] = "unreserve" /\ UNCHANGED <<sessionVars, debited>>
          /\ job'[w].ref = job[w].ref /\ job'[w].total = job[w].total
          /\ job'[w].debit = job[w].debit /\ pc[w] = "resolveAgain"
      BY <1>t, <1>6 DEF ResolveBucket, Goto, Others, Job
    <2>2. NoNegativePrice => job'[w].total <= reservedTotal'[job'[w].ref]
      BY <2>1 DEF SettleInv, Covered
    <2> QED  BY <2>1, <2>2, <1>t, SettleFrame DEF Settling
  <1>7. CASE Unreserve(w)
    <2>1. /\ Others(w) /\ UNCHANGED <<sessionVars, debited>> /\ pc[w] = "unreserve"
          /\ \/ pc'[w] = "idle"
             \/ pc'[w] = "debit" /\ job' = job /\ job[w].debit > 0
      BY <1>t, <1>7 DEF Unreserve, Goto, Return, Others
    <2>2. NoNegativePrice /\ pc'[w] = "debit" => job'[w].total <= reservedTotal'[job'[w].ref]
      BY <2>1 DEF SettleInv, Covered
    <2> QED  BY <2>1, <2>2, <1>t, SettleFrame DEF Settling
  <1> QED  BY <1>1, <1>2, <1>3, <1>4, <1>5, <1>6, <1>7

\* Every step of the charging function keeps the settlement invariant.
LEMMA SettleInvInductive == TypeInv /\ TypeInv' /\ SettleInv /\ [Next]_vars => SettleInv'
  <1> SUFFICES ASSUME TypeInv, TypeInv', SettleInv, [Next]_vars PROVE SettleInv'
    OBVIOUS
  <1>1. ASSUME NEW w \in Worker, ConsumerStep(w) PROVE SettleInv'
    BY <1>1, CreateSettles, OtherStepsSettle, ChargingAssumption DEF ConsumerStep
  <1>2. ASSUME NEW w \in Worker, HandlerStep(w) PROVE SettleInv'
    BY <1>2, RemoveSettles, CommitSettles, OtherStepsSettle DEF HandlerStep
  <1>3. ASSUME NEW w \in Worker, Crash(w) PROVE SettleInv'
    BY <1>3, OtherStepsSettle
  <1>4. CASE \/ \E s \in Subscriber : MoveSubscriber(s)
             \/ \E b \in Bucket, amount \in TopupAmount : Topup(b, amount)
             \/ UNCHANGED vars
    <2>1. UNCHANGED <<sessionVars, pc, job, debited>>
      BY <1>4 DEF MoveSubscriber, Topup, vars, historyVars
    <2> QED  BY <2>1 DEF sessionVars, SettleInv, OneSettlement, DebitedWithinRecorded, Covered,
                         Settling
  <1> QED  BY <1>1, <1>2, <1>3, <1>4 DEF Next

\* Types and settlement together.
LEMMA SettledAlways == Spec => [](TypeInv /\ SettleInv)
  <1> QED  BY InitTypeInv, TypeInvInductive, InitSettleInv, SettleInvInductive, PTL DEF Spec

\* Of all the Releases of a session, duplicates included, one settles it, and the
\* session it settles can no longer be updated.
THEOREM OneSettlementHolds == Spec => []OneSettlement
  <1>1. SettleInv => OneSettlement
    BY DEF SettleInv
  <1> QED  BY <1>1, SettledAlways, PTL

\* A session is never debited more than its reserved_total, and never before it
\* was released: for any number of Updates and Releases in flight and any fault, and
\* every catalog without a price below zero.
THEOREM DebitedWithinRecordedHolds ==
    ASSUME NoNegativePrice
    PROVE  Spec => []DebitedWithinRecorded
  <1>1. SettleInv => DebitedWithinRecorded
    BY DEF SettleInv
  <1> QED  BY <1>1, SettledAlways, PTL

-----------------------------------------------------------------------------
(* The promise, and the client of the balance function. *)

promised == <<created, created \ active, reservedTotal, debited>>

\* Create opens a session of the promise.
LEMMA CreateOpens ==
    ASSUME TypeInv, NEW w \in Worker, NEW s \in Subscriber, NEW n \in UsageCount,
           Create(w, s, n)
    PROVE  Promise!Next
  <1>1. PICK r \in Ref \ created : created' = created \union {r} /\ active' = active \union {r}
    BY DEF Create
  <1>2. (created \ active)' = created \ active
    BY <1>1 DEF TypeInv, TypeOK
  <1>3. UNCHANGED <<reservedTotal, debited>>
    BY DEF Create, historyVars
  <1>4. Promise!Open(r)
    BY <1>1, <1>2, <1>3 DEF Promise!Open
  <1> QED  BY <1>4 DEF Promise!Next

\* add_reserved authorises money, as long as no price is below zero.
LEMMA AddReservedAuthorises ==
    ASSUME NoNegativePrice, TypeInv, NEW w \in Worker, AddReserved(w)
    PROVE  Promise!Next
  <1> DEFINE r == job[w].ref
  <1>1. r \in created /\ r \in Ref /\ job[w].cost \in Nat /\ reservedTotal[r] \in Int
    BY DEF TypeInv, TypeOK, Located, AddReserved, Job
  <1>2. reservedTotal' = [reservedTotal EXCEPT ![r] = reservedTotal'[r]]
    BY <1>1 DEF AddReserved, TypeInv, TypeOK
  <1>3. reservedTotal'[r] >= reservedTotal[r]
    BY <1>1 DEF AddReserved, TypeInv, TypeOK
  <1>4. UNCHANGED <<created, active, debited>>
    BY DEF AddReserved, historyVars
  <1>5. Promise!Authorise(r)
    BY <1>1, <1>2, <1>3, <1>4 DEF Promise!Authorise
  <1> QED  BY <1>1, <1>5 DEF Promise!Next

\* SREM closes the session for one Release and is a stutter for the others.
LEMMA RemoveCloses ==
    ASSUME TypeInv, NEW w \in Worker, Remove(w)
    PROVE  Promise!Next \/ UNCHANGED promised
  <1> DEFINE r == job[w].ref
  <1>1. r \in created /\ r \in Ref
    BY DEF TypeInv, TypeOK, Located, Remove
  <1>2. UNCHANGED <<created, reservedTotal, debited>> /\ active' = active \ {r}
    BY DEF Remove
  <1>3. CASE r \in active
    <2>1. (created \ active)' = (created \ active) \union {r}
      BY <1>1, <1>2
    <2>2. Promise!Close(r)
      BY <1>1, <1>2, <1>3, <2>1 DEF Promise!Close
    <2> QED  BY <1>1, <2>2 DEF Promise!Next
  <1>4. CASE r \notin active
    <2>1. (created \ active)' = created \ active
      BY <1>2, <1>4
    <2> QED  BY <1>2, <2>1 DEF promised
  <1> QED  BY <1>3, <1>4

\* The debit charges a closed session once, or it is refused or lost.
LEMMA CommitCharges ==
    ASSUME NoNegativePrice, TypeInv, SettleInv, NEW w \in Worker, CommitCall(w) \/ CommitLost(w)
    PROVE  Promise!Next \/ UNCHANGED promised
  <1> DEFINE r == job[w].ref
  <1>1. UNCHANGED <<created, active, reservedTotal>> /\ pc[w] = "debit"
    BY DEF CommitCall, CommitLost, sessionVars
  <1>2. /\ r \in Ref /\ r \in created \ active /\ debited[r] = 0
        /\ job[w].debit \in Nat /\ job[w].total \in Int /\ reservedTotal[r] \in Int
        /\ job[w].debit > 0 /\ job[w].debit <= job[w].total /\ job[w].total <= reservedTotal[r]
    BY <1>1 DEF TypeInv, TypeOK, Job, SettleInv, OneSettlement, Covered, Settling, Releasing
  <1>3. CASE debited' = debited
    BY <1>1, <1>3 DEF promised
  <1>4. CASE debited' = [debited EXCEPT ![r] = @ + job[w].debit]
    <2>1. debited'[r] = job[w].debit /\ debited' = [debited EXCEPT ![r] = debited'[r]]
      <3>1. debited \in [Ref -> Nat]
        BY DEF TypeInv, TypeOK
      <3>2. debited[r] + job[w].debit = job[w].debit
        BY <1>2
      <3>3. debited' = [debited EXCEPT ![r] = job[w].debit]
        BY <1>4, <3>2
      <3> QED  BY <1>2, <3>1, <3>3
    <2>2. debited'[r] \in 1 .. reservedTotal[r]
      BY <1>2, <2>1
    <2>3. Promise!Charge(r)
      BY <1>1, <1>2, <2>1, <2>2 DEF Promise!Charge
    <2> QED  BY <1>2, <2>3 DEF Promise!Next
  <1> QED  BY <1>3, <1>4 DEF CommitCall, CommitLost, CommitDebit

\* Every step is one of the promise or changes none of what was promised.
LEMMA StepKeepsPromise ==
    NoNegativePrice /\ TypeInv /\ SettleInv /\ [Next]_vars
        => [Promise!Next]_(Promise!promiseVars)
  <1> SUFFICES ASSUME NoNegativePrice, TypeInv, SettleInv, [Next]_vars
               PROVE  Promise!Next \/ UNCHANGED promised
    BY DEF Promise!promiseVars, promised
  <1>1. ASSUME NEW w \in Worker, ConsumerStep(w) PROVE Promise!Next \/ UNCHANGED promised
    <2>1. ASSUME NEW r \in Ref, NEW n \in UsageCount, NEW u \in UsedUnits, Update(w, r, n, u)
          PROVE  UNCHANGED promised
      BY <2>1 DEF Update, promised, sessionVars, Disturb
    <2>2. ASSUME NEW r \in Ref, NEW u, Release(w, r, u) PROVE UNCHANGED promised
      BY <2>2 DEF Release, promised, sessionVars, Disturb
    <2> QED  BY <1>1, <2>1, <2>2, CreateOpens DEF ConsumerStep
  <1>2. ASSUME NEW w \in Worker, HandlerStep(w) PROVE Promise!Next \/ UNCHANGED promised
    <2>1. CASE \/ Rate(w) \/ Reserve(w) \/ ReserveLost(w) \/ AddGranted(w) \/ WriteCdr(w)
               \/ Answer(w) \/ ReadGranted(w) \/ Unreserve(w) \/ UnreserveLost(w)
               \/ ResolveBucket(w, "resolve", "reserve")
               \/ ResolveBucket(w, "resolveAgain", "unreserve")
      <3>1. UNCHANGED <<created, active, reservedTotal, debited>>
        BY <2>1 DEF Rate, Reserve, ReserveLost, AddGranted, WriteCdr, Answer, ReadGranted,
                    Unreserve, UnreserveLost, ResolveBucket, sessionVars, historyVars, Disturb
      <3> QED  BY <3>1 DEF promised
    <2> QED  BY <1>2, <2>1, AddReservedAuthorises, RemoveCloses, CommitCharges DEF HandlerStep
  <1>3. CASE \/ \E w \in Worker : Crash(w)
             \/ \E s \in Subscriber : MoveSubscriber(s)
             \/ \E b \in Bucket, amount \in TopupAmount : Topup(b, amount)
             \/ UNCHANGED vars
    <2>1. UNCHANGED <<created, active, reservedTotal, debited>>
      BY <1>3 DEF Crash, MoveSubscriber, Topup, vars, sessionVars, historyVars, Disturb
    <2> QED  BY <2>1 DEF promised
  <1> QED  BY <1>1, <1>2, <1>3 DEF Next

\* The charging function keeps its promise to the subscriber: a session is closed
\* once, charged once and only after that, and never more than was authorised,
\* whatever is lost, crashes or overlaps, and whatever the catalog holds that is not
\* a price below zero.
THEOREM PromiseKept ==
    ASSUME NoNegativePrice
    PROVE  Spec => KeepsPromise
  <1>1. Init => Promise!Init
    BY DEF Init, Promise!Init
  <1>2. TypeInv /\ SettleInv /\ [Next]_vars => [Promise!Next]_(Promise!promiseVars)
    BY StepKeepsPromise
  <1> QED  BY <1>1, <1>2, SettledAlways, PTL DEF Spec, KeepsPromise, Promise!Spec

-----------------------------------------------------------------------------
\* Every call of the charging function is one the balance function offers.
LEMMA StepIsServiceStep ==
    ASSUME AdjustAmount = Int, ReserveAmount = Int, TypeInv, [Next]_vars
    PROVE  [BalanceStep]_balanceVars
  <1>1. ASSUME NEW b \in Bucket, NEW amount \in Int, NEW r \in Ref,
               ReserveBalance(b, amount, r) \/ UNCHANGED balanceVars
        PROVE  [BalanceStep]_balanceVars
    BY <1>1 DEF BalanceStep
  <1>2. ASSUME NEW b \in Bucket, NEW amount \in Int,
               AdjustBalance(b, amount) \/ UNCHANGED balanceVars
        PROVE  [BalanceStep]_balanceVars
    BY <1>2 DEF BalanceStep
  <1>3. ASSUME NEW w \in Worker, HandlerStep(w) PROVE [BalanceStep]_balanceVars
    <2>1. CASE Reserve(w) \/ ReserveLost(w)
      <3>1. job[w].bucket \in Bucket /\ job[w].cost \in Int /\ job[w].ref \in Ref
        BY <2>1 DEF TypeInv, TypeOK, Located, Calling, Job, Reserve, ReserveLost
      <3> QED  BY <1>1, <2>1, <3>1 DEF Reserve, ReserveLost
    <2>2. CASE Unreserve(w) \/ UnreserveLost(w)
      <3>1. job[w].bucket \in Bucket /\ -job[w].total \in Int /\ job[w].ref \in Ref
        BY <2>2 DEF TypeInv, TypeOK, Located, Calling, Job, Unreserve, UnreserveLost
      <3> QED  BY <1>1, <2>2, <3>1 DEF Unreserve, UnreserveLost, Refund
    <2>3. CASE CommitCall(w) \/ CommitLost(w)
      <3>1. job[w].bucket \in Bucket /\ -job[w].debit \in Int
        BY <2>3 DEF TypeInv, TypeOK, Located, Calling, Job, CommitCall, CommitLost
      <3> QED  BY <1>2, <2>3, <3>1 DEF CommitCall, CommitLost, CommitDebit
    <2>4. CASE \/ Rate(w) \/ AddReserved(w) \/ AddGranted(w) \/ WriteCdr(w) \/ Answer(w)
               \/ ReadGranted(w) \/ Remove(w)
               \/ ResolveBucket(w, "resolve", "reserve")
               \/ ResolveBucket(w, "resolveAgain", "unreserve")
      <3>1. UNCHANGED balanceVars
        BY <2>4 DEF Rate, AddReserved, AddGranted, WriteCdr, Answer, ReadGranted,
                    Remove, ResolveBucket
      <3> QED  BY <3>1
    <2> QED  BY <1>3, <2>1, <2>2, <2>3, <2>4 DEF HandlerStep
  <1>4. ASSUME NEW w \in Worker, ConsumerStep(w) \/ Crash(w) PROVE UNCHANGED balanceVars
    <2>1. ASSUME NEW s, NEW n, Create(w, s, n) PROVE UNCHANGED balanceVars
      BY <2>1, Zenon DEF Create
    <2>2. ASSUME NEW r, NEW n, NEW u, Update(w, r, n, u) PROVE UNCHANGED balanceVars
      BY <2>2 DEF Update
    <2>3. ASSUME NEW r, NEW u, Release(w, r, u) PROVE UNCHANGED balanceVars
      BY <2>3 DEF Release
    <2>4. CASE Crash(w)
      BY <2>4 DEF Crash
    <2> QED  BY <1>4, <2>1, <2>2, <2>3, <2>4, Zenon DEF ConsumerStep
  <1>5. ASSUME NEW b \in Bucket, NEW amount \in TopupAmount, Topup(b, amount)
        PROVE  BalanceStep
    BY <1>5 DEF Topup, BalanceStep
  <1>6. CASE (\E s \in Subscriber : MoveSubscriber(s)) \/ UNCHANGED vars
    BY <1>6 DEF MoveSubscriber, vars
  <1> QED  BY <1>3, <1>4, <1>5, <1>6 DEF Next

\* So no interleaving of charging sessions, faults and crediting top-ups overdraws
\* a bucket or leaves its event rows unable to account for it.
THEOREM ChargingKeepsBooks ==
    ASSUME AdjustAmount = Int, ReserveAmount = Int, TopupsCredit
    PROVE  Spec => [](NeverOverdrawn /\ LedgerReconciles)
  <1>1. Init => BalanceInv
    BY BalanceInitInv DEF Init
  <1>2. TypeInv /\ BalanceInv /\ [Next]_vars => BalanceInv'
    BY StepIsServiceStep, BalanceStepPreserves
  <1>3. BalanceInv => NeverOverdrawn /\ LedgerReconciles
    BY DEF BalanceInv
  <1> QED  BY <1>1, <1>2, <1>3, SettledAlways, PTL DEF Spec

-----------------------------------------------------------------------------
(* What is held against what is recorded.                                  *)
(*                                                                         *)
(* Between a reservation and the increment of reserved_total the money is  *)
(* held and not yet recorded, by any number of handlers at once.  Their    *)
(* sum is kept as a weight of the sets of handlers, which is additive and  *)
(* nothing where nobody has a share.                                       *)

Weighs(d, W, c) ==
    /\ d \in [SUBSET W -> Nat]
    /\ \A T \in SUBSET W : \A w \in T : d[T] = d[T \ {w}] + c[w]
    /\ \A T \in SUBSET W : (\A w \in T : c[w] = 0) => d[T] = 0

Shifts(after, before, was, is) == after = before - was + is

\* A member changes its share, and the weight of the whole changes by as much.
LEMMA Reweighed ==
    ASSUME NEW W, NEW c \in [W -> Nat], NEW e \in [W -> Nat], NEW d, Weighs(d, W, c),
           NEW w \in W, \A v \in W \ {w} : e[v] = c[v]
    PROVE  \E f : Weighs(f, W, e) /\ Shifts(f[W], d[W], c[w], e[w])
  <1> DEFINE f == [T \in SUBSET W |-> IF w \in T THEN d[T \ {w}] + e[w] ELSE d[T]]
  <1>1. d \in [SUBSET W -> Nat] /\ \A T \in SUBSET W : \A v \in T : d[T] = d[T \ {v}] + c[v]
    BY DEF Weighs
  <1>2. \A T \in SUBSET W : w \in T => f[T] = d[T \ {w}] + e[w]
    OBVIOUS
  <1>3. \A T \in SUBSET W : w \notin T => f[T] = d[T]
    OBVIOUS
  <1>4. f \in [SUBSET W -> Nat]
    <2>1. \A T \in SUBSET W : T \ {w} \in SUBSET W /\ e[w] \in Nat
      OBVIOUS
    <2>2. \A T \in SUBSET W : d[T] \in Nat /\ d[T \ {w}] + e[w] \in Nat
      BY <1>1, <2>1
    <2> QED  BY <2>2
  <1> HIDE DEF f
  <1>5. ASSUME NEW T \in SUBSET W, NEW v \in T PROVE f[T] = f[T \ {v}] + e[v]
    <2>1. T \ {v} \in SUBSET W /\ T \ {w} \in SUBSET W /\ v \in W
      OBVIOUS
    <2>2. CASE v = w
      <3>1. f[T] = d[T \ {w}] + e[w] /\ w \notin T \ {w}
        BY <1>2, <2>2
      <3>2. f[T \ {w}] = d[T \ {w}]
        BY <1>3, <2>1, <3>1
      <3> QED  BY <2>2, <3>1, <3>2
    <2>3. CASE v # w /\ w \in T
      <3>1. f[T] = d[T \ {w}] + e[w] /\ f[T \ {v}] = d[(T \ {v}) \ {w}] + e[w]
        BY <1>2, <2>1, <2>3
      <3>2. d[T \ {w}] = d[(T \ {w}) \ {v}] + c[v]
        BY <1>1, <2>1, <2>3
      <3>3. (T \ {w}) \ {v} = (T \ {v}) \ {w} /\ e[v] = c[v]
        BY <2>1, <2>3
      <3>4. (T \ {v}) \ {w} \in SUBSET W
        OBVIOUS
      <3>5. d[(T \ {v}) \ {w}] \in Nat /\ c[v] \in Nat /\ e[w] \in Nat
        <4>1. d[(T \ {v}) \ {w}] \in Nat
          BY ONLY <1>1, <3>4
        <4> QED  BY <2>1, <4>1
      <3>6. d[T \ {w}] = d[(T \ {v}) \ {w}] + e[v]
        BY ONLY <3>2, <3>3
      <3>7. e[v] \in Nat
        BY <2>1
      <3> QED  BY ONLY <3>1, <3>5, <3>6, <3>7
    <2>4. CASE w \notin T
      <3>1. f[T] = d[T] /\ f[T \ {v}] = d[T \ {v}] /\ v # w
        BY <1>3, <2>1, <2>4
      <3> QED  BY <1>1, <2>1, <3>1
    <2> QED  BY <2>2, <2>3, <2>4
  <1>6. f[W] = d[W] - c[w] + e[w]
    <2>1. f[W] = d[W \ {w}] + e[w] /\ d[W] = d[W \ {w}] + c[w]
      BY <1>1, <1>2
    <2>2. d[W \ {w}] \in Nat /\ c[w] \in Nat /\ e[w] \in Nat
      BY <1>1
    <2> QED  BY <2>1, <2>2
  <1>7. ASSUME NEW T \in SUBSET W, \A v \in T : e[v] = 0 PROVE f[T] = 0
    <2>1. \A v \in T \ {w} : c[v] = 0
      BY <1>7
    <2>2. CASE w \in T
      <3>1. T \ {w} \in SUBSET W /\ d[T \ {w}] = 0
        BY <2>1 DEF Weighs
      <3> QED  BY <1>2, <1>7, <2>2, <3>1
    <2>3. CASE w \notin T
      <3>1. d[T] = 0
        BY <2>1, <2>3 DEF Weighs
      <3> QED  BY <1>3, <2>3, <3>1
    <2> QED  BY <2>2, <2>3
  <1> QED  BY <1>4, <1>5, <1>6, <1>7 DEF Weighs, Shifts

\* A member weighs no more than the whole.
LEMMA PartWeighs ==
    ASSUME NEW W, NEW c \in [W -> Nat], NEW d, Weighs(d, W, c), NEW w \in W
    PROVE  d[W] \in Nat /\ c[w] <= d[W]
  <1>1. d[W] \in Nat /\ d[W \ {w}] \in Nat /\ d[W] = d[W \ {w}] + c[w] /\ c[w] \in Nat
    BY DEF Weighs
  <1> QED  BY <1>1

\* Where nobody has a share, nothing weighs.
LEMMA NoWeight ==
    ASSUME NEW W, NEW c \in [W -> Nat], \A w \in W : c[w] = 0
    PROVE  \E d : Weighs(d, W, c) /\ d[W] = 0
  <1> DEFINE d == [T \in SUBSET W |-> 0]
  <1>1. Weighs(d, W, c) /\ d[W] = 0
    BY DEF Weighs
  <1> QED  BY <1>1

\* The catalog has no price below zero, and only a price with a value asks for any.
PricesReserved == \A o \in Offer : o.cost >= 0 /\ (o.cost > 0 => o.priced)

\* What handler w holds for session r and has not recorded yet.
Due(w, r) == IF pc[w] = "addReserved" /\ job[w].ref = r THEN job[w].cost ELSE 0

InFlight(r) == [w \in Worker |-> Due(w, r)]

\* The Release of r has still to hand its money back.
Refunding(r) == \E v \in Worker : pc[v] \in {"resolveAgain", "unreserve"} /\ job[v].ref = r

\* The recorded total is backed until the refund is sent.
Counted(r) == r \notin created \/ r \in active \/ Refunding(r)

Owing(r) == IF Counted(r) THEN reservedTotal[r] ELSE 0

HeldEnough(r) ==
    \E d : Weighs(d, Worker, InFlight(r)) /\ heldFor[r] >= d[Worker] + Owing(r)

HeldInv == \A r \in Ref : HeldEnough(r)

\* Neither what is in flight nor what is owed is below zero.
LEMMA SharesNatural ==
    ASSUME PricesReserved, TypeInv, SettleInv, NEW r \in Ref
    PROVE  /\ InFlight(r) \in [Worker -> Nat]
           /\ Owing(r) \in Nat /\ reservedTotal[r] \in Nat
           /\ heldFor[r] \in Int
  <1>1. NoNegativePrice
    BY DEF PricesReserved, NoNegativePrice
  <1>2. ASSUME NEW w \in Worker PROVE Due(w, r) \in Nat
    <2>1. job[w].cost \in Int /\ job[w].cost >= 0
      BY <1>1 DEF TypeInv, TypeOK, Located, Job
    <2> QED  BY <2>1 DEF Due
  <1>3. reservedTotal[r] \in Int /\ debited[r] \in Nat /\ heldFor[r] \in Int
    BY DEF TypeInv, TypeOK, BalanceTypeOK
  <1>4. debited[r] <= reservedTotal[r]
    BY <1>1 DEF SettleInv, DebitedWithinRecorded
  <1>5. reservedTotal[r] \in Nat
    BY <1>3, <1>4
  <1> QED  BY <1>2, <1>3, <1>5 DEF InFlight, Owing

\* A handler that holds as much more as it comes to owe keeps the balance.
LEMMA HeldFrame ==
    ASSUME PricesReserved, TypeInv, TypeInv', SettleInv, SettleInv', NEW w \in Worker,
           Others(w), NEW r \in Ref, HeldEnough(r),
           heldFor'[r] - Due(w, r)' - Owing(r)' >= heldFor[r] - Due(w, r) - Owing(r)
    PROVE  HeldEnough(r)'
  <1>1. PICK d : Weighs(d, Worker, InFlight(r)) /\ heldFor[r] >= d[Worker] + Owing(r)
    BY DEF HeldEnough
  <1>2. InFlight(r) \in [Worker -> Nat] /\ Owing(r) \in Nat /\ heldFor[r] \in Int
    BY SharesNatural
  <1>3. InFlight(r)' \in [Worker -> Nat] /\ Owing(r)' \in Int /\ heldFor'[r] \in Int
    <2>1. NoNegativePrice
      BY DEF PricesReserved, NoNegativePrice
    <2>2. ASSUME NEW v \in Worker PROVE Due(v, r)' \in Nat
      <3>1. job'[v].cost \in Int /\ job'[v].cost >= 0
        BY <2>1 DEF TypeInv, TypeOK, Located, Job, NoNegativePrice
      <3> QED  BY <3>1 DEF Due
    <2>3. reservedTotal'[r] \in Int /\ heldFor'[r] \in Int
      BY DEF TypeInv, TypeOK, BalanceTypeOK
    <2> QED  BY <2>2, <2>3 DEF InFlight, Owing
  <1>4. \A v \in Worker \ {w} : InFlight(r)'[v] = InFlight(r)[v]
    BY DEF InFlight, Due, Others
  <1>5. PICK f : Weighs(f, Worker, InFlight(r)')
                 /\ Shifts(f[Worker], d[Worker], InFlight(r)[w], InFlight(r)'[w])
    BY <1>1, <1>2, <1>3, <1>4, Reweighed
  <1>6. InFlight(r)[w] = Due(w, r) /\ InFlight(r)'[w] = Due(w, r)'
    BY DEF InFlight
  <1>7. d[Worker] \in Nat /\ Due(w, r) \in Nat /\ Due(w, r)' \in Nat
    BY <1>1, <1>2, <1>3, <1>6, PartWeighs
  <1>8. heldFor'[r] >= f[Worker] + Owing(r)'
    BY <1>1, <1>2, <1>3, <1>5, <1>6, <1>7 DEF Shifts
  <1> QED  BY <1>5, <1>8 DEF HeldEnough

\* What is owed for a session ends with it.
LEMMA OwingFalls ==
    ASSUME PricesReserved, TypeInv, SettleInv, NEW w \in Worker, Others(w), NEW r \in Ref,
           reservedTotal'[r] = reservedTotal[r],
           r \notin created' => r \notin created,
           r \in active' => r \in active \/ r \notin created,
           pc'[w] \in {"resolveAgain", "unreserve"} /\ job'[w].ref = r => Counted(r)
    PROVE  Owing(r)' <= Owing(r)
  <1>1. Counted(r)' => Counted(r)
    BY DEF Counted, Refunding, Others
  <1>2. reservedTotal[r] \in Nat
    BY SharesNatural
  <1> QED  BY <1>1, <1>2 DEF Owing

\* A step that leaves nothing in flight, takes nothing back and owes no more.
LEMMA NothingTaken ==
    ASSUME PricesReserved, TypeInv, TypeInv', SettleInv, SettleInv', NEW w \in Worker,
           Others(w), NEW r \in Ref, HeldEnough(r),
           heldFor'[r] >= heldFor[r], Due(w, r)' = 0, Owing(r)' <= Owing(r) + Due(w, r)
    PROVE  HeldEnough(r)'
  <1>1. Owing(r) \in Nat /\ heldFor[r] \in Int
    BY SharesNatural
  <1>2. Due(w, r) \in Nat
    BY SharesNatural DEF InFlight
  <1>3. Owing(r)' \in Int /\ heldFor'[r] \in Int
    BY DEF TypeInv, TypeOK, BalanceTypeOK, Owing
  <1>4. heldFor'[r] - Due(w, r)' - Owing(r)' >= heldFor[r] - Due(w, r) - Owing(r)
    BY <1>1, <1>2, <1>3
  <1> QED  BY <1>4, HeldFrame

\* The frame of the steps that move no money and put nothing in flight.
LEMMA QuietFrame ==
    ASSUME PricesReserved, TypeInv, TypeInv', SettleInv, SettleInv', HeldInv,
           NEW w \in Worker, Others(w), heldFor' = heldFor, reservedTotal' = reservedTotal,
           created \subseteq created', active' \subseteq active \union (created' \ created),
           pc'[w] = "addReserved" => job'[w].cost = 0,
           pc'[w] \in {"resolveAgain", "unreserve"} => Counted(job'[w].ref)
    PROVE  HeldInv'
  <1>1. ASSUME NEW r \in Ref PROVE HeldEnough(r)'
    <2>1. Owing(r)' <= Owing(r)
      BY OwingFalls
    <2>2. heldFor[r] \in Int /\ Owing(r) \in Nat /\ Due(w, r) \in Nat
      BY SharesNatural DEF InFlight
    <2>3. Owing(r)' \in Int
      BY DEF TypeInv, TypeOK, Owing
    <2>4. Owing(r)' <= Owing(r) + Due(w, r) /\ heldFor'[r] >= heldFor[r]
      BY <2>1, <2>2, <2>3
    <2>5. Due(w, r)' = 0
      BY DEF Due
    <2> QED  BY <2>4, <2>5, NothingTaken DEF HeldInv
  <1> QED  BY <1>1 DEF HeldInv

\* A request that arrives holds nothing.
LEMMA RequestHolds ==
    ASSUME PricesReserved, TypeInv, TypeInv', SettleInv, SettleInv', HeldInv,
           NEW w \in Worker, ConsumerStep(w)
    PROVE  HeldInv'
  <1> USE DEF sessionVars, historyVars, balanceVars
  <1>t. job \in [Worker -> Job] /\ pc \in [Worker -> Label]
    BY DEF TypeInv, TypeOK
  <1>1. ASSUME NEW s \in Subscriber, NEW n \in UsageCount, Create(w, s, n) PROVE HeldInv'
    <2>1. /\ created \subseteq created' /\ active' \subseteq active \union (created' \ created)
          /\ heldFor' = heldFor /\ reservedTotal' = reservedTotal
      BY <1>1 DEF Create
    <2>2. Others(w) /\ pc'[w] = "rate"
      BY <1>t, <1>1 DEF Create, Goto, Others
    <2> QED  BY <2>1, <2>2, QuietFrame
  <1>2. ASSUME NEW r \in Ref, NEW n \in UsageCount, NEW u \in UsedUnits, Update(w, r, n, u)
        PROVE  HeldInv'
    <2>1. /\ Others(w) /\ pc'[w] = "rate"
          /\ UNCHANGED <<sessionVars, heldFor>>
      BY <1>t, <1>2 DEF Update, Goto, Others
    <2> QED  BY <2>1, QuietFrame
  <1>3. ASSUME NEW r \in Ref, NEW u \in Nat, Release(w, r, u) PROVE HeldInv'
    <2>1. /\ Others(w) /\ pc'[w] = "readGranted"
          /\ UNCHANGED <<sessionVars, heldFor>>
      BY <1>t, <1>3 DEF Release, Goto, Others
    <2> QED  BY <2>1, QuietFrame
  <1> QED  BY <1>1, <1>2, <1>3, ChargingAssumption DEF ConsumerStep

\* A price that is not reserved records nothing; the other steps of rating and
\* answering, and a death, move no money either.
LEMMA RatingHolds ==
    ASSUME PricesReserved, TypeInv, TypeInv', SettleInv, SettleInv', HeldInv,
           NEW w \in Worker,
           \/ Rate(w) \/ ResolveBucket(w, "resolve", "reserve")
           \/ AddGranted(w) \/ WriteCdr(w) \/ Answer(w) \/ ReadGranted(w)
           \/ ResolveBucket(w, "resolveAgain", "unreserve") \/ Crash(w)
    PROVE  HeldInv'
  <1> USE DEF sessionVars, historyVars, balanceVars
  <1>t. job \in [Worker -> Job] /\ pc \in [Worker -> Label]
    BY DEF TypeInv, TypeOK
  <1>1. ASSUME NEW o \in Offer, pc[w] = "rate",
               job' = [job EXCEPT ![w].cost = o.cost, ![w].units = o.units],
               Goto(w, IF ToReserve(o) THEN "resolve" ELSE "addReserved"),
               UNCHANGED <<balanceVars, sessionVars>>
        PROVE  HeldInv'
    <2>1. Others(w) /\ pc'[w] = IF ToReserve(o) THEN "resolve" ELSE "addReserved"
      BY <1>t, <1>1 DEF Goto, Others
    <2>2. ASSUME pc'[w] = "addReserved" PROVE job'[w].cost = 0
      <3>1. o.cost = 0
        <4>1. ~ToReserve(o) /\ o.cost \in Int
          BY <2>1, <2>2, ChargingAssumption
        <4> QED  BY <4>1 DEF ToReserve, PricesReserved
      <3>2. job'[w].cost = o.cost
        BY <1>t, <1>1 DEF Job
      <3> QED  BY <3>1, <3>2
    <2> QED  BY <1>1, <2>1, <2>2, QuietFrame
  <1>2. ASSUME Goto(w, "cdr"), UNCHANGED <<job, balanceVars, sessionVars>> PROVE HeldInv'
    <2>1. Others(w) /\ pc'[w] = "cdr"
      BY <1>t, <1>2 DEF Goto, Others
    <2> QED  BY <1>2, <2>1, QuietFrame
  <1>3. CASE \/ AddGranted(w) \/ WriteCdr(w) \/ Answer(w) \/ ReadGranted(w) \/ Crash(w)
    <2>1. /\ Others(w) /\ pc'[w] \notin {"addReserved", "resolveAgain", "unreserve"}
          /\ UNCHANGED <<created, active, reservedTotal, heldFor>>
      BY <1>t, <1>3 DEF AddGranted, WriteCdr, Answer, ReadGranted, Crash, Goto, Return, Others
    <2> QED  BY <2>1, QuietFrame
  <1>4. CASE ResolveBucket(w, "resolve", "reserve") \/ ResolveBucket(w, "resolveAgain", "unreserve")
    <2>1. /\ Others(w) /\ UNCHANGED <<sessionVars, heldFor>> /\ job'[w].ref = job[w].ref
          /\ \/ pc'[w] = "reserve"
             \/ pc[w] = "resolveAgain" /\ pc'[w] = "unreserve"
      BY <1>t, <1>4 DEF ResolveBucket, Goto, Others, Job
    <2>2. pc[w] = "resolveAgain" => Counted(job[w].ref)
      BY DEF Counted, Refunding
    <2> QED  BY <2>1, <2>2, QuietFrame
  <1> QED  BY <1>1, <1>2, <1>3, <1>4 DEF Rate

\* The SREM leaves the total to the Release it let through, and drops one there is
\* nothing to hand back for; the debit touches another column.
LEMMA SettlingHolds ==
    ASSUME PricesReserved, TypeInv, TypeInv', SettleInv, SettleInv', HeldInv,
           NEW w \in Worker, Remove(w) \/ CommitCall(w) \/ CommitLost(w)
    PROVE  HeldInv'
  <1> USE DEF sessionVars, balanceVars
  <1>t. job \in [Worker -> Job] /\ pc \in [Worker -> Label]
    BY DEF TypeInv, TypeOK
  <1>1. CASE Remove(w)
    <2>1. /\ created' = created /\ active' \subseteq active
          /\ heldFor' = heldFor /\ reservedTotal' = reservedTotal
      BY <1>1 DEF Remove
    <2>2. Others(w) /\ pc'[w] \in {"idle", "resolveAgain"}
      BY <1>t, <1>1 DEF Remove, Goto, Return, Others
    <2>3. ASSUME pc'[w] = "resolveAgain" PROVE Counted(job'[w].ref)
      <3>1. job'[w].ref = job[w].ref /\ job[w].ref \in active
        BY <1>t, <1>1, <2>3 DEF Remove, Admitted, Goto, Return, Job
      <3> QED  BY <3>1 DEF Counted
    <2> QED  BY <2>1, <2>2, <2>3, QuietFrame
  <1>2. CASE CommitCall(w) \/ CommitLost(w)
    <2>1. Others(w) /\ pc'[w] = "idle" /\ UNCHANGED sessionVars
      BY <1>t, <1>2 DEF CommitCall, CommitLost, Return, Others
    <2>2. heldFor' = heldFor
      BY <1>2 DEF CommitCall, CommitLost, CommitDebit, AdjustBalance, AdjustCompleted, AdjustFailed
    <2> QED  BY <2>1, <2>2, QuietFrame
  <1> QED  BY <1>1, <1>2

\* A reservation holds exactly what comes into flight with its answer, and at least
\* nothing when the answer is lost; recording it turns what is in flight into what
\* is owed.
LEMMA ReservationHolds ==
    ASSUME PricesReserved, TypeInv, TypeInv', SettleInv, SettleInv', HeldInv,
           NEW w \in Worker, Reserve(w) \/ ReserveLost(w) \/ AddReserved(w)
    PROVE  HeldInv'
  <1> USE DEF sessionVars, balanceVars
  <1> DEFINE q == job[w].ref
  <1>t. /\ job \in [Worker -> Job] /\ pc \in [Worker -> Label]
        /\ heldFor \in [Ref -> Int] /\ reservedTotal \in [Ref -> Int]
    BY DEF TypeInv, TypeOK, BalanceTypeOK
  <1>c. job[w].cost \in Nat
    BY <1>t DEF TypeInv, Located, NoNegativePrice, PricesReserved, Job
  <1>o. ASSUME NEW r \in Ref
        PROVE  /\ heldFor[r] \in Int /\ Owing(r) \in Nat /\ Due(w, r) \in Nat
               /\ Owing(r)' \in Int /\ HeldEnough(r)
    <2>1. Owing(r)' \in Int
      BY DEF TypeInv, TypeOK, Owing
    <2> QED  BY <2>1, SharesNatural DEF InFlight, HeldInv
  <1>1. CASE Reserve(w) \/ ReserveLost(w)
    <2>1. /\ Others(w) /\ UNCHANGED sessionVars /\ job' = job /\ pc[w] = "reserve"
          /\ pc'[w] \in {"addReserved", "cdr"}
      BY <1>t, <1>1 DEF Reserve, ReserveLost, Goto, Others
    <2>2. \/ heldFor' = heldFor /\ pc'[w] = "cdr"
          \/ heldFor' = [heldFor EXCEPT ![q] = @ + job[w].cost]
      BY <1>t, <1>1 DEF Reserve, ReserveLost, Goto, Confirmed, ReserveBalance, ReserveCompleted,
                        ReserveFailed, Credit
    <2>3. ASSUME NEW r \in Ref PROVE HeldEnough(r)'
      <3>1. Owing(r)' <= Owing(r)
        BY <2>1, OwingFalls
      <3>2. Due(w, r) = 0
        BY <2>1 DEF Due
      <3>3. heldFor'[r] - Due(w, r)' >= heldFor[r]
        <4>1. CASE r = q
          BY <1>t, <1>c, <2>1, <2>2, <4>1 DEF Due
        <4>2. CASE r # q
          BY <1>t, <2>1, <2>2, <4>2 DEF Due
        <4> QED  BY <4>1, <4>2
      <3>4. heldFor'[r] \in Int /\ Due(w, r)' \in Int
        BY <1>t, <1>c, <2>1 DEF TypeInv, TypeOK, BalanceTypeOK, Due
      <3> QED  BY <1>o, <2>1, <3>1, <3>2, <3>3, <3>4, HeldFrame
    <2> QED  BY <2>3 DEF HeldInv
  <1>2. CASE AddReserved(w)
    <2>1. /\ Others(w) /\ UNCHANGED <<created, active, heldFor>> /\ job' = job
          /\ pc[w] = "addReserved" /\ pc'[w] = "addGranted"
          /\ reservedTotal' = [reservedTotal EXCEPT ![q] = @ + job[w].cost]
      BY <1>t, <1>2 DEF AddReserved, Goto, Others
    <2>2. ASSUME NEW r \in Ref PROVE HeldEnough(r)'
      <3>1. Due(w, r)' = 0 /\ heldFor'[r] >= heldFor[r]
        BY <1>o, <2>1 DEF Due
      <3>2. CASE r # q
        <4>1. Owing(r)' <= Owing(r)
          BY <1>t, <2>1, <3>2, OwingFalls
        <4> QED  BY <1>o, <2>1, <3>1, <4>1, NothingTaken
      <3>3. CASE r = q
        <4>1. Counted(r)' => Counted(r)
          BY <2>1 DEF Counted, Refunding, Others
        <4>2. Due(w, r) = job[w].cost /\ reservedTotal'[r] = reservedTotal[r] + job[w].cost
          BY <1>t, <2>1, <3>3 DEF Due
        <4>3. reservedTotal[r] \in Nat
          BY SharesNatural
        <4>4. Owing(r)' <= Owing(r) + Due(w, r)
          BY <1>c, <4>1, <4>2, <4>3 DEF Owing
        <4> QED  BY <1>o, <2>1, <3>1, <4>4, NothingTaken
      <3> QED  BY <3>2, <3>3
    <2> QED  BY <2>2 DEF HeldInv
  <1> QED  BY <1>1, <1>2

\* The refund takes back no more than was recorded, and with it the session is owed
\* nothing: only its own Release could have been waiting to hand money back.
LEMMA RefundHolds ==
    ASSUME PricesReserved, TypeInv, TypeInv', SettleInv, SettleInv', HeldInv,
           NEW w \in Worker, Unreserve(w) \/ UnreserveLost(w)
    PROVE  HeldInv'
  <1> USE DEF sessionVars, balanceVars
  <1> DEFINE q == job[w].ref
  <1>t. /\ job \in [Worker -> Job] /\ pc \in [Worker -> Label]
        /\ heldFor \in [Ref -> Int] /\ reservedTotal \in [Ref -> Int]
    BY DEF TypeInv, TypeOK, BalanceTypeOK
  <1>1. /\ Others(w) /\ UNCHANGED sessionVars /\ pc[w] = "unreserve"
        /\ pc'[w] \in {"idle", "debit"}
    BY <1>t DEF Unreserve, UnreserveLost, Goto, Return, Others
  <1>2. \/ heldFor' = heldFor
        \/ heldFor' = [heldFor EXCEPT ![q] = @ - job[w].total]
    <2>1. job[w].total \in Int
      BY <1>t DEF Job
    <2> QED  BY <1>t, <2>1 DEF Unreserve, UnreserveLost, Refund, ReserveBalance, ReserveCompleted,
                               ReserveFailed, Credit
  <1>3. /\ q \in created \ active /\ job[w].total <= reservedTotal[q] /\ job[w].total \in Int
        /\ \A v \in Worker : Settling(v) /\ job[v].ref = q => v = w
    <2>1. Settling(w)
      BY <1>1 DEF Settling
    <2>2. Covered(w)
      BY DEF SettleInv, NoNegativePrice, PricesReserved
    <2> QED  BY <1>t, <1>1, <2>1, <2>2 DEF SettleInv, OneSettlement, Covered, Releasing, Job
  <1>4. ASSUME NEW r \in Ref PROVE HeldEnough(r)'
    <2>1. /\ heldFor[r] \in Int /\ Owing(r) \in Nat /\ Due(w, r) \in Nat /\ HeldEnough(r)
          /\ reservedTotal[r] \in Nat
      BY SharesNatural DEF InFlight, HeldInv
    <2>2. Due(w, r) = 0 /\ Due(w, r)' = 0
      BY <1>1 DEF Due
    <2>3. CASE r # q
      <3>1. Owing(r)' <= Owing(r)
        BY <1>1, OwingFalls
      <3>2. heldFor'[r] = heldFor[r]
        BY <1>t, <1>2, <2>3
      <3>3. heldFor'[r] >= heldFor[r] /\ Owing(r)' <= Owing(r) + Due(w, r)
        BY <2>1, <2>2, <3>1, <3>2
      <3> QED  BY <1>1, <2>1, <2>2, <3>3, NothingTaken
    <2>4. CASE r = q
      <3>1. Owing(r) = reservedTotal[r]
        BY <1>1, <2>4 DEF Owing, Counted, Refunding
      <3>2. ~Counted(r)'
        BY <1>1, <1>3, <2>4 DEF Counted, Refunding, Others, Settling
      <3>3. heldFor'[r] >= heldFor[r] - reservedTotal[r] /\ heldFor'[r] \in Int
        BY <1>t, <1>2, <1>3, <2>1, <2>4
      <3>4. Owing(r)' = 0
        BY <3>2 DEF Owing
      <3>5. heldFor'[r] - Due(w, r)' - Owing(r)' >= heldFor[r] - Due(w, r) - Owing(r)
        BY <2>1, <2>2, <3>1, <3>3, <3>4
      <3> QED  BY <1>1, <2>1, <3>5, HeldFrame
    <2> QED  BY <2>3, <2>4
  <1> QED  BY <1>4 DEF HeldInv

\* Nothing is held, in flight or owed at first.
LEMMA InitHeldInv == Init => HeldInv
  <1> SUFFICES ASSUME Init, NEW r \in Ref PROVE HeldEnough(r)
    BY DEF HeldInv
  <1>1. InFlight(r) \in [Worker -> Nat] /\ \A w \in Worker : InFlight(r)[w] = 0
    BY DEF Init, InFlight, Due
  <1>2. PICK d : Weighs(d, Worker, InFlight(r)) /\ d[Worker] = 0
    BY <1>1, NoWeight
  <1>3. heldFor[r] = 0 /\ Owing(r) = 0
    BY DEF Init, BalanceInit, Owing
  <1> QED  BY <1>2, <1>3 DEF HeldEnough

\* Every step keeps what is held above what is in flight and owed.
LEMMA HeldInvInductive ==
    ASSUME PricesReserved, TypeInv, TypeInv', SettleInv, SettleInv', HeldInv, [Next]_vars
    PROVE  HeldInv'
  <1>1. ASSUME NEW w \in Worker, ConsumerStep(w) \/ HandlerStep(w) \/ Crash(w) PROVE HeldInv'
    BY <1>1, RequestHolds, RatingHolds, SettlingHolds, ReservationHolds, RefundHolds
       DEF HandlerStep
  <1>2. CASE \/ \E s \in Subscriber : MoveSubscriber(s)
             \/ \E b \in Bucket, amount \in TopupAmount : Topup(b, amount)
             \/ UNCHANGED vars
    <2>1. UNCHANGED <<sessionVars, pc, job, heldFor>>
      BY <1>2 DEF MoveSubscriber, Topup, TopupBalance, vars, balanceVars
    <2> QED  BY <2>1 DEF sessionVars, HeldInv, HeldEnough, InFlight, Due, Owing, Counted, Refunding
  <1> QED  BY <1>1, <1>2 DEF Next

\* What the session store claims, the balance function holds, whatever is
\* in flight.
LEMMA HeldCovers ==
    ASSUME PricesReserved, TypeInv, SettleInv, HeldInv
    PROVE  HeldCoversRecorded
  <1> SUFFICES ASSUME NEW r \in Ref
               PROVE  heldFor[r] >= 0 /\ (r \in active => heldFor[r] >= reservedTotal[r])
    BY DEF HeldCoversRecorded, TypeInv, TypeOK
  <1>1. PICK d : Weighs(d, Worker, InFlight(r)) /\ heldFor[r] >= d[Worker] + Owing(r)
    BY DEF HeldEnough, HeldInv
  <1>2. d[Worker] \in Nat
    BY <1>1 DEF Weighs
  <1>3. Owing(r) \in Nat /\ heldFor[r] \in Int
    BY SharesNatural
  <1>4. r \in active => Owing(r) = reservedTotal[r]
    BY DEF Owing, Counted
  <1> QED  BY <1>1, <1>2, <1>3, <1>4

\* The session store never claims more money than the balance function holds for the
\* session: for any number of Updates and Releases in flight, whatever answer is
\* lost and whichever handler dies, with every catalog whose prices are not below
\* zero and have a value where they ask for one.
THEOREM HeldCoversRecordedHolds ==
    ASSUME PricesReserved
    PROVE  Spec => []HeldCoversRecorded
  <1>1. TypeInv /\ TypeInv' /\ SettleInv /\ SettleInv' /\ HeldInv /\ [Next]_vars => HeldInv'
    BY HeldInvInductive
  <1>2. TypeInv /\ SettleInv /\ HeldInv => HeldCoversRecorded
    BY HeldCovers
  <1> QED  BY <1>1, <1>2, InitHeldInv, SettledAlways, PTL DEF Spec

-----------------------------------------------------------------------------
(* What a session that nothing disturbed has held for it.                  *)
(*                                                                         *)
(* HeldInv bounds what is held from below, whatever happens.  That nothing *)
(* more is held needs to know more of the handlers: until its Release a    *)
(* session's money is exactly what is recorded and in flight, a Release    *)
(* that no Update overlaps reads all of it, and the bucket that is asked   *)
(* to give it back has it reserved, if it is the one that was asked for    *)
(* it.  None of this needs the requests of a session to come one by one.   *)

Steady == ~rerouted

Continues(w) ==
    /\ pc'[w] # "idle" /\ job'[w].ref = job[w].ref
    /\ job'[w].op = job[w].op /\ job'[w].total = job[w].total

Ends(w) == pc'[w] = "idle" /\ job'[w].ref = NoRef

\* A handler works on a session as long as it runs, a Release in its own places; only
\* a Release with something to hand back gets to do so.
Working(v) ==
    /\ pc[v] = "idle" => job[v].ref = NoRef
    /\ pc[v] # "idle" => (job[v].op = "Release" <=> pc[v] \in Releasing)
    /\ pc[v] \in {"resolveAgain", "unreserve"} => job[v].total > 0

WorkInv == \A v \in Worker : Working(v)

\* Where a handler's next step can take it.
Onward(w) ==
    /\ Others(w) /\ pc[w] # "idle" /\ (Continues(w) \/ Ends(w))
    /\ UNCHANGED <<created, supiOf>>
    /\ pc'[w] # "idle" => (pc[w] \in Releasing <=> pc'[w] \in Releasing)
    /\ pc'[w] \in {"resolveAgain", "unreserve"}
           => pc[w] \in {"resolveAgain", "unreserve"} \/ job[w].total > 0

\* Whatever a handler does takes it onward: rating and answering,
LEMMA RatingOnward ==
    ASSUME TypeInv, NEW w \in Worker,
           \/ Rate(w) \/ ResolveBucket(w, "resolve", "reserve") \/ Reserve(w) \/ ReserveLost(w)
           \/ AddReserved(w) \/ AddGranted(w) \/ WriteCdr(w) \/ Answer(w)
    PROVE  /\ Onward(w) /\ drawsFrom' = drawsFrom /\ active' = active
           /\ pc[w] \notin Releasing
  <1> USE DEF sessionVars
  <1>t. job \in [Worker -> Job] /\ pc \in [Worker -> Label] /\ NoJob.ref = NoRef
    BY DEF TypeInv, TypeOK, NoJob
  <1>1. CASE Rate(w)
    <2>1. /\ UNCHANGED <<created, supiOf, active, drawsFrom>> /\ pc[w] = "rate"
          /\ pc'[w] \in {"resolve", "addReserved", "cdr"} /\ \A v \in Worker \ {w} : pc'[v] = pc[v]
      BY <1>t, <1>1 DEF Rate, Goto
    <2>2. /\ \A v \in Worker \ {w} : job'[v] = job[v]
          /\ job'[w].ref = job[w].ref /\ job'[w].op = job[w].op /\ job'[w].total = job[w].total
      <3>1. CASE UNCHANGED job
        BY <3>1
      <3>2. ASSUME NEW o \in Offer, job' = [job EXCEPT ![w].cost = o.cost, ![w].units = o.units]
            PROVE  <2>2
        <4>1. job'[w] = [job[w] EXCEPT !.cost = o.cost, !.units = o.units] /\ job[w] \in Job
          BY <1>t, <3>2
        <4>2. \A v \in Worker \ {w} : job'[v] = job[v]
          BY <1>t, <3>2
        <4> QED  BY <4>1, <4>2 DEF Job
      <3> QED  BY <1>1, <3>1, <3>2 DEF Rate
    <2> QED  BY <2>1, <2>2 DEF Onward, Others, Continues, Releasing
  <1>2. CASE ResolveBucket(w, "resolve", "reserve")
    <2>1. /\ UNCHANGED <<created, supiOf, active, drawsFrom>> /\ pc[w] = "resolve"
          /\ pc' = [pc EXCEPT ![w] = "reserve"] /\ \E b : job' = [job EXCEPT ![w].bucket = b]
      BY <1>2 DEF ResolveBucket, Goto
    <2> QED  BY <1>t, <2>1 DEF Onward, Others, Continues, Releasing, Job
  <1>3. CASE Reserve(w) \/ ReserveLost(w) \/ AddReserved(w) \/ AddGranted(w)
    <2>1. /\ UNCHANGED <<created, supiOf, active, drawsFrom, job>>
          /\ pc[w] \in {"reserve", "addReserved", "addGranted"}
          /\ \E l \in {"addReserved", "addGranted", "cdr"} : pc' = [pc EXCEPT ![w] = l]
      BY <1>3 DEF Reserve, ReserveLost, AddReserved, AddGranted, Goto
    <2> QED  BY <1>t, <2>1 DEF Onward, Others, Continues, Releasing
  <1>4. CASE WriteCdr(w)
    <2>1. /\ UNCHANGED <<created, supiOf, active, drawsFrom>> /\ pc[w] = "cdr"
          /\ pc' = [pc EXCEPT ![w] = "rate"]
          /\ job' = [job EXCEPT ![w].left = @ - 1, ![w].cost = 0, ![w].units = 0,
                                ![w].bucket = NoBucket]
      BY <1>4 DEF WriteCdr, Goto
    <2>2. /\ job'[w] = [job[w] EXCEPT !.left = job[w].left - 1, !.cost = 0, !.units = 0,
                                     !.bucket = NoBucket]
          /\ job[w] \in Job /\ \A v \in Worker \ {w} : job'[v] = job[v]
      BY <1>t, <2>1
    <2>3. /\ job'[w].ref = job[w].ref /\ job'[w].op = job[w].op /\ job'[w].total = job[w].total
      BY <2>2 DEF Job
    <2> QED  BY <1>t, <2>1, <2>2, <2>3 DEF Onward, Others, Continues, Releasing
  <1>5. CASE Answer(w)
    <2>1. UNCHANGED <<created, supiOf, active, drawsFrom>> /\ pc[w] = "rate" /\ Return(w)
      BY <1>5 DEF Answer
    <2> QED  BY <1>t, <2>1 DEF Onward, Others, Ends, Return, Releasing
  <1> QED  BY <1>1, <1>2, <1>3, <1>4, <1>5

\* reading, removing and settling,
LEMMA ReleaseOnward ==
    ASSUME TypeInv, NEW w \in Worker,
           \/ ReadGranted(w) \/ Remove(w) \/ ResolveBucket(w, "resolveAgain", "unreserve")
           \/ Unreserve(w) \/ UnreserveLost(w) \/ CommitCall(w) \/ CommitLost(w)
    PROVE  /\ Onward(w) /\ drawsFrom' = drawsFrom /\ reservedTotal' = reservedTotal
           /\ pc[w] \in Releasing
  <1> USE DEF sessionVars
  <1>t. job \in [Worker -> Job] /\ pc \in [Worker -> Label] /\ NoJob.ref = NoRef
    BY DEF TypeInv, TypeOK, NoJob
  <1>1. CASE ReadGranted(w)
    <2>1. /\ UNCHANGED <<created, supiOf, drawsFrom, reservedTotal>> /\ pc[w] = "readGranted"
          /\ pc' = [pc EXCEPT ![w] = "remove"] /\ \E n : job' = [job EXCEPT ![w].units = n]
      BY <1>1 DEF ReadGranted, Goto
    <2> QED  BY <1>t, <2>1 DEF Onward, Others, Continues, Releasing, Job
  <1>2. CASE ResolveBucket(w, "resolveAgain", "unreserve")
    <2>1. /\ UNCHANGED <<created, supiOf, drawsFrom, reservedTotal>> /\ pc[w] = "resolveAgain"
          /\ pc' = [pc EXCEPT ![w] = "unreserve"] /\ \E b : job' = [job EXCEPT ![w].bucket = b]
      BY <1>2 DEF ResolveBucket, Goto
    <2> QED  BY <1>t, <2>1 DEF Onward, Others, Continues, Releasing, Job
  <1>3. CASE Remove(w)
    <2>1. UNCHANGED <<created, supiOf, drawsFrom, reservedTotal>> /\ pc[w] = "remove"
      BY <1>3 DEF Remove
    <2>2. CASE Return(w)
      BY <1>t, <2>1, <2>2 DEF Onward, Others, Ends, Return, Releasing
    <2>3. CASE /\ job[w].total > 0 /\ Goto(w, "resolveAgain")
               /\ \E n : job' = [job EXCEPT ![w].debit = n]
      BY <1>t, <2>1, <2>3 DEF Onward, Others, Continues, Goto, Releasing, Job
    <2> QED  BY <1>3, <2>2, <2>3 DEF Remove, Outstanding
  <1>4. CASE Unreserve(w) \/ UnreserveLost(w) \/ CommitCall(w) \/ CommitLost(w)
    <2>1. /\ UNCHANGED <<created, supiOf, drawsFrom, reservedTotal>>
          /\ pc[w] \in {"unreserve", "debit"}
          /\ Return(w) \/ (Goto(w, "debit") /\ job' = job)
      BY <1>4 DEF Unreserve, UnreserveLost, CommitCall, CommitLost
    <2>2. CASE Return(w)
      BY <1>t, <2>1, <2>2 DEF Onward, Others, Ends, Return, Releasing
    <2>3. CASE Goto(w, "debit") /\ job' = job
      BY <1>t, <2>1, <2>3 DEF Onward, Others, Continues, Goto, Releasing
    <2> QED  BY <2>1, <2>2, <2>3
  <1> QED  BY <1>1, <1>2, <1>3, <1>4

\* and a death.
LEMMA CrashOnward ==
    ASSUME TypeInv, NEW w \in Worker, Crash(w)
    PROVE  /\ Onward(w) /\ Ends(w)
           /\ UNCHANGED <<active, reservedTotal, drawsFrom>> /\ UNCHANGED balanceVars
  <1>1. /\ UNCHANGED <<created, supiOf, active, reservedTotal, drawsFrom>>
        /\ UNCHANGED balanceVars /\ pc[w] # "idle" /\ Return(w)
    BY DEF Crash, sessionVars
  <1>2. job \in [Worker -> Job] /\ pc \in [Worker -> Label] /\ NoJob.ref = NoRef
    BY DEF TypeInv, TypeOK, NoJob
  <1> QED  BY <1>1, <1>2 DEF Onward, Others, Ends, Return, Releasing

\* A handler that steps, or starts on a session, leaves every handler at work.
LEMMA HandlerWorks ==
    ASSUME WorkInv, NEW w \in Worker, Onward(w)
    PROVE  WorkInv'
  <1>1. Working(w)'
    BY DEF WorkInv, Working, Onward, Continues, Ends, Releasing
  <1>2. ASSUME NEW v \in Worker \ {w} PROVE Working(v)'
    BY DEF WorkInv, Working, Onward, Others
  <1> QED  BY <1>1, <1>2 DEF WorkInv

\* A request finds its handler idle, and puts it to work.
LEMMA RequestWorks ==
    ASSUME WorkInv, TypeInv, NEW w \in Worker, ConsumerStep(w)
    PROVE  WorkInv' /\ Others(w) /\ pc[w] = "idle" /\ job[w].ref = NoRef /\ drawsFrom' = drawsFrom
  <1>t. job \in [Worker -> Job] /\ pc \in [Worker -> Label]
    BY DEF TypeInv, TypeOK
  <1>1. /\ pc[w] = "idle" /\ drawsFrom' = drawsFrom
        /\ \E l \in {"rate", "readGranted"} :
              /\ pc' = [pc EXCEPT ![w] = l]
              /\ \E j : /\ job' = [job EXCEPT ![w] = j]
                        /\ j.op = "Release" <=> l = "readGranted"
    <2>1. ASSUME NEW s, NEW n, Create(w, s, n) PROVE <1>1
      <3>1. /\ pc[w] = "idle" /\ drawsFrom' = drawsFrom /\ pc' = [pc EXCEPT ![w] = "rate"]
            /\ \E r \in Ref : job' = [job EXCEPT ![w] = [NoJob EXCEPT !.op = "Create", !.ref = r,
                                                                      !.left = n]]
        BY <2>1, Zenon DEF Create, Goto
      <3>2. \A r : [NoJob EXCEPT !.op = "Create", !.ref = r, !.left = n].op = "Create"
        BY DEF NoJob
      <3> QED  BY <3>1, <3>2
    <2>2. ASSUME NEW r \in Ref, NEW n, NEW u, Update(w, r, n, u) PROVE <1>1
      <3>1. pc[w] = "idle" /\ drawsFrom' = drawsFrom /\ pc' = [pc EXCEPT ![w] = "rate"]
        BY <2>2, Zenon DEF Update, Goto
      <3>2. job' = [job EXCEPT ![w] = [NoJob EXCEPT !.op = "Update", !.ref = r, !.left = n,
                                                  !.used = u]]
        BY <2>2, Zenon DEF Update
      <3>3. [NoJob EXCEPT !.op = "Update", !.ref = r, !.left = n, !.used = u].op = "Update"
        BY DEF NoJob
      <3> QED  BY ONLY <3>1, <3>2, <3>3
    <2>3. ASSUME NEW r \in Ref, NEW u, Release(w, r, u) PROVE <1>1
      <3>1. /\ pc[w] = "idle" /\ drawsFrom' = drawsFrom /\ pc' = [pc EXCEPT ![w] = "readGranted"]
            /\ job' = [job EXCEPT ![w] = [NoJob EXCEPT !.op = "Release", !.ref = r, !.used = u,
                                                     !.total = reservedTotal[r]]]
        BY <2>3, ReleaseArrives, Zenon
      <3>2. [NoJob EXCEPT !.op = "Release", !.ref = r, !.used = u,
                          !.total = reservedTotal[r]].op = "Release"
        BY DEF NoJob
      <3> QED  BY <3>1, <3>2
    <2> QED  BY <2>1, <2>2, <2>3, Zenon DEF ConsumerStep
  <1>2. Others(w) /\ job[w].ref = NoRef
    BY <1>t, <1>1 DEF Others, WorkInv, Working
  <1>3. Working(w)'
    BY <1>t, <1>1 DEF Working, Releasing
  <1>4. ASSUME NEW v \in Worker \ {w} PROVE Working(v)'
    BY <1>2 DEF WorkInv, Working, Others
  <1> QED  BY <1>1, <1>2, <1>3, <1>4 DEF WorkInv


-----------------------------------------------------------------------------
(* The bucket of a subscriber covers what its sessions have held. *)

\* What is noted of a session, or of the buckets, is never taken back.
LEMMA DeviationsStay ==
    ASSUME [Next]_vars
    PROVE  disturbed \subseteq disturbed' /\ (Steady' => Steady)
  <1> DEFINE Stays == disturbed \subseteq disturbed' /\ (Steady' => Steady)
  <1>1. ASSUME disturbed' = disturbed, rerouted => rerouted' PROVE Stays
    <2>1. disturbed \subseteq disturbed'
      BY ONLY <1>1
    <2> QED  BY <1>1, <2>1, Zenon DEF Steady
  <1>2. ASSUME NEW r, NEW c, Disturb(r, c) PROVE Stays
    <2>1. disturbed' \in {disturbed, disturbed \union {r}}
      BY <1>2 DEF Disturb
    <2>2. rerouted' = rerouted
      BY <1>2, Zenon DEF Disturb
    <2>3. disturbed \subseteq disturbed'
      BY ONLY <2>1
    <2> QED  BY <2>2, <2>3, Zenon DEF Steady
  <1>3. ASSUME UNCHANGED deviationVars PROVE Stays
    <2>1. disturbed' = disturbed /\ rerouted' = rerouted
      BY <1>3, Zenon DEF deviationVars
    <2>2. rerouted => rerouted'
      BY <2>1, Zenon
    <2> QED  BY <1>1, <2>1, <2>2, Zenon
  <1> HIDE DEF Stays
  <1>4. ASSUME NEW w \in Worker, ConsumerStep(w) PROVE Stays
    <2>1. ASSUME NEW s, NEW n, Create(w, s, n) PROVE UNCHANGED deviationVars
      BY <2>1, Zenon DEF Create, historyVars, deviationVars
    <2>2. ASSUME NEW r, NEW n, NEW u, Update(w, r, n, u) PROVE Stays
      BY <2>2, <1>2, Zenon DEF Update
    <2>3. ASSUME NEW r, NEW u, Release(w, r, u) PROVE Stays
      BY <2>3, <1>2, Zenon DEF Release
    <2> QED  BY <1>3, <1>4, <2>1, <2>2, <2>3, Zenon DEF ConsumerStep
  <1>5. ASSUME NEW w \in Worker, HandlerStep(w) \/ Crash(w) PROVE Stays
    <2>1. ASSUME Rate(w) \/ Reserve(w) \/ AddReserved(w) \/ AddGranted(w) PROVE Stays
      BY <2>1, <1>3, Zenon DEF Rate, Reserve, AddReserved, AddGranted, historyVars, deviationVars
    <2>2. ASSUME WriteCdr(w) \/ Answer(w) \/ ReadGranted(w) PROVE Stays
      BY <2>2, <1>3, Zenon DEF WriteCdr, Answer, ReadGranted, historyVars, deviationVars
    <2>3. ASSUME Remove(w) \/ Unreserve(w) \/ CommitCall(w) \/ CommitLost(w) PROVE Stays
      BY <2>3, <1>3, Zenon DEF Remove, Unreserve, CommitCall, CommitLost, historyVars,
                               deviationVars
    <2>4. ASSUME ReserveLost(w) \/ UnreserveLost(w) \/ Crash(w) PROVE Stays
      BY <2>4, <1>2, Zenon DEF ReserveLost, UnreserveLost, Crash
    <2>5. ASSUME NEW from, NEW to, ResolveBucket(w, from, to) PROVE Stays
      <3>1. disturbed' = disturbed
        BY <2>5, Zenon DEF ResolveBucket
      <3>2. rerouted => rerouted'
        <4>1. CASE UNCHANGED rerouted
          BY <4>1, Zenon
        <4>2. CASE \E b : rerouted' = (rerouted \/ b)
          BY <4>2, Zenon
        <4> QED  BY <2>5, <4>1, <4>2, Zenon DEF ResolveBucket
      <3> QED  BY <1>1, <3>1, <3>2, Zenon
    <2> QED  BY <1>5, <2>1, <2>2, <2>3, <2>4, <2>5, Zenon DEF HandlerStep
  <1>6. ASSUME NEW s \in Subscriber, MoveSubscriber(s) PROVE Stays
    BY <1>6, <1>1, Zenon DEF MoveSubscriber
  <1>7. ASSUME NEW b \in Bucket, NEW a \in TopupAmount, Topup(b, a) PROVE Stays
    BY <1>7, <1>3, Zenon DEF Topup, historyVars, deviationVars
  <1>8. ASSUME UNCHANGED vars PROVE Stays
    BY <1>8, <1>3, Zenon DEF vars, historyVars, deviationVars
  <1>9. Stays
    BY <1>4, <1>5, <1>6, <1>7, <1>8, Zenon DEF Next
  <1> QED  BY <1>9 DEF Stays

\* The sessions that draw on bucket b, each with what is held for it.
Drawing(b) ==
    [r \in Ref |-> IF r \in created /\ drawsFrom[supiOf[r]] = b THEN heldFor[r] ELSE 0]

\* The reserved column of b covers them all together.
Backed(b) == \E d : Weighs(d, Ref, Drawing(b)) /\ reserved[b] >= d[Ref]

BankInv ==
    /\ \A b \in Bucket : Backed(b)
    /\ \A r \in created : heldFor[r] > 0 => drawsFrom[supiOf[r]] \in provisioned
    /\ \A r \in Ref \ created : heldFor[r] = 0

\* A handler that is about to move money has the bucket its session draws on.
Routed(v) ==
    pc[v] \in {"reserve", "unreserve"} => job[v].bucket = drawsFrom[supiOf[job[v].ref]]

RouteInv == Steady => BankInv /\ \A v \in Worker : Routed(v)

\* What draws on a bucket is typed, and no session draws less than nothing.
LEMMA DrawingTyped ==
    ASSUME TypeInv, HeldCoversRecorded, NEW b \in Bucket
    PROVE  Drawing(b) \in [Ref -> Nat] /\ reserved[b] \in Int
  <1>1. \A r \in Ref : heldFor[r] \in Nat
    BY DEF TypeInv, TypeOK, BalanceTypeOK, HeldCoversRecorded
  <1> QED  BY <1>1 DEF Drawing, TypeInv, TypeOK, BalanceTypeOK

\* Where no money moves, nothing draws more or less on a bucket.
LEMMA BankFrame ==
    ASSUME BankInv,
           UNCHANGED <<heldFor, reserved, drawsFrom>>, provisioned \subseteq provisioned',
           created \subseteq created', created' \subseteq Ref,
           \A r \in created : supiOf'[r] = supiOf[r]
    PROVE  BankInv'
  <1>1. \A r \in created' \ created : heldFor[r] = 0
    BY DEF BankInv
  <1>2. ASSUME NEW b \in Bucket PROVE Drawing(b)' = Drawing(b)
    BY <1>1 DEF Drawing
  <1>3. ASSUME NEW b \in Bucket PROVE Backed(b)'
    BY <1>2 DEF BankInv, Backed
  <1>4. /\ \A r \in created' : heldFor'[r] > 0 => drawsFrom'[supiOf'[r]] \in provisioned'
        /\ \A r \in Ref \ created' : heldFor'[r] = 0
    BY <1>1 DEF BankInv
  <1> QED  BY <1>3, <1>4 DEF BankInv

\* A session that draws more, or less, moves the reserved column by as much.
LEMMA BankMoves ==
    ASSUME TypeInv, TypeInv', HeldCoversRecorded, HeldCoversRecorded', BankInv,
           NEW q \in created, NEW a \in Int, NEW b \in Bucket, b = drawsFrom[supiOf[q]],
           UNCHANGED <<created, supiOf, drawsFrom, provisioned>>, b \in provisioned,
           heldFor' = [heldFor EXCEPT ![q] = @ + a], reserved' = [reserved EXCEPT ![b] = @ + a]
    PROVE  BankInv'
  <1>t. q \in Ref /\ heldFor \in [Ref -> Int] /\ reserved \in [Bucket -> Int] /\ created \subseteq Ref
    BY DEF TypeInv, TypeOK, BalanceTypeOK
  <1>1. ASSUME NEW c \in Bucket PROVE Backed(c)'
    <2>1. PICK d : Weighs(d, Ref, Drawing(c)) /\ reserved[c] >= d[Ref]
      BY DEF BankInv, Backed
    <2>2. Drawing(c) \in [Ref -> Nat] /\ reserved[c] \in Int
      BY DrawingTyped
    <2>3. Drawing(c)' \in [Ref -> Nat]
      <3>1. \A r \in Ref : heldFor'[r] \in Nat
        BY DEF TypeInv, TypeOK, BalanceTypeOK, HeldCoversRecorded
      <3> QED  BY <3>1 DEF Drawing
    <2>4. CASE c = b
      <3>1. \A r \in Ref \ {q} : Drawing(c)'[r] = Drawing(c)[r]
        BY <1>t DEF Drawing
      <3>2. PICK f : Weighs(f, Ref, Drawing(c)')
                     /\ Shifts(f[Ref], d[Ref], Drawing(c)[q], Drawing(c)'[q])
        BY <1>t, <2>1, <2>2, <2>3, <3>1, Reweighed
      <3>3. Drawing(c)[q] = heldFor[q] /\ Drawing(c)'[q] = heldFor[q] + a
        BY <1>t, <2>4 DEF Drawing
      <3>4. d[Ref] \in Nat /\ heldFor[q] \in Int /\ reserved'[c] = reserved[c] + a
        BY <1>t, <2>1, <2>4 DEF Weighs
      <3>5. reserved'[c] >= f[Ref]
        BY <2>1, <2>2, <3>2, <3>3, <3>4 DEF Shifts
      <3> QED  BY <3>2, <3>5 DEF Backed
    <2>5. CASE c # b
      <3>1. ASSUME NEW r \in Ref
            PROVE  (IF r \in created /\ drawsFrom[supiOf[r]] = c THEN heldFor'[r] ELSE 0)
                       = IF r \in created /\ drawsFrom[supiOf[r]] = c THEN heldFor[r] ELSE 0
        BY <1>t, <2>5
      <3>2. Drawing(c)' = Drawing(c)
        BY <3>1 DEF Drawing
      <3>3. reserved'[c] = reserved[c]
        BY <1>t, <2>5
      <3> QED  BY <2>1, <3>2, <3>3 DEF Backed
    <2> QED  BY <2>4, <2>5
  <1>2. /\ \A r \in created : heldFor'[r] > 0 => drawsFrom'[supiOf'[r]] \in provisioned'
        /\ \A r \in Ref \ created : heldFor'[r] = 0
    BY <1>t DEF BankInv
  <1> QED  BY <1>1, <1>2 DEF BankInv

\* What is held for a session, or part of it, can be handed back to its bucket.
LEMMA HeldIsBacked ==
    ASSUME TypeInv, HeldCoversRecorded, BankInv, NEW q \in created,
           NEW n \in Int, 0 < n, n <= heldFor[q]
    PROVE  CanReserve(drawsFrom[supiOf[q]], -n)
  <1> DEFINE b == drawsFrom[supiOf[q]]
  <1>1. q \in Ref /\ b \in provisioned /\ b \in Bucket /\ heldFor[q] \in Int
    BY DEF BankInv, TypeInv, TypeOK, BalanceTypeOK
  <1>2. PICK d : Weighs(d, Ref, Drawing(b)) /\ reserved[b] >= d[Ref]
    BY <1>1 DEF BankInv, Backed
  <1>3. Drawing(b) \in [Ref -> Nat] /\ reserved[b] \in Int
    BY <1>1, DrawingTyped
  <1>4. d[Ref] \in Nat /\ Drawing(b)[q] <= d[Ref]
    BY <1>1, <1>2, <1>3, PartWeighs
  <1>5. Drawing(b)[q] = heldFor[q]
    BY <1>1 DEF Drawing
  <1>6. reserved[b] >= n
    BY <1>1, <1>2, <1>3, <1>4, <1>5
  <1> QED  BY <1>1, <1>3, <1>6 DEF CanReserve

\* A call of the balance function for the bucket a session draws on.
LEMMA BankCall ==
    ASSUME TypeInv, TypeInv', HeldCoversRecorded, HeldCoversRecorded', BankInv,
           NEW q \in created, NEW a \in Int, UNCHANGED <<created, supiOf, drawsFrom>>,
           ReserveBalance(drawsFrom[supiOf[q]], a, q) \/ UNCHANGED balanceVars
    PROVE  BankInv'
  <1> DEFINE b == drawsFrom[supiOf[q]]
  <1>1. CASE ReserveCompleted(b, a, q)
    <2>1. /\ heldFor' = [heldFor EXCEPT ![q] = @ + a]
          /\ reserved' = [reserved EXCEPT ![b] = @ + a]
          /\ provisioned' = provisioned /\ b \in provisioned
      BY <1>1 DEF ReserveCompleted, Credit, CanReserve
    <2>2. b \in Bucket
      BY <2>1 DEF TypeInv, TypeOK, BalanceTypeOK
    <2> HIDE DEF b
    <2>3. b = drawsFrom[supiOf[q]]
      BY DEF b
    <2> QED  BY <2>1, <2>2, <2>3, BankMoves
  <1>2. CASE ReserveFailed(b, a, q) \/ UNCHANGED balanceVars
    <2>1. UNCHANGED <<heldFor, reserved, provisioned>> /\ created' \subseteq Ref
      BY <1>2 DEF ReserveFailed, balanceVars, TypeInv, TypeOK
    <2> QED  BY <2>1, BankFrame
  <1> QED  BY <1>1, <1>2 DEF ReserveBalance

\* A handler takes a step of its own; the others keep their buckets.
LEMMA RouteFrame ==
    ASSUME TypeInv, RouteInv, NEW w \in Worker, Others(w), drawsFrom' = drawsFrom,
           \A r \in created : supiOf'[r] = supiOf[r],
           Steady' => Steady /\ BankInv' /\ Routed(w)'
    PROVE  RouteInv'
  <1>1. ASSUME Steady', NEW v \in Worker \ {w} PROVE Routed(v)'
    <2>1. Routed(v) /\ pc'[v] = pc[v] /\ job'[v] = job[v]
      BY <1>1 DEF RouteInv, Others
    <2>2. pc[v] # "idle" => job[v].ref \in created
      BY DEF TypeInv, Located
    <2> QED  BY <2>1, <2>2 DEF Routed
  <1> QED  BY <1>1 DEF RouteInv

\* The lookup gives the bucket the subscriber draws on, where none is missed.
LEMMA LookupRoutes ==
    ASSUME TypeInv, NEW w \in Worker, NEW from, NEW to, ResolveBucket(w, from, to), Steady'
    PROVE  job'[w].bucket = drawsFrom[supiOf[job[w].ref]]
  <1>1. \E b : /\ b = drawsFrom[supiOf[job[w].ref]]
               /\ job' = [job EXCEPT ![w].bucket = b]
    BY Zenon DEF ResolveBucket, Steady
  <1>2. job \in [Worker -> Job]
    BY DEF TypeInv, TypeOK
  <1> QED  BY <1>1, <1>2 DEF Job

\* Every handler's step keeps the buckets covered,
LEMMA HandlerRoutes ==
    ASSUME PricesReserved, TypeInv, TypeInv', HeldCoversRecorded, HeldCoversRecorded',
           Steady' => Steady, RouteInv, NEW w \in Worker, HandlerStep(w) \/ Crash(w)
    PROVE  RouteInv'
  <1> DEFINE q == job[w].ref
  <1>t. /\ job \in [Worker -> Job] /\ pc \in [Worker -> Label] /\ created' \subseteq Ref
        /\ pc[w] # "idle" => q \in created
    BY DEF TypeInv, TypeOK, Located
  <1>1. /\ Onward(w) /\ drawsFrom' = drawsFrom
    BY RatingOnward, ReleaseOnward, CrashOnward DEF HandlerStep
  <1>2. Others(w) /\ UNCHANGED <<created, supiOf>> /\ q \in created /\ job'[w].ref \in {q, NoRef}
    BY <1>1, <1>t DEF Onward, Continues, Ends
  \* Those that move no money.
  <1>3. ASSUME UNCHANGED <<heldFor, reserved>>, provisioned \subseteq provisioned',
               Steady' => Routed(w)'
        PROVE  RouteInv'
    <2>1. Steady' => BankInv'
      BY <1>1, <1>2, <1>3, <1>t, BankFrame DEF RouteInv
    <2> QED  BY <1>1, <1>2, <1>3, <2>1, RouteFrame
  <1>4. CASE \/ Rate(w) \/ AddReserved(w) \/ AddGranted(w) \/ WriteCdr(w) \/ Answer(w)
             \/ ReadGranted(w) \/ Remove(w) \/ Crash(w)
    <2>1. pc'[w] \notin {"reserve", "unreserve"}
      BY <1>t, <1>4 DEF Rate, AddReserved, AddGranted, WriteCdr, Answer, ReadGranted, Remove,
                        Crash, Goto, Return
    <2>2. UNCHANGED balanceVars
      BY <1>4 DEF Rate, AddReserved, AddGranted, WriteCdr, Answer, ReadGranted, Remove, Crash
    <2> QED  BY <1>3, <2>1, <2>2 DEF Routed, balanceVars
  <1>5. CASE CommitCall(w) \/ CommitLost(w)
    <2>1. pc'[w] = "idle"
      BY <1>t, <1>5 DEF CommitCall, CommitLost, Return
    <2>2. UNCHANGED <<heldFor, reserved>> /\ provisioned \subseteq provisioned'
      BY <1>5 DEF CommitCall, CommitLost, CommitDebit, AdjustBalance, AdjustCompleted,
                  AdjustFailed, balanceVars
    <2> QED  BY <1>3, <2>1, <2>2 DEF Routed
  <1>6. CASE ResolveBucket(w, "resolve", "reserve") \/ ResolveBucket(w, "resolveAgain", "unreserve")
    <2>1. Steady' => job'[w].bucket = drawsFrom[supiOf[q]]
      BY <1>6, LookupRoutes
    <2>2. job'[w].ref = q /\ UNCHANGED balanceVars
      <3>1. pc'[w] # "idle" /\ UNCHANGED balanceVars
        BY <1>t, <1>6 DEF ResolveBucket, Goto
      <3> QED  BY <1>1, <3>1 DEF Onward, Continues, Ends
    <2>3. Steady' => Routed(w)'
      BY <1>1, <1>2, <2>1, <2>2 DEF Routed
    <2> QED  BY <1>3, <2>2, <2>3 DEF balanceVars
  \* Those that do.
  <1>7. ASSUME pc[w] \in {"reserve", "unreserve"}, pc'[w] \notin {"reserve", "unreserve"},
               NEW a \in Int, ReserveBalance(job[w].bucket, a, q) \/ UNCHANGED balanceVars
        PROVE  RouteInv'
    <2>1. ASSUME Steady' PROVE BankInv'
      <3>1. job[w].bucket = drawsFrom[supiOf[q]] /\ BankInv
        BY <1>7, <2>1 DEF RouteInv, Routed
      <3> QED  BY <1>1, <1>2, <1>7, <3>1, BankCall
    <2>2. Routed(w)'
      BY <1>7 DEF Routed
    <2> QED  BY <1>1, <1>2, <2>1, <2>2, RouteFrame
  <1>8. CASE Reserve(w) \/ ReserveLost(w)
    <2>1. /\ pc[w] = "reserve" /\ pc'[w] \in {"addReserved", "cdr"}
          /\ ReserveBalance(job[w].bucket, job[w].cost, q) \/ UNCHANGED balanceVars
      BY <1>t, <1>8 DEF Reserve, ReserveLost, Goto
    <2>2. job[w].cost \in Int
      BY <1>t DEF Job
    <2> QED  BY <1>7, <2>1, <2>2
  <1>9. CASE Unreserve(w) \/ UnreserveLost(w)
    <2>1. /\ pc[w] = "unreserve" /\ pc'[w] \in {"debit", "idle"}
          /\ ReserveBalance(job[w].bucket, -job[w].total, q) \/ UNCHANGED balanceVars
      BY <1>t, <1>9 DEF Unreserve, UnreserveLost, Refund, Goto, Return
    <2>2. -job[w].total \in Int
      BY <1>t DEF Job
    <2> QED  BY <1>7, <2>1, <2>2
  <1> QED  BY <1>4, <1>5, <1>6, <1>8, <1>9 DEF HandlerStep

\* and so does every other step.
LEMMA RouteInvInductive ==
    ASSUME PricesReserved, TypeInv, TypeInv', HeldCoversRecorded, HeldCoversRecorded',
           WorkInv, RouteInv, [Next]_vars
    PROVE  RouteInv'
  <1>0. Steady' => Steady
    BY DeviationsStay
  <1>1. ASSUME NEW w \in Worker, ConsumerStep(w) PROVE RouteInv'
    <2>1. Others(w) /\ drawsFrom' = drawsFrom
      BY <1>1, RequestWorks
    <2>2. /\ created \subseteq created' /\ \A r \in created : supiOf'[r] = supiOf[r]
          /\ UNCHANGED balanceVars
          /\ pc' \in {[pc EXCEPT ![w] = "rate"], [pc EXCEPT ![w] = "readGranted"]}
      <3>1. ASSUME NEW s, NEW n, Create(w, s, n) PROVE <2>2
        BY <3>1 DEF Create, Goto
      <3>2. ASSUME NEW r \in Ref, NEW n, NEW u, Update(w, r, n, u) PROVE <2>2
        <4>1. UNCHANGED sessionVars /\ UNCHANGED balanceVars /\ pc' = [pc EXCEPT ![w] = "rate"]
          BY <3>2, UpdateArrives, Zenon
        <4> QED  BY <4>1 DEF sessionVars
      <3>3. ASSUME NEW r \in Ref, NEW u, Release(w, r, u) PROVE <2>2
        <4>1. /\ UNCHANGED sessionVars /\ UNCHANGED balanceVars
              /\ pc' = [pc EXCEPT ![w] = "readGranted"]
          BY <3>3, ReleaseArrives, Zenon
        <4> QED  BY <4>1 DEF sessionVars
      <3> QED  BY <1>1, <3>1, <3>2, <3>3, Zenon DEF ConsumerStep
    <2>3. pc'[w] \in {"rate", "readGranted"}
      BY <2>2 DEF TypeInv, TypeOK
    <2>4. UNCHANGED <<heldFor, reserved, provisioned>> /\ created' \subseteq Ref
      BY <2>2 DEF balanceVars, TypeInv, TypeOK
    <2>5. Steady' => BankInv'
      BY <1>0, <2>1, <2>2, <2>4, BankFrame DEF RouteInv
    <2> QED  BY <1>0, <2>1, <2>2, <2>3, <2>5, RouteFrame DEF Routed
  <1>2. ASSUME NEW w \in Worker, HandlerStep(w) \/ Crash(w) PROVE RouteInv'
    BY <1>0, <1>2, HandlerRoutes
  <1>3. ASSUME NEW s \in Subscriber, MoveSubscriber(s) PROVE RouteInv'
    <2>1. ~Steady'
      BY <1>3, Zenon DEF MoveSubscriber, Steady
    <2> QED  BY <2>1 DEF RouteInv
  <1>4. CASE (\E b \in Bucket, amount \in TopupAmount : Topup(b, amount)) \/ UNCHANGED vars
    <2>1. /\ UNCHANGED <<created, supiOf, drawsFrom, pc, job, heldFor, reserved>>
          /\ provisioned \subseteq provisioned' /\ created' \subseteq Ref
      BY <1>4 DEF Topup, TopupBalance, vars, balanceVars, sessionVars, TypeInv, TypeOK
    <2>2. Steady' => BankInv'
      BY <1>0, <2>1, BankFrame DEF RouteInv
    <2> QED  BY <1>0, <2>1, <2>2 DEF RouteInv, Routed
  <1> QED  BY <1>1, <1>2, <1>3, <1>4 DEF Next

-----------------------------------------------------------------------------
(* A session that nothing disturbed: the two stores agree on it.           *)

\* Nothing more is held than what is in flight and owed.
Exact(r) ==
    \E d : Weighs(d, Worker, InFlight(r)) /\ heldFor[r] = d[Worker] + Owing(r)

\* Only Releases are at work on it, or it is active and none of them is.
Unmixed(r) ==
    \/ \A v \in Worker : job[v].ref = r => pc[v] \in Releasing
    \/ r \in active /\ \A v \in Worker : job[v].ref = r => pc[v] \notin Releasing

\* A Release has read all that is recorded.
Current(r) ==
    \A v \in Worker : job[v].ref = r /\ pc[v] \in Releasing => job[v].total = reservedTotal[r]

\* Once it is out of the active set its money is followed only while the calls for it
\* meet one bucket.
Followed(r) == r \notin created \/ r \in active \/ Steady

Tidy(r) == Unmixed(r) /\ Current(r) /\ (Followed(r) => Exact(r))

TidyInv == \A r \in Ref \ disturbed : Tidy(r)

\* A handler that holds as much more as it comes to owe keeps a session exact.
LEMMA ExactFrame ==
    ASSUME PricesReserved, TypeInv, TypeInv', SettleInv, SettleInv', NEW w \in Worker,
           Others(w), NEW r \in Ref, Exact(r),
           heldFor'[r] - Due(w, r)' - Owing(r)' = heldFor[r] - Due(w, r) - Owing(r)
    PROVE  Exact(r)'
  <1>1. PICK d : Weighs(d, Worker, InFlight(r)) /\ heldFor[r] = d[Worker] + Owing(r)
    BY DEF Exact
  <1>2. InFlight(r) \in [Worker -> Nat] /\ Owing(r) \in Nat /\ heldFor[r] \in Int
    BY SharesNatural
  <1>3. InFlight(r)' \in [Worker -> Nat] /\ Owing(r)' \in Int /\ heldFor'[r] \in Int
    <2>1. NoNegativePrice
      BY DEF PricesReserved, NoNegativePrice
    <2>2. ASSUME NEW v \in Worker PROVE Due(v, r)' \in Nat
      <3>1. job'[v].cost \in Int /\ job'[v].cost >= 0
        BY <2>1 DEF TypeInv, TypeOK, Located, Job, NoNegativePrice
      <3> QED  BY <3>1 DEF Due
    <2>3. reservedTotal'[r] \in Int /\ heldFor'[r] \in Int
      BY DEF TypeInv, TypeOK, BalanceTypeOK
    <2> QED  BY <2>2, <2>3 DEF InFlight, Owing
  <1>4. \A v \in Worker \ {w} : InFlight(r)'[v] = InFlight(r)[v]
    BY DEF InFlight, Due, Others
  <1>5. PICK f : Weighs(f, Worker, InFlight(r)')
                 /\ Shifts(f[Worker], d[Worker], InFlight(r)[w], InFlight(r)'[w])
    BY <1>1, <1>2, <1>3, <1>4, Reweighed
  <1>6. InFlight(r)[w] = Due(w, r) /\ InFlight(r)'[w] = Due(w, r)'
    BY DEF InFlight
  <1>7. d[Worker] \in Nat /\ Due(w, r) \in Nat /\ Due(w, r)' \in Nat
    BY <1>1, <1>2, <1>3, <1>6, PartWeighs
  <1>8. heldFor'[r] = f[Worker] + Owing(r)'
    BY <1>1, <1>2, <1>3, <1>5, <1>6, <1>7 DEF Shifts
  <1> QED  BY <1>5, <1>8 DEF Exact

\* A session the stepping handler does not work on stays as it is.
LEMMA TidyElsewhere ==
    ASSUME PricesReserved, TypeInv, TypeInv', SettleInv, SettleInv', NEW w \in Worker,
           Others(w), NEW r \in Ref, Tidy(r), r # job[w].ref, r # job'[w].ref,
           heldFor'[r] = heldFor[r], reservedTotal'[r] = reservedTotal[r],
           r \in created' <=> r \in created, r \in active' <=> r \in active,
           Steady' => Steady
    PROVE  Tidy(r)'
  <1>1. \A v \in Worker : job'[v].ref = r <=> job[v].ref = r
    BY DEF Others
  <1>2. \A v \in Worker : job[v].ref = r => pc'[v] = pc[v] /\ job'[v] = job[v]
    BY DEF Others
  <1>3. Unmixed(r)' /\ Current(r)'
    BY <1>1, <1>2 DEF Tidy, Unmixed, Current
  <1>4. Refunding(r)' <=> Refunding(r)
    BY <1>1, <1>2 DEF Refunding
  <1>5. Owing(r)' = Owing(r)
    BY <1>4 DEF Owing, Counted
  <1>6. Due(w, r)' = 0 /\ Due(w, r) = 0
    BY DEF Due
  <1>7. heldFor'[r] - Due(w, r)' - Owing(r)' = heldFor[r] - Due(w, r) - Owing(r)
    BY <1>5, <1>6
  <1>8. Followed(r)' => Followed(r)
    BY DEF Followed
  <1> QED  BY <1>3, <1>7, <1>8, ExactFrame DEF Tidy

\* What a handler finds of the session it works on: it is active unless it is being
\* released, and nobody rates it while it is.
LEMMA UnmixedWork ==
    ASSUME TypeInv, NEW w \in Worker, pc[w] # "idle", Unmixed(job[w].ref)
    PROVE  /\ pc[w] \notin Releasing
                  => job[w].ref \in active
                     /\ \A v \in Worker : job[v].ref = job[w].ref => pc[v] \notin Releasing
           /\ pc[w] \in Releasing
                  => \A v \in Worker : job[v].ref = job[w].ref => pc[v] \in Releasing
  BY DEF Unmixed

\* A handler's step keeps its own session tidy if it accounts for what it moves.
LEMMA TidyOnward ==
    ASSUME PricesReserved, TypeInv, TypeInv', SettleInv, SettleInv', NEW w \in Worker,
           Onward(w), NEW r \in Ref, r = job[w].ref, Tidy(r), Steady' => Steady,
           active' \subseteq active, pc[w] \notin Releasing => active' = active,
           pc[w] \in Releasing => reservedTotal' = reservedTotal,
           Followed(r)'
               => heldFor'[r] - Due(w, r)' - Owing(r)' = heldFor[r] - Due(w, r) - Owing(r)
    PROVE  Tidy(r)'
  <1>1. /\ \A v \in Worker : job'[v].ref = r
               => /\ job[v].ref = r /\ job'[v].total = job[v].total
                  /\ pc'[v] \in Releasing <=> pc[v] \in Releasing
        /\ created' = created
    <2>1. r \in created /\ r # NoRef
      BY ChargingAssumption DEF TypeInv, Located, Onward
    <2>2. ASSUME job'[w].ref = r
          PROVE  job'[w].total = job[w].total /\ (pc'[w] \in Releasing <=> pc[w] \in Releasing)
      BY <2>1, <2>2 DEF Onward, Continues, Ends
    <2> QED  BY <2>2 DEF Onward, Others
  <1>2. /\ pc[w] \notin Releasing
              => r \in active /\ \A v \in Worker : job[v].ref = r => pc[v] \notin Releasing
        /\ pc[w] \in Releasing => \A v \in Worker : job[v].ref = r => pc[v] \in Releasing
    BY UnmixedWork DEF Tidy, Onward
  <1>3. Unmixed(r)'
    BY <1>1, <1>2 DEF Unmixed
  <1>4. Current(r)'
    BY <1>1, <1>2 DEF Current, Tidy
  <1>5. Followed(r)' => Followed(r)
    BY <1>1 DEF Followed
  <1>6. Followed(r)' => Exact(r)'
    BY <1>5, ExactFrame DEF Tidy, Onward
  <1> QED  BY <1>3, <1>4, <1>6 DEF Tidy

\* A handler's step keeps all of them tidy if it does so with its own, and moves no
\* other session's money.
LEMMA TidyStep ==
    ASSUME PricesReserved, TypeInv, TypeInv', SettleInv, SettleInv', TidyInv,
           NEW w \in Worker, Onward(w), disturbed \subseteq disturbed', Steady' => Steady,
           NEW q \in Ref, q = job[w].ref,
           \A r \in Ref \ {q} :
               /\ heldFor'[r] = heldFor[r] /\ reservedTotal'[r] = reservedTotal[r]
               /\ r \in active' <=> r \in active,
           active' \subseteq active, pc[w] \notin Releasing => active' = active,
           pc[w] \in Releasing => reservedTotal' = reservedTotal,
           q \notin disturbed' /\ Tidy(q) /\ Followed(q)'
               => heldFor'[q] - Due(w, q)' - Owing(q)' = heldFor[q] - Due(w, q) - Owing(q)
    PROVE  TidyInv'
  <1>1. Others(w) /\ created' = created /\ job'[w].ref \in {q, NoRef} /\ NoRef \notin Ref
    BY ChargingAssumption DEF Onward, Continues, Ends
  <1>2. ASSUME NEW r \in Ref \ disturbed' PROVE Tidy(r)'
    <2>1. Tidy(r)
      BY DEF TidyInv
    <2>2. CASE r = q
      <3>1. Followed(r)'
                => heldFor'[r] - Due(w, r)' - Owing(r)' = heldFor[r] - Due(w, r) - Owing(r)
        BY <2>1, <2>2
      <3> QED  BY <2>1, <2>2, <3>1, TidyOnward
    <2>3. CASE r # q
      BY <1>1, <2>1, <2>3, TidyElsewhere
    <2> QED  BY <2>2, <2>3
  <1> QED  BY <1>2 DEF TidyInv

\* What a step does not touch is owed as before.
LEMMA OwingKept ==
    ASSUME NEW w \in Worker, Onward(w), NEW q \in Ref, q = job[w].ref, active' = active,
           reservedTotal'[q] = reservedTotal[q],
           pc'[w] \in {"resolveAgain", "unreserve"} <=> pc[w] \in {"resolveAgain", "unreserve"}
    PROVE  Owing(q)' = Owing(q)
  <1>1. Refunding(q)' <=> Refunding(q)
    BY DEF Refunding, Onward, Others, Continues, Ends
  <1> QED  BY <1>1 DEF Owing, Counted, Onward

\* The steps that move no money and record none.
LEMMA QuietTidy ==
    ASSUME PricesReserved, TypeInv, TypeInv', SettleInv, SettleInv', TidyInv,
           NEW w \in Worker, Onward(w), disturbed \subseteq disturbed', Steady' => Steady,
           UNCHANGED <<active, reservedTotal, heldFor>>, pc[w] # "addReserved",
           pc'[w] = "addReserved" => job'[w].cost = 0,
           pc'[w] \in {"resolveAgain", "unreserve"} <=> pc[w] \in {"resolveAgain", "unreserve"}
    PROVE  TidyInv'
  <1>1. PICK q \in Ref : q = job[w].ref
    BY DEF TypeInv, TypeOK, Located, Onward
  <1>2. Owing(q)' = Owing(q)
    BY <1>1, OwingKept
  <1>3. Due(w, q)' = 0 /\ Due(w, q) = 0
    BY DEF Due
  <1>4. heldFor'[q] - Due(w, q)' - Owing(q)' = heldFor[q] - Due(w, q) - Owing(q)
    BY <1>2, <1>3
  <1> QED  BY <1>1, <1>4, TidyStep

\* A price that is not reserved records nothing (RatingHolds).
LEMMA RateReserves ==
    ASSUME PricesReserved, TypeInv, NEW w \in Worker, Rate(w), pc'[w] = "addReserved"
    PROVE  job'[w].cost = 0
  <1>t. job \in [Worker -> Job] /\ pc \in [Worker -> Label]
    BY DEF TypeInv, TypeOK
  <1>1. PICK o \in Offer :
           /\ job' = [job EXCEPT ![w].cost = o.cost, ![w].units = o.units]
           /\ pc'[w] = IF ToReserve(o) THEN "resolve" ELSE "addReserved"
    BY <1>t DEF Rate, Goto
  <1>2. o.cost = 0
    <2>1. ~ToReserve(o) /\ o.cost \in Int
      BY <1>1, ChargingAssumption
    <2> QED  BY <2>1 DEF ToReserve, PricesReserved
  <1>3. job'[w].cost = o.cost
    BY <1>t, <1>1 DEF Job
  <1> QED  BY <1>2, <1>3

\* Rating: a reservation comes into flight, and turns into what is owed as it is
\* recorded; one that may be lost is noted.
LEMMA RatingTidy ==
    ASSUME PricesReserved, TypeInv, TypeInv', SettleInv, SettleInv', TidyInv,
           NEW w \in Worker, disturbed \subseteq disturbed', Steady' => Steady,
           \/ Rate(w) \/ ResolveBucket(w, "resolve", "reserve") \/ Reserve(w) \/ ReserveLost(w)
           \/ AddReserved(w) \/ AddGranted(w) \/ WriteCdr(w) \/ Answer(w)
    PROVE  TidyInv'
  <1> USE DEF sessionVars, balanceVars
  <1>t. /\ job \in [Worker -> Job] /\ pc \in [Worker -> Label]
        /\ heldFor \in [Ref -> Int] /\ reservedTotal \in [Ref -> Int]
    BY DEF TypeInv, TypeOK, BalanceTypeOK
  <1>0. Onward(w) /\ active' = active /\ pc[w] \notin Releasing
    BY RatingOnward
  <1>1. PICK q \in Ref : q = job[w].ref
    BY <1>0 DEF TypeInv, TypeOK, Located, Onward
  <1>c. job[w].cost \in Int /\ NoRef \notin Ref
    BY <1>t, ChargingAssumption DEF Job
  <1>o. /\ Owing(q) \in Nat /\ reservedTotal[q] \in Nat /\ heldFor[q] \in Int
    BY SharesNatural
  <1>2. CASE \/ Rate(w) \/ ResolveBucket(w, "resolve", "reserve") \/ AddGranted(w)
             \/ WriteCdr(w) \/ Answer(w)
    <2>1. /\ UNCHANGED <<reservedTotal, heldFor>> /\ pc[w] # "addReserved"
          /\ pc[w] \notin {"resolveAgain", "unreserve"}
          /\ pc'[w] \notin {"resolveAgain", "unreserve"}
          /\ pc'[w] = "addReserved" => Rate(w)
      BY <1>t, <1>2 DEF Rate, ResolveBucket, AddGranted, WriteCdr, Answer, Goto, Return
    <2> QED  BY <1>0, <2>1, RateReserves, QuietTidy
  <1>3. CASE Reserve(w) \/ ReserveLost(w)
    <2>1. /\ UNCHANGED <<reservedTotal, job>> /\ pc[w] = "reserve"
          /\ pc'[w] \in {"addReserved", "cdr"}
      BY <1>t, <1>3 DEF Reserve, ReserveLost, Goto
    <2>2. \/ heldFor' = heldFor /\ pc'[w] = "cdr"
          \/ heldFor' = [heldFor EXCEPT ![q] = @ + job[w].cost] /\ pc'[w] = "addReserved"
          \/ /\ heldFor' = [heldFor EXCEPT ![q] = @ + job[w].cost] /\ pc'[w] = "cdr"
             /\ heldFor' = heldFor \/ q \in disturbed'
      <3>1. CASE Reserve(w)
        BY <1>t, <1>1, <3>1 DEF Reserve, Goto, Confirmed, ReserveBalance, ReserveCompleted,
                                ReserveFailed, Credit
      <3>2. CASE ReserveLost(w)
        <4>1. heldFor' = heldFor \/ q \in disturbed'
          BY <1>1, <3>2 DEF ReserveLost, Disturb
        <4> QED  BY <1>t, <1>1, <3>2, <4>1 DEF ReserveLost, Goto, ReserveBalance,
                    ReserveCompleted, ReserveFailed, Credit
      <3> QED  BY <1>3, <3>1, <3>2
    <2>3. Owing(q)' = Owing(q)
      BY <1>0, <1>1, <2>1, OwingKept
    <2>4. q \notin disturbed'
              => heldFor'[q] - Due(w, q)' - Owing(q)' = heldFor[q] - Due(w, q) - Owing(q)
      <3>1. Due(w, q) = 0 /\ (pc'[w] = "cdr" => Due(w, q)' = 0)
                /\ (pc'[w] = "addReserved" => Due(w, q)' = job[w].cost)
        BY <1>1, <2>1 DEF Due
      <3>2. \/ heldFor'[q] = heldFor[q] /\ pc'[w] = "cdr"
            \/ heldFor'[q] = heldFor[q] + job[w].cost /\ pc'[w] = "addReserved"
            \/ q \in disturbed'
        BY <1>t, <2>2
      <3> QED  BY <1>c, <1>o, <2>3, <3>1, <3>2
    <2>5. \A r \in Ref \ {q} : heldFor'[r] = heldFor[r]
      BY <1>t, <2>2
    <2> QED  BY <1>0, <1>1, <2>1, <2>4, <2>5, TidyStep
  <1>4. CASE AddReserved(w)
    <2>1. /\ pc[w] = "addReserved" /\ pc'[w] = "addGranted" /\ heldFor' = heldFor /\ job' = job
          /\ reservedTotal' = [reservedTotal EXCEPT ![q] = @ + job[w].cost]
      BY <1>t, <1>1, <1>4 DEF AddReserved, Goto
    <2>2. ASSUME Tidy(q)
          PROVE  heldFor'[q] - Due(w, q)' - Owing(q)' = heldFor[q] - Due(w, q) - Owing(q)
      <3>1. q \in active
        BY <1>0, <1>1, <2>1, <2>2, UnmixedWork DEF Tidy
      <3>2. Owing(q) = reservedTotal[q] /\ Owing(q)' = reservedTotal[q] + job[w].cost
        BY <1>t, <1>0, <2>1, <3>1 DEF Owing, Counted
      <3>3. Due(w, q) = job[w].cost /\ Due(w, q)' = 0
        BY <1>1, <2>1 DEF Due
      <3> QED  BY <1>c, <1>o, <2>1, <3>2, <3>3
    <2>3. \A r \in Ref \ {q} : reservedTotal'[r] = reservedTotal[r]
      BY <1>t, <2>1
    <2> QED  BY <1>0, <1>1, <2>1, <2>2, <2>3, TidyStep
  <1> QED  BY <1>2, <1>3, <1>4

\* A refund is covered by what is held for its session, and that by its bucket.
LEMMA RefundBacked ==
    ASSUME PricesReserved, TypeInv, SettleInv, HeldInv, WorkInv, RouteInv, Steady,
           NEW w \in Worker, pc[w] = "unreserve"
    PROVE  CanReserve(job[w].bucket, -job[w].total)
  <1>1. PICK q \in Ref : q = job[w].ref /\ q \in created
    BY DEF TypeInv, TypeOK, Located
  <1>2. /\ Owing(q) \in Nat /\ heldFor[q] \in Int /\ HeldEnough(q) /\ job[w].total \in Int
        /\ reservedTotal[q] \in Nat
    BY SharesNatural DEF HeldInv, TypeInv, TypeOK, Job
  <1>3. job[w].total > 0 /\ job[w].total <= reservedTotal[q]
    <2>1. Covered(w) /\ Working(w)
      BY DEF SettleInv, NoNegativePrice, PricesReserved, WorkInv
    <2> QED  BY <1>1, <2>1 DEF Covered, Working, Releasing
  <1>4. Owing(q) = reservedTotal[q]
    BY <1>1 DEF Owing, Counted, Refunding
  <1>5. job[w].total <= heldFor[q]
    <2>1. PICK d : Weighs(d, Worker, InFlight(q)) /\ heldFor[q] >= d[Worker] + Owing(q)
      BY <1>2 DEF HeldEnough
    <2>2. d[Worker] \in Nat
      BY <2>1 DEF Weighs
    <2> QED  BY <1>2, <1>3, <1>4, <2>1, <2>2
  <1>6. BankInv /\ job[w].bucket = drawsFrom[supiOf[q]]
    BY <1>1 DEF RouteInv, Routed
  <1>7. HeldCoversRecorded
    BY HeldCovers
  <1> QED  BY <1>1, <1>2, <1>3, <1>5, <1>6, <1>7, HeldIsBacked

\* Releasing: the total is owed until the refund is sent, and the balance function
\* carries the refund out, if it is sent to the bucket that was drawn on.
LEMMA ReleasingTidy ==
    ASSUME PricesReserved, TypeInv, TypeInv', SettleInv, SettleInv', HeldInv, WorkInv, RouteInv,
           TidyInv, NEW w \in Worker, disturbed \subseteq disturbed', Steady' => Steady,
           \/ ReadGranted(w) \/ Remove(w) \/ ResolveBucket(w, "resolveAgain", "unreserve")
           \/ Unreserve(w) \/ UnreserveLost(w) \/ CommitCall(w) \/ CommitLost(w)
    PROVE  TidyInv'
  <1> USE DEF sessionVars, balanceVars
  <1>t. /\ job \in [Worker -> Job] /\ pc \in [Worker -> Label]
        /\ heldFor \in [Ref -> Int] /\ reservedTotal \in [Ref -> Int]
    BY DEF TypeInv, TypeOK, BalanceTypeOK
  <1>0. Onward(w) /\ reservedTotal' = reservedTotal /\ pc[w] \in Releasing
    BY ReleaseOnward
  <1>1. PICK q \in Ref : q = job[w].ref /\ q \in created
    BY <1>0 DEF TypeInv, TypeOK, Located, Onward
  <1>o. /\ Owing(q) \in Nat /\ reservedTotal[q] \in Nat /\ heldFor[q] \in Int /\ HeldEnough(q)
        /\ job[w].total \in Int
    BY <1>t, SharesNatural DEF HeldInv, Job
  <1>2. CASE \/ ReadGranted(w) \/ ResolveBucket(w, "resolveAgain", "unreserve")
             \/ CommitCall(w) \/ CommitLost(w)
    <2>1. /\ UNCHANGED active /\ pc[w] # "addReserved" /\ pc'[w] # "addReserved"
          /\ pc'[w] \in {"resolveAgain", "unreserve"} <=> pc[w] \in {"resolveAgain", "unreserve"}
      BY <1>t, <1>2 DEF ReadGranted, ResolveBucket, CommitCall, CommitLost, Goto, Return
    <2>2. heldFor' = heldFor
      BY <1>2 DEF ReadGranted, ResolveBucket, CommitCall, CommitLost, CommitDebit, AdjustBalance,
                  AdjustCompleted, AdjustFailed
    <2> QED  BY <1>0, <2>1, <2>2, QuietTidy
  <1>3. CASE Remove(w)
    <2>1. /\ pc[w] = "remove" /\ active' = active \ {q} /\ UNCHANGED <<heldFor, reservedTotal>>
          /\ pc'[w] \in {"idle", "resolveAgain"}
          /\ q \notin active => pc'[w] = "idle"
          /\ q \in active => (pc'[w] = "resolveAgain" <=> job[w].total > 0)
      BY <1>t, <1>1, <1>3 DEF Remove, Admitted, Outstanding, Goto, Return
    <2>2. CASE q \notin active
      <3>1. active' = active
        BY <2>1, <2>2
      <3> QED  BY <1>0, <2>1, <2>2, <3>1, QuietTidy
    <2>3. CASE q \in active
      <3>1. ASSUME Tidy(q) PROVE Owing(q)' = Owing(q)
        <4>1. Owing(q) = reservedTotal[q]
          BY <2>3 DEF Owing, Counted
        <4>2. job[w].total = reservedTotal[q]
          BY <1>0, <1>1, <3>1 DEF Tidy, Current
        <4>3. CASE pc'[w] = "resolveAgain"
          <5>1. Refunding(q)'
            BY <1>0, <1>1, <4>3 DEF Refunding, Onward, Continues, Ends
          <5> QED  BY <1>0, <4>1, <5>1 DEF Owing, Counted
        <4>4. CASE pc'[w] # "resolveAgain"
          <5>1. reservedTotal'[q] = 0 /\ reservedTotal[q] = 0
            BY <1>0, <1>o, <2>1, <2>3, <4>2, <4>4
          <5> QED  BY <4>1, <5>1 DEF Owing
        <4> QED  BY <4>3, <4>4
      <3>2. Due(w, q) = 0 /\ Due(w, q)' = 0
        BY <2>1 DEF Due
      <3>3. Tidy(q) => heldFor'[q] - Due(w, q)' - Owing(q)' = heldFor[q] - Due(w, q) - Owing(q)
        BY <2>1, <3>1, <3>2
      <3>4. active' \subseteq active /\ \A r \in Ref \ {q} : (r \in active' <=> r \in active)
        BY <2>1
      <3> QED  BY <1>0, <1>1, <2>1, <3>3, <3>4, TidyStep
    <2> QED  BY <2>2, <2>3
  <1>4. CASE Unreserve(w) \/ UnreserveLost(w)
    <2>1. /\ pc[w] = "unreserve" /\ pc'[w] \in {"idle", "debit"} /\ active' = active
          /\ ReserveBalance(job[w].bucket, -job[w].total, q) \/ UNCHANGED balanceVars
          /\ UnreserveLost(w) => (heldFor' = heldFor => q \in disturbed')
          /\ Unreserve(w) => ReserveBalance(job[w].bucket, -job[w].total, q)
      <3>1. UnreserveLost(w) => (heldFor' = heldFor => q \in disturbed')
        BY <1>1 DEF UnreserveLost, Disturb
      <3> QED  BY <1>t, <1>1, <1>4, <3>1 DEF Unreserve, UnreserveLost, Refund, Goto, Return
    <2>2. /\ q \in created \ active /\ job[w].total > 0 /\ job[w].total <= reservedTotal[q]
          /\ \A v \in Worker : Settling(v) /\ job[v].ref = q => v = w
      <3>1. Settling(w) /\ Covered(w) /\ Working(w)
        BY <2>1 DEF Settling, SettleInv, NoNegativePrice, PricesReserved, WorkInv
      <3> QED  BY <1>0, <1>1, <2>1, <3>1 DEF SettleInv, OneSettlement, Covered, Working
    <2>3. Owing(q) = reservedTotal[q] /\ Owing(q)' = 0
      <3>1. Refunding(q)
        BY <1>1, <2>1 DEF Refunding
      <3>2. ~Refunding(q)'
        BY <1>0, <1>1, <2>1, <2>2 DEF Refunding, Onward, Others, Settling
      <3>3. q \in created' /\ q \notin active'
        BY <1>0, <2>1, <2>2 DEF Onward
      <3> QED  BY <3>1, <3>2, <3>3 DEF Owing, Counted
    <2>4. Steady => CanReserve(job[w].bucket, -job[w].total)
      BY <2>1, RefundBacked
    <2>5. ASSUME q \notin disturbed', Tidy(q), Followed(q)'
          PROVE  heldFor'[q] - Due(w, q)' - Owing(q)' = heldFor[q] - Due(w, q) - Owing(q)
      <3>1. CanReserve(job[w].bucket, -job[w].total)
        BY <1>0, <2>1, <2>2, <2>4, <2>5 DEF Followed, Onward
      <3>2. heldFor' = [heldFor EXCEPT ![q] = @ + (-job[w].total)]
        BY <1>4, <2>1, <2>5, <3>1 DEF ReserveBalance, ReserveCompleted, ReserveFailed, Credit
      <3>3. job[w].total = reservedTotal[q]
        BY <1>0, <1>1, <2>5 DEF Tidy, Current
      <3>4. heldFor'[q] = heldFor[q] - reservedTotal[q]
        BY <1>t, <1>o, <3>2, <3>3
      <3>5. Due(w, q) = 0 /\ Due(w, q)' = 0
        BY <2>1 DEF Due
      <3> QED  BY <1>o, <2>3, <3>4, <3>5
    <2>6. \A r \in Ref \ {q} : heldFor'[r] = heldFor[r]
      BY <1>t, <2>1 DEF ReserveBalance, ReserveCompleted, ReserveFailed, Credit
    <2> QED  BY <1>0, <1>1, <2>1, <2>5, <2>6, TidyStep
  <1> QED  BY <1>2, <1>3, <1>4

\* A death loses what was held and not recorded, or recorded and not handed back; that
\* is noted. Elsewhere it loses nothing.
LEMMA CrashTidy ==
    ASSUME PricesReserved, TypeInv, TypeInv', SettleInv, SettleInv', TidyInv,
           NEW w \in Worker, disturbed \subseteq disturbed', Steady' => Steady, Crash(w)
    PROVE  TidyInv'
  <1>1. /\ Onward(w) /\ Ends(w) /\ UNCHANGED <<active, reservedTotal>> /\ heldFor' = heldFor
    BY CrashOnward DEF balanceVars
  <1>2. PICK q \in Ref : q = job[w].ref
    BY <1>1 DEF TypeInv, TypeOK, Located, Onward
  <1>3. pc[w] \in {"addReserved", "resolveAgain", "unreserve"} => q \in disturbed'
    BY <1>2 DEF Crash, Disturb
  <1>4. CASE pc[w] \in {"addReserved", "resolveAgain", "unreserve"}
    BY <1>1, <1>2, <1>3, <1>4, TidyStep
  <1>5. CASE pc[w] \notin {"addReserved", "resolveAgain", "unreserve"}
    BY <1>1, <1>5, QuietTidy DEF Ends
  <1> QED  BY <1>4, <1>5

\* A request adds a handler to its session, or is noted.
LEMMA RequestTidy ==
    ASSUME PricesReserved, TypeInv, TypeInv', SettleInv, SettleInv', WorkInv, TidyInv,
           NEW w \in Worker, disturbed \subseteq disturbed', Steady' => Steady, ConsumerStep(w)
    PROVE  TidyInv'
  <1> USE DEF sessionVars
  <1>t. /\ job \in [Worker -> Job] /\ pc \in [Worker -> Label] /\ created \subseteq Ref
        /\ active \subseteq created /\ NoRef \notin Ref
        /\ \A v \in Worker : job[v].ref \in Ref => job[v].ref \in created /\ pc[v] # "idle"
    BY ChargingAssumption DEF TypeInv, TypeOK, Located, WorkInv, Working
  <1>0. Others(w) /\ pc[w] = "idle" /\ job[w].ref = NoRef
    BY RequestWorks
  \* Any of them, for session q.
  <1>1. ASSUME NEW q \in Ref, job'[w].ref = q, pc'[w] \in {"rate", "readGranted"},
               UNCHANGED <<heldFor, reservedTotal>>,
               created' = created \union {q}, active' \in {active, active \union {q}},
               q \notin created => q \in active', q \in created => active' = active,
               q \notin disturbed' /\ Tidy(q) => Unmixed(q)' /\ Current(q)'
        PROVE  TidyInv'
    <2>1. ASSUME NEW r \in Ref \ disturbed', r # q PROVE Tidy(r)'
      <3>1. r # job[w].ref /\ Tidy(r)
        BY <1>t, <1>0 DEF TidyInv
      <3>2. (r \in created' <=> r \in created) /\ (r \in active' <=> r \in active)
        BY <1>1, <2>1
      <3>3. heldFor'[r] = heldFor[r] /\ reservedTotal'[r] = reservedTotal[r]
        BY <1>1
      <3> QED  BY <1>0, <1>1, <2>1, <3>1, <3>2, <3>3, TidyElsewhere
    <2>2. ASSUME q \notin disturbed' PROVE Tidy(q)'
      <3>1. Tidy(q)
        BY <2>2 DEF TidyInv
      <3>2. Refunding(q)' <=> Refunding(q)
        BY <1>0, <1>1 DEF Refunding, Others
      <3>3. Counted(q)' <=> Counted(q)
        BY <1>1, <3>2 DEF Counted
      <3>4. Owing(q)' = Owing(q)
        BY <1>1, <3>3 DEF Owing
      <3>5. Due(w, q) = 0 /\ Due(w, q)' = 0
        BY <1>0, <1>1 DEF Due
      <3>6. heldFor'[q] - Due(w, q)' - Owing(q)' = heldFor[q] - Due(w, q) - Owing(q)
        BY <1>1, <3>4, <3>5
      <3>7. Followed(q)' => Followed(q)
        BY <1>1 DEF Followed
      <3>8. Followed(q)' => Exact(q)'
        BY <1>0, <3>1, <3>6, <3>7, ExactFrame DEF Tidy
      <3> QED  BY <1>1, <2>2, <3>1, <3>8 DEF Tidy
    <2> QED  BY <2>1, <2>2 DEF TidyInv
  <1>2. ASSUME NEW s, NEW n, Create(w, s, n) PROVE TidyInv'
    <2>1. PICK q \in Ref \ created :
             /\ created' = created \union {q} /\ active' = active \union {q}
             /\ job' = [job EXCEPT ![w] = [NoJob EXCEPT !.op = "Create", !.ref = q, !.left = n]]
      BY <1>2, Zenon DEF Create
    <2>2. UNCHANGED balanceVars /\ UNCHANGED reservedTotal /\ pc' = [pc EXCEPT ![w] = "rate"]
      BY <1>2, Zenon DEF Create, Goto
    <2>3. job'[w].ref = q /\ pc'[w] = "rate" /\ heldFor' = heldFor
      BY <1>t, <2>1, <2>2 DEF NoJob, balanceVars
    <2>4. Unmixed(q)' /\ Current(q)'
      <3>1. \A v \in Worker : job'[v].ref = q => v = w
        BY <1>t, <1>0, <2>1 DEF Others
      <3> QED  BY <2>1, <2>3, <3>1 DEF Unmixed, Current, Releasing
    <2> QED  BY <1>1, <2>1, <2>2, <2>3, <2>4
  <1>3. ASSUME NEW q \in Ref, NEW n, NEW u, Update(w, q, n, u) PROVE TidyInv'
    <2>1. /\ UNCHANGED sessionVars /\ UNCHANGED balanceVars /\ pc' = [pc EXCEPT ![w] = "rate"]
          /\ q \in active
      BY <1>3, UpdateArrives, Zenon
    <2>2. /\ job' = [job EXCEPT ![w] = [NoJob EXCEPT !.op = "Update", !.ref = q, !.left = n,
                                                     !.used = u]]
      BY <1>3, Zenon DEF Update
    <2>3. disturbed' = IF ReleasesOf(q) # {} THEN disturbed \union {q} ELSE disturbed
      BY <1>3, Zenon DEF Update, Disturb
    <2>4. job'[w].ref = q /\ pc'[w] = "rate" /\ heldFor' = heldFor
      BY <1>t, <2>1, <2>2 DEF NoJob, balanceVars
    <2>5. ASSUME q \notin disturbed', Tidy(q) PROVE Unmixed(q)' /\ Current(q)'
      <3>1. ReleasesOf(q) = {}
        BY <2>3, <2>5
      <3>2. \A v \in Worker : job[v].ref = q => pc[v] \notin Releasing
        BY <1>t, <3>1 DEF ReleasesOf, Handling, WorkInv, Working
      <3>3. \A v \in Worker : job'[v].ref = q => pc'[v] \notin Releasing
        BY <1>0, <2>4, <3>2 DEF Others, Releasing
      <3> QED  BY <2>1, <3>3 DEF Unmixed, Current
    <2> QED  BY <1>1, <1>t, <2>1, <2>4, <2>5
  <1>4. ASSUME NEW q \in Ref, NEW u, Release(w, q, u) PROVE TidyInv'
    <2>1. /\ UNCHANGED sessionVars /\ UNCHANGED balanceVars
          /\ pc' = [pc EXCEPT ![w] = "readGranted"] /\ q \in known
      BY <1>4, ReleaseArrives, Zenon
    <2>2. job' = [job EXCEPT ![w] = [NoJob EXCEPT !.op = "Release", !.ref = q, !.used = u,
                                                  !.total = reservedTotal[q]]]
      BY <1>4, Zenon DEF Release
    <2>3. disturbed' = IF ReleasesOf(q) # Handling(q) THEN disturbed \union {q} ELSE disturbed
      BY <1>4, Zenon DEF Release, Disturb
    <2>4. /\ job'[w].ref = q /\ job'[w].total = reservedTotal[q] /\ pc'[w] = "readGranted"
          /\ heldFor' = heldFor /\ q \in created
      BY <1>t, <2>1, <2>2 DEF NoJob, balanceVars, TypeInv, TypeOK
    <2>5. ASSUME q \notin disturbed', Tidy(q) PROVE Unmixed(q)' /\ Current(q)'
      <3>1. ReleasesOf(q) = Handling(q)
        BY <2>3, <2>5
      <3>2. \A v \in Worker : job[v].ref = q => pc[v] \in Releasing
        BY <1>t, <3>1 DEF ReleasesOf, Handling, WorkInv, Working
      <3>3. \A v \in Worker : job'[v].ref = q => pc'[v] \in Releasing
        BY <1>0, <2>4, <3>2 DEF Others, Releasing
      <3>4. \A v \in Worker : job'[v].ref = q => job'[v].total = reservedTotal'[q]
        BY <1>0, <2>1, <2>4, <2>5, <3>2 DEF Others, Tidy, Current
      <3> QED  BY <3>3, <3>4 DEF Unmixed, Current
    <2> QED  BY <1>1, <1>t, <2>1, <2>4, <2>5
  <1> QED  BY <1>2, <1>3, <1>4, Zenon DEF ConsumerStep

\* What is true of handlers, buckets and sessions at first, and after every step.
CoverInv == HeldInv /\ WorkInv /\ RouteInv /\ TidyInv

\* At first nothing is held and nobody is at work.
LEMMA InitCoverInv == Init => CoverInv
  <1> SUFFICES ASSUME Init PROVE CoverInv
    OBVIOUS
  <1>1. HeldInv
    BY InitHeldInv
  <1>2. /\ \A v \in Worker : pc[v] = "idle" /\ job[v].ref = NoRef
        /\ created = {} /\ \A r \in Ref : heldFor[r] = 0 /\ reservedTotal[r] = 0
        /\ \A b \in Bucket : reserved[b] = 0
    BY DEF Init, BalanceInit, NoJob
  <1>3. WorkInv
    BY <1>2 DEF WorkInv, Working
  <1>4. RouteInv
    <2>1. ASSUME NEW b \in Bucket PROVE Backed(b)
      <3>1. Drawing(b) \in [Ref -> Nat] /\ \A r \in Ref : Drawing(b)[r] = 0
        BY <1>2 DEF Drawing
      <3>2. PICK d : Weighs(d, Ref, Drawing(b)) /\ d[Ref] = 0
        BY <3>1, NoWeight
      <3> QED  BY <1>2, <3>2 DEF Backed
    <2> QED  BY <1>2, <2>1 DEF RouteInv, BankInv, Routed
  <1>5. ASSUME NEW r \in Ref PROVE Tidy(r)
    <2>2. InFlight(r) \in [Worker -> Nat] /\ \A v \in Worker : InFlight(r)[v] = 0
      BY <1>2 DEF InFlight, Due
    <2>3. PICK d : Weighs(d, Worker, InFlight(r)) /\ d[Worker] = 0
      BY <2>2, NoWeight
    <2>4. Exact(r)
      BY <1>2, <2>3 DEF Exact, Owing
    <2>5. \A v \in Worker : job[v].ref # r
      BY <1>2, ChargingAssumption
    <2> QED  BY <2>4, <2>5 DEF Tidy, Unmixed, Current
  <1> QED  BY <1>1, <1>3, <1>4, <1>5 DEF CoverInv, TidyInv

\* Every step keeps them.
LEMMA CoverInvInductive ==
    ASSUME PricesReserved, TypeInv, TypeInv', SettleInv, SettleInv', HeldCoversRecorded,
           HeldCoversRecorded', CoverInv, [Next]_vars
    PROVE  CoverInv'
  <1>1. HeldInv /\ WorkInv /\ RouteInv /\ TidyInv
    BY DEF CoverInv
  <1>2. HeldInv' /\ disturbed \subseteq disturbed' /\ (Steady' => Steady)
    BY <1>1, HeldInvInductive, DeviationsStay
  <1>3. RouteInv'
    BY <1>1, RouteInvInductive
  <1>4. ASSUME NEW w \in Worker, ConsumerStep(w) \/ HandlerStep(w) \/ Crash(w)
        PROVE  WorkInv' /\ TidyInv'
    <2>1. WorkInv'
      BY <1>1, <1>4, RequestWorks, RatingOnward, ReleaseOnward, CrashOnward, HandlerWorks
         DEF HandlerStep
    <2>2. TidyInv'
      BY <1>1, <1>2, <1>4, RequestTidy, RatingTidy, ReleasingTidy, CrashTidy DEF HandlerStep
    <2> QED  BY <2>1, <2>2
  <1>5. ASSUME \/ \E s \in Subscriber : MoveSubscriber(s)
               \/ \E b \in Bucket, amount \in TopupAmount : Topup(b, amount)
               \/ UNCHANGED vars
        PROVE  WorkInv' /\ TidyInv'
    <2>1. UNCHANGED <<created, active, reservedTotal, pc, job, heldFor>>
      BY <1>5 DEF MoveSubscriber, Topup, TopupBalance, vars, sessionVars, balanceVars
    <2>2. WorkInv'
      BY <1>1, <2>1 DEF WorkInv, Working
    <2>3. ASSUME NEW r \in Ref \ disturbed' PROVE Tidy(r)'
      <3>1. Tidy(r)
        BY <1>1, <1>2 DEF TidyInv
      <3>2. Exact(r) => Exact(r)'
        BY <2>1 DEF Exact, InFlight, Due, Owing, Counted, Refunding
      <3>3. Followed(r)' => Followed(r)
        BY <1>2, <2>1 DEF Followed
      <3> QED  BY <2>1, <3>1, <3>2, <3>3 DEF Tidy, Unmixed, Current
    <2> QED  BY <2>2, <2>3 DEF TidyInv
  <1>6. WorkInv' /\ TidyInv'
    BY <1>4, <1>5 DEF Next
  <1> QED  BY <1>2, <1>3, <1>6 DEF CoverInv

\* All that together, of every execution.
LEMMA CoveredAlways ==
    ASSUME PricesReserved
    PROVE  Spec => [](TypeInv /\ SettleInv /\ CoverInv)
  <1>1. TypeInv /\ TypeInv' /\ SettleInv /\ SettleInv' /\ HeldCoversRecorded
            /\ HeldCoversRecorded' /\ CoverInv /\ [Next]_vars => CoverInv'
    BY CoverInvInductive
  <1> QED  BY <1>1, InitCoverInv, SettledAlways, HeldCoversRecordedHolds, PTL DEF Spec

\* A session nobody works on has nothing in flight.
LEMMA QuietIsExact ==
    ASSUME TypeInv, NEW r \in Ref, Handling(r) = {}, Exact(r)
    PROVE  heldFor[r] = IF r \in created \ active THEN 0 ELSE reservedTotal[r]
  <1>1. PICK d : Weighs(d, Worker, InFlight(r)) /\ heldFor[r] = d[Worker] + Owing(r)
    BY DEF Exact
  <1>2. \A v \in Worker : InFlight(r)[v] = 0
    BY DEF InFlight, Due, Handling
  <1>3. d[Worker] = 0
    BY <1>1, <1>2 DEF Weighs
  <1>4. Owing(r) = IF r \in created \ active THEN 0 ELSE reservedTotal[r]
    BY DEF Owing, Counted, Refunding, Handling, TypeInv, TypeOK
  <1>5. Owing(r) \in Int
    BY DEF Owing, TypeInv, TypeOK
  <1> QED  BY <1>1, <1>3, <1>4, <1>5

\* The completed reserve_balance rows of an active session nobody works on sum to its
\* reserved_total, though no transaction spans the two stores: for any number of
\* sessions and of handlers that overlap, on shared buckets and with any faults, unless
\* a handler of that session died, or was not answered, between the two stores
\* (charging_engine.cpp).
THEOREM CompletedRowsMatchSessionHolds ==
    ASSUME PricesReserved
    PROVE  Spec => []CompletedRowsMatchSession
  <1>1. TypeInv /\ CoverInv => CompletedRowsMatchSession
    <2> SUFFICES ASSUME TypeInv, CoverInv, NEW r \in active \ disturbed, Handling(r) = {}
                 PROVE  heldFor[r] = reservedTotal[r]
      BY DEF CompletedRowsMatchSession
    <2>1. r \in Ref /\ Exact(r)
      BY DEF TypeInv, TypeOK, CoverInv, TidyInv, Tidy, Followed
    <2> QED  BY <2>1, QuietIsExact
  <1> QED  BY <1>1, CoveredAlways, PTL

\* Money stays held for a released session only if its Release overlapped an Update,
\* its handler died or was not answered, or the calls for a subscriber did not all meet
\* one bucket (charging_engine.cpp, finalize_subscriber_balance).
THEOREM StrandedOnlyWhenDisturbedHolds ==
    ASSUME PricesReserved
    PROVE  Spec => []StrandedOnlyWhenDisturbed
  <1>1. TypeInv /\ CoverInv => StrandedOnlyWhenDisturbed
    <2> SUFFICES ASSUME TypeInv, CoverInv, Steady, NEW r \in Ref \ disturbed, Quiet(r)
                 PROVE  heldFor[r] = 0
      BY Zenon DEF StrandedOnlyWhenDisturbed, Steady
    <2>1. Handling(r) = {} /\ r \in created \ active
      BY DEF Quiet
    <2>2. Exact(r)
      BY DEF CoverInv, TidyInv, Tidy, Followed
    <2> QED  BY <2>1, <2>2, QuietIsExact
  <1> QED  BY <1>1, CoveredAlways, PTL

\* As long as they do meet one bucket the balance function carries every refund out, as
\* charging_engine.cpp says of it, however many sessions draw on the bucket and
\* whatever overlaps, is lost or dies: what is held for a session is part of what the
\* bucket it draws on has reserved.
THEOREM RefusedOnlyWhenReroutedHolds ==
    ASSUME PricesReserved
    PROVE  Spec => []RefusedOnlyWhenRerouted
  <1>1. TypeInv /\ SettleInv /\ CoverInv => RefusedOnlyWhenRerouted
    <2> SUFFICES ASSUME TypeInv, SettleInv, CoverInv, Steady,
                        NEW w \in Worker, pc[w] = "unreserve"
                 PROVE  CanReserve(job[w].bucket, -job[w].total)
      BY Zenon DEF RefusedOnlyWhenRerouted, UnreserveAlwaysSucceeds, Steady
    <2> QED  BY RefundBacked DEF CoverInv
  <1> QED  BY <1>1, CoveredAlways, PTL
=============================================================================
