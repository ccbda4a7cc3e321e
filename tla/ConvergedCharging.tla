------------------------- MODULE ConvergedCharging -------------------------
(***************************************************************************)
(* Nchf_ConvergedCharging of the charging function (nfs/chf): Create,      *)
(* Update and Release of charging sessions, executed by many threads (and  *)
(* many CHF instances) over the shared session store in Redis and over the *)
(* account balance function, which they call synchronously.                *)
(*                                                                         *)
(* A worker is one handler in execution.  A step of it is one call to the  *)
(* other side, so every interleaving of the calls is explored: the bucket  *)
(* lookup, the reservation, HINCRBYFLOAT on the session, SREM, the         *)
(* refund and the debit are steps of their own, because the code holds no  *)
(* lock across any two of them.                                            *)
(*                                                                         *)
(* Requests carry no idempotency key here, as those of the SMF do not;     *)
(* duplicate detection is in DuplicateDetection.  A price grants one       *)
(* dimension, volume; the arithmetic over all three is in ChargedUsage.    *)
(***************************************************************************)
EXTENDS BalanceManagement, FiniteSets, ProportionalDebit

CONSTANTS
    Subscriber,   \* SUPIs; a subscriber's own bucket has the SUPI as its id
    Worker,       \* handler executions that can be in progress at once
    Offer,        \* prices that can match a usage: [priced, cost, units], where priced
                  \* is whether the catalog gives the price a value, and cost is that
                  \* value, or what a build reads in place of one that is not there
    UsedUnits,    \* usage a request may report
    UsageCount,   \* how many MultipleUnitUsage entries a request may carry
    ReleaseReports, \* whether the consumer reports usage in Release as well
    SerialConsumer, \* whether it awaits one answer before the next request of a session
    FaultKind,    \* the faults that may happen: lost, lookup, move, crash
    MaxFaults,    \* bound of the model: faults per behaviour
    MaxInvocations, \* bound of the model: Updates per session
    NoBucket      \* the bucket of a handler that has not resolved one

NoRef == 0 \* a number no ChargingDataRef has: INCR starts at 1

ASSUME ChargingAssumption ==
    /\ Subscriber \subseteq Bucket
    /\ Ref \subseteq Nat \ {NoRef}
    /\ Offer \subseteq [priced : BOOLEAN, cost : Int, units : Nat]
    /\ UsedUnits \subseteq Nat
    /\ UsageCount \subseteq Nat
    /\ ReleaseReports \in BOOLEAN /\ SerialConsumer \in BOOLEAN
    /\ FaultKind \subseteq {"lost", "lookup", "move", "crash"}
    /\ MaxFaults \in Nat /\ MaxInvocations \in Nat
    /\ NoBucket \notin Bucket

VARIABLES
    created,       \* refs chf:cdr:next_id has handed out
    active,        \* the set chf:cdr:active
    supiOf,        \* chf:cdr:content:{ref} supi, of the created refs
    reservedTotal, \* chf:cdr:content:{ref} reserved_total
    grantedUnits,  \* chf:cdr:content:{ref} granted_volume
    drawsFrom,     \* bucket_related_party: the active shared bucket of a
                   \* subscriber, or the subscriber's own
    known,         \* refs whose Location reached the consumer
    invoked,       \* Updates sent per ref (invocationSequenceNumber)
    pc,            \* where each worker is in its handler
    job,           \* the handler's locals
    faults,        \* faults so far
    reported,      \* history: units the consumer reported used, per ref
    debited,       \* history: completed adjust_balance rows that commit the ref
    disturbed,     \* history: refs whose handlers overlapped, died or lost an answer so
                   \* that the CHF does not know of money that is held for them
    rerouted       \* history: whether a subscriber's calls may have met different buckets

sessionVars == <<created, active, supiOf, reservedTotal, grantedUnits>>
consumerVars == <<known, invoked>>
deviationVars == <<disturbed, rerouted>>
historyVars == <<reported, debited, disturbed, rerouted>>
vars == <<balanceVars, sessionVars, drawsFrom, consumerVars, pc, job, faults, historyVars>>

NoJob == [op |-> "none", ref |-> NoRef, left |-> 0, used |-> 0, cost |-> 0, units |-> 0,
          bucket |-> NoBucket, total |-> 0, debit |-> 0]

Shared == Bucket \ Subscriber

-----------------------------------------------------------------------------
Init ==
    /\ BalanceInit
    /\ created = {}
    /\ active = {}
    /\ supiOf = [r \in {} |-> NoRef]
    /\ reservedTotal = [r \in Ref |-> 0]
    /\ grantedUnits = [r \in Ref |-> 0]
    /\ drawsFrom \in {f \in [Subscriber -> Bucket] :
                        \A s \in Subscriber : f[s] \in Shared \union {s}}
    /\ known = {}
    /\ invoked = [r \in Ref |-> 0]
    /\ pc = [w \in Worker |-> "idle"]
    /\ job = [w \in Worker |-> NoJob]
    /\ faults = 0
    /\ reported = [r \in Ref |-> 0]
    /\ debited = [r \in Ref |-> 0]
    /\ disturbed = {} /\ rerouted = FALSE

Fault(kind) ==
    /\ kind \in FaultKind
    /\ faults < MaxFaults
    /\ faults' = faults + 1

Goto(w, label) == pc' = [pc EXCEPT ![w] = label]

Return(w) ==
    /\ pc' = [pc EXCEPT ![w] = "idle"]
    /\ job' = [job EXCEPT ![w] = NoJob]

Handling(r) == {w \in Worker : job[w].ref = r}

ReleasesOf(r) == {w \in Handling(r) : job[w].op = "Release"}

\* The session is disturbed from here on, if the condition holds.
Disturb(r, condition) ==
    /\ disturbed' = IF condition THEN disturbed \union {r} ELSE disturbed
    /\ UNCHANGED <<reported, debited, rerouted>>

\* The consumer may send a request for a session it knows.
MaySend(r) == r \in known /\ (SerialConsumer => Handling(r) = {})

-----------------------------------------------------------------------------
(* Create and Update: charge_one_usage for each usage of the request. *)

\* POST /chargingdata: ChargingDataStore::create, which nobody else can name yet.
Create(w, s, n) ==
    /\ pc[w] = "idle"
    /\ \E r \in Ref \ created :
          /\ \A q \in Ref \ created : r <= q
          /\ created' = created \union {r}
          /\ active' = active \union {r}
          /\ supiOf' = [q \in created' |-> IF q = r THEN s ELSE supiOf[q]]
          /\ job' = [job EXCEPT ![w] = [NoJob EXCEPT !.op = "Create", !.ref = r, !.left = n]]
    /\ Goto(w, "rate")
    /\ UNCHANGED <<balanceVars, reservedTotal, grantedUnits, drawsFrom, consumerVars,
                   faults, historyVars>>

\* POST /chargingdata/{ref}/update of an active session.  An inactive one is
\* answered 404 and nothing changes.
Update(w, r, n, u) ==
    /\ pc[w] = "idle"
    /\ MaySend(r)
    /\ invoked[r] < MaxInvocations
    /\ r \in active
    /\ invoked' = [invoked EXCEPT ![r] = @ + 1]
    /\ job' = [job EXCEPT ![w] = [NoJob EXCEPT !.op = "Update", !.ref = r, !.left = n,
                                               !.used = u]]
    /\ Disturb(r, ReleasesOf(r) # {})
    /\ Goto(w, "rate")
    /\ UNCHANGED <<balanceVars, sessionVars, drawsFrom, known, faults>>

\* The loop over the MultipleUnitUsage entries of the request.
HasUsage(w) == job[w].left > 0

\* The balance function is asked for a price that has a value, above zero.
ToReserve(o) == o.priced /\ o.cost > 0

\* build_rating_grant: the offer that matches the next usage, or none.  A price
\* without a positive value reserves nothing and counts as reserved.
Rate(w) ==
    /\ pc[w] = "rate"
    /\ HasUsage(w)
    /\ \/ \E o \in Offer :
            /\ job' = [job EXCEPT ![w].cost = o.cost, ![w].units = o.units]
            /\ Goto(w, IF ToReserve(o) THEN "resolve" ELSE "addReserved")
       \/ /\ Goto(w, "cdr")
          /\ UNCHANGED job
    /\ UNCHANGED <<balanceVars, sessionVars, drawsFrom, consumerVars, faults, historyVars>>

\* resolve_bucket_id: the shared bucket the subscriber draws from at this moment,
\* the subscriber's own when there is none or when the lookup fails.
ResolveBucket(w, from, to) ==
    LET supi == supiOf[job[w].ref] IN
    /\ pc[w] = from
    /\ \/ /\ job' = [job EXCEPT ![w].bucket = drawsFrom[supi]]
          /\ UNCHANGED <<faults, rerouted>>
       \/ /\ Fault("lookup")
          /\ job' = [job EXCEPT ![w].bucket = supi]
          /\ rerouted' = (rerouted \/ supi # drawsFrom[supi])
    /\ Goto(w, to)
    /\ UNCHANGED <<balanceVars, sessionVars, drawsFrom, consumerVars, reported, debited,
                   disturbed>>

\* Mutant of Confirmed: any 201 counts as reserved.
ConfirmedByStatus201(b, amount) == TRUE

\* reserve_subscriber_balance reads the row's status, "completed" or "failed".
Confirmed(b, amount) == CanReserve(b, amount)

\* reserve_subscriber_balance, answered.
Reserve(w) ==
    LET j == job[w] IN
    /\ pc[w] = "reserve"
    /\ ReserveBalance(j.bucket, j.cost, j.ref)
    /\ Goto(w, IF Confirmed(j.bucket, j.cost) THEN "addReserved" ELSE "cdr")
    /\ UNCHANGED <<sessionVars, drawsFrom, consumerVars, job, faults, historyVars>>

\* reserve_subscriber_balance, no answer: not reserved as far as the CHF knows,
\* whether or not the balance function committed it.
ReserveLost(w) ==
    LET j == job[w] IN
    /\ pc[w] = "reserve"
    /\ Fault("lost")
    /\ ReserveBalance(j.bucket, j.cost, j.ref) \/ UNCHANGED balanceVars
    /\ Disturb(j.ref, heldFor' # heldFor)
    /\ Goto(w, "cdr")
    /\ UNCHANGED <<sessionVars, drawsFrom, consumerVars, job>>

\* ChargingDataStore::add_reserved of *cost->value: for a price without a value,
\* whatever the storage of the empty optional holds.
AddReserved(w) ==
    /\ pc[w] = "addReserved"
    /\ reservedTotal' = [reservedTotal EXCEPT ![job[w].ref] = @ + job[w].cost]
    /\ Goto(w, "addGranted")
    /\ UNCHANGED <<balanceVars, created, active, supiOf, grantedUnits, drawsFrom,
                   consumerVars, job, faults, historyVars>>

\* ChargingDataStore::add_granted_volume, a command of its own after add_reserved.
AddGranted(w) ==
    /\ pc[w] = "addGranted"
    /\ grantedUnits' = [grantedUnits EXCEPT ![job[w].ref] = @ + job[w].units]
    /\ Goto(w, "cdr")
    /\ UNCHANGED <<balanceVars, created, active, supiOf, reservedTotal, drawsFrom,
                   consumerVars, job, faults, historyVars>>

\* The usage's CDR row carries what was reported used; then the next usage.
WriteCdr(w) ==
    /\ pc[w] = "cdr"
    /\ reported' = [reported EXCEPT ![job[w].ref] = @ + job[w].used]
    /\ job' = [job EXCEPT ![w].left = @ - 1, ![w].cost = 0, ![w].units = 0,
                          ![w].bucket = NoBucket]
    /\ Goto(w, "rate")
    /\ UNCHANGED <<balanceVars, sessionVars, drawsFrom, consumerVars, faults, debited,
                   deviationVars>>

\* 201 with the Location of a new session, or 200.
Answer(w) ==
    /\ pc[w] = "rate"
    /\ job[w].left = 0
    /\ \/ known' = known \union {job[w].ref} /\ UNCHANGED faults
       \/ Fault("lost") /\ UNCHANGED known
    /\ Return(w)
    /\ UNCHANGED <<balanceVars, sessionVars, drawsFrom, invoked, historyVars>>

-----------------------------------------------------------------------------
(* Release: read the session, remove it from the active set, settle. *)

\* POST /chargingdata/{ref}/release: get_supi, written once, and get_reserved_total.
Release(w, r, u) ==
    /\ pc[w] = "idle"
    /\ MaySend(r)
    /\ job' = [job EXCEPT ![w] = [NoJob EXCEPT !.op = "Release", !.ref = r, !.used = u,
                                               !.total = reservedTotal[r]]]
    /\ Disturb(r, ReleasesOf(r) # Handling(r))
    /\ Goto(w, "readGranted")
    /\ UNCHANGED <<balanceVars, sessionVars, drawsFrom, consumerVars, faults>>

\* get_granted_volume, a read of its own.
ReadGranted(w) ==
    /\ pc[w] = "readGranted"
    /\ job' = [job EXCEPT ![w].units = grantedUnits[job[w].ref]]
    /\ Goto(w, "remove")
    /\ UNCHANGED <<balanceVars, sessionVars, drawsFrom, consumerVars, faults, historyVars>>

\* Mutant of Admitted: the result of release() is ignored.
AdmittedAlways(r) == TRUE

\* SREM removed one member: this Release and no other.
Admitted(r) == r \in active

Outstanding(j) == j.total > 0

InVolume(n) == [d \in Dim |-> IF d = "volume" THEN n ELSE 0]

\* ChargingDataStore::release: SREM lets one Release through; the others get 404.
\* The winner computes the debit from what it read before.
Remove(w) ==
    LET j == job[w] IN
    /\ pc[w] = "remove"
    /\ active' = active \ {j.ref}
    /\ \/ /\ Admitted(j.ref)
          /\ reported' = [reported EXCEPT ![j.ref] = @ + j.used]
          /\ IF Outstanding(j)
             THEN /\ job' = [job EXCEPT ![w].debit =
                                 Debit(j.total, InVolume(j.units), InVolume(j.used))]
                  /\ Goto(w, "resolveAgain")
             ELSE Return(w)
       \/ /\ ~Admitted(j.ref)
          /\ Return(w)
          /\ UNCHANGED reported
    /\ UNCHANGED <<balanceVars, created, supiOf, reservedTotal, grantedUnits, drawsFrom,
                   consumerVars, faults, debited, deviationVars>>

\* Mutant of Refund: only what was consumed is handed back.
RefundConsumed(j) == j.debit

Refund(j) == j.total

\* finalize_subscriber_balance, the refund of the whole total.  Only the HTTP
\* status is looked at, and a refund the balance function refused is a 201 too.
Unreserve(w) ==
    LET j == job[w] IN
    /\ pc[w] = "unreserve"
    /\ ReserveBalance(j.bucket, -Refund(j), j.ref)
    /\ IF j.debit > 0 THEN Goto(w, "debit") /\ UNCHANGED job ELSE Return(w)
    /\ UNCHANGED <<sessionVars, drawsFrom, consumerVars, faults, historyVars>>

UnreserveLost(w) ==
    LET j == job[w] IN
    /\ pc[w] = "unreserve"
    /\ Fault("lost")
    /\ ReserveBalance(j.bucket, -Refund(j), j.ref) \/ UNCHANGED balanceVars
    /\ Disturb(j.ref, heldFor' = heldFor)
    /\ Return(w)
    /\ UNCHANGED <<sessionVars, drawsFrom, consumerVars>>

CommitDebit(b, r, amount) ==
    /\ AdjustBalance(b, -amount)
    /\ debited' = IF CanAdjust(b, -amount) THEN [debited EXCEPT ![r] = @ + amount]
                                           ELSE debited

\* finalize_subscriber_balance, the commit.  A failure is logged, never retried.
CommitCall(w) ==
    /\ pc[w] = "debit"
    /\ CommitDebit(job[w].bucket, job[w].ref, job[w].debit)
    /\ Return(w)
    /\ UNCHANGED <<sessionVars, drawsFrom, consumerVars, faults, reported, deviationVars>>

\* Mutant of CommitLost: the debit is sent again when its answer is lost.
CommitRetried(w) ==
    /\ pc[w] = "debit"
    /\ Fault("lost")
    /\ CommitDebit(job[w].bucket, job[w].ref, job[w].debit)
    /\ UNCHANGED <<sessionVars, drawsFrom, consumerVars, reported, deviationVars, pc, job>>

CommitLost(w) ==
    /\ pc[w] = "debit"
    /\ Fault("lost")
    /\ \/ CommitDebit(job[w].bucket, job[w].ref, job[w].debit)
       \/ UNCHANGED <<balanceVars, debited>>
    /\ Return(w)
    /\ UNCHANGED <<sessionVars, drawsFrom, consumerVars, reported, deviationVars>>

-----------------------------------------------------------------------------
(* The surroundings. *)

\* The process that runs the handler dies; Redis and PostgreSQL survive it.
Crash(w) ==
    /\ pc[w] # "idle"
    /\ Fault("crash")
    /\ Disturb(job[w].ref, pc[w] \in {"addReserved", "resolveAgain", "unreserve"})
    /\ Return(w)
    /\ UNCHANGED <<balanceVars, sessionVars, drawsFrom, consumerVars>>

\* Membership of a shared bucket is provisioned outside of both services.
MoveSubscriber(s) ==
    /\ Fault("move")
    /\ \E b \in Shared \union {s} :
          /\ b # drawsFrom[s]
          /\ drawsFrom' = [drawsFrom EXCEPT ![s] = b]
    /\ rerouted' = TRUE
    /\ UNCHANGED <<balanceVars, sessionVars, consumerVars, pc, job, reported, debited,
                   disturbed>>

\* The operator or the subscriber tops a bucket up.
Topup(b, amount) ==
    /\ topupRows[b] + amount <= MaxMoney
    /\ TopupBalance(b, amount)
    /\ UNCHANGED <<sessionVars, drawsFrom, consumerVars, pc, job, faults, historyVars>>

\* What a handler does once it is running, none of it waiting for anyone: the
\* client call it may be in is bounded by SBI_CLIENT_TIMEOUT_MS.
HandlerStep(w) ==
    \/ Rate(w)
    \/ ResolveBucket(w, "resolve", "reserve")
    \/ Reserve(w) \/ ReserveLost(w)
    \/ AddReserved(w) \/ AddGranted(w) \/ WriteCdr(w) \/ Answer(w)
    \/ ReadGranted(w) \/ Remove(w)
    \/ ResolveBucket(w, "resolveAgain", "unreserve")
    \/ Unreserve(w) \/ UnreserveLost(w)
    \/ CommitCall(w) \/ CommitLost(w)

ConsumerStep(w) ==
    \/ \E s \in Subscriber, n \in UsageCount : Create(w, s, n)
    \/ \E r \in Ref, n \in UsageCount, u \in UsedUnits : Update(w, r, n, u)
    \/ \E r \in Ref, u \in (IF ReleaseReports THEN UsedUnits ELSE {0}) : Release(w, r, u)

Next ==
    \/ \E w \in Worker : ConsumerStep(w) \/ HandlerStep(w) \/ Crash(w)
    \/ \E s \in Subscriber : MoveSubscriber(s)
    \/ \E b \in Bucket, amount \in TopupAmount : Topup(b, amount)

Spec == Init /\ [][Next]_vars

\* A handler that is running goes on running: the server's threads are scheduled.
Fairness == \A w \in Worker : WF_vars(HandlerStep(w))

FairSpec == Spec /\ Fairness

-----------------------------------------------------------------------------
Operation == {"none", "Create", "Update", "Release"}

Label == {"idle", "rate", "resolve", "reserve", "addReserved", "addGranted", "cdr",
          "readGranted", "remove", "resolveAgain", "unreserve", "debit"}

Job == [op : Operation, ref : Ref \union {NoRef}, left : Nat, used : Nat, cost : Int,
        units : Nat, bucket : Bucket \union {NoBucket}, total : Int, debit : Nat]

DeviationTypeOK == disturbed \subseteq Ref /\ rerouted \in BOOLEAN

TypeOK ==
    /\ BalanceTypeOK
    /\ created \subseteq Ref /\ active \subseteq created /\ known \subseteq created
    /\ supiOf \in [created -> Subscriber]
    /\ reservedTotal \in [Ref -> Int] /\ grantedUnits \in [Ref -> Nat]
    /\ drawsFrom \in [Subscriber -> Bucket]
    /\ invoked \in [Ref -> Nat]
    /\ pc \in [Worker -> Label] /\ job \in [Worker -> Job]
    /\ faults \in Nat
    /\ reported \in [Ref -> Nat] /\ debited \in [Ref -> Nat]
    /\ DeviationTypeOK

Settling(w) == pc[w] \in {"resolveAgain", "unreserve", "debit"}

\* What the debit relies on the catalog for: a session's reserved_total never falls.
NoNegativePrice == \A o \in Offer : o.cost >= 0

\* However many Releases of a session race, retransmitted ones included, SREM
\* admits one to the settlement (ChargingDataStore::release), and it works on a
\* session no later Update can find active.
OneSettlement ==
    /\ \A w \in Worker : Settling(w) => job[w].ref \in created \ active
    /\ \A v, w \in Worker :
          Settling(v) /\ Settling(w) /\ job[v].ref = job[w].ref => v = w

\* The session store never claims more money than the balance function holds for
\* the session: reserved_total is raised only after a completed reservation and a
\* refund is sent only once the session is out of the active set.  So the total a
\* Release reads is money it is entitled to hand back, whatever was lost before.
HeldCoversRecorded ==
    /\ \A r \in active : heldFor[r] >= reservedTotal[r]
    /\ \A r \in Ref : heldFor[r] >= 0

\* A session is debited by its one Release and never for more than was recorded
\* as reserved for it, whatever the interleaving with Updates, and with every
\* answer of the balance function lost or late.
DebitedWithinRecorded ==
    \A r \in Ref :
        /\ debited[r] <= reservedTotal[r]
        /\ debited[r] > 0 => r \in created \ active

\* What the subscriber was promised, whatever fails: see PrepaidSession.
Promise == INSTANCE PrepaidSession WITH
    Session    <- Ref,
    opened     <- created,
    closed     <- created \ active,
    authorised <- reservedTotal,
    charged    <- debited

KeepsPromise == Promise!Spec

Quiet(r) == r \in created \ active /\ Handling(r) = {}

\* "ADR-0297: the reservation was released in FULL above" (charging_engine.cpp):
\* once the handlers of a released session are done, the balance function holds
\* nothing for it any more.
ReleasedInFull == \A r \in Ref : Quiet(r) => heldFor[r] = 0

\* What is true of that, whatever overlaps, is lost or dies: money stays held after
\* the Release only of a session whose Release overlapped an Update, whose handler
\* died between two stores, whose reservation or refund was not answered, or where
\* the bucket of a subscriber changed or could not be looked up (charging_engine.cpp,
\* finalize_subscriber_balance).
StrandedOnlyWhenDisturbed ==
    ~rerouted => \A r \in Ref \ disturbed : Quiet(r) => heldFor[r] = 0

\* The completed reserve_balance rows of an active session that no handler is working
\* on sum to the reserved_total of the session store, whatever Updates overlapped:
\* the two stores, which no transaction spans, disagree only about a session whose
\* handler died or lost an answer between them (charging_engine.cpp).
CompletedRowsMatchSession ==
    \A r \in active \ disturbed : Handling(r) = {} => heldFor[r] = reservedTotal[r]

\* A released session is eventually settled: no reservation outlives it for good,
\* unless it was disturbed or a subscriber's bucket was not the same for all calls.
EventuallyReleased ==
    \A r \in Ref : r \in created \ active ~> heldFor[r] = 0 \/ r \in disturbed \/ rerouted

\* "unreserve FIRST (... always succeeds since exactly this much is known to be
\* reserved)" (charging_engine.cpp, finalize_subscriber_balance).
UnreserveAlwaysSucceeds ==
    \A w \in Worker : pc[w] = "unreserve" => CanReserve(job[w].bucket, -job[w].total)

\* It does as long as the calls for a subscriber meet one bucket, however many sessions
\* draw on that bucket and whatever overlaps, is lost or dies.
RefusedOnlyWhenRerouted == ~rerouted => UnreserveAlwaysSucceeds

\* "recoverable from PostgreSQL: SUM(amount_value) WHERE charging_data_ref = ref"
\* (charging_engine.hpp): for an active session that no handler is working on, the
\* query gives what the session store holds.
RecoverableFromLedger ==
    \A r \in active : Handling(r) = {} => claimedFor[r] = reservedTotal[r]

\* "charge what was used" (ADR-0297): a released session was debited the consumed
\* share of its grants, measured on what its consumer reported.
ChargesWhatWasUsed ==
    \A r \in Ref : Quiet(r) =>
        debited[r] = Debit(reservedTotal[r], InVolume(grantedUnits[r]), InVolume(reported[r]))
=============================================================================
