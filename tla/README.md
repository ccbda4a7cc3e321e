# TLA+ models of the 5G core and its charging

This directory specifies, model-checks and proves properties of five parts of the
repository in which the order of concurrent steps decides the outcome:

- charging: who pays what (`nfs/chf`, `bss/balance-management`);
- the records charging leaves behind (`CdrWriter` of `nfs/chf`);
- the Diameter front door of the CHF;
- the UDSF, where other functions keep their records and timers (`nfs/udsf`);
- the N2 handover of the AMF, with what the SMF does for it (`nfs/amf`, `nfs/smf`).

The modules are plain TLA+. `tlc -config X.cfg M.tla` runs a check and `tlapm M.tla` a
proof; the table of runs and the list of theorems say which files go together.
`PROJECT.json` maps every definition to the lines it models.

## 1. The system

The repository is a 5G core as separate processes: network functions (`nfs/`),
business support services (`bss/`), shared libraries (`libs/`), and a GUI, simulators
and deployment material. Processes talk HTTP/2 (SBI), PFCP, NGAP, Diameter and SS7;
state that has to survive a process is in Redis/Valkey, PostgreSQL or Doris. Every
HTTP server runs its handlers on a pool of threads (`sbi_core::run_multi_threaded`)
and blocks a thread for the duration of a call to another service; Diameter and NGAP
have one thread per connection. No lock spans two calls, so the interleavings that
matter are those of the calls.

| Part | State | Operations | Talks to |
| --- | --- | --- | --- |
| Balance management (`bss/balance-management`) | PostgreSQL: `bucket` (remaining, reserved), one event row per attempt in `topup_balance`, `adjust_balance`, `reserve_balance` | top-up, adjust, reserve (a refund is a reservation with a negative amount), reads | called by the CHF, operators, provisioning |
| Converged charging sessions (`nfs/chf`, `/nchf-convergedcharging/v3`) | Redis: `chf:cdr:next_id`, the set `chf:cdr:active`, the hash `chf:cdr:content:{ref}` with `supi`, `reserved_total`, `granted_volume`, ... | Create, Update, Release | SMF and SMSF as consumers; balance management; product catalog |
| Consumed share (`proportional_debit.cpp`, `unit_pooling.cpp`) | none | total, grants and usage to a debit | called by Release |
| Duplicate request detection (`IdempotencyStore`) | Redis: the hash `chf:idem:{key}` with a TTL | claim, await, remember | first and last thing of Create and Release |
| Spending limit control (`/nchf-spendinglimitcontrol/v1`) | Redis: subscription content and the active set, the status of a policy counter | Subscribe, Update, Unsubscribe, PUT of a counter with its push | PCF as consumer |
| CDR writer (`cdr.cpp`) | per instance a buffer behind a mutex, a flusher thread and a connection; shared, the table `cdr` and archive files | write, flush, gap detection, retention sweep, stop | every charging handler; Doris directly, or the event bus and a routine load |
| Diameter Gy, Rf, Sy (`diameter_server.cpp`) | per connection the maps from Session-Id to a ref; a registry of Session-Ids behind a mutex; a slot for the RAA per connection | CCR, ACR, SLR and STR; re-authorisation from other threads; the end of a connection | PCEF; the session and subscription stores |
| UDSF data repository (`nfs/udsf`) | Valkey: `rec:`, `blkm:`, `blkd:`, the tag index `rtag:`, subscriptions `sub:`, the queue `notifq` | write requests to a record, its meta, its blocks; subscriptions | network functions as clients |
| UDSF timers and expiry | Valkey: `tmr:`, five sorted sets `due:` | start, repeat, stop of a timer; a sweep on every replica | the notification queue |
| N2 handover (`ngap_handover.cpp`) | the registry of gNB associations with one reply slot per gNB, `NgapUeRegistry`, per association the UE's state | HandoverRequired, relay to the target, Notify, Cancel, release, end of an association | two gNBs; the SMF, which moves the downlink |
| Rating (`charging_engine.cpp`), catalog snapshot, quota history, offline-only charging, CAP | see section 8 | | |

What is hard about it, with the lines, is the `hazards` list of `PROJECT.json`: calls
to two stores with no transaction around them, answers lost after the work was done,
state that one connection's thread keeps and another needs, optimistic transactions
that lose races, entries claimed by a process that then stops, a reply that comes
after its waiter gave up.

What makes each part correct:

- *Balance management*: no column goes below zero; the event rows account for every
  unit; only a top-up creates a bucket.
- *Sessions*: settled once however many Releases race; never debited above what was
  recorded as reserved; never recorded above what is held; let go in full, and
  eventually, except a session that was itself disturbed by a fault or by a Release
  that overlapped an Update.
- *Consumed share*: between nothing and the reservation; everything at full use; never
  less for more use; never free because it cannot be measured.
- *Duplicate detection*: one delivery processes, the others repeat its answer; a wait
  ends.
- *Spending limits*: an unsubscribed consumer stays unsubscribed; a consumer that gave
  a notifUri knows the status, unless its last message was lost or late; no content
  outlives its subscription where requests do not overlap.
- *Records*: a record is missing only where a fault took it, another usage of its
  request replaced it, or a sweep deleted it before archiving it; a gap reported has a
  reason; a buffer drains.
- *Diameter*: a registered Session-Id leads to a connection that can have it; a stored
  session can still be addressed by its peer; it is settled once.
- *UDSF*: a write takes effect at once and under its condition; the index follows the
  record; a subscriber is told; what expires goes; a timer fires neither early nor
  more often than asked.
- *Handover*: a gNB's answer reaches the thread that asked for it; the registry leads
  to the UE; nobody is released where they are being served; a cancelled handover
  leaves nothing at the target.

### Everything else

`PROJECT.json` lists each network function, service and library with its status. Most
are request/response front ends over a table (AANF, ADRF, AUSF, BSF, EIR, UDM, UDR,
TSCTSF, ...), codecs (`libs/*-core`), or generated code. Those with state machines of
their own are in the plan (section 7).

## 2. The modules

```
ProportionalDebit ---> ChargedUsage ------------> MCChargedUsage
        |                       \
        v                        v
ConvergedCharging ------> ConvergedChargingProofs (with the balance and the meter)
   |     |    ^---------- BalanceManagement -----> MCBalanceManagement
   |     \--> MCConvergedCharging
   \--- implements PrepaidSession
DuplicateDetection ---> MCDuplicateDetection, DuplicateDetectionProofs
SpendingLimit --------> MCSpendingLimit, SpendingLimitProofs
ChargingRecords ------> MCChargingRecords, ChargingRecordsProofs
DiameterServer -------> MCDiameterServer, DiameterServerProofs
RecordRequests ---> AtomicRecord
        \---------> UdsfStore (implements AtomicRecord) ---> MCUdsfStore, UdsfStoreProofs
UdsfExpiry -----------> MCUdsfExpiry, UdsfExpiryProofs
N2Handover -----------> MCN2Handover, N2HandoverProofs
```

**BalanceManagement** (`bss/balance-management/src/store.cpp`). A mutation is one
PostgreSQL transaction around one conditional `UPDATE`, so one POST is one action.
`remaining` and `reserved` are the columns; the event tables are kept as the sums one
would read from them: over the completed rows of a bucket, over the completed rows of
a ChargingDataRef (`heldFor`), and over *all* rows of a ChargingDataRef
(`claimedFor`), because the code inserts a row with its amount for a refused attempt
as well. `CanAdjust` and `CanReserve` are the `WHERE` clauses. A refused attempt is a
step of its own (`AdjustFailed`, `ReserveFailed`), answered 201 like the others.
`BalanceService` is the same thing without the bounds of the runs, for the proofs.

**ProportionalDebit** is the arithmetic: `Consumed` is the clamp of usage to the
grant, `Weight` the sum over octets, service units and seconds, `Debit` the proportion
with its two special cases, `Pooled` the unit pooling. The code computes in doubles;
the model in naturals with a division that rounds down. None of the properties depends
on the fraction that is lost, and the runs of ConvergedCharging use prices that divide
exactly.

**ChargedUsage** is the meter of one session: grants add money and units, the consumer
reports use, `Owed` is what Release would debit now. Every reachable state is an input
of the arithmetic.

**ConvergedCharging** (`nfs/chf/src/main.cpp`, `stores.cpp`, `charging_engine.cpp`) is
the composition. A worker is one handler in execution; `pc` says before which call to
another process it is, and `job` holds its locals. Every call is a step:

| Handler | Steps |
| --- | --- |
| Create, Update, per usage | `Rate`, `ResolveBucket`, `Reserve`, `AddReserved`, `AddGranted`, `WriteCdr`; `Answer` at the end |
| Release | `Release` (reads `reserved_total`), `ReadGranted`, `Remove` (SREM decides who settles), `ResolveBucket`, `Unreserve`, `CommitCall` |
| Surroundings | `ReserveLost`, `UnreserveLost`, `CommitLost` (the answer or the request is lost; the CHF cannot tell), a failed lookup inside `ResolveBucket`, `Crash`, `MoveSubscriber` (shared bucket membership changes), `Topup` |

The SUPI, the bucket and the ref are model values or small numbers. Which price
matches a usage is a choice from `Offer`, including none. An `Offer` says whether the
catalog gives the price a value (`priced`); for one that has none the code reads
`*cost->value` of an empty optional, and `cost` is then whatever it reads.

Four variables are history. `reported` and `debited` are sums. `disturbed` has the
sessions for which the CHF may not know of money that is held: one whose Release
overlapped an Update, whose handler died after a reservation and before recording it or
after SREM and before the refund, whose reservation took effect without an answer, or
whose refund did not take effect and was not answered. `rerouted` says that some
subscriber's bucket changed, or that a lookup failed where the subscriber draws on a
shared bucket. `SerialConsumer` restricts the consumer to one request of a session at a
time; the runs do not, and some of the counterexamples do, to show that they need no
overlap.

**PrepaidSession** is the abstract specification of the whole: a session is opened,
money is authorised piece by piece, the session is closed once, and is charged at most
once, after it was closed, within what was authorised. ConvergedCharging implements it
under the mapping in `Promise`.

**DuplicateDetection** models `claim` (HSETNX, EXPIRE), `await_response` (HGET status,
sleep, HGET location) and `remember` (HSET location, HSET status) command by command,
and the processing in between as a single step. The TTL is an hour and a handler lasts
seconds (`config/chf.json`), so an entry expires only between handlers or before one
has armed it.

**SpendingLimit** models every Redis command of the subscription store and every
notification of the push, for one policy counter. A subscription's content is whether
it names the counter and whether it gives a `notifUri`; the push skips one that does
not do both (`main.cpp:1923`). So a consumer that gave no `notifUri` hears of the
status in the answers to its own requests only, and `ConsumersKnowStatus` is not about
it. `told` is what a consumer heard last, and `stale` has the subscriptions whose last
message was lost, or no longer true when it arrived.

**ChargingRecords** (`cdr.cpp`, `cdr_event_producer.cpp`, the Doris schema and routine
load, and the two loops of `main.cpp` that write records and then ask for gaps). A
`CdrWriter` operation holds its mutex, so it is a step: `Write`, `Flusher`, `Detect`.
The sweep is two, `Archive` and `DeleteAged`, because the table can change between its
SELECT and its DELETE. The table is a set of rows keyed by session and sequence
number; `Upsert` replaces the row of a key, which is what Doris does with a UNIQUE
KEY; the rating group is not in that key, so the second usage of a request replaces the
row of the first. `overwritten` and `unarchived` are history: the rows replaced, and
those a sweep deleted that no archive has. `outq` and `topic` are the event producer's queue and what the broker holds. An
instance stops in the order of its destructors (`Stop`, `FlushOnExit`, `Close`) or
dies (`Crash`). There is no clock: the flush interval may have passed whenever the
code looks.

**DiameterServer** (`diameter_server.cpp`). A connection is one accepted TCP
connection with one thread, which reads, handles and answers one request at a time;
`held` is its three maps, `registry` the process-wide one, `stored` the active
sessions and subscriptions of the stores. A handler is split where it calls the
stores: `Initial`, `Register`, `Charge`, `Settle`, `Deregister`. `Lookup`, `Reset`,
`Write`, `Wait`, `Return` are the caller of `send_reauth_request` on another thread,
with the one `raa` slot of the connection it found. `Leave` and `Cleanup` are the end
of a connection, `Die` of the process.

**RecordRequests**, **AtomicRecord**, **UdsfStore** (`store.cpp`, `dr_routes.cpp`).
RecordRequests holds the lambdas that the routes hand to `modify_record`: from a
request and the record as read, the verdict, the new record and the kind of change.
They are pure, and shared. AtomicRecord is the abstract specification: such a request
is served in one step. UdsfStore is `modify_record`: `Watch`, `ReadRecord`,
`ReadBlocks`, `Decide`, `Commit` (MULTI to EXEC), or `LoseRace` when the watched key
was written since, for at most `MaxAttempts` rounds, then `GiveUp`. The record, its
blocks and the index are separate variables because they are separate keys, and only
the first is watched. A version stands for the random validator of a write and is the
number of the commit. `change`, `owed` and `held` are history.

**UdsfExpiry** (`worker.cpp`, `timer_routes.cpp`, the schedules in `store.cpp`). One
resource of any of the three kinds, with its score in each of the five `due:` sets. A
replica's sweep takes the steps `Look` (ZRANGEBYSCORE), `Claim` (ZREM), then the
transaction of the kind (`ExpireRecord`, `NoticeSub`, `ExpireSub`, `FireTimer`,
`DropTimer`) and `Notify` (LPUSH). A transaction is one step here; that it may be is
what UdsfStore shows. Clients store, renew and delete in between; `Stop` is a replica
that stops, or an exception that ends its pass.

**N2Handover** (`ngap_handover.cpp`, `gnb_association_registry.cpp`, `ngap_task.cpp`,
and UpdateSMContext in the SMF). An association's thread takes the messages of its
`inbox` one at a time. `Required` relays to the target and waits in the target's reply
slot: `Deliver` is the target's thread putting an answer there, `Take` and `TimeOut`
the two ends of the wait. `Command` moves the downlinks, `Notify` and `Repoint` end
the handover and re-point the UE, `Cancel` and `CallOff` cancel, `Complete` and
`Close` forget a UE. The gNBs are the environment: they ask, allocate or refuse,
cancel at any point, let the UE arrive, release it when told, crash and set up again.
The acknowledgement of a cancel echoes the NGAP ids of the UE's context, so that one
for an earlier context is not taken for a later one; instead of contexts the model has
a gNB that asks for a UE again only when it has no cancel for it outstanding.

Each module also holds, next to the definition it varies, a few operators whose comment
calls them mutants: a plausible programming error in that definition. They are not used
by the specification. Replacing the definition by its mutant makes TLC report the
property that `PROJECT.json` pairs with it; this is how we know each property can fail.

## 3. The runs

| Run | What it checks | Shows |
| --- | --- | --- |
| `balance` | `NeverOverdrawn`, `LedgerReconciles` | any interleaving of the service's clients |
| `charged_usage` | `DebitWithinReservation`, `UseNeverCheapens` | all grants, usage and pooling up to the bounds |
| `charging_faults` | `OneSettlement`, `HeldCoversRecorded`, `DebitedWithinRecorded`, `CompletedRowsMatchSession`, `StrandedOnlyWhenDisturbed`, `KeepsPromise` | two handlers on one session in any overlap, with one fault of any kind |
| `charging_sessions` | `RefusedOnlyWhenRerouted`, `EventuallyReleased` | two sessions on one bucket in any overlap, with one lost answer or one death |
| `duplicates` | `ExtraSessionsAccountedFor`, `RepliesNameASession`, `ReleaseReplayed`, `WaitsEnd` | retransmissions, one crash, one expiry |
| `spending` | `UnsubscribeIsFinal`, `ConsumersKnowStatus`, `NoOrphanContent` | two handlers over two subscriptions |
| `cdr` | `RecordsTypeOK`, `NothingVanishes`, `GapsExplained`, `BuffersDrain` | two instances, three configurations, two faults, stops or sweeps |
| `diameter` | `RegistryLeadsToSession`, `StoredIsReachable`, `FinalizedOnce`, `CallsReturn` | two connections with one Session-Id, a re-authorisation, one death of the process |
| `udsf_store` | `IndexMatches`, `NotifiesStanding`, `ContentionIsReal`, `ImplementsAtomic` | three writes by two replicas, a subscription that changes |
| `udsf_expiry` | `ExpiryTypeOK`, `ExpiringIsScheduled`, `TimersLostOnlyByMisclaim`, `FiresAsScheduled`, `ExpiredGoes` | two sweeps, two requests of clients, one stop |
| `handover` | `RepliesReachTheirRelay`, `EntryLeadsToUe`, `ReleasedOnlyWhenCancelled`, `CancelFreesTarget` | two handovers between three gNBs, one crash or failed request |
| `handover_cancel` | `CancelledKeepsDownlink`: **violated** | see section 6 |

The type invariants `BalanceTypeOK`, `MeterTypeOK`, `TypeOK`, `DiameterTypeOK`,
`StoreTypeOK` and `HandoverTypeOK` are theorems and are not run again; `RecordsTypeOK`
and `ExpiryTypeOK` are theorems and are run. `DupTypeOK` is part of the
inductive invariant of its proof module; `SpendingTypeOK` holds in its configuration,
and the proofs use the types they need (`TypeInv`).
`OnlyTopupsProvision`, `NothingGrantedPaysInFull` and `Endpoints` are theorems too.

Some properties are conditional because the code gives no more, and say which cases
they leave out. Those of ConvergedCharging that are about money still held leave out
the session that was disturbed: a fault of one session must not be felt by another, on
the same bucket or not. `StrandedOnlyWhenDisturbed` and `EventuallyReleased` also leave
out what comes after a bucket changed or a lookup failed. `CompletedRowsMatchSession` keeps to
active sessions; a death or a lost answer between the stores excuses only its session.
`RefusedOnlyWhenRerouted` leaves out what `ChargingRefund.cfg` shows and holds for any
other overlap or fault. `ConsumersKnowStatus` holds whatever requests overlap, and
leaves out the consumer whose last message was lost or late: an answer that a PUT
overtook, or the older of two pushes arriving last (section 6). `NoOrphanContent` speaks of requests that did
not overlap. `NothingVanishes` names the three ways in which a record goes, and
`GapsExplained` the reasons for which a gap may be reported although no record was
lost. `RepliesReachTheirRelay` speaks of a relay to whose target nothing
else was under way (`alone`), since the code has no other correlation than one at a
time. `ReleasedOnlyWhenCancelled` leaves out, for the same reason, a UE that was once
sent away by the answer to a relay that was not alone (`misled`); section 6 has the
behaviour.

### Counterexamples kept beside the runs

These configurations end in a violation, of a statement that a comment or a decision
record makes. They are described in section 6.

| Configuration | Module | Violated |
| --- | --- | --- |
| `ChargingRefund.cfg` | MCConvergedCharging | `UnreserveAlwaysSucceeds` |
| `ChargingUpdateRelease.cfg` | MCConvergedCharging | `ReleasedInFull` |
| `ChargingRecovery.cfg` | MCConvergedCharging | `RecoverableFromLedger` |
| `ChargingUsage.cfg` | MCConvergedCharging | `ChargesWhatWasUsed` |
| `ChargingValueless.cfg` | MCConvergedCharging | `CompletedRowsMatchSession` |
| `CdrRetention.cfg` | MCChargingRecords | `DeletesOnlyArchived` |
| `ReauthAnswers.cfg` | MCDiameterServer | `AnswersOwnRequest` |
| `UdsfTimers.cfg` | MCUdsfExpiry | `TimersStayScheduled` |

### Bounds

Every bound is a constant, named in the module that uses it.

- `MaxMoney` bounds the sums of event rows in `balance` and the top-ups in the
  charging runs. With amounts 1 and 2 against a maximum of 2 every `WHERE` clause is
  met, missed by one, and met exactly.
- `MaxUnits`, `MaxTotal`: three units per dimension and the largest total three grants
  can make; enough for usage below, at and above every grant.
- `MaxFaults` is 1 in `charging_faults`: a fault of each kind at each step of either
  handler. The theorems cover any number.
- `MaxInvocations`: two Updates with a Create and any number of Releases over two
  handlers. Releases are not bounded: a retransmission is a further Release.
- `UsedUnits`: 2 units in `charging_faults`, above, at and below the grants that the
  two Updates and the choice of offers leave; one in `charging_sessions`, half of what
  a price grants, so that a Release both refunds and debits.
- `charging_sessions` has one bucket of 4 units of money, enough for both sessions to
  hold a reservation and too little for all the requests: a reservation is refused
  when the other session was faster.
- `UsageCount = {1}`: a request reports one usage. A second usage of a request repeats
  the loop body that a second Update repeats; the theorems cover any number.
- `MaxPolls` is 2 polls of a wait (100 in the configuration): a wait can find the
  answer at once, later, or never. `MaxDeliveries` 4 over three handlers lets two
  deliveries wait for a third, or one come after everything is over.
- `MaxPuts`, `MaxUpdates`, `MaxLost` bound the requests of SpendingLimit: three PUTs
  change the status there and back, over two subscriptions.
- `MaxSeq` is 2: three requests of a session, the least that has a number in the
  middle to be missing. `MaxRare` is 2: a fault and the restart of an instance, or a
  sweep with a fault in it. `Modes`: a batch of 1 and of 2 rows, written directly, and
  the event bus alone. Both sinks at once are not run: then Doris takes the later of
  two equal rows, which the properties cannot tell apart.
- `MaxRefs` 3, `MaxCalls` 1, `MaxCrashes` 1: a Session-Id that is used three times
  over two connections and the three applications. `ReauthAnswers.cfg` has two
  callers.
- `MaxAttempts` is 2 (32 in the code), `MaxRequests` 3, `MaxChanges` 1: a handler can
  lose as many races as it has attempts. One tag of two values, one block.
- `MaxTime` 3, `Period` 1, `MaxCount` 1: a timer that repeats once and is then kept
  for `deleteAfter`. `MaxChanges` 2 and `MaxStops` 1 in UdsfExpiry: a resource that is
  stored and then renewed or deleted, while one of two replicas may stop.
- `MaxLinks` 2: a gNB that sets up again, once; `Crashing` says which one.
  `MaxHandovers` 2, by the same UE or by two, from two gNBs to a third or to each
  other; `MaxMishaps` 1; `MaxParties` 2 leaves out a mishap together with two UEs.
  `Home` puts every UE at a gNB of its own. Two handovers do not take a UE back to a gNB
  whose release is on its way while a third interferes; the same invariants
  were checked outside of the runs with one UE and six handovers between two gNBs (12.8
  million states, all), one UE and four handovers between three (55.3 million, all), one
  UE, four handovers and a gNB that crashes (6.1 million, all), and in part with two UEs
  and three handovers between three gNBs (every behaviour of up to 34 steps).

`CHECK_DEADLOCK FALSE` is set where the bounds on requests let the model stop with
every thread idle. The balance run, which has no handlers, and `udsf_expiry`, whose
sweeps never end, check deadlock. Symmetry is declared over buckets and refs
(`balance`), over handlers (`charging_faults`, `spending`, `udsf_store`) and over the
values of the tag (`udsf_store`), which no definition tells apart, and in no run with
a liveness property.

### Fairness

- `FairSpec` of ConvergedCharging and `DupSpec` assume weak fairness of
  `HandlerStep(w)` for each handler: a thread of the server's pool that runs a handler
  is scheduled again, a call to another service ends because the client has a total
  timeout (`SBI_CLIENT_TIMEOUT_MS`, 30 s), and a sleep of the poll loop ends.
  `EventuallyReleased` is checked with a lost answer or a death, and leaves out the
  session these disturbed: one lost refund leaves its money reserved for good, as
  nothing retries it. The other session must be let go all the same.
- `RecordsFairness`: the flusher thread of an instance wakes (`wait_for` with the
  interval) and a sweep that has begun goes on to its DELETE.
- `DiameterFairness`: a caller of `send_reauth_request` is scheduled, and the timeout
  of its wait passes.
- `ExpiryFairness`: time passes, and the loop of `Worker::run` goes on.

Nothing is assumed of consumers, peers, gNBs, brokers, of faults, of crashes or of
expiries: they may never happen. UdsfStore and N2Handover assume no fairness and
promise no liveness: a write may lose every race, and a handover waits for a gNB that
need not answer.

## 4. What is proved

All proofs are for any number of buckets, sessions, subscribers, handlers, prices and
faults; of connections, Session-Ids and callers; of tags, blocks and attempts; of
gNBs, UEs and associations. `*Proofs` modules hold them.

*ConvergedChargingProofs: the balance.* `BalanceInv` is inductive: types, the ledger equations,
`OnlyTopupsProvision`, and, given that top-ups are credits (`TopupsCredit`),
`NeverOverdrawn`. The equations do not need that assumption. The proof has one step
per outcome of each POST; it is done for `BalanceStep`, so it holds of
`BalanceService` (`ServiceKeepsBooks`) and, a fortiori, of the bounded specification
that is run.

*ConvergedChargingProofs: the meter.* The clamp, monotonicity of the
proportion, monotonicity of pooling, and from them the properties of the meter as
invariants and as an action property. The division is handled by its defining
inequality.

*ConvergedChargingProofs: settlement.* `TypeInv`, that is `TypeOK` with what each handler location
implies of its locals, is inductive without further assumptions. On top of it
`SettleInv`:

- `OneSettlement`: a handler past SREM has its session out of the active set and no
  other handler is there with the same session. That is preserved because a session
  enters the active set only when its ref is drawn from the unused ones, and SREM
  admits a handler only from it;
- `Covered`: what a settling handler is about to debit is at most `reserved_total`
  *now*, and nothing has been debited for its session yet. A Release works on a total
  it read before SREM; that total is stale, but `reserved_total` only grows if no
  price is negative (`NoNegativePrice`), so the stale value is below the present one.
  This is why the invariant needs that assumption, and why a negative price in the
  catalog would break the property;
- `DebitedWithinRecorded` follows with the clamp of the meter.

*ConvergedChargingProofs: refinement.* `PromiseKept`: `Spec` implements
`PrepaidSession` under the mapping of `Promise` (every step opens, authorises, closes,
charges or stutters; `Charge` needs `Covered`, which is where "at most once" comes
from). `ChargingKeepsBooks` carries `BalanceInv` over to the composition: every step of
a handler is a `BalanceStep` or leaves the balance alone.

*ConvergedChargingProofs: what is held against what is recorded.*
`HeldCoversRecordedHolds`: `reserved_total` of an active session is never above what
the balance function holds for it. Between `Reserve` and `AddReserved` a reservation
is held and not yet recorded, and several handlers may be there for one session, so
the inductive form (`HeldInv`) says what is held covers what is recorded *and* what
every handler is about to record. The sum over the handlers is an additive weight of
sets of handlers, and a step moves the weight of one. A session that is being settled
owes its refund until the balance function has it (`Owing`). Lost answers only leave
more held than recorded. The hypothesis is `PricesReserved`: a price that counts as
reserved has a value; `ChargingValueless.cfg` shows what happens otherwise.

*ConvergedChargingProofs: what becomes of the money, whatever overlaps or fails.*
`CoverInv` adds three things to `HeldInv`, with `PricesReserved` as the only hypothesis.
`WorkInv`: which locals each handler has where it is, by operation. `TidyInv`: a session
that was not disturbed is either active with no Release at work, or has only Releases at
work (`Unmixed`); these have read all that is recorded (`Current`), since an Update that
could still raise it would be an overlap; and what is held for it is *exactly* what is
recorded and what its handlers have in hand, or, once SREM has admitted a Release, the
refund that this Release still owes (`Exact`). A step that breaks one of these for a
session puts the session into `disturbed` (`DeviationsStay`: it stays there). Hence
`CompletedRowsMatchSessionHolds` and `StrandedOnlyWhenDisturbedHolds`. `RouteInv`, as
long as nothing was rerouted: a handler works on the bucket of its subscriber, and the
`reserved` column of a bucket covers the sum of what all sessions drawing on it hold
(`BankInv`), disturbed or not; this is where the sessions of other subscribers come in.
From it `RefundBacked` and `RefusedOnlyWhenReroutedHolds`: no overlap, lost answer or
death makes the balance function refuse a refund. `StrandedOnlyWhenDisturbed` needs it
too, as a refund that is refused strands what it should have released. That the excuses
are real is shown by `ChargingUpdateRelease.cfg` (an overlap, which disturbs) and
`ChargingRefund.cfg` (a bucket that changes, which reroutes).

*DuplicateDetectionProofs.* `RightsAccounted`: for every key, the times it was
processed, the handlers committed to process it, and the claim that nobody has made
yet are at most one together, plus one for each wait given up and each entry that
expired. HSETNX takes the unmade claim, and only giving up and expiry make new rights.
`LocationsHeld`: what `location` says of a key was created for that key, before
`status` says so. From these `ExtraSessionsAccountedForHolds`, `RepliesNameASessionHolds`
and `ReleaseReplayedHolds`, for any number of deliveries, polls, crashes and expiries.

*SpendingLimitProofs.* `DeletesUnlisted`: an id between its SREM and its DEL is off the
list, and never on it again, whatever requests overlap; hence `UnsubscribeIsFinal`.
`ConsumersKnowStatusHolds` is for any number of handlers at once: a consumer that the
push is for, that is behind and that is not in `stale`, is one that some PUT under way
has still to tell, because it is in what that PUT listed, fetched or is sending, or the
PUT has not listed yet; when nobody is being served there is none. `NoOrphanContent`
speaks of requests that did not overlap (`overlapped`): then either nobody is being
served or exactly one handler is (`OneAtATime`), and what it has read is still so.

*ChargingRecordsProofs.* `RecordsInv` follows the records through buffer, queue, topic
and table: who wrote what is in each (`BuffersInv`, `QueuesInv`), numbers of a session
rise along the way (`RequestsInOrder`, `QueuesInOrder`), the archive has what the
sweep took (`SweepsArchived`), and a row of a session that reached the table leaves no
earlier one behind in the same place unless a fault took it (`NobodyOvertakes`). From
it `NothingVanishesHolds` and `GapsExplainedHolds`, without further hypotheses: a
sequence number leaves the table only through a sweep, and then its rows are archived or
in `unarchived`; a record leaves it as well when a row of its key replaces it, and that
row is of the same request (`OverwrittenKept`).

*DiameterServerProofs: the connections.* `DiameterInv`: types, `RegistryLeadsToSession`, and three
things it needs. A request in progress belongs to an open connection and the
connection's map holds the session it works on (`RequestsInOrder`), so that the
erasure at the end of a request cannot leave a registered name without its session; a
caller under way has a connection (`ErrandsInOrder`); and a registered name is among
those its connection will clean up (`RegisteredIsNoted`), which is what makes the
cleanup, that erases by name, complete.

*DiameterServerProofs: the stores.* `StoreInv`: a session is in the map of one
connection under one name at most (`HeldOnce`); a ref that was not drawn yet is
nowhere (`FreshUnknown`); a stored session is in a map, or was put out of reach by the
end of its connection or by a second Initial (`Accounted`, an equation of sets); one
that was settled is in no store (`SettledIsGone`); and closed connections hold nothing
(`OnlyOpenHold`). Hence `StoredIsReachableHolds` and `FinalizedOnceHolds`.

*UdsfStoreProofs.* `StoreInv` is types, `IndexMatches` and, per handler,
`ReadsCurrent`: as long as the watched key was not written, what the attempt has read
is what the keys hold. The blocks are another key, which nobody watches, and they are
read later; this still holds because every transaction writes or deletes the record's
hash. From it `StoreImplementsAtomic`, the refinement: EXEC that succeeds maps to
`Serve` of the abstract specification, every other step to a stutter.
`ContentionIsReal` needs that a lost race stands for a commit since the attempt began,
and `NotifiesStanding` that the subscriptions an attempt found standing at its WATCH
and not changed since are those it notifies.

*UdsfExpiryProofs.* `ExpiryInv`: a resource is of one kind (`OneKind`); what a sweep has
claimed and not yet handled matches what the schedules no longer hold
(`SweepsInOrder`); a timer that runs is on its schedule, in the hands of one replica,
or was claimed under a time it no longer had (`TimerEntry`, `TimerHeld`); and the
notifications a timer has made, with those its schedule still provides for, are within
what was asked (`TimerBounded`, `FiresLeft`). Nothing is assumed of the number of
replicas, of periods or of how often the timer is stored again. The three safety
properties of the run follow, the timers lost to a misclaim being the ones that
`UdsfTimers.cfg` shows.

*N2HandoverProofs.* `RelayInv`: types; a gNB is registered with one of its own
associations (`RegisteredIsOwn`); a relay waits at its target (`WaitsAtTarget`); and
for a relay that began with nothing else under way to its target (`WaitsUndisturbed`),
every request and answer that travels to or from the target, and what its slot holds,
is for that UE, and no other thread waits there. `RepliesReachTheirRelay` follows when
the answer is taken. The proof is by what each step adds to the message queues: a step
that adds neither a request nor an answer keeps the invariant (`NoNewRequest`,
`NoNewAnswer`), which leaves `Relay`, `Allocate` and the slot.

*N2HandoverProofs: the order of a UE's messages.* `OrderInv` has, for each association
and UE, a `Line`: the preparation of a handover (its HandoverRequired, the wait, its
outcome), the arrival of the UE and a cancel are each at one place at a time, the
thread takes an arrival before the next request and a request before its cancel, and
no outcome follows the acknowledgement of the cancel. On the lines rests `Served`: all
that is under way for a UE is at the newest association of the gNB that serves it, that
gNB wants the handover being prepared, and its entry leads there unless its arrival is
still to be handled. Neither is inductive alone: a gNB asks again only when it wants
nothing and has no cancel outstanding (`CancelsKnown`), and an old association is
never up (`LinksInOrder`). Most steps only take things off the lines, which one
relation states (`Keeps`); what remains is `Ask`, `SendCancel` and the arrival of a
UE. `EntryLeadsToUe` follows.

*N2HandoverProofs: releases.* `ReleaseInv` adds to both invariants that the AMF calls
off only what was cancelled, that it prepares the handover its gNB wants (`AimsRight`),
and that, for a UE neither cancelled nor misled, no release travels to the gNB that
serves it or to the target it may be sent to (`ReleasesBehind`): on the way to a target
that was asked undisturbed, each release is ahead of the request, so it has been read
when the target accepts. `ReleasedOnlyWhenCancelled` is one of its conjuncts; it
needs `RelayInv`, since an acceptance that was another UE's would say nothing of the
queue.

*N2HandoverProofs: cancelled handovers.* `FreeInv`: a UE is prepared for one handover
at a time (`OneRelay`), the one asked for last and not called off (`AskedLast`); the
target in the UE's context is that of the last relay (`TargetKept`), so the cancel
calls off the right one; and from there on, at the target, every request for the UE
has a release behind it, and so has the context that the gNB may already hold
(`Freed`). `Listed` says where that release goes: a gNB that is up is registered with
its newest association, unless the end of an older one unregistered it, which is the
exception `CancelFreesTarget` makes. That a relay may have timed out and be answered
later needs no case: what counts is what is in the target's queue.

## 5. What is only model-checked

Every safety invariant and every action property of the passing runs is a theorem.

- Liveness (`EventuallyReleased`, `WaitsEnd`, `BuffersDrain`, `CallsReturn`,
  `ExpiredGoes`): outside of what the proof system handles.

## 6. Where the code and its text disagree

One is a run, `handover_cancel`. The AMF relays the target's acknowledgement to the
SMF as HANDOVER_REQ_ACK, and the SMF points the downlink at the target there and then
(`smf/src/main.cpp:3291`), before the UE has moved. When the source then cancels, the
branch for hoState CANCELLED (`smf/src/main.cpp:3727`) records the state only: "there
is nothing in UPF to release here". The UE stays at the source, and its downlink goes
to the target, which has released it.

The others are the counterexamples of section 3.

- `ChargingUpdateRelease.cfg`. Update asks `is_active`, and reserves later. A Release
  in between reads `reserved_total` before the increment; the reservation is never
  handed back. "the reservation was released in FULL above"
  (`charging_engine.cpp:600`) is not so. The SMF sends the two from different threads.
- `ChargingRefund.cfg`. The refund looks the bucket up again, and asks whatever bucket
  it finds. "always succeeds since exactly this much is known to be reserved"
  (`charging_engine.cpp:552`) fails when the subscriber's shared bucket changed, or
  one of the two lookups failed; the refusal is a 201 and goes unnoticed.
- `ChargingUsage.cfg`. Release debits by the usage in the Release request. The SMF
  reports usage in Updates and none in Release, so its sessions pay nothing, against
  ADR-0297, "charge what was used".
- `ChargingValueless.cfg`. A price object with no value counts as reserved, and the
  value that is not there is added to `reserved_total`.
- `ChargingRecovery.cfg`. The query by which `charging_engine.hpp:235` recovers a
  session's total sums the rows of refused reservations too.
- `CdrRetention.cfg`. The DELETE of the retention sweep evaluates `NOW()` again. A row
  that passes the limit after the SELECT is deleted and was not archived, although a
  comment in `cdr.cpp` has it "archived on the NEXT sweep" and `cdr.hpp` says the
  sweep "then deletes ONLY the rows it successfully archived".
- `ReauthAnswers.cfg`. A second caller on the same connection resets the slot of the
  first, and the answer, which is not matched by its hop-by-hop identifier, goes to
  whoever wakes. "must see only THIS call's own answer" (`diameter_server.cpp`,
  `send_reauth_request`) does not hold, and the calls are not serialised as
  `diameter_server.hpp` has it ("waits behind it").
- `UdsfTimers.cfg`. A timer that is renewed between a replica's ZRANGEBYSCORE and its
  ZREM is taken off the schedule with its new time; the transaction sees that the time
  has not come and returns. Nothing puts the timer back, with a single replica as with
  two. `store.hpp` says "Expiry work is claimed with ZREM (exactly one replica wins
  each due entry)". A record in the same position is rescheduled.

Seen while modelling, and not kept as runs:

*Charging*
- A top-up has no condition on its sign (`store.cpp:339`); with -1 among
  `TopupAmount`, `NeverOverdrawn` is violated. Hence `TopupsCredit`.
- The clamp of the debit in `charging_engine.cpp:572` never has anything to clamp:
  `Debit` is within the total already (`DebitWithinReservation`); the model leaves it
  out.
- Between refund and debit another session of the bucket may reserve the money, and
  the debit is refused and logged; `charging_engine.cpp:553` says it "now succeeds".
- Release reads money and units with two commands, while an Update raises them with
  two: the debit may use the money of two grants and the units of one.
- `proportional_debit` adds up octets, service units and seconds; ADR-0297 says volume
  and service-specific units are "never summed".
- HSETNX and EXPIRE are two commands; an entry whose owner dies in between has no TTL,
  although "the TTL bounds every entry" (`stores.cpp:84`). Its later deliveries wait
  in vain and are processed, so the request is delayed and not lost.
- Requests that overlap may leave a consumer with an old status: Subscribe builds its
  answer before it stores the subscription, and a PUT in between tells nobody; two PUTs
  push concurrently and may arrive in the wrong order, and so may a push and the answer
  of an Update. `main.cpp:1806` has "every active subscription naming the changed
  policyCounterId gets a real push". In the model such a consumer is in `stale`. Overlap
  leaves content without a subscription, too: the SET of an Update that read before an
  Unsubscribe lands after its DEL.
- A subscription without a `notifUri` is accepted and answered, and then never told of a
  change.

*Records*
- The rating group is not part of the UNIQUE KEY: the second usage of a request
  replaces the row of the first (`schema.doris.sql:114`), and `NothingVanishes` has to
  except it.
- An Update that reports no usage writes no record and takes a sequence number: a gap
  is reported ("a hole means a charging record for this session never reached the CDR
  store") where no record was ever meant to be.
- With several instances, a Release reads the table before the buffers of the others
  reach it, and reports gaps that fill up later.
- A connection that drops is not opened again for the life of the process.

*Diameter*
- `write_mutex` "is held only for the duration of an actual write (by either side)";
  the answers that the connection's own thread writes do not take it.
- A comment at the end of `handle_connection` has the socket pointer cleared on exit;
  it is not. What keeps a caller safe is the registry's lock, which is why
  `RegistryLeadsToSession` matters.
- A session whose connection is lost stays active in the store for good; so does the
  first of two that were opened under one Session-Id.

*UDSF*
- A read of a record makes three requests without a transaction and can return the
  meta of one version with the blocks of another.
- A request that is refused for a condition on a block decides on what it read, which
  EXEC does not validate. The check of `monitoredResource` and the check that a meta
  schema is unused are made before the write and not again.
- A subscription that is renewed between a sweep's claim and its read may be told of
  an expiry that is no longer due.
- A PATCH that takes `deleteAfter` away from an expired timer leaves it for good. A
  PATCH of the repetition starts it again at its old, past time.
- A replica that stops with a batch it has claimed leaves it on no schedule;
  `store.hpp` says "the process holds nothing that a restart would lose".

*Handover*
- The source confirms its release after the UE was re-pointed, and `Complete` (or the
  end of the source's association) then erases the entry that leads to the target.
  `EntryLeadsToUe` still holds, as no entry leads nowhere; but the UE is out of reach
  of a page until it registers again, and a second handover does not find a source to
  release.
- The one reply slot per gNB is disclosed in `gnb_association_registry.hpp` and not
  enforced: of two waiters one may get the other's answer, or the empty vector that is
  left when it is moved out.
- Two gNBs that hand over to each other at once both wait, each thread for the other,
  until the timeout of ten seconds.
- The slot has a consequence further on, found with three handovers. A UE goes from A
  to B, and the release that `handle_handover_notify` sends to A is still on its way.
  The UE is handed back to A while another UE's handover to A is under way; A's
  acknowledgement for that one is taken for this one's, and the UE is sent to A before
  A has read either message. A then obeys the old release and drops a UE it serves.
  With relays that are alone this cannot happen, as the release is ahead of the
  request in A's queue.
- An acknowledgement after the timeout is dropped, and the target keeps its
  reservation unless the source cancels. `handoverTargetGnbId` is never cleared, which
  is what makes a late cancellation reach the target, and also lets one address a
  target the UE has long been served by.
- The end of an older association unregisters the gNB although it has set up again
  ("replaces its prior, now-dead entry"); the result of the send is ignored although
  the declaration says nullopt when "the send fails".
- An acknowledgement that lacks a mandatory IE ends the handler without any answer to
  the source.
- The target's association does not get the UE's SUPI on a handover, so its end does
  not unregister the UE: the registry keeps a pointer to its socket.

## 7. Plan

Done: charging with its proofs, spending limits, duplicate detection, records,
Diameter, the UDSF and the N2 handover. Next, in this order:

1. *Other doors to the session store.* Offline-only charging and CAP as modules over
   the session operations of ConvergedCharging; quota history and the catalog
   snapshot. Abstract specification: the session store itself (refs unique, a session
   leaves the active set once).
2. *Duplicate detection in front of ConvergedCharging*, replacing its single
   processing step; `PrepaidSession` per request key.
3. *The rest of the AMF and the SMF*: registration and UE contexts, Xn handover with
   its path switch, paging; the SMF's PDU session with its PFCP peer and its charging
   client.
4. *Other state machines of the core*, each small and independent: NSACF admission
   sets against their quotas (the AMF calls them, `ngap_task.cpp`,
   `report_ue_to_nsacf`, although the NSACF's own header says it is not wired), NRF
   registrations with heartbeats and subscriptions, warrants in LI-ADMF, the
   provisioning saga.
5. *Proofs*: of the modules of points 1 to 4 as they come. `OrderInv` and `Line` of
   N2HandoverProofs are what a proof about Xn handover and paging would start from.

## 8. What is not modelled

Rating itself (JSON matching over catalog, scope, time-of-use, AI quota sizing) is the
choice of an `Offer`. Doubles and `NUMERIC` rounding are integers. The bodies of
answers, ASN.1 and CSV rendering, logs, metrics, audit rows and lawful interception
reports change no state that the properties see. Connection pools are left out: a
transaction is a step and waiting for a connection only delays it. Redis, Valkey and
PostgreSQL are taken to be available and to apply each command once, except for the
losses named above; a Valkey shard keeps its data. A POST that the HTTP client library
repeats by itself on a connection that was closed under it is not modelled: a call to
the balance function takes effect once or not at all. A write through a socket that is
already gone (Diameter, NGAP) is a message that is lost.

Of the parts that are modelled, these are left out:

- records: resent Updates, which write a row of the same key again (the key has a
  date, so across midnight it is another); two sweeps that end in the same second and
  share an archive file name; the billing items and the ASN.1 files;
- Diameter: requests that are shed, malformed or unknown, which are answered and
  change nothing;
- UDSF store: the bounds on ttl, a PATCH that cannot be applied other than for a
  missing block, meta schemas, searches; `blkd` changes with `blkm` and is not told
  apart from it; a bulk deletion is a deletion without a condition;
- UDSF expiry: bulk deletion and search of timers; the delivery of queued
  notifications, each of which is tried once (ADR-0402);
- handover: messages without a mandatory IE; the AMF's `ue_contexts` document, of
  which only the target is modelled and whose get and put can overtake the writer of
  `smContextRefs`; a release that the RAN begins.

Codecs, generated code, GUI, simulators and deployment scripts have no behaviour of
the kind treated here.
