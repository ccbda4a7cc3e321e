----------------------------- MODULE UdsfExpiry -----------------------------
(***************************************************************************)
(* Expiry in the UDSF: Worker::sweep of src/nfs/udsf/src/worker.cpp, which *)
(* every replica runs on a thread of its own, over the schedules (sorted   *)
(* sets P:due:<which>) that the write transactions of store.cpp maintain,  *)
(* against clients that store, renew and delete what is about to expire.   *)
(*                                                                         *)
(* One resource is followed: a record, a subscription or a timer (Init     *)
(* chooses).  A write transaction (modify_record, modify_doc) is one step, *)
(* which UdsfStore justifies; the two commands of claim_due, the transac-  *)
(* tion, the ZADD of a rescheduled record and the LPUSH of a notification  *)
(* are separate steps of the sweep.  Time is counted in units; a sweep     *)
(* uses the time at which it began throughout.  A replica may stop, or an  *)
(* exception may end its pass (run), between any two steps: what it had    *)
(* claimed is then on no schedule.                                         *)
(***************************************************************************)
EXTENDS Integers

CONSTANTS
  Workers,      \* replicas
  MaxTime,      \* bound: the clock stops there
  MaxChanges,   \* bound: requests of clients
  MaxStops,     \* bound: replicas that stop in the middle of a sweep
  MaxCount,     \* bound: repetitionCount of a timer
  Period        \* periodicRepetition of a timer

ASSUME ExpiryAssumption ==
  /\ MaxTime \in Nat
  /\ MaxCount \in Nat
  /\ Period \in Nat \ {0}

VARIABLES
  kind,        \* what is stored: "record", "sub" or "timer"
  now,         \* the clock
  record,      \* hash rec:<id>: its ttl, 0 for none
  sub,         \* hash sub:<id>: expiry (0 for none) and expiryNotification
  timer,       \* hash tmr:<id>: expires, next, left, deleteAfter, lastExpiry
  due,         \* the score of the resource in each P:due:<which>, 0 when it is not there
  worker,      \* where each replica's sweep is
  changes,     \* history: requests of clients
  stops,       \* history: replicas that stopped
  fired,       \* history: notifications of the timer since it was (re)scheduled
  allowed,     \* history: how many that schedule provides for
  early,       \* history: the timer was notified before its time
  misclaimed,  \* history: ZREM took an entry other than the one ZRANGEBYSCORE saw
  dropped      \* history: schedules whose entry went with the replica that had claimed it

resourceVars == <<record, sub, timer>>
timerHistory == <<fired, allowed, early>>
expiryVars == <<kind, now, record, sub, timer, due, worker, changes, stops, fired,
                allowed, early, misclaimed, dropped>>

----------------------------------------------------------------------------
Schedules == {"rec", "subnot", "subexp", "tmr", "tmrdel"}
Times == 0..(MaxTime + MaxCount * Period + 1)
None == -1     \* an optional number that is absent

Absent == [there |-> FALSE, ttl |-> 0]
NoSub == [there |-> FALSE, expiry |-> 0, notice |-> None]
NoTimer == [there |-> FALSE, expires |-> 0, next |-> 0, left |-> 0, keep |-> None, last |-> 0]

\* "look": ZRANGEBYSCORE of `which`; "claim": its ZREM; "act": the transaction;
\* "reschedule": the ZADD for a record that was renewed; "notify": the LPUSH.
Sweeps == [step: {"rest", "look", "claim", "act", "reschedule", "notify"},
           which: Schedules, at: 0..MaxTime, score: Times]
Rest == [step |-> "rest", which |-> "rec", at |-> 0, score |-> 0]

ExpiryInit ==
  /\ kind \in {"record", "sub", "timer"}
  /\ now = 0
  /\ record = Absent
  /\ sub = NoSub
  /\ timer = NoTimer
  /\ due = [q \in Schedules |-> 0]
  /\ worker = [w \in Workers |-> Rest]
  /\ changes = 0
  /\ stops = 0
  /\ fired = 0
  /\ allowed = 0
  /\ early = FALSE
  /\ misclaimed = FALSE
  /\ dropped = {}

Tick ==
  /\ now < MaxTime
  /\ now' = now + 1
  /\ UNCHANGED <<kind, resourceVars, due, worker, changes, stops, timerHistory, misclaimed, dropped>>

----------------------------------------------------------------------------
(***************************************************************************)
(* What the transactions leave: the resource and its schedule together.    *)
(***************************************************************************)
WriteRecord(ttl) ==
  /\ record' = [there |-> TRUE, ttl |-> ttl]
  /\ due' = [due EXCEPT !["rec"] = ttl]
  /\ UNCHANGED <<sub, timer>>

EraseRecord ==
  /\ record' = Absent
  /\ due' = [due EXCEPT !["rec"] = 0]
  /\ UNCHANGED <<sub, timer>>

\* sub_due: the advance notice has an entry only when it is some time before the expiry.
NoticeAt(s) == IF s.expiry > 0 /\ s.notice > 0 THEN s.expiry - s.notice ELSE 0

WriteSub(s) ==
  /\ sub' = s
  /\ due' = [due EXCEPT !["subexp"] = s.expiry, !["subnot"] = NoticeAt(s)]
  /\ UNCHANGED <<record, timer>>

\* Mutant of DeleteAt: a timer without deleteAfter is not told apart.
DeleteAtAlways(t) == t.keep + (IF t.next > 0 THEN t.next + t.left * Period ELSE t.last)

\* timer_delete_at_ms: counted from the last expiry, which is still to come or is over.
DeleteAt(t) ==
  IF t.keep = None THEN 0
  ELSE t.keep + (IF t.next > 0 THEN t.next + t.left * Period ELSE t.last)

\* Mutant of WriteTimer: only the first expiry is scheduled.
WriteTimerOnce(t) ==
  /\ timer' = t
  /\ due' = [due EXCEPT !["tmr"] = IF t.next = t.expires THEN t.next ELSE 0,
                        !["tmrdel"] = DeleteAt(t)]
  /\ UNCHANGED <<record, sub>>

WriteTimer(t) ==
  /\ timer' = t
  /\ due' = [due EXCEPT !["tmr"] = t.next, !["tmrdel"] = DeleteAt(t)]
  /\ UNCHANGED <<record, sub>>

EraseTimer == WriteTimer(NoTimer)

----------------------------------------------------------------------------
(***************************************************************************)
(* The clients.                                                            *)
(***************************************************************************)
Request(k) ==
  /\ kind = k
  /\ changes < MaxChanges
  /\ changes' = changes + 1
  /\ dropped' = {}     \* the write schedules the resource anew
  /\ UNCHANGED <<kind, now, worker, stops, misclaimed>>

\* PUT or PATCH of a record or its meta; the ttl may lie in the past.
PutRecord == Request("record") /\ UNCHANGED timerHistory /\ \E ttl \in 0..MaxTime : WriteRecord(ttl)

DeleteRecord ==
  /\ Request("record")
  /\ record.there
  /\ EraseRecord
  /\ UNCHANGED timerHistory

\* PUT or PATCH; apply_expiry_policy turns a notice that is due already into 0.
PutSub ==
  /\ Request("sub")
  /\ \E expiry \in 0..MaxTime, notice \in {None, 0, 1} :
       WriteSub([there |-> TRUE, expiry |-> expiry,
                 notice |-> IF notice > 0 /\ expiry > 0 /\ expiry - notice <= now
                              THEN 0 ELSE notice])
  /\ UNCHANGED timerHistory

DeleteSub ==
  /\ Request("sub")
  /\ sub.there
  /\ WriteSub(NoSub)
  /\ UNCHANGED timerHistory

\* PUT, and a PATCH of expires, which then lies in the future.
StartTimer ==
  /\ Request("timer")
  /\ \E expires \in (now + 1)..MaxTime, count \in 0..MaxCount, keep \in {None, 0, 1} :
       /\ WriteTimer([there |-> TRUE, expires |-> expires, next |-> expires, left |-> count, keep |-> keep,
                      last |-> expires])
       /\ allowed' = count + 1
  /\ fired' = 0
  /\ UNCHANGED early

\* A PATCH of the repetition: the timer starts at its expires again, which may be over.
RepeatTimer ==
  /\ Request("timer")
  /\ timer.there
  /\ \E count \in 0..MaxCount, keep \in {None, 0, 1} :
       /\ WriteTimer([timer EXCEPT !.next = timer.expires, !.left = count, !.keep = keep,
                                   !.last = timer.expires])
       /\ allowed' = count + 1
  /\ fired' = 0
  /\ UNCHANGED early

\* A PATCH that leaves the schedule alone, deleteAfter included or not.
PatchTimer ==
  /\ Request("timer")
  /\ timer.there
  /\ \E keep \in {None, 0, 1} : WriteTimer([timer EXCEPT !.keep = keep])
  /\ UNCHANGED timerHistory

DeleteTimer ==
  /\ Request("timer")
  /\ timer.there
  /\ EraseTimer
  /\ UNCHANGED timerHistory

----------------------------------------------------------------------------
(***************************************************************************)
(* The sweep of one replica.                                               *)
(***************************************************************************)
\* The schedules in the order of the sweep; those of other resources are empty.
First == CASE kind = "record" -> "rec" [] kind = "sub" -> "subnot" [] kind = "timer" -> "tmr"
\* Mutant of Follows: the sweep never looks at tmrdel.
FollowsNoDeletion(q) == IF q = "subnot" THEN "subexp" ELSE "none"

Follows(q) == CASE q = "subnot" -> "subexp" [] q = "tmr" -> "tmrdel" [] OTHER -> "none"

\* The sweep goes on with the next schedule, or sleeps until the next one.
Proceed(w) ==
  worker' = [worker EXCEPT ![w] =
    IF Follows(@.which) = "none" THEN Rest
    ELSE [step |-> "look", which |-> Follows(@.which), at |-> @.at, score |-> 0]]

At(w, step) == worker[w].step = step
ActsOn(w, q) == At(w, "act") /\ worker[w].which = q

StartSweep(w) ==
  /\ At(w, "rest")
  /\ worker' = [worker EXCEPT ![w] = [step |-> "look", which |-> First, at |-> now, score |-> 0]]
  /\ UNCHANGED <<kind, now, resourceVars, due, changes, stops, timerHistory, misclaimed, dropped>>

\* claim_due: ZRANGEBYSCORE -inf at.
Look(w) ==
  LET score == due[worker[w].which]
  IN /\ At(w, "look")
     /\ IF score # 0 /\ score <= worker[w].at
          THEN worker' = [worker EXCEPT ![w].step = "claim", ![w].score = score]
          ELSE Proceed(w)
     /\ UNCHANGED <<kind, now, resourceVars, due, changes, stops, timerHistory, misclaimed, dropped>>

\* claim_due: ZREM, whatever the score has become.
Claim(w) ==
  LET q == worker[w].which
  IN /\ At(w, "claim")
     /\ IF due[q] # 0
          THEN worker' = [worker EXCEPT ![w].step = "act"]
          ELSE Proceed(w)
     /\ due' = [due EXCEPT ![q] = 0]
     /\ misclaimed' = (misclaimed \/ due[q] \notin {0, worker[w].score})
     /\ UNCHANGED <<kind, now, resourceVars, changes, stops, timerHistory, dropped>>

\* The transaction on an expired record; a ttl that was moved is scheduled again after it.
ExpireRecord(w) ==
  /\ ActsOn(w, "rec")
  /\ \/ /\ record.ttl = 0
        /\ Proceed(w)
        /\ UNCHANGED <<resourceVars, due>>
     \/ /\ record.ttl > worker[w].at
        /\ worker' = [worker EXCEPT ![w].step = "reschedule", ![w].score = record.ttl]
        /\ UNCHANGED <<resourceVars, due>>
     \/ /\ record.ttl # 0
        /\ record.ttl <= worker[w].at
        /\ worker' = [worker EXCEPT ![w].step = "notify"]
        /\ EraseRecord
  /\ UNCHANGED <<kind, now, changes, stops, timerHistory, misclaimed, dropped>>

\* Mutant of Reschedule: the moved ttl is taken to be on the schedule still.
RescheduleNothing(w) ==
  /\ At(w, "reschedule")
  /\ Proceed(w)
  /\ UNCHANGED <<kind, now, resourceVars, due, changes, stops, timerHistory, misclaimed, dropped>>

Reschedule(w) ==
  /\ At(w, "reschedule")
  /\ due' = [due EXCEPT !["rec"] = worker[w].score]
  /\ Proceed(w)
  /\ UNCHANGED <<kind, now, resourceVars, changes, stops, timerHistory, misclaimed, dropped>>

\* get_sub: the advance notice is sent for the subscription as it is now.
NoticeSub(w) ==
  /\ ActsOn(w, "subnot")
  /\ IF sub.there THEN worker' = [worker EXCEPT ![w].step = "notify"] ELSE Proceed(w)
  /\ UNCHANGED <<kind, now, resourceVars, due, changes, stops, timerHistory, misclaimed, dropped>>

\* The subscription goes, whatever its expiry is by now.
ExpireSub(w) ==
  /\ ActsOn(w, "subexp")
  /\ IF sub.there
       THEN /\ WriteSub(NoSub)
            /\ IF sub.notice = 0
                 THEN worker' = [worker EXCEPT ![w].step = "notify"]
                 ELSE Proceed(w)
       ELSE Proceed(w) /\ UNCHANGED <<resourceVars, due>>
  /\ UNCHANGED <<kind, now, changes, stops, timerHistory, misclaimed, dropped>>

\* Mutant of NotYet: an expired timer (next = 0) is not told apart from a due one.
NotYetFuture(w) == timer.next > worker[w].at

\* The timer has nothing to do at this sweep.
NotYet(w) == timer.next = 0 \/ timer.next > worker[w].at

\* The timer expires: it repeats, stays until deleteAfter, or goes.
FireTimer(w) ==
  /\ ActsOn(w, "tmr")
  /\ IF NotYet(w)
       THEN Proceed(w) /\ UNCHANGED <<resourceVars, due, timerHistory>>
       ELSE /\ CASE timer.left > 0 ->
                      WriteTimer([timer EXCEPT !.left = @ - 1, !.next = @ + Period])
                 [] timer.left = 0 /\ timer.keep # None ->
                      WriteTimer([timer EXCEPT !.next = 0, !.last = timer.next])
                 [] OTHER -> EraseTimer
            /\ worker' = [worker EXCEPT ![w].step = "notify"]
            /\ fired' = fired + 1
            /\ early' = (early \/ timer.next > now)
            /\ UNCHANGED allowed
  /\ UNCHANGED <<kind, now, changes, stops, misclaimed, dropped>>

\* deleteAfter is over, unless the timer was started anew.
DropTimer(w) ==
  /\ ActsOn(w, "tmrdel")
  /\ IF timer.there /\ timer.next = 0 THEN EraseTimer ELSE UNCHANGED <<resourceVars, due>>
  /\ Proceed(w)
  /\ UNCHANGED <<kind, now, changes, stops, timerHistory, misclaimed, dropped>>

\* enqueue: LPUSH notifq.
Notify(w) ==
  /\ At(w, "notify")
  /\ Proceed(w)
  /\ UNCHANGED <<kind, now, resourceVars, due, changes, stops, timerHistory, misclaimed, dropped>>

\* The replica stops, or the pass ends with an exception.
Stop(w) ==
  /\ ~At(w, "rest")
  /\ stops < MaxStops
  /\ stops' = stops + 1
  /\ worker' = [worker EXCEPT ![w] = Rest]
  /\ dropped' = IF worker[w].step \in {"act", "reschedule"}
                  THEN dropped \cup {worker[w].which} ELSE dropped
  /\ UNCHANGED <<kind, now, resourceVars, due, changes, timerHistory, misclaimed>>

----------------------------------------------------------------------------
ClientStep ==
  \/ PutRecord \/ DeleteRecord
  \/ PutSub \/ DeleteSub
  \/ StartTimer \/ RepeatTimer \/ PatchTimer \/ DeleteTimer

WorkerStep(w) ==
  \/ StartSweep(w) \/ Look(w) \/ Claim(w)
  \/ ExpireRecord(w) \/ Reschedule(w)
  \/ NoticeSub(w) \/ ExpireSub(w)
  \/ FireTimer(w) \/ DropTimer(w)
  \/ Notify(w)

ExpiryNext == Tick \/ ClientStep \/ \E w \in Workers : WorkerStep(w) \/ Stop(w)

\* Worker::run loops for ever, and time passes.
ExpiryFairness == WF_expiryVars(Tick) /\ \A w \in Workers : WF_expiryVars(WorkerStep(w))

ExpirySpec == ExpiryInit /\ [][ExpiryNext]_expiryVars /\ ExpiryFairness

----------------------------------------------------------------------------
\* Every variable has its type.
ExpiryTypeOK ==
  /\ kind \in {"record", "sub", "timer"}
  /\ now \in 0..MaxTime
  /\ record \in [there: BOOLEAN, ttl: 0..MaxTime]
  /\ sub \in [there: BOOLEAN, expiry: 0..MaxTime, notice: {None, 0, 1}]
  /\ timer \in [there: BOOLEAN, expires: 0..MaxTime, next: Times, left: 0..MaxCount, keep: {None, 0, 1}, last: Times]
  /\ due \in [Schedules -> Times]
  /\ worker \in [Workers -> Sweeps]
  /\ changes \in Nat /\ stops \in Nat /\ fired \in Nat /\ allowed \in Nat
  /\ early \in BOOLEAN /\ misclaimed \in BOOLEAN /\ dropped \subseteq Schedules

\* A replica has taken the entry of `q` and has not dealt with it yet.
Held(q) == \E w \in Workers : worker[w].step \in {"act", "reschedule"} /\ worker[w].which = q

\* The resource is on its schedule, a replica has it, or one stopped while it had it.
Scheduled(q) == due[q] # 0 \/ Held(q) \/ q \in dropped

(***************************************************************************)
(* What has to go at some time is on its schedule: a record with a ttl, a  *)
(* subscription with an expiry, and an expired timer that is kept for      *)
(* deleteAfter -- although claim_due may take the entry of a newer ttl,    *)
(* and Reschedule may overwrite one.                                       *)
(***************************************************************************)
ExpiringIsScheduled ==
  /\ record.ttl # 0 => Scheduled("rec")
  /\ sub.expiry # 0 => Scheduled("subexp")
  /\ timer.there /\ timer.next = 0 /\ timer.keep # None => Scheduled("tmrdel")

(***************************************************************************)
(* The one way to lose a timer while every replica runs (Worker::sweep     *)
(* aborts on next_ms > now and does not schedule it again, as it does for  *)
(* a record): between its ZRANGEBYSCORE and its ZREM the entry was         *)
(* replaced by a later one.                                                *)
(***************************************************************************)
TimersLostOnlyByMisclaim == timer.next # 0 => Scheduled("tmr") \/ misclaimed

(***************************************************************************)
(* A timer is notified once for each expiry that its schedule provides     *)
(* for, and never before its time (sweep: "next_ms == 0 || next_ms > now"),*)
(* however late a replica acts on an entry that it claimed.                *)
(***************************************************************************)
FiresAsScheduled == fired <= allowed /\ ~early

(***************************************************************************)
(* What has expired goes (Worker::run sweeps for ever): no record, subs-   *)
(* cription or kept timer outlives its time, unless a client renews it or  *)
(* a replica stopped while it had the entry.                               *)
(***************************************************************************)
Overdue ==
  \/ record.ttl # 0 /\ record.ttl <= now
  \/ sub.expiry # 0 /\ sub.expiry <= now
  \/ timer.there /\ timer.next = 0 /\ timer.keep # None /\ DeleteAt(timer) <= now
ExpiredGoes == Overdue ~> (~Overdue \/ dropped # {})

(***************************************************************************)
(* store.hpp: "Expiry work is claimed with ZREM (exactly one replica wins  *)
(* each due entry)", so that as long as no replica stops a timer that is   *)
(* still to expire is on the schedule, or with the replica that won it.    *)
(***************************************************************************)
TimersStayScheduled == stops = 0 /\ timer.next # 0 => Scheduled("tmr")
=============================================================================
