--------------------------- MODULE UdsfExpiryProofs ---------------------------
(***************************************************************************)
(* What expires in the UDSF stays on its schedule, and a timer fires as it *)
(* was asked to, for any number of replicas and any times, whatever the    *)
(* order of their sweeps, the clients' requests and the replicas' stops.   *)
(***************************************************************************)
EXTENDS UdsfExpiry, TLAPS

\* The last moment at which a timer may still expire.
Horizon == MaxTime + MaxCount * Period

\* A timer that is stored has been given a time, and its expiries end within the horizon.
TimerBounded ==
  /\ timer.next + timer.left * Period <= Horizon
  /\ timer.last <= Horizon
  /\ timer.there => timer.last > 0 /\ timer.expires > 0
  /\ ~timer.there => timer.next = 0

\* Only the kind of resource that is followed is ever stored.
OneKind ==
  /\ kind # "record" => record.ttl = 0
  /\ kind # "sub" => ~sub.there
  /\ kind # "timer" => ~timer.there
  /\ ~sub.there => sub.expiry = 0

\* A sweep works on what was due when it began, and a record it has to put back has a ttl.
SweepsInOrder ==
  \A w \in Workers :
    /\ worker[w].at <= now
    /\ At(w, "claim") => worker[w].score <= worker[w].at
    /\ At(w, "reschedule") => worker[w].which = "rec" /\ worker[w].score # 0

\* The entry of a timer has the time of its next expiry.
TimerEntry == due["tmr"] # 0 => due["tmr"] = timer.next

\* A timer that is off the schedule is with a replica whose sweep finds it due.
TimerHeld ==
  timer.next # 0 /\ ~misclaimed =>
    \/ due["tmr"] # 0
    \/ "tmr" \in dropped
    \/ \E w \in Workers : ActsOn(w, "tmr") /\ timer.next <= worker[w].at

\* A timer that is to expire has notifications left, one for each time it will.
FiresLeft ==
  /\ timer.next # 0 => fired + timer.left + 1 <= allowed
  /\ FiresAsScheduled

ExpiryInv ==
  /\ ExpiryTypeOK /\ TimerBounded /\ OneKind /\ SweepsInOrder
  /\ TimerEntry /\ TimerHeld /\ FiresLeft /\ ExpiringIsScheduled

-----------------------------------------------------------------------------
(***************************************************************************)
(* Times and what the transactions write.                                  *)
(***************************************************************************)
\* Repetitions left take time in proportion.
LEMMA Repetitions ==
    ASSUME NEW n \in 0 .. MaxCount
    PROVE  /\ n * Period \in Nat /\ n * Period <= MaxCount * Period
           /\ n > 0 => (n - 1) * Period = n * Period - Period /\ n * Period >= Period
<1>1. n \in Nat /\ MaxCount - n \in Nat /\ Period \in Nat /\ MaxCount \in Nat
  BY ExpiryAssumption
<1>2. MaxCount * Period = n * Period + (MaxCount - n) * Period
  BY <1>1
<1>3. n * Period \in Nat /\ (MaxCount - n) * Period \in Nat /\ MaxCount * Period \in Nat
  BY <1>1
<1>4. n * Period <= MaxCount * Period
  BY <1>2, <1>3
<1>5. ASSUME n > 0 PROVE (n - 1) * Period = n * Period - Period /\ n * Period >= Period
  <2>1. n - 1 \in Nat
    BY <1>1, <1>5
  <2>2. (n - 1) * Period = n * Period - Period
    BY <1>1
  <2>3. (n - 1) * Period \in Nat
    BY <1>1, <2>1
  <2> QED BY <1>1, <1>3, <2>2, <2>3
<1> QED BY <1>3, <1>4, <1>5

LEMMA TimesTyped ==
    /\ Horizon \in Nat /\ MaxTime \in Nat /\ MaxTime <= Horizon
    /\ Times = 0 .. (Horizon + 1)
    /\ MaxTime + MaxCount * Period = Horizon
<1>1. MaxCount * Period \in Nat
  BY ExpiryAssumption
<1> QED BY <1>1, ExpiryAssumption DEF Horizon, Times

\* What a transaction may store as a timer.
TimerRecord ==
  [there: BOOLEAN, expires: 0..MaxTime, next: Times, left: 0..MaxCount, keep: {None, 0, 1}, last: Times]
TimerOK(t) ==
  /\ t \in TimerRecord
  /\ t.next + t.left * Period <= Horizon
  /\ t.last <= Horizon
  /\ t.there => t.last > 0 /\ t.expires > 0
  /\ ~t.there => t.next = 0

LEMMA NoTimerOK == TimerOK(NoTimer)
<1>1. 0 \in 0 .. MaxTime /\ 0 \in Times /\ 0 \in 0 .. MaxCount
  BY ExpiryAssumption, TimesTyped
<1>2. NoTimer \in TimerRecord
  BY <1>1 DEF NoTimer, TimerRecord
<1>3. 0 + 0 * Period = 0
  BY ExpiryAssumption
<1> QED BY <1>2, <1>3, TimesTyped DEF TimerOK, NoTimer

\* A timer and its two entries are written together.
LEMMA TimerWritten ==
    ASSUME ExpiryTypeOK, NEW t, TimerOK(t), WriteTimer(t)
    PROVE  /\ timer' = t /\ record' = record /\ sub' = sub
           /\ due' \in [Schedules -> Times]
           /\ due'["tmr"] = t.next
           /\ t.next = 0 /\ t.there /\ t.keep # None => due'["tmrdel"] # 0
           /\ \A q \in Schedules \ {"tmr", "tmrdel"} : due'[q] = due[q]
<1>1. /\ t.next \in Times /\ t.last \in Times /\ t.left \in 0 .. MaxCount /\ t.keep \in {None, 0, 1}
      /\ t.there \in BOOLEAN
  BY DEF TimerOK, TimerRecord
<1>2. DeleteAt(t) \in Times
  <2>1. t.left * Period \in Nat
    BY <1>1, Repetitions
  <2>2. t.next + t.left * Period \in 0 .. Horizon /\ t.last \in 0 .. Horizon
    BY <1>1, <2>1, TimesTyped DEF TimerOK
  <2> QED BY <1>1, <2>2, TimesTyped DEF DeleteAt, None
<1>3. t.next = 0 /\ t.there /\ t.keep # None => DeleteAt(t) # 0
  BY <1>1, TimesTyped DEF DeleteAt, None, TimerOK
<1>4. due \in [Schedules -> Times]
  BY DEF ExpiryTypeOK
<1>5. due' = [due EXCEPT !["tmr"] = t.next, !["tmrdel"] = DeleteAt(t)]
  BY DEF WriteTimer
<1>6. "tmr" \in Schedules /\ "tmrdel" \in Schedules
  BY DEF Schedules
<1>7. /\ due' \in [Schedules -> Times]
      /\ due'["tmr"] = t.next /\ due'["tmrdel"] = DeleteAt(t)
      /\ \A q \in Schedules \ {"tmr", "tmrdel"} : due'[q] = due[q]
  BY <1>1, <1>2, <1>4, <1>5, <1>6
<1> QED BY <1>3, <1>7 DEF WriteTimer

\* A subscription and its two entries are written together.
LEMMA SubWritten ==
    ASSUME ExpiryTypeOK, NEW s \in [there: BOOLEAN, expiry: 0..MaxTime, notice: {None, 0, 1}],
           WriteSub(s)
    PROVE  /\ sub' = s /\ record' = record /\ timer' = timer
           /\ due' \in [Schedules -> Times]
           /\ due'["subexp"] = s.expiry
           /\ \A q \in Schedules \ {"subexp", "subnot"} : due'[q] = due[q]
<1>1. s.expiry \in Times /\ NoticeAt(s) \in Times
  BY TimesTyped DEF NoticeAt, None
<1>2. due \in [Schedules -> Times]
  BY DEF ExpiryTypeOK
<1>3. due' = [due EXCEPT !["subexp"] = s.expiry, !["subnot"] = NoticeAt(s)]
  BY DEF WriteSub
<1>4. "subexp" \in Schedules /\ "subnot" \in Schedules
  BY DEF Schedules
<1> QED BY <1>1, <1>2, <1>3, <1>4 DEF WriteSub

\* A record and its entry are written together.
LEMMA RecordWritten ==
    ASSUME ExpiryTypeOK, NEW ttl \in 0 .. MaxTime,
           WriteRecord(ttl) \/ (EraseRecord /\ ttl = 0)
    PROVE  /\ record' \in [there: BOOLEAN, ttl: 0..MaxTime] /\ record'.ttl = ttl
           /\ sub' = sub /\ timer' = timer
           /\ due' \in [Schedules -> Times]
           /\ due'["rec"] = ttl
           /\ \A q \in Schedules \ {"rec"} : due'[q] = due[q]
<1>1. ttl \in Times /\ "rec" \in Schedules
  BY TimesTyped DEF Schedules
<1>2. due \in [Schedules -> Times]
  BY DEF ExpiryTypeOK
<1>3. due' = [due EXCEPT !["rec"] = ttl]
  BY DEF WriteRecord, EraseRecord
<1>4. /\ due' \in [Schedules -> Times] /\ due'["rec"] = ttl
      /\ \A q \in Schedules \ {"rec"} : due'[q] = due[q]
  BY <1>1, <1>2, <1>3
<1>5. /\ record' \in [there: BOOLEAN, ttl: 0..MaxTime] /\ record'.ttl = ttl
      /\ sub' = sub /\ timer' = timer
  <2>1. CASE WriteRecord(ttl)
    BY <2>1 DEF WriteRecord
  <2>2. CASE EraseRecord /\ ttl = 0
    BY <2>2 DEF EraseRecord, Absent
  <2> QED BY <2>1, <2>2
<1> QED BY <1>4, <1>5

-----------------------------------------------------------------------------
(***************************************************************************)
(* The clients' requests.                                                  *)
(***************************************************************************)
\* A request on a record.
LEMMA RecordRequestStep ==
    ASSUME ExpiryInv, PutRecord \/ DeleteRecord PROVE ExpiryInv'
<1>1. ExpiryTypeOK /\ TimerBounded /\ OneKind /\ SweepsInOrder /\ TimerEntry /\ FiresLeft
  BY DEF ExpiryInv
<1>2. PICK ttl \in 0 .. MaxTime : WriteRecord(ttl) \/ (EraseRecord /\ ttl = 0)
  <2>1. 0 \in 0 .. MaxTime
    BY ExpiryAssumption
  <2> QED BY <2>1 DEF PutRecord, DeleteRecord
<1>3. /\ record' \in [there: BOOLEAN, ttl: 0..MaxTime] /\ record'.ttl = ttl
      /\ sub' = sub /\ timer' = timer
      /\ due' \in [Schedules -> Times]
      /\ due'["rec"] = ttl
      /\ \A q \in Schedules \ {"rec"} : due'[q] = due[q]
  BY <1>1, <1>2, RecordWritten
<1>4. /\ kind = "record" /\ changes' = changes + 1 /\ dropped' = {}
      /\ UNCHANGED <<kind, now, worker, stops, misclaimed, fired, allowed, early>>
  BY DEF PutRecord, DeleteRecord, Request, timerHistory
<1>5. "tmr" \in Schedules \ {"rec"}
  BY DEF Schedules
<1>6. ExpiryTypeOK'
  BY <1>1, <1>3, <1>4 DEF ExpiryTypeOK
<1>7. TimerBounded' /\ OneKind' /\ FiresLeft' /\ TimerEntry'
  BY <1>1, <1>3, <1>4, <1>5 DEF TimerBounded, OneKind, FiresLeft, FiresAsScheduled, TimerEntry
<1>8. SweepsInOrder'
  BY <1>1, <1>4 DEF SweepsInOrder, At
<1>9. timer.next = 0 /\ ~timer.there /\ sub.expiry = 0
  BY <1>1, <1>4 DEF OneKind, TimerBounded
<1>10. TimerHeld' /\ ExpiringIsScheduled'
  BY <1>3, <1>9 DEF TimerHeld, ExpiringIsScheduled, Scheduled
<1> QED BY <1>6, <1>7, <1>8, <1>10 DEF ExpiryInv

\* A request on a subscription.
LEMMA SubRequestStep ==
    ASSUME ExpiryInv, PutSub \/ DeleteSub PROVE ExpiryInv'
<1>1. ExpiryTypeOK /\ TimerBounded /\ OneKind /\ SweepsInOrder /\ TimerEntry /\ FiresLeft
  BY DEF ExpiryInv
<1>2. PICK s \in [there: BOOLEAN, expiry: 0..MaxTime, notice: {None, 0, 1}] :
          WriteSub(s) /\ (~s.there => s.expiry = 0)
  <2>1. CASE PutSub
    <3>1. PICK expiry \in 0 .. MaxTime, notice \in {None, 0, 1} :
              WriteSub([there |-> TRUE, expiry |-> expiry,
                        notice |-> IF notice > 0 /\ expiry > 0 /\ expiry - notice <= now
                                     THEN 0 ELSE notice])
      BY <2>1 DEF PutSub
    <3> DEFINE n == IF notice > 0 /\ expiry > 0 /\ expiry - notice <= now THEN 0 ELSE notice
               s == [there |-> TRUE, expiry |-> expiry, notice |-> n]
    <3>2. n \in {None, 0, 1}
      OBVIOUS
    <3>3. s \in [there: BOOLEAN, expiry: 0..MaxTime, notice: {None, 0, 1}] /\ s.there
      BY <3>2
    <3>4. WriteSub(s)
      BY <3>1
    <3> HIDE DEF s
    <3> QED BY <3>3, <3>4
  <2>2. CASE DeleteSub
    <3>1. NoSub \in [there: BOOLEAN, expiry: 0..MaxTime, notice: {None, 0, 1}]
      BY ExpiryAssumption DEF NoSub
    <3> QED BY <2>2, <3>1 DEF DeleteSub, NoSub
  <2> QED BY <2>1, <2>2
<1>3. /\ sub' = s /\ record' = record /\ timer' = timer
      /\ due' \in [Schedules -> Times]
      /\ due'["subexp"] = s.expiry
      /\ \A q \in Schedules \ {"subexp", "subnot"} : due'[q] = due[q]
  BY <1>1, <1>2, SubWritten
<1>4. /\ kind = "sub" /\ changes' = changes + 1 /\ dropped' = {}
      /\ UNCHANGED <<kind, now, worker, stops, misclaimed, fired, allowed, early>>
  BY DEF PutSub, DeleteSub, Request, timerHistory
<1>5. "tmr" \in Schedules \ {"subexp", "subnot"}
  BY DEF Schedules
<1>6. ExpiryTypeOK'
  BY <1>1, <1>3, <1>4 DEF ExpiryTypeOK
<1>7. TimerBounded' /\ OneKind' /\ FiresLeft' /\ TimerEntry'
  BY <1>1, <1>2, <1>3, <1>4, <1>5 DEF TimerBounded, OneKind, FiresLeft, FiresAsScheduled, TimerEntry
<1>8. SweepsInOrder'
  BY <1>1, <1>4 DEF SweepsInOrder, At
<1>9. timer.next = 0 /\ ~timer.there /\ record.ttl = 0
  BY <1>1, <1>4 DEF OneKind, TimerBounded
<1>10. TimerHeld' /\ ExpiringIsScheduled'
  BY <1>3, <1>9 DEF TimerHeld, ExpiringIsScheduled, Scheduled
<1> QED BY <1>6, <1>7, <1>8, <1>10 DEF ExpiryInv

\* Whoever writes a timer, the number of its notifications being right, keeps the order.
LEMMA TimerRequestStep ==
    ASSUME ExpiryInv, StartTimer \/ RepeatTimer \/ PatchTimer \/ DeleteTimer PROVE ExpiryInv'
<1>1. ExpiryTypeOK /\ TimerBounded /\ OneKind /\ SweepsInOrder /\ TimerEntry /\ FiresLeft
  BY DEF ExpiryInv
<1>2. \E t : /\ TimerOK(t) /\ WriteTimer(t)
             /\ t.next # 0 => fired' + t.left + 1 <= allowed'
             /\ fired' \in Nat /\ allowed' \in Nat /\ fired' <= allowed' /\ early' = early
  <2>1. timer \in TimerRecord /\ fired \in Nat /\ allowed \in Nat
    BY <1>1 DEF ExpiryTypeOK, TimerRecord
  <2>2. \A n \in 1 .. MaxTime, count \in 0 .. MaxCount :
            n \in Times /\ n <= Horizon /\ n + count * Period <= Horizon
    BY Repetitions, TimesTyped, ExpiryAssumption
  <2>3. CASE StartTimer
    <3>1. PICK expires \in (now + 1) .. MaxTime, count \in 0 .. MaxCount, keep \in {None, 0, 1} :
              /\ WriteTimer([there |-> TRUE, expires |-> expires, next |-> expires, left |-> count,
                             keep |-> keep, last |-> expires])
              /\ allowed' = count + 1
      BY <2>3 DEF StartTimer
    <3>2. expires \in 1 .. MaxTime
      BY <1>1, ExpiryAssumption DEF ExpiryTypeOK
    <3>3. TimerOK([there |-> TRUE, expires |-> expires, next |-> expires, left |-> count,
                   keep |-> keep, last |-> expires])
      BY <2>2, <3>2 DEF TimerOK, TimerRecord
    <3>4. fired' = 0 /\ early' = early
      BY <2>3 DEF StartTimer
    <3> DEFINE t == [there |-> TRUE, expires |-> expires, next |-> expires, left |-> count,
                     keep |-> keep, last |-> expires]
    <3>5. t.left = count /\ WriteTimer(t) /\ TimerOK(t)
      BY <3>1, <3>3
    <3>6. fired' + t.left + 1 <= allowed' /\ fired' \in Nat /\ allowed' \in Nat /\ fired' <= allowed'
      BY <3>1, <3>4, <3>5, ExpiryAssumption
    <3> HIDE DEF t
    <3> QED BY <3>4, <3>5, <3>6
  <2>4. CASE RepeatTimer
    <3>1. PICK count \in 0 .. MaxCount, keep \in {None, 0, 1} :
              /\ WriteTimer([timer EXCEPT !.next = timer.expires, !.left = count, !.keep = keep,
                                          !.last = timer.expires])
              /\ allowed' = count + 1
      BY <2>4 DEF RepeatTimer
    <3> DEFINE t == [timer EXCEPT !.next = timer.expires, !.left = count, !.keep = keep,
                                  !.last = timer.expires]
    <3>2. timer.there /\ timer.expires \in 1 .. MaxTime
      <4>1. timer.there
        BY <2>4 DEF RepeatTimer
      <4>2. timer.expires \in 0 .. MaxTime /\ timer.expires > 0
        BY <1>1, <2>1, <4>1 DEF TimerBounded, TimerRecord
      <4> QED BY <4>1, <4>2, ExpiryAssumption
    <3>3. timer.expires \in Times /\ timer.expires <= Horizon
          /\ timer.expires + count * Period <= Horizon
      BY <2>2, <3>2
    <3>4. /\ t \in TimerRecord /\ t.there = timer.there /\ t.expires = timer.expires
          /\ t.next = timer.expires /\ t.left = count /\ t.last = timer.expires
      BY <2>1, <3>3 DEF TimerRecord
    <3>5. TimerOK(t)
      BY <3>2, <3>3, <3>4 DEF TimerOK
    <3>6. fired' = 0 /\ early' = early
      BY <2>4 DEF RepeatTimer
    <3>7. fired' + t.left + 1 <= allowed' /\ fired' \in Nat /\ allowed' \in Nat /\ fired' <= allowed'
      BY <3>1, <3>4, <3>6, ExpiryAssumption
    <3>8. WriteTimer(t)
      BY <3>1
    <3> HIDE DEF t
    <3> QED BY <3>5, <3>6, <3>7, <3>8
  <2>5. CASE PatchTimer
    <3>1. PICK keep \in {None, 0, 1} : WriteTimer([timer EXCEPT !.keep = keep])
      BY <2>5 DEF PatchTimer
    <3> DEFINE t == [timer EXCEPT !.keep = keep]
    <3>2. /\ t \in TimerRecord /\ t.there = timer.there /\ t.expires = timer.expires
          /\ t.next = timer.next /\ t.left = timer.left /\ t.last = timer.last
      BY <2>1 DEF TimerRecord
    <3>3. TimerOK(t)
      BY <1>1, <3>2 DEF TimerOK, TimerBounded
    <3>4. fired' = fired /\ allowed' = allowed /\ early' = early
      BY <2>5 DEF PatchTimer, timerHistory
    <3>5. t.next # 0 => fired' + t.left + 1 <= allowed'
      BY <1>1, <3>2, <3>4 DEF FiresLeft
    <3>6. fired' \in Nat /\ allowed' \in Nat /\ fired' <= allowed'
      BY <1>1, <2>1, <3>4 DEF FiresLeft, FiresAsScheduled
    <3>7. WriteTimer(t)
      BY <3>1
    <3> HIDE DEF t
    <3> QED BY <3>3, <3>4, <3>5, <3>6, <3>7
  <2>6. CASE DeleteTimer
    <3>1. fired' = fired /\ allowed' = allowed /\ early' = early /\ WriteTimer(NoTimer)
      BY <2>6 DEF DeleteTimer, EraseTimer, timerHistory
    <3>2. NoTimer.next = 0
      BY DEF NoTimer
    <3> QED BY <1>1, <2>1, <3>1, <3>2, NoTimerOK DEF FiresLeft, FiresAsScheduled
  <2> QED BY <2>3, <2>4, <2>5, <2>6
<1>3. PICK t : /\ TimerOK(t) /\ WriteTimer(t)
               /\ t.next # 0 => fired' + t.left + 1 <= allowed'
               /\ fired' \in Nat /\ allowed' \in Nat /\ fired' <= allowed' /\ early' = early
  BY <1>2
<1>4. /\ timer' = t /\ record' = record /\ sub' = sub
      /\ due' \in [Schedules -> Times]
      /\ due'["tmr"] = t.next
      /\ t.next = 0 /\ t.there /\ t.keep # None => due'["tmrdel"] # 0
      /\ \A q \in Schedules \ {"tmr", "tmrdel"} : due'[q] = due[q]
  BY <1>1, <1>3, TimerWritten
<1>5. /\ kind = "timer" /\ changes' = changes + 1 /\ dropped' = {}
      /\ UNCHANGED <<kind, now, worker, stops, misclaimed>>
  BY DEF StartTimer, RepeatTimer, PatchTimer, DeleteTimer, Request
<1>6. t \in TimerRecord
  BY <1>3 DEF TimerOK
<1>7. ExpiryTypeOK'
  BY <1>1, <1>3, <1>4, <1>5, <1>6 DEF ExpiryTypeOK, TimerRecord
<1>8. TimerBounded'
  BY <1>3, <1>4 DEF TimerBounded, TimerOK
<1>9. OneKind' /\ FiresLeft' /\ TimerEntry'
  BY <1>1, <1>3, <1>4, <1>5 DEF OneKind, FiresLeft, FiresAsScheduled, TimerEntry
<1>10. SweepsInOrder'
  BY <1>1, <1>5 DEF SweepsInOrder, At
<1>11. record.ttl = 0 /\ sub.expiry = 0
  BY <1>1, <1>5 DEF OneKind
<1>12. TimerHeld' /\ ExpiringIsScheduled'
  BY <1>4, <1>11 DEF TimerHeld, ExpiringIsScheduled, Scheduled
<1> QED BY <1>7, <1>8, <1>9, <1>10, <1>12 DEF ExpiryInv

-----------------------------------------------------------------------------
(***************************************************************************)
(* The sweeps.                                                             *)
(***************************************************************************)
\* Where the sweep of one replica goes, the others staying where they are.
Moves(w, step, which, at, score) ==
  /\ worker' \in [Workers -> Sweeps]
  /\ \A v \in Workers \ {w} : worker'[v] = worker[v]
  /\ worker'[w] = [step |-> step, which |-> which, at |-> at, score |-> score]

LEMMA Proceeds ==
    ASSUME ExpiryTypeOK, NEW w \in Workers, Proceed(w)
    PROVE  \E step \in {"rest", "look"}, which \in Schedules, at \in {0, worker[w].at} :
               Moves(w, step, which, at, 0)
<1>1. worker \in [Workers -> Sweeps] /\ worker[w] \in Sweeps
  BY DEF ExpiryTypeOK
<1>2. worker[w].at \in 0 .. MaxTime /\ 0 \in 0 .. MaxTime /\ 0 \in Times
  BY <1>1, ExpiryAssumption, TimesTyped DEF Sweeps
<1>3. CASE Follows(worker[w].which) = "none"
  <2>1. Rest \in Sweeps
    BY <1>2 DEF Rest, Sweeps, Schedules
  <2>2. worker' = [worker EXCEPT ![w] = Rest]
    BY <1>3 DEF Proceed
  <2>3. Moves(w, "rest", "rec", 0, 0)
    BY <1>1, <2>1, <2>2 DEF Moves, Rest
  <2> QED BY <2>3 DEF Schedules
<1>4. CASE Follows(worker[w].which) # "none"
  <2> DEFINE q == Follows(worker[w].which)
             next == [step |-> "look", which |-> q, at |-> worker[w].at, score |-> 0]
  <2>1. q \in Schedules
    BY <1>4 DEF Follows, Schedules
  <2>2. next \in Sweeps
    BY <1>2, <2>1 DEF Sweeps
  <2>3. worker' = [worker EXCEPT ![w] = next]
    BY <1>4 DEF Proceed
  <2>4. Moves(w, "look", q, worker[w].at, 0)
    BY <1>1, <2>2, <2>3 DEF Moves
  <2> QED BY <2>1, <2>4
<1> QED BY <1>3, <1>4

\* A replica has taken an entry off its schedule.
Holding(w) == worker[w].step \in {"act", "reschedule"}

\* Something that has to go waits for the entry of schedule `q`.
Awaited(q) ==
  \/ q = "rec" /\ record.ttl # 0
  \/ q = "subexp" /\ sub.expiry # 0
  \/ q = "tmrdel" /\ timer.there /\ timer.next = 0 /\ timer.keep # None

LEMMA AwaitedIsScheduled == ExpiringIsScheduled <=> \A q \in Schedules : Awaited(q) => Scheduled(q)
  BY DEF ExpiringIsScheduled, Awaited, Schedules

\* Whatever else a step does, it takes nothing off a schedule but what its replica holds.
LEMMA StaysScheduled ==
    ASSUME NEW w \in Workers, \A v \in Workers \ {w} : worker'[v] = worker[v],
           dropped \subseteq dropped',
           NEW q, Scheduled(q), due'[q] = due[q] \/ due'[q] # 0,
           ~(Holding(w) /\ worker[w].which = q)
    PROVE  Scheduled(q)'
  BY DEF Scheduled, Held, Holding

\* A sweep that moves on and leaves the resource and the schedules as they are.
LEMMA SweepOnly ==
    ASSUME ExpiryInv, NEW w \in Workers,
           UNCHANGED <<kind, now, resourceVars, due, changes, stops, timerHistory, misclaimed, dropped>>,
           worker' \in [Workers -> Sweeps],
           \A v \in Workers \ {w} : worker'[v] = worker[v],
           worker'[w].at <= now,
           worker'[w].step = "claim" => worker'[w].score <= worker'[w].at,
           worker'[w].step = "reschedule" => worker'[w].which = "rec" /\ worker'[w].score # 0,
           Holding(w) => ~Awaited(worker[w].which)
                         \/ (Holding(w)' /\ worker'[w].which = worker[w].which),
           ActsOn(w, "tmr") => timer.next = 0 \/ timer.next > worker[w].at
    PROVE  ExpiryInv'
<1>1. /\ ExpiryTypeOK /\ TimerBounded /\ OneKind /\ SweepsInOrder /\ TimerEntry /\ TimerHeld
      /\ FiresLeft /\ ExpiringIsScheduled
  BY DEF ExpiryInv
<1>2. ExpiryTypeOK'
  BY <1>1 DEF ExpiryTypeOK, resourceVars, timerHistory
<1>3. TimerBounded' /\ OneKind' /\ TimerEntry' /\ FiresLeft'
  BY <1>1 DEF TimerBounded, OneKind, TimerEntry, FiresLeft, FiresAsScheduled, resourceVars, timerHistory
<1>4. SweepsInOrder'
  <2> SUFFICES ASSUME NEW v \in Workers
               PROVE  /\ worker'[v].at <= now
                      /\ worker'[v].step = "claim" => worker'[v].score <= worker'[v].at
                      /\ worker'[v].step = "reschedule" =>
                            worker'[v].which = "rec" /\ worker'[v].score # 0
    BY DEF SweepsInOrder, At
  <2> QED BY <1>1 DEF SweepsInOrder, At
<1>5. TimerHeld'
  <2> SUFFICES ASSUME timer.next # 0, ~misclaimed, due["tmr"] = 0, "tmr" \notin dropped
               PROVE  \E v \in Workers : ActsOn(v, "tmr")' /\ timer.next <= worker'[v].at
    BY DEF TimerHeld, resourceVars
  <2>1. PICK v \in Workers : ActsOn(v, "tmr") /\ timer.next <= worker[v].at
    BY <1>1 DEF TimerHeld
  <2>2. timer.next \in Nat /\ worker[v].at \in Nat
    BY <1>1, TimesTyped DEF ExpiryTypeOK, Sweeps
  <2>3. v # w
    BY <2>1, <2>2
  <2> QED BY <2>1, <2>3 DEF ActsOn, At
<1>6. ExpiringIsScheduled'
  <2> SUFFICES ASSUME NEW q \in Schedules, Awaited(q)' PROVE Scheduled(q)'
    BY DEF ExpiringIsScheduled, Awaited, Schedules
  <2>0. Awaited(q)
    BY DEF Awaited, resourceVars
  <2>1. Scheduled(q)
    BY <1>1, <2>0, AwaitedIsScheduled
  <2>2. CASE Holding(w) /\ worker[w].which = q
    BY <2>0, <2>2 DEF Scheduled, Held, Holding
  <2>3. CASE ~(Holding(w) /\ worker[w].which = q)
    BY <2>1, <2>3, StaysScheduled
  <2> QED BY <2>2, <2>3
<1> QED BY <1>2, <1>3, <1>4, <1>5, <1>6 DEF ExpiryInv

\* Mostly a sweep moves on from where nothing waits for the entry it holds.
LEMMA SweepProceeds ==
    ASSUME ExpiryInv, NEW w \in Workers, Proceed(w),
           UNCHANGED <<kind, now, resourceVars, due, changes, stops, timerHistory, misclaimed, dropped>>,
           Holding(w) => ~Awaited(worker[w].which),
           ActsOn(w, "tmr") => timer.next = 0 \/ timer.next > worker[w].at
    PROVE  ExpiryInv'
<1>1. ExpiryTypeOK /\ SweepsInOrder
  BY DEF ExpiryInv
<1>2. PICK step \in {"rest", "look"}, which \in Schedules, at \in {0, worker[w].at} :
          Moves(w, step, which, at, 0)
  BY <1>1, Proceeds
<1>3. worker'[w].step = step /\ worker'[w].at = at /\ at <= now
  BY <1>1, <1>2 DEF Moves, SweepsInOrder, ExpiryTypeOK
<1> QED BY <1>2, <1>3, SweepOnly DEF Moves

\* The steps that read, and those that change no resource.
LEMMA QuietStep ==
    ASSUME ExpiryInv, NEW w \in Workers, StartSweep(w) \/ Look(w) \/ NoticeSub(w) \/ Notify(w)
    PROVE  ExpiryInv'
<1>0. /\ ExpiryTypeOK /\ SweepsInOrder
      /\ worker \in [Workers -> Sweeps] /\ worker[w] \in Sweeps /\ now \in 0 .. MaxTime
      /\ due \in [Schedules -> Times] /\ 0 \in Times
  BY TimesTyped DEF ExpiryInv, ExpiryTypeOK
<1>1. CASE StartSweep(w)
  <2> DEFINE next == [step |-> "look", which |-> First, at |-> now, score |-> 0]
  <2>1. First \in Schedules
    BY <1>0 DEF First, Schedules, ExpiryTypeOK
  <2>2. next \in Sweeps
    BY <1>0, <2>1 DEF Sweeps
  <2>3. worker' = [worker EXCEPT ![w] = next] /\ worker[w].step = "rest"
    BY <1>1 DEF StartSweep, At
  <2>4. /\ worker' \in [Workers -> Sweeps] /\ worker'[w] = next
        /\ \A v \in Workers \ {w} : worker'[v] = worker[v]
    BY <1>0, <2>2, <2>3
  <2>5. worker'[w].step = "look" /\ worker'[w].at = now /\ now <= now
    BY <1>0, <2>4
  <2> QED BY <1>1, <2>3, <2>4, <2>5, SweepOnly DEF StartSweep, Holding, ActsOn, At
<1>2. CASE Look(w)
  <2> DEFINE score == due[worker[w].which]
  <2>1. score \in Times /\ worker[w].step = "look"
    BY <1>0, <1>2 DEF Look, At, Sweeps
  <2>2. CASE score # 0 /\ score <= worker[w].at
    <3> DEFINE next == [worker[w] EXCEPT !.step = "claim", !.score = score]
    <3>1. next \in Sweeps /\ next.step = "claim" /\ next.score = score /\ next.at = worker[w].at
      BY <1>0, <2>1 DEF Sweeps
    <3>2. worker' = [worker EXCEPT ![w] = next]
      BY <1>0, <1>2, <2>2 DEF Look
    <3>3. /\ worker' \in [Workers -> Sweeps] /\ worker'[w] = next
          /\ \A v \in Workers \ {w} : worker'[v] = worker[v]
      BY <1>0, <3>1, <3>2
    <3>4. worker'[w].at <= now
      BY <1>0, <3>1, <3>3 DEF SweepsInOrder
    <3> HIDE DEF next, score
    <3>5. worker'[w].step = "claim" /\ worker'[w].score <= worker'[w].at
      BY <2>2, <3>1, <3>3
    <3> QED BY <1>2, <2>1, <3>3, <3>4, <3>5, SweepOnly DEF Look, Holding, ActsOn, At
  <2>3. CASE ~(score # 0 /\ score <= worker[w].at)
    BY <1>2, <2>1, <2>3, SweepProceeds DEF Look, Holding, ActsOn, At
  <2> QED BY <2>2, <2>3
<1>3. CASE NoticeSub(w)
  <2>1. worker[w].step = "act" /\ worker[w].which = "subnot"
    BY <1>3 DEF NoticeSub, ActsOn, At
  <2>2. CASE sub.there
    <3> DEFINE next == [worker[w] EXCEPT !.step = "notify"]
    <3>1. next \in Sweeps /\ next.step = "notify" /\ next.at = worker[w].at
      BY <1>0 DEF Sweeps
    <3>2. worker' = [worker EXCEPT ![w] = next]
      BY <1>0, <1>3, <2>2 DEF NoticeSub
    <3>3. /\ worker' \in [Workers -> Sweeps] /\ worker'[w] = next
          /\ \A v \in Workers \ {w} : worker'[v] = worker[v]
      BY <1>0, <3>1, <3>2
    <3>4. worker'[w].at <= now /\ worker'[w].step = "notify"
      BY <1>0, <3>1, <3>3 DEF SweepsInOrder
    <3> HIDE DEF next
    <3> QED BY <1>3, <2>1, <3>3, <3>4, SweepOnly DEF NoticeSub, Awaited, ActsOn, At
  <2>3. CASE ~sub.there
    BY <1>3, <2>1, <2>3, SweepProceeds DEF NoticeSub, Awaited, ActsOn, At
  <2> QED BY <2>2, <2>3
<1>4. CASE Notify(w)
  BY <1>4, SweepProceeds DEF Notify, Holding, ActsOn, At
<1> QED BY <1>1, <1>2, <1>3, <1>4

\* A sweep that changes the resource, and the schedules with it.
LEMMA SweepWrites ==
    ASSUME ExpiryInv, NEW w \in Workers,
           UNCHANGED <<now, misclaimed, dropped>>,
           \A v \in Workers \ {w} : worker'[v] = worker[v],
           worker'[w].step \in {"rest", "look", "notify"}, worker'[w].at <= now,
           ExpiryTypeOK', TimerBounded', OneKind', TimerEntry', FiresLeft',
           \A q \in Schedules : Awaited(q)' =>
               due'[q] # 0 \/ (Awaited(q) /\ due'[q] = due[q] /\ ~(Holding(w) /\ worker[w].which = q)),
           timer'.next # 0 =>
               due'["tmr"] # 0 \/ (timer' = timer /\ due'["tmr"] = due["tmr"] /\ ~ActsOn(w, "tmr"))
    PROVE  ExpiryInv'
<1>1. SweepsInOrder /\ TimerHeld /\ ExpiringIsScheduled
  BY DEF ExpiryInv
<1>2. SweepsInOrder'
  <2> SUFFICES ASSUME NEW v \in Workers
               PROVE  /\ worker'[v].at <= now
                      /\ worker'[v].step = "claim" => worker'[v].score <= worker'[v].at
                      /\ worker'[v].step = "reschedule" =>
                            worker'[v].which = "rec" /\ worker'[v].score # 0
    BY DEF SweepsInOrder, At
  <2> QED BY <1>1 DEF SweepsInOrder, At
<1>3. TimerHeld'
  <2> SUFFICES ASSUME timer'.next # 0, ~misclaimed, due'["tmr"] = 0, "tmr" \notin dropped
               PROVE  \E v \in Workers : ActsOn(v, "tmr")' /\ timer'.next <= worker'[v].at
    BY DEF TimerHeld
  <2>1. PICK v \in Workers : ActsOn(v, "tmr") /\ timer.next <= worker[v].at
    BY <1>1 DEF TimerHeld
  <2>2. v # w
    BY <2>1
  <2> QED BY <2>1, <2>2 DEF ActsOn, At
<1>4. ExpiringIsScheduled'
  <2> SUFFICES ASSUME NEW q \in Schedules, Awaited(q)' PROVE Scheduled(q)'
    BY DEF ExpiringIsScheduled, Awaited, Schedules
  <2>1. CASE due'[q] # 0
    BY <2>1 DEF Scheduled
  <2>2. CASE due'[q] = 0
    <3>1. Awaited(q) /\ due'[q] = due[q] /\ ~(Holding(w) /\ worker[w].which = q)
      BY <2>2
    <3>2. Scheduled(q)
      BY <1>1, <3>1, AwaitedIsScheduled
    <3> QED BY <3>1, <3>2, StaysScheduled
  <2> QED BY <2>1, <2>2
<1> QED BY <1>2, <1>3, <1>4 DEF ExpiryInv

\* The step of a sweep after its transaction, by kind of step.
LEMMA NotifiesNext ==
    ASSUME ExpiryTypeOK, SweepsInOrder, NEW w \in Workers,
           worker' = [worker EXCEPT ![w].step = "notify"] \/ Proceed(w)
    PROVE  /\ worker' \in [Workers -> Sweeps]
           /\ \A v \in Workers \ {w} : worker'[v] = worker[v]
           /\ worker'[w].step \in {"rest", "look", "notify"} /\ worker'[w].at <= now
<1>1. /\ worker \in [Workers -> Sweeps] /\ worker[w] \in Sweeps /\ now \in 0 .. MaxTime
      /\ worker[w].at <= now
  BY DEF ExpiryTypeOK, SweepsInOrder
<1>2. CASE worker' = [worker EXCEPT ![w].step = "notify"]
  <2> DEFINE next == [worker[w] EXCEPT !.step = "notify"]
  <2>1. next \in Sweeps /\ next.step = "notify" /\ next.at = worker[w].at
    BY <1>1 DEF Sweeps
  <2>2. worker' = [worker EXCEPT ![w] = next]
    BY <1>1, <1>2
  <2> HIDE DEF next
  <2> QED BY <1>1, <2>1, <2>2
<1>3. CASE Proceed(w)
  <2>1. PICK step \in {"rest", "look"}, which \in Schedules, at \in {0, worker[w].at} :
            Moves(w, step, which, at, 0)
    BY <1>3, Proceeds
  <2>2. at <= now
    BY <1>1
  <2> QED BY <2>1, <2>2 DEF Moves
<1> QED BY <1>2, <1>3

\* ZREM gives the entry to this replica; only a newer entry can be taken by mistake.
LEMMA ClaimStep ==
    ASSUME ExpiryInv, NEW w \in Workers, Claim(w) PROVE ExpiryInv'
<1> DEFINE q == worker[w].which
<1>0. /\ ExpiryTypeOK /\ TimerBounded /\ OneKind /\ SweepsInOrder /\ TimerEntry /\ TimerHeld
      /\ FiresLeft /\ ExpiringIsScheduled
      /\ worker \in [Workers -> Sweeps] /\ worker[w] \in Sweeps /\ now \in 0 .. MaxTime
      /\ due \in [Schedules -> Times] /\ 0 \in Times
      /\ q \in Schedules /\ worker[w].step = "claim" /\ worker[w].score <= worker[w].at
  <2>1. /\ ExpiryTypeOK /\ TimerBounded /\ OneKind /\ SweepsInOrder /\ TimerEntry /\ TimerHeld
        /\ FiresLeft /\ ExpiringIsScheduled
    BY DEF ExpiryInv
  <2>2. /\ worker \in [Workers -> Sweeps] /\ now \in 0 .. MaxTime /\ due \in [Schedules -> Times]
    BY <2>1 DEF ExpiryTypeOK
  <2>3. worker[w].step = "claim" /\ worker[w].score <= worker[w].at
    BY <2>1 DEF Claim, SweepsInOrder, At
  <2>4. worker[w] \in Sweeps /\ q \in Schedules
    BY <2>2 DEF Sweeps
  <2> QED BY <2>1, <2>2, <2>3, <2>4, TimesTyped
<1>1. /\ due' = [due EXCEPT ![q] = 0] /\ misclaimed' = (misclaimed \/ due[q] \notin {0, worker[w].score})
      /\ UNCHANGED <<kind, now, resourceVars, changes, stops, timerHistory, dropped>>
  BY DEF Claim
<1>2. /\ due' \in [Schedules -> Times] /\ due'[q] = 0 /\ misclaimed' \in BOOLEAN
      /\ \A r \in Schedules \ {q} : due'[r] = due[r]
  BY <1>0, <1>1 DEF ExpiryTypeOK
<1>3. /\ worker' \in [Workers -> Sweeps] /\ worker'[w].at <= now
      /\ \A v \in Workers \ {w} : worker'[v] = worker[v]
      /\ due[q] # 0 => worker'[w].step = "act" /\ worker'[w].which = q /\ worker'[w].at = worker[w].at
      /\ due[q] = 0 => worker'[w].step \in {"rest", "look", "notify"}
  <2>1. CASE due[q] # 0
    <3> DEFINE next == [worker[w] EXCEPT !.step = "act"]
    <3>1. next \in Sweeps /\ next.step = "act" /\ next.at = worker[w].at /\ next.which = q
      BY <1>0 DEF Sweeps
    <3>2. worker' = [worker EXCEPT ![w] = next]
      BY <1>0, <2>1 DEF Claim
    <3>3. worker[w].at <= now
      BY <1>0 DEF SweepsInOrder
    <3> HIDE DEF next
    <3> QED BY <1>0, <2>1, <3>1, <3>2, <3>3
  <2>2. CASE due[q] = 0
    <3>1. Proceed(w)
      BY <2>2 DEF Claim
    <3> QED BY <1>0, <2>2, <3>1, NotifiesNext
  <2> QED BY <2>1, <2>2
<1>4. ExpiryTypeOK'
  BY <1>0, <1>1, <1>2, <1>3 DEF ExpiryTypeOK, resourceVars, timerHistory
<1>5. TimerBounded' /\ OneKind' /\ FiresLeft'
  BY <1>0, <1>1 DEF TimerBounded, OneKind, FiresLeft, FiresAsScheduled, resourceVars, timerHistory
<1>6. TimerEntry'
  BY <1>0, <1>1, <1>2 DEF TimerEntry, resourceVars, Schedules
<1>7. SweepsInOrder'
  <2> SUFFICES ASSUME NEW v \in Workers
               PROVE  /\ worker'[v].at <= now
                      /\ worker'[v].step = "claim" => worker'[v].score <= worker'[v].at
                      /\ worker'[v].step = "reschedule" =>
                            worker'[v].which = "rec" /\ worker'[v].score # 0
    BY <1>1 DEF SweepsInOrder, At
  <2> QED BY <1>0, <1>3 DEF SweepsInOrder, At
<1>8. TimerHeld'
  <2> SUFFICES ASSUME timer.next # 0, ~misclaimed', due'["tmr"] = 0, "tmr" \notin dropped
               PROVE  \E v \in Workers : ActsOn(v, "tmr")' /\ timer.next <= worker'[v].at
    BY <1>1 DEF TimerHeld, resourceVars
  <2>1. CASE q = "tmr" /\ due[q] # 0
    <3>1. due[q] = worker[w].score /\ due[q] = timer.next
      BY <1>0, <1>1, <2>1 DEF TimerEntry
    <3> QED BY <1>0, <1>3, <2>1, <3>1 DEF ActsOn, At
  <2>2. CASE ~(q = "tmr" /\ due[q] # 0)
    <3>1. due["tmr"] = 0
      BY <1>2, <2>2 DEF Schedules
    <3>2. PICK v \in Workers : ActsOn(v, "tmr") /\ timer.next <= worker[v].at
      BY <1>0, <1>1, <3>1 DEF TimerHeld
    <3>3. v # w
      BY <1>0, <3>2 DEF ActsOn, At
    <3> QED BY <1>3, <3>2, <3>3 DEF ActsOn, At
  <2> QED BY <2>1, <2>2
<1>9. ExpiringIsScheduled'
  <2> SUFFICES ASSUME NEW r \in Schedules, Awaited(r)' PROVE Scheduled(r)'
    BY DEF ExpiringIsScheduled, Awaited, Schedules
  <2>1. Awaited(r)
    BY <1>1 DEF Awaited, resourceVars
  <2>2. Scheduled(r)
    BY <1>0, <2>1, AwaitedIsScheduled
  <2>3. CASE r = q /\ due[q] # 0
    BY <1>3, <2>3 DEF Scheduled, Held
  <2>4. CASE ~(r = q /\ due[q] # 0)
    <3>1. due'[r] = due[r] /\ ~Holding(w)
      BY <1>0, <1>2, <2>4 DEF Holding
    <3>2. dropped \subseteq dropped'
      BY <1>1
    <3> QED BY <1>3, <2>2, <3>1, <3>2, StaysScheduled
  <2> QED BY <2>3, <2>4
<1> QED BY <1>4, <1>5, <1>6, <1>7, <1>8, <1>9 DEF ExpiryInv

\* An expired record goes, and one that was renewed is put back by the next step.
LEMMA RecordSweepStep ==
    ASSUME ExpiryInv, NEW w \in Workers, ExpireRecord(w) \/ Reschedule(w) PROVE ExpiryInv'
<1>0. /\ ExpiryTypeOK /\ TimerBounded /\ OneKind /\ SweepsInOrder /\ TimerEntry /\ FiresLeft
      /\ worker \in [Workers -> Sweeps] /\ worker[w] \in Sweeps /\ now \in 0 .. MaxTime
      /\ worker[w].at <= now /\ due \in [Schedules -> Times]
      /\ record \in [there: BOOLEAN, ttl: 0..MaxTime]
  BY DEF ExpiryInv, ExpiryTypeOK, SweepsInOrder
<1>1. CASE ExpireRecord(w) /\ record.ttl = 0
  <2>1. /\ Proceed(w)
        /\ UNCHANGED <<kind, now, resourceVars, due, changes, stops, timerHistory, misclaimed, dropped>>
    BY <1>0, <1>1 DEF ExpireRecord, Sweeps
  <2>2. worker[w].which = "rec"
    BY <1>1 DEF ExpireRecord, ActsOn
  <2> QED BY <1>1, <2>1, <2>2, SweepProceeds DEF Awaited, ActsOn
<1>2. CASE ExpireRecord(w) /\ record.ttl # 0 /\ record.ttl > worker[w].at
  <2> DEFINE next == [worker[w] EXCEPT !.step = "reschedule", !.score = record.ttl]
  <2>1. record.ttl \in Times /\ worker[w].which = "rec" /\ worker[w].at \in Nat
    BY <1>0, <1>2, TimesTyped DEF ExpireRecord, ActsOn, Sweeps
  <2>2. /\ next \in Sweeps /\ next.step = "reschedule" /\ next.at = worker[w].at
        /\ next.which = "rec" /\ next.score = record.ttl
    BY <1>0, <2>1 DEF Sweeps
  <2>3. /\ worker' = [worker EXCEPT ![w] = next]
        /\ UNCHANGED <<kind, now, resourceVars, due, changes, stops, timerHistory, misclaimed, dropped>>
    <3>1. ~(record.ttl <= worker[w].at)
      BY <1>0, <1>2, <2>1
    <3>2. /\ worker' = [worker EXCEPT ![w].step = "reschedule", ![w].score = record.ttl]
          /\ UNCHANGED <<resourceVars, due>>
      BY <1>2, <3>1 DEF ExpireRecord
    <3>3. UNCHANGED <<kind, now, changes, stops, timerHistory, misclaimed, dropped>>
      BY <1>2 DEF ExpireRecord
    <3>4. worker' = [worker EXCEPT ![w] = next]
      BY <1>0, <3>2
    <3> QED BY <3>2, <3>3, <3>4
  <2> HIDE DEF next
  <2>4. /\ worker' \in [Workers -> Sweeps] /\ worker'[w] = next
        /\ \A v \in Workers \ {w} : worker'[v] = worker[v]
    BY <1>0, <2>2, <2>3
  <2>5. worker'[w].step = "reschedule" /\ worker'[w].which = "rec" /\ worker'[w].score # 0
        /\ worker'[w].at <= now
    BY <1>0, <1>2, <2>2, <2>4
  <2> QED BY <1>2, <2>1, <2>3, <2>4, <2>5, SweepOnly DEF Holding, ActsOn
<1>3. CASE ExpireRecord(w) /\ record.ttl # 0 /\ ~(record.ttl > worker[w].at)
  <2>1. /\ worker' = [worker EXCEPT ![w].step = "notify"] /\ EraseRecord
        /\ UNCHANGED <<kind, now, changes, stops, timerHistory, misclaimed, dropped>>
    BY <1>3 DEF ExpireRecord
  <2>2. 0 \in 0 .. MaxTime
    BY ExpiryAssumption
  <2>3. /\ record' \in [there: BOOLEAN, ttl: 0..MaxTime] /\ record'.ttl = 0
        /\ sub' = sub /\ timer' = timer
        /\ due' \in [Schedules -> Times]
        /\ \A q \in Schedules \ {"rec"} : due'[q] = due[q]
    BY <1>0, <2>1, <2>2, RecordWritten
  <2>4. /\ worker' \in [Workers -> Sweeps]
        /\ \A v \in Workers \ {w} : worker'[v] = worker[v]
        /\ worker'[w].step \in {"rest", "look", "notify"} /\ worker'[w].at <= now
    BY <1>0, <2>1, NotifiesNext
  <2>5. ExpiryTypeOK'
    BY <1>0, <2>1, <2>3, <2>4 DEF ExpiryTypeOK, timerHistory
  <2>6. TimerBounded' /\ OneKind' /\ FiresLeft'
    BY <1>0, <2>1, <2>3 DEF TimerBounded, OneKind, FiresLeft, FiresAsScheduled, timerHistory
  <2>7. due'["tmr"] = due["tmr"] /\ TimerEntry'
    BY <1>0, <2>3 DEF TimerEntry, Schedules
  <2>8. worker[w].which = "rec"
    BY <1>3 DEF ExpireRecord, ActsOn
  <2>9. \A q \in Schedules : Awaited(q)' =>
            Awaited(q) /\ due'[q] = due[q] /\ ~(Holding(w) /\ worker[w].which = q)
    BY <2>3, <2>8 DEF Awaited
  <2> QED BY <2>1, <2>3, <2>4, <2>5, <2>6, <2>7, <2>8, <2>9, SweepWrites DEF ActsOn
<1>4. CASE Reschedule(w)
  <2>1. /\ worker[w].step = "reschedule" /\ worker[w].which = "rec" /\ worker[w].score # 0
        /\ worker[w].score \in Times
    BY <1>0, <1>4 DEF Reschedule, At, SweepsInOrder, Sweeps
  <2>2. /\ due' = [due EXCEPT !["rec"] = worker[w].score] /\ Proceed(w)
        /\ UNCHANGED <<kind, now, resourceVars, changes, stops, timerHistory, misclaimed, dropped>>
    BY <1>4 DEF Reschedule
  <2>3. /\ due' \in [Schedules -> Times] /\ due'["rec"] # 0
        /\ \A q \in Schedules \ {"rec"} : due'[q] = due[q]
    BY <1>0, <2>1, <2>2 DEF Schedules
  <2>4. /\ worker' \in [Workers -> Sweeps]
        /\ \A v \in Workers \ {w} : worker'[v] = worker[v]
        /\ worker'[w].step \in {"rest", "look", "notify"} /\ worker'[w].at <= now
    BY <1>0, <2>2, NotifiesNext
  <2>5. ExpiryTypeOK'
    BY <1>0, <2>2, <2>3, <2>4 DEF ExpiryTypeOK, resourceVars, timerHistory
  <2>6. TimerBounded' /\ OneKind' /\ FiresLeft'
    BY <1>0, <2>2 DEF TimerBounded, OneKind, FiresLeft, FiresAsScheduled, resourceVars, timerHistory
  <2>7. due'["tmr"] = due["tmr"] /\ TimerEntry'
    BY <1>0, <2>2, <2>3 DEF TimerEntry, Schedules, resourceVars
  <2>8. \A q \in Schedules : Awaited(q)' =>
            due'[q] # 0 \/ (Awaited(q) /\ due'[q] = due[q] /\ ~(Holding(w) /\ worker[w].which = q))
    BY <2>1, <2>2, <2>3 DEF Awaited, resourceVars
  <2>9. timer' = timer /\ ~ActsOn(w, "tmr")
    BY <2>1, <2>2 DEF ActsOn, resourceVars
  <2> QED BY <2>2, <2>4, <2>5, <2>6, <2>7, <2>8, <2>9, SweepWrites
<1> QED BY <1>1, <1>2, <1>3, <1>4

\* The subscription goes with both of its entries.
LEMMA SubSweepStep ==
    ASSUME ExpiryInv, NEW w \in Workers, ExpireSub(w) PROVE ExpiryInv'
<1>0. /\ ExpiryTypeOK /\ TimerBounded /\ OneKind /\ SweepsInOrder /\ TimerEntry /\ FiresLeft
      /\ worker[w].step = "act" /\ worker[w].which = "subexp"
      /\ UNCHANGED <<kind, now, changes, stops, timerHistory, misclaimed, dropped>>
  BY DEF ExpiryInv, ExpireSub, ActsOn, At
<1>1. CASE sub.there
  <2>1. WriteSub(NoSub) /\ (worker' = [worker EXCEPT ![w].step = "notify"] \/ Proceed(w))
    BY <1>1 DEF ExpireSub
  <2>2. NoSub \in [there: BOOLEAN, expiry: 0..MaxTime, notice: {None, 0, 1}]
    BY ExpiryAssumption DEF NoSub
  <2>3. /\ sub' = NoSub /\ record' = record /\ timer' = timer
        /\ due' \in [Schedules -> Times]
        /\ \A q \in Schedules \ {"subexp", "subnot"} : due'[q] = due[q]
    BY <1>0, <2>1, <2>2, SubWritten
  <2>4. /\ worker' \in [Workers -> Sweeps]
        /\ \A v \in Workers \ {w} : worker'[v] = worker[v]
        /\ worker'[w].step \in {"rest", "look", "notify"} /\ worker'[w].at <= now
    BY <1>0, <2>1, NotifiesNext
  <2>5. ExpiryTypeOK'
    BY <1>0, <2>2, <2>3, <2>4 DEF ExpiryTypeOK, timerHistory
  <2>6. TimerBounded' /\ OneKind' /\ FiresLeft'
    BY <1>0, <2>3 DEF TimerBounded, OneKind, FiresLeft, FiresAsScheduled, timerHistory, NoSub
  <2>7. due'["tmr"] = due["tmr"] /\ TimerEntry'
    BY <1>0, <2>3 DEF TimerEntry, Schedules
  <2>8. \A q \in Schedules : Awaited(q)' =>
            Awaited(q) /\ due'[q] = due[q] /\ ~(Holding(w) /\ worker[w].which = q)
    BY <1>0, <2>3 DEF Awaited, NoSub
  <2>9. ~ActsOn(w, "tmr")
    BY <1>0 DEF ActsOn
  <2> QED BY <1>0, <2>3, <2>4, <2>5, <2>6, <2>7, <2>8, <2>9, SweepWrites
<1>2. CASE ~sub.there
  <2>1. Proceed(w) /\ UNCHANGED <<resourceVars, due>>
    BY <1>2 DEF ExpireSub
  <2>2. ~Awaited("subexp")
    BY <1>0, <1>2 DEF OneKind, Awaited
  <2> QED BY <1>0, <2>1, <2>2, SweepProceeds DEF ActsOn
<1> QED BY <1>1, <1>2

\* A timer that fires has its next expiry scheduled, or its deletion, or goes.
LEMMA TimerSweepStep ==
    ASSUME ExpiryInv, NEW w \in Workers, FireTimer(w) \/ DropTimer(w) PROVE ExpiryInv'
<1>0. /\ ExpiryTypeOK /\ TimerBounded /\ OneKind /\ SweepsInOrder /\ TimerEntry /\ FiresLeft
      /\ worker[w].step = "act" /\ worker[w].which \in {"tmr", "tmrdel"}
      /\ worker[w] \in Sweeps /\ now \in 0 .. MaxTime /\ worker[w].at <= now
      /\ timer \in TimerRecord /\ fired \in Nat /\ allowed \in Nat
      /\ UNCHANGED <<kind, now, changes, stops, misclaimed, dropped>>
  BY DEF ExpiryInv, FireTimer, DropTimer, ActsOn, At, ExpiryTypeOK, SweepsInOrder, TimerRecord
<1>1. ASSUME NEW t, TimerOK(t), WriteTimer(t), kind = "timer",
             t.next # 0 => fired' + t.left + 1 <= allowed',
             fired' \in Nat, allowed' \in Nat, fired' <= allowed', early' = FALSE,
             worker' = [worker EXCEPT ![w].step = "notify"] \/ Proceed(w)
      PROVE  ExpiryInv'
  <2>1. /\ timer' = t /\ record' = record /\ sub' = sub
        /\ due' \in [Schedules -> Times]
        /\ due'["tmr"] = t.next
        /\ t.next = 0 /\ t.there /\ t.keep # None => due'["tmrdel"] # 0
        /\ \A q \in Schedules \ {"tmr", "tmrdel"} : due'[q] = due[q]
    BY <1>0, <1>1, TimerWritten
  <2>2. /\ worker' \in [Workers -> Sweeps]
        /\ \A v \in Workers \ {w} : worker'[v] = worker[v]
        /\ worker'[w].step \in {"rest", "look", "notify"} /\ worker'[w].at <= now
    BY <1>0, <1>1, NotifiesNext
  <2>3. t \in TimerRecord /\ early' \in BOOLEAN
    BY <1>0, <1>1 DEF TimerOK, FiresLeft, FiresAsScheduled
  <2>4. ExpiryTypeOK'
    BY <1>0, <1>1, <2>1, <2>2, <2>3 DEF ExpiryTypeOK, TimerRecord
  <2>5. TimerBounded'
    BY <1>1, <2>1 DEF TimerBounded, TimerOK
  <2>6. OneKind' /\ FiresLeft' /\ TimerEntry'
    BY <1>0, <1>1, <2>1 DEF OneKind, FiresLeft, FiresAsScheduled, TimerEntry
  <2>7. \A q \in Schedules : Awaited(q)' => q = "tmrdel" /\ due'[q] # 0
    BY <1>0, <1>1, <2>1 DEF Awaited, OneKind
  <2> QED BY <1>0, <2>1, <2>2, <2>4, <2>5, <2>6, <2>7, SweepWrites
<1>2. CASE FireTimer(w) /\ NotYet(w)
  <2>1. /\ Proceed(w) /\ worker[w].which = "tmr"
        /\ UNCHANGED <<kind, now, resourceVars, due, changes, stops, timerHistory, misclaimed, dropped>>
    BY <1>2 DEF FireTimer, ActsOn
  <2> QED BY <1>2, <2>1, SweepProceeds DEF NotYet, Awaited
<1>3. CASE FireTimer(w) /\ ~NotYet(w)
  <2>1. /\ worker' = [worker EXCEPT ![w].step = "notify"]
        /\ fired' = fired + 1 /\ allowed' = allowed /\ early' = (early \/ timer.next > now)
    BY <1>3 DEF FireTimer
  <2>2. /\ timer.next # 0 /\ ~(timer.next > worker[w].at) /\ timer.next \in Nat
        /\ timer.left \in 0 .. MaxCount /\ timer.next \in Times
    BY <1>0, <1>3, TimesTyped DEF NotYet, TimerRecord
  <2>3. early' = FALSE
    <3>1. worker[w].at \in Nat /\ now \in Nat
      BY <1>0 DEF Sweeps
    <3>2. ~(timer.next > now)
      BY <1>0, <2>2, <3>1
    <3>3. ~early
      BY <1>0 DEF FiresLeft, FiresAsScheduled
    <3> QED BY <2>1, <3>2, <3>3
  <2>4. fired + timer.left + 1 <= allowed /\ timer.there /\ kind = "timer"
    BY <1>0, <2>2 DEF FiresLeft, TimerBounded, OneKind
  <2>5. fired' \in Nat /\ allowed' \in Nat /\ fired' <= allowed'
    BY <1>0, <2>1, <2>2, <2>4, ExpiryAssumption
  <2>6. CASE timer.left > 0
    <3> DEFINE t == [timer EXCEPT !.left = @ - 1, !.next = @ + Period]
    <3>1. WriteTimer(t)
      BY <1>3, <2>6 DEF FireTimer
    <3>2. /\ timer.left * Period \in Nat /\ timer.left * Period >= Period
          /\ (timer.left - 1) * Period = timer.left * Period - Period
      BY <2>2, <2>6, Repetitions
    <3>3. timer.next + timer.left * Period <= Horizon
      BY <1>0 DEF TimerBounded
    <3>4. /\ timer.next + Period \in Times /\ timer.left - 1 \in 0 .. MaxCount
          /\ timer.next + Period + (timer.left - 1) * Period <= Horizon
          /\ timer.next + Period # 0
      <4> DEFINE left0 == timer.left * Period
                 left1 == (timer.left - 1) * Period
      <4>1. left0 \in Nat /\ left0 >= Period /\ left1 = left0 - Period /\ timer.next + left0 <= Horizon
        BY <3>2, <3>3
      <4> HIDE DEF left0, left1
      <4>2. /\ timer.next \in Nat /\ timer.next # 0 /\ Period \in Nat /\ Horizon \in Nat
            /\ timer.left - 1 \in 0 .. MaxCount
        BY <2>2, <2>6, TimesTyped, ExpiryAssumption
      <4>3. timer.next + Period <= Horizon /\ timer.next + Period + left1 <= Horizon
        BY <4>1, <4>2
      <4>4. timer.next + Period \in Times /\ timer.next + Period # 0
        BY <4>2, <4>3, TimesTyped
      <4> QED BY <4>2, <4>3, <4>4 DEF left1
    <3>5. /\ t \in TimerRecord /\ t.next = timer.next + Period /\ t.left = timer.left - 1
          /\ t.last = timer.last /\ t.there = timer.there /\ t.expires = timer.expires
      BY <1>0, <3>4 DEF TimerRecord
    <3>6. TimerOK(t)
      BY <1>0, <2>4, <3>4, <3>5 DEF TimerOK, TimerBounded
    <3>7. fired' + t.left + 1 <= allowed'
      BY <1>0, <2>1, <2>2, <2>4, <3>5, ExpiryAssumption
    <3> HIDE DEF t
    <3> QED BY <1>1, <2>1, <2>3, <2>4, <2>5, <3>1, <3>6, <3>7
  <2>7. CASE timer.left = 0 /\ timer.keep # None
    <3> DEFINE t == [timer EXCEPT !.next = 0, !.last = timer.next]
    <3>1. WriteTimer(t)
      BY <1>3, <2>7 DEF FireTimer
    <3>2. timer.left * Period \in Nat /\ timer.next + timer.left * Period <= Horizon
      BY <1>0, <2>2, Repetitions DEF TimerBounded
    <3>3. 0 \in Times /\ timer.next <= Horizon /\ 0 + timer.left * Period <= Horizon
      BY <2>2, <3>2, TimesTyped
    <3>4. /\ t \in TimerRecord /\ t.next = 0 /\ t.left = timer.left
          /\ t.last = timer.next /\ t.there = timer.there /\ t.expires = timer.expires
      BY <1>0, <2>2, <3>3 DEF TimerRecord
    <3>5. TimerOK(t)
      BY <1>0, <2>2, <2>4, <3>3, <3>4 DEF TimerOK, TimerBounded
    <3> HIDE DEF t
    <3> QED BY <1>1, <2>1, <2>3, <2>4, <2>5, <3>1, <3>4, <3>5
  <2>8. CASE timer.left = 0 /\ timer.keep = None
    <3>1. WriteTimer(NoTimer)
      BY <1>3, <2>8 DEF FireTimer, EraseTimer
    <3>2. NoTimer.next = 0
      BY DEF NoTimer
    <3> QED BY <1>1, <2>1, <2>3, <2>4, <2>5, <3>1, <3>2, NoTimerOK
  <2> QED BY <2>2, <2>6, <2>7, <2>8, ExpiryAssumption
<1>4. CASE DropTimer(w) /\ timer.there /\ timer.next = 0
  <2>1. WriteTimer(NoTimer) /\ Proceed(w) /\ UNCHANGED <<fired, allowed, early>>
    BY <1>4 DEF DropTimer, EraseTimer, timerHistory
  <2>2. NoTimer.next = 0
    BY DEF NoTimer
  <2>3. kind = "timer" /\ fired <= allowed /\ early = FALSE
    BY <1>0, <1>4 DEF OneKind, FiresLeft, FiresAsScheduled, ExpiryTypeOK
  <2> QED BY <1>0, <1>1, <2>1, <2>2, <2>3, NoTimerOK
<1>5. CASE DropTimer(w) /\ ~(timer.there /\ timer.next = 0)
  <2>1. /\ Proceed(w) /\ worker[w].which = "tmrdel"
        /\ UNCHANGED <<kind, now, resourceVars, due, changes, stops, timerHistory, misclaimed, dropped>>
    BY <1>5 DEF DropTimer, ActsOn
  <2> QED BY <1>5, <2>1, SweepProceeds DEF Awaited, ActsOn
<1> QED BY <1>2, <1>3, <1>4, <1>5

\* A replica that stops leaves what it held to nobody.
LEMMA StopStep ==
    ASSUME ExpiryInv, NEW w \in Workers, Stop(w) PROVE ExpiryInv'
<1>0. /\ ExpiryTypeOK /\ TimerBounded /\ OneKind /\ SweepsInOrder /\ TimerEntry /\ TimerHeld
      /\ FiresLeft /\ ExpiringIsScheduled
      /\ worker \in [Workers -> Sweeps] /\ worker[w] \in Sweeps /\ now \in 0 .. MaxTime
      /\ stops \in Nat /\ dropped \subseteq Schedules
      /\ UNCHANGED <<kind, now, resourceVars, due, changes, timerHistory, misclaimed>>
      /\ stops' = stops + 1 /\ worker' = [worker EXCEPT ![w] = Rest]
      /\ dropped' = IF Holding(w) THEN dropped \union {worker[w].which} ELSE dropped
  BY DEF ExpiryInv, ExpiryTypeOK, Stop, Holding
<1>1. Rest \in Sweeps /\ Rest.step = "rest" /\ Rest.at = 0
  BY ExpiryAssumption, TimesTyped DEF Rest, Sweeps, Schedules
<1>2. /\ worker' \in [Workers -> Sweeps] /\ worker'[w] = Rest
      /\ \A v \in Workers \ {w} : worker'[v] = worker[v]
  BY <1>0, <1>1
<1>3. worker[w].which \in Schedules /\ dropped' \subseteq Schedules /\ dropped \subseteq dropped'
  BY <1>0 DEF Sweeps
<1>4. ExpiryTypeOK'
  BY <1>0, <1>2, <1>3 DEF ExpiryTypeOK, resourceVars, timerHistory
<1>5. TimerBounded' /\ OneKind' /\ FiresLeft' /\ TimerEntry'
  BY <1>0 DEF TimerBounded, OneKind, FiresLeft, FiresAsScheduled, TimerEntry, resourceVars, timerHistory
<1>6. SweepsInOrder'
  <2> SUFFICES ASSUME NEW v \in Workers
               PROVE  /\ worker'[v].at <= now
                      /\ worker'[v].step = "claim" => worker'[v].score <= worker'[v].at
                      /\ worker'[v].step = "reschedule" =>
                            worker'[v].which = "rec" /\ worker'[v].score # 0
    BY <1>0 DEF SweepsInOrder, At
  <2> QED BY <1>0, <1>1, <1>2 DEF SweepsInOrder, At
<1>7. TimerHeld'
  <2> SUFFICES ASSUME timer.next # 0, ~misclaimed, due["tmr"] = 0, "tmr" \notin dropped'
               PROVE  \E v \in Workers : ActsOn(v, "tmr")' /\ timer.next <= worker'[v].at
    BY <1>0 DEF TimerHeld, resourceVars
  <2>1. PICK v \in Workers : ActsOn(v, "tmr") /\ timer.next <= worker[v].at
    BY <1>0, <1>3 DEF TimerHeld
  <2>2. v # w
    BY <1>0, <2>1 DEF ActsOn, At, Holding
  <2> QED BY <1>2, <2>1, <2>2 DEF ActsOn, At
<1>8. ExpiringIsScheduled'
  <2> SUFFICES ASSUME NEW q \in Schedules, Awaited(q)' PROVE Scheduled(q)'
    BY DEF ExpiringIsScheduled, Awaited, Schedules
  <2>1. Scheduled(q)
    <3>1. Awaited(q)
      BY <1>0 DEF Awaited, resourceVars
    <3> QED BY <1>0, <3>1, AwaitedIsScheduled
  <2>2. CASE Holding(w) /\ worker[w].which = q
    BY <1>0, <2>2 DEF Scheduled
  <2>3. CASE ~(Holding(w) /\ worker[w].which = q)
    BY <1>0, <1>2, <1>3, <2>1, <2>3, StaysScheduled
  <2> QED BY <2>2, <2>3
<1> QED BY <1>4, <1>5, <1>6, <1>7, <1>8 DEF ExpiryInv

\* Time passes.
LEMMA TickStep ==
    ASSUME ExpiryInv, Tick PROVE ExpiryInv'
<1>0. /\ ExpiryTypeOK /\ now \in 0 .. MaxTime /\ now < MaxTime /\ now' = now + 1
      /\ worker \in [Workers -> Sweeps]
      /\ UNCHANGED <<kind, resourceVars, due, worker, changes, stops, timerHistory, misclaimed, dropped>>
  BY DEF ExpiryInv, ExpiryTypeOK, Tick
<1>1. ExpiryTypeOK'
  BY <1>0, ExpiryAssumption DEF ExpiryTypeOK, resourceVars, timerHistory
<1>2. SweepsInOrder'
  <2> SUFFICES ASSUME NEW v \in Workers
               PROVE  /\ worker[v].at <= now'
                      /\ worker[v].step = "claim" => worker[v].score <= worker[v].at
                      /\ worker[v].step = "reschedule" => worker[v].which = "rec" /\ worker[v].score # 0
    BY <1>0 DEF SweepsInOrder, At
  <2>1. worker[v].at \in 0 .. MaxTime /\ worker[v].at <= now
    BY <1>0 DEF ExpiryInv, SweepsInOrder, Sweeps
  <2>2. worker[v].at <= now'
    BY <1>0, <2>1, ExpiryAssumption
  <2> QED BY <2>2 DEF ExpiryInv, SweepsInOrder, At
<1>3. TimerBounded' /\ OneKind' /\ FiresLeft' /\ TimerEntry'
  BY <1>0 DEF ExpiryInv, TimerBounded, OneKind, FiresLeft, FiresAsScheduled, TimerEntry,
              resourceVars, timerHistory
<1>4. TimerHeld' /\ ExpiringIsScheduled'
  BY <1>0 DEF ExpiryInv, TimerHeld, ExpiringIsScheduled, Scheduled, Held, ActsOn, At, resourceVars
<1> QED BY <1>1, <1>2, <1>3, <1>4 DEF ExpiryInv

-----------------------------------------------------------------------------
\* The inductive invariant of the schedules.
THEOREM ExpiryKeepsOrder == ExpirySpec => []ExpiryInv
<1>1. ExpiryInit => ExpiryInv
  <2> SUFFICES ASSUME ExpiryInit PROVE ExpiryInv
    OBVIOUS
  <2>1. 0 \in 0 .. MaxTime /\ 0 \in Times /\ 0 \in 0 .. MaxCount /\ 0 <= Horizon
    BY ExpiryAssumption, TimesTyped
  <2>2. Rest \in Sweeps
    BY <2>1 DEF Rest, Sweeps, Schedules
  <2>3. TimerOK(timer)
    BY NoTimerOK DEF ExpiryInit
  <2>4. timer \in TimerRecord /\ TimerBounded
    BY <2>3 DEF TimerOK, TimerBounded
  <2>5. /\ record \in [there: BOOLEAN, ttl: 0..MaxTime]
        /\ sub \in [there: BOOLEAN, expiry: 0..MaxTime, notice: {None, 0, 1}]
    BY <2>1 DEF ExpiryInit, Absent, NoSub
  <2>6. due \in [Schedules -> Times] /\ worker \in [Workers -> Sweeps]
    BY <2>1, <2>2 DEF ExpiryInit
  <2>7. ExpiryTypeOK
    BY <2>1, <2>4, <2>5, <2>6 DEF ExpiryInit, ExpiryTypeOK, TimerRecord
  <2>8. record.ttl = 0 /\ ~sub.there /\ sub.expiry = 0 /\ ~timer.there /\ timer.next = 0
    BY DEF ExpiryInit, Absent, NoSub, NoTimer
  <2>9. OneKind /\ TimerEntry /\ TimerHeld /\ FiresLeft /\ ExpiringIsScheduled
    BY <2>8 DEF ExpiryInit, OneKind, TimerEntry, TimerHeld, FiresLeft, FiresAsScheduled,
                ExpiringIsScheduled, Schedules
  <2>10. SweepsInOrder
    <3>1. \A w \in Workers : worker[w].step = "rest" /\ worker[w].at = 0
      BY DEF ExpiryInit, Rest
    <3>2. now = 0 /\ 0 <= 0
      BY DEF ExpiryInit
    <3> QED BY <3>1, <3>2 DEF SweepsInOrder, At
  <2> QED BY <2>4, <2>7, <2>9, <2>10 DEF ExpiryInv
<1>2. ExpiryInv /\ [ExpiryNext]_expiryVars => ExpiryInv'
  <2> SUFFICES ASSUME ExpiryInv, [ExpiryNext]_expiryVars PROVE ExpiryInv'
    OBVIOUS
  <2>1. CASE UNCHANGED expiryVars
    BY <2>1 DEF expiryVars, resourceVars, ExpiryInv, ExpiryTypeOK, TimerBounded, OneKind,
                SweepsInOrder, TimerEntry, TimerHeld, FiresLeft, FiresAsScheduled,
                ExpiringIsScheduled, Scheduled, Held, ActsOn, At
  <2>2. CASE Tick
    BY <2>2, TickStep
  <2>3. CASE ClientStep
    BY <2>3, RecordRequestStep, SubRequestStep, TimerRequestStep DEF ClientStep
  <2>4. ASSUME NEW w \in Workers, WorkerStep(w) \/ Stop(w) PROVE ExpiryInv'
    BY <2>4, QuietStep, ClaimStep, RecordSweepStep, SubSweepStep, TimerSweepStep, StopStep
       DEF WorkerStep
  <2> QED BY <2>1, <2>2, <2>3, <2>4 DEF ExpiryNext
<1> QED BY <1>1, <1>2, PTL DEF ExpirySpec

\* Types, for any number of replicas, any bound on time and any period.
THEOREM ExpiryTypeCorrect == ExpirySpec => []ExpiryTypeOK
<1>1. ExpiryInv => ExpiryTypeOK
  BY DEF ExpiryInv
<1> QED BY <1>1, ExpiryKeepsOrder, PTL

\* What has to go at some time is on its schedule, with a replica that took it off, or
\* was with one that stopped.
THEOREM ExpiringIsScheduledHolds == ExpirySpec => []ExpiringIsScheduled
<1>1. ExpiryInv => ExpiringIsScheduled
  BY DEF ExpiryInv
<1> QED BY <1>1, ExpiryKeepsOrder, PTL

\* As long as replicas run, a timer leaves its schedule unfired only when claim_due took
\* a newer entry than the one it had seen.
THEOREM TimersLostOnlyByMisclaimHolds == ExpirySpec => []TimersLostOnlyByMisclaim
<1>1. ExpiryInv => TimersLostOnlyByMisclaim
  BY DEF ExpiryInv, TimerHeld, TimersLostOnlyByMisclaim, Scheduled, Held, ActsOn, At
<1> QED BY <1>1, ExpiryKeepsOrder, PTL

\* No timer fires before its time, nor more often than its repetitions allow.
THEOREM FiresAsScheduledHolds == ExpirySpec => []FiresAsScheduled
<1>1. ExpiryInv => FiresAsScheduled
  BY DEF ExpiryInv, FiresLeft
<1> QED BY <1>1, ExpiryKeepsOrder, PTL
=============================================================================
