--------------------------- MODULE ChargingRecords ---------------------------
(***************************************************************************)
(* The charging data records of the CHF: CdrWriter of every instance with  *)
(* its buffer and its flusher thread, the event bus beside it, the cdr     *)
(* table of Doris that the instances share, the retention sweep, and the   *)
(* handlers that write a record per usage and then look for gaps in the    *)
(* sequence numbers of their session.                                      *)
(*                                                                         *)
(* CdrWriter's mutex makes a write, a flush and a query one step each; the *)
(* sweep holds it from its SELECT to its DELETE, which other instances do  *)
(* not see.  The contents of a record are its key and its rating group.    *)
(* There is no clock: flush_interval_ may have passed whenever the code    *)
(* looks, and a row passes the retention limit at any time.                *)
(***************************************************************************)
EXTENDS Integers, FiniteSets, Sequences, SequencesExt

CONSTANTS
    Instance,  \* CHF processes
    Ref,       \* charging sessions (ChargingDataRef)
    Group,     \* rating groups
    None,      \* the rating group of a Release record
    Usages,    \* the usages of a request: sequences of rating groups
    Modes,     \* configurations: [batch, direct, bus]
    FaultKind, \* the faults that may happen
    MaxSeq,    \* bound of the model: requests of a session, numbered from 0
    MaxRare    \* bound of the model: faults, orderly shutdowns and sweeps

Row == [ref : Ref, seq : 0 .. MaxSeq, group : Group \union {None}, by : Instance]

ASSUME RecordsAssumption ==
    /\ None \notin Group
    /\ Usages \subseteq Seq(Group)
    /\ Modes \subseteq [batch : Nat \ {0}, direct : BOOLEAN, bus : BOOLEAN]
    /\ \A m \in Modes : m.direct \/ m.bus \* the constructor forces direct otherwise
    /\ FaultKind \subseteq {"insert", "delivery", "disconnect", "crash"}
    /\ MaxSeq \in Nat /\ MaxRare \in Nat

VARIABLES
    mode,    \* the configuration, fixed at start
    table,   \* rows of cdr
    aged,    \* the rows of cdr whose recorded_at is older than the window
    archive, \* rows in archive files
    topic,   \* events acknowledged by the broker and not yet loaded
    phase,   \* per instance: "serving", "stopping", "flushed" or "down"
    linked,  \* per instance: its MYSQL connection works
    pending, \* per instance: pending_
    outq,    \* per instance: events handed to librdkafka
    sweep,   \* per instance: the rows archived by the sweep in progress
    request, \* per session: the request in progress
    next,    \* per session: its next invocationSequenceNumber
    written, \* history: rows handed to write()
    lost,    \* history: rows that a fault took from a sink
    overwritten, \* history: rows that another row of their key replaced
    unarchived,  \* history: rows deleted by a sweep that no archive has
    rare     \* faults, shutdowns and sweeps so far

dorisVars == <<table, aged, overwritten, unarchived>>
processVars == <<phase, linked>>
sessionVars == <<request, next>>
historyVars == <<written, lost>>
recordVars == <<mode, dorisVars, archive, topic, processVars, pending, outq, sweep,
                sessionVars, historyVars, rare>>

NoSweep == {}
NoRequest == [at |-> None, rows |-> <<>>]

RecordsInit ==
    /\ mode \in Modes
    /\ table = {} /\ aged = {} /\ archive = {} /\ topic = <<>>
    /\ phase = [i \in Instance |-> "serving"]
    /\ linked = [i \in Instance |-> TRUE]
    /\ pending = [i \in Instance |-> <<>>]
    /\ outq = [i \in Instance |-> <<>>]
    /\ sweep = [i \in Instance |-> NoSweep]
    /\ request = [c \in Ref |-> NoRequest]
    /\ next = [c \in Ref |-> 0]
    /\ written = {} /\ lost = {} /\ overwritten = {} /\ unarchived = {}
    /\ rare = 0

\* UNIQUE KEY of the table; the rating group is not part of it.
Key(r) == <<r.ref, r.seq>>

MutexFree(i) == sweep[i] = NoSweep

Rare == rare < MaxRare /\ rare' = rare + 1

Fault(kind) == kind \in FaultKind /\ Rare

NoFault == UNCHANGED rare

-----------------------------------------------------------------------------
(* Statements that reach Doris. *)

\* Merge-on-write: a row replaces the stored row with its key.
Upsert(rows) ==
    LET replaced == {Key(rows[k]) : k \in DOMAIN rows}
        kept == {rows[k] : k \in {n \in DOMAIN rows :
                    \A m \in DOMAIN rows : m > n => Key(rows[m]) # Key(rows[n])}}
    IN  /\ table' = {r \in table : Key(r) \notin replaced} \union kept
        /\ aged' = {r \in aged : Key(r) \notin replaced}
        /\ overwritten' = overwritten \union ((table \union ToSet(rows)) \ table')
        /\ UNCHANGED unarchived

Lose(sink, rows) == lost' = lost \union {<<sink, r>> : r \in ToSet(rows)}

\* One INSERT over the connection of i.  A failure is logged and the rows are gone.
Execute(i, rows) ==
    \/ linked[i] /\ Upsert(rows) /\ NoFault /\ UNCHANGED lost
    \/ linked[i] /\ Fault("insert") /\ Lose("doris", rows) /\ UNCHANGED dorisVars
    \/ ~linked[i] /\ NoFault /\ Lose("doris", rows) /\ UNCHANGED dorisVars

\* Mutant of FlushLocked: the oldest row waits for the next batch.
FlushButFirst(i, rows) ==
    LET kept == IF Len(rows) < 2 THEN 0 ELSE 1 IN
    /\ pending' = [pending EXCEPT ![i] = SubSeq(rows, 1, kept)]
    /\ IF rows = <<>> THEN NoFault /\ UNCHANGED <<dorisVars, lost>>
       ELSE Execute(i, SubSeq(rows, kept + 1, Len(rows)))

\* flush_locked, rows being the whole buffer.
FlushLocked(i, rows) ==
    /\ pending' = [pending EXCEPT ![i] = <<>>]
    /\ IF rows = <<>> THEN NoFault /\ UNCHANGED <<dorisVars, lost>> ELSE Execute(i, rows)

-----------------------------------------------------------------------------
(* The handlers: a record per usage, then the gaps of the session. *)

\* One row per multipleUnitUsage of a Create or an Update, in the order of the
\* request; none when it has none.
Begin(c, i, groups) ==
    /\ request[c] = NoRequest
    /\ next[c] < MaxSeq
    /\ phase[i] # "down"
    /\ request' = [request EXCEPT ![c] =
          [at |-> i, rows |-> [k \in DOMAIN groups |->
              [ref |-> c, seq |-> next[c], group |-> groups[k], by |-> i]]]]
    /\ next' = [next EXCEPT ![c] = @ + 1]
    /\ UNCHANGED <<mode, dorisVars, archive, topic, processVars, pending, outq, sweep,
                   historyVars, rare>>

\* Release writes one record, whatever the usages.
BeginRelease(c, i) ==
    /\ request[c] = NoRequest
    /\ next[c] \in 1 .. MaxSeq
    /\ phase[i] # "down"
    /\ request' = [request EXCEPT ![c] =
          [at |-> i, rows |-> <<[ref |-> c, seq |-> next[c], group |-> None, by |-> i]>>]]
    /\ next' = [next EXCEPT ![c] = MaxSeq + 1]
    /\ UNCHANGED <<mode, dorisVars, archive, topic, processVars, pending, outq, sweep,
                   historyVars, rare>>

\* Mutant of Full: one row too late.
FullLate(rows) == Len(rows) > mode.batch

Full(rows) == Len(rows) >= mode.batch

\* CdrWriter::write of one record: the event first, then the row or the buffer.
Write(c) ==
    LET i == request[c].at
        row == Head(request[c].rows)
        rows == Append(pending[i], row)
    IN  /\ request[c].rows # <<>>
        /\ mode.direct => MutexFree(i)
        /\ request' = [request EXCEPT ![c].rows = Tail(@)]
        /\ written' = written \union {row}
        /\ outq' = IF mode.bus THEN [outq EXCEPT ![i] = Append(@, row)] ELSE outq
        /\ \/ /\ ~mode.direct
              /\ NoFault /\ UNCHANGED <<dorisVars, pending, lost>>
           \/ /\ mode.direct /\ mode.batch = 1
              /\ Execute(i, <<row>>) /\ UNCHANGED pending
           \/ /\ mode.direct /\ mode.batch > 1 \* the batch is complete, or flush_interval_ has passed
              /\ FlushLocked(i, rows)
           \/ /\ mode.direct /\ mode.batch > 1 /\ ~Full(rows)
              /\ pending' = [pending EXCEPT ![i] = rows]
              /\ NoFault /\ UNCHANGED <<dorisVars, lost>>
        /\ UNCHANGED <<mode, archive, topic, processVars, sweep, next>>

\* The numbers detect_gaps reports: those missing between the least and the
\* greatest in the table.
Gaps(c) ==
    LET seen == {r.seq : r \in {x \in table : x.ref = c}}
    IN  {s \in 0 .. MaxSeq \ seen : \E a, b \in seen : a < s /\ s < b}

Detecting(c) ==
    request[c] # NoRequest /\ request[c].rows = <<>> /\ MutexFree(request[c].at)

\* The query at the end of an Update and of a Release, and the answer.
Detect(c) ==
    /\ Detecting(c)
    /\ request' = [request EXCEPT ![c] = NoRequest]
    /\ UNCHANGED <<mode, dorisVars, archive, topic, processVars, pending, outq, sweep,
                   next, historyVars, rare>>

-----------------------------------------------------------------------------
(* The flusher thread, which runs in batching mode only and wakes every flush_interval_. *)

Batching == mode.direct /\ mode.batch > 1

\* Mutant of Flusher: only a full batch is flushed.
FlusherWhenFull(i) ==
    /\ Batching /\ phase[i] # "down" /\ MutexFree(i)
    /\ Len(pending[i]) >= mode.batch
    /\ FlushLocked(i, pending[i])
    /\ UNCHANGED <<mode, archive, topic, processVars, outq, sweep, sessionVars, written>>

Flusher(i) ==
    /\ Batching /\ phase[i] # "down" /\ MutexFree(i)
    /\ pending[i] # <<>>
    /\ FlushLocked(i, pending[i])
    /\ UNCHANGED <<mode, archive, topic, processVars, outq, sweep, sessionVars, written>>

-----------------------------------------------------------------------------
(* The event bus and the routine load of Doris. *)

\* The broker acknowledges the oldest event, or its delivery fails for good.
Deliver(i) ==
    /\ phase[i] # "down" /\ outq[i] # <<>>
    /\ outq' = [outq EXCEPT ![i] = Tail(@)]
    /\ \/ topic' = Append(topic, Head(outq[i])) /\ NoFault /\ UNCHANGED lost
       \/ Fault("delivery") /\ Lose("bus", <<Head(outq[i])>>) /\ UNCHANGED topic
    /\ UNCHANGED <<mode, dorisVars, archive, processVars, pending, sweep, sessionVars,
                   written>>

Load ==
    /\ topic # <<>>
    /\ topic' = Tail(topic)
    /\ Upsert(<<Head(topic)>>)
    /\ UNCHANGED <<mode, archive, processVars, pending, outq, sweep, sessionVars,
                   historyVars, rare>>

-----------------------------------------------------------------------------
(* apply_retention, once an hour in each instance. *)

\* NOW() moves on: a row passes the limit.
RowAges(r) ==
    /\ r \in table \ aged
    /\ rare < MaxRare
    /\ aged' = aged \union {r}
    /\ UNCHANGED <<mode, table, overwritten, unarchived, archive, topic, processVars, pending,
                   outq, sweep, sessionVars, historyVars, rare>>

\* SELECT, the archive file written and flushed; the mutex stays taken.
Archive(i) ==
    /\ phase[i] # "down" /\ linked[i] /\ MutexFree(i)
    /\ aged # {} \* otherwise nothing to do
    /\ Rare
    /\ sweep' = [sweep EXCEPT ![i] = aged]
    /\ archive' = archive \union aged
    /\ UNCHANGED <<mode, dorisVars, topic, processVars, pending, outq, sessionVars,
                   historyVars>>

\* DELETE with the predicate of the SELECT, evaluated now; when it fails the rows stay.
DeleteAged(i) ==
    /\ sweep[i] # NoSweep
    /\ sweep' = [sweep EXCEPT ![i] = NoSweep]
    /\ \/ /\ linked[i] /\ NoFault
          /\ table' = table \ aged /\ aged' = {}
          /\ unarchived' = unarchived \union (aged \ archive) /\ UNCHANGED overwritten
       \/ linked[i] /\ Fault("insert") /\ UNCHANGED dorisVars
       \/ ~linked[i] /\ NoFault /\ UNCHANGED dorisVars
    /\ UNCHANGED <<mode, archive, topic, processVars, pending, outq, sessionVars,
                   historyVars>>

-----------------------------------------------------------------------------
(* Faults and the life of an instance. *)

\* The connection drops; nothing opens it again.
Disconnect(i) ==
    /\ mode.direct /\ phase[i] # "down" /\ linked[i]
    /\ Fault("disconnect")
    /\ linked' = [linked EXCEPT ![i] = FALSE]
    /\ UNCHANGED <<mode, dorisVars, archive, topic, phase, pending, outq, sweep,
                   sessionVars, historyVars>>

\* What dies with a process: its threads, its buffer and its queue.
Vanish(i) ==
    /\ phase' = [phase EXCEPT ![i] = "down"]
    /\ pending' = [pending EXCEPT ![i] = <<>>]
    /\ outq' = [outq EXCEPT ![i] = <<>>]
    /\ sweep' = [sweep EXCEPT ![i] = NoSweep]
    /\ request' = [c \in Ref |-> IF request[c].at = i THEN NoRequest ELSE request[c]]

Crash(i) ==
    /\ phase[i] # "down"
    /\ Fault("crash")
    /\ Vanish(i)
    /\ lost' = lost \union {<<"doris", r>> : r \in ToSet(pending[i])}
                    \union {<<"bus", r>> : r \in ToSet(outq[i])}
    /\ UNCHANGED <<mode, dorisVars, archive, topic, linked, next, written>>

\* SIGTERM: run_multi_threaded returns.
Stop(i) ==
    /\ phase[i] = "serving"
    /\ Rare
    /\ phase' = [phase EXCEPT ![i] = "stopping"]
    /\ UNCHANGED <<mode, dorisVars, archive, topic, linked, pending, outq, sweep,
                   sessionVars, historyVars>>

\* main flushes; the Diameter and CAP threads go on until the destructors.
FlushOnExit(i) ==
    /\ phase[i] = "stopping" /\ MutexFree(i)
    /\ phase' = [phase EXCEPT ![i] = "flushed"]
    /\ FlushLocked(i, pending[i])
    /\ UNCHANGED <<mode, archive, topic, linked, outq, sweep, sessionVars, written>>

\* Mutant of Close: the destructor closes the connection without flushing.
CloseUnflushed(i) ==
    /\ phase[i] = "flushed" /\ MutexFree(i) /\ outq[i] = <<>>
    /\ Vanish(i)
    /\ NoFault
    /\ UNCHANGED <<mode, dorisVars, archive, topic, linked, next, historyVars>>

\* ~CdrWriter: the bus is flushed, or times out, then the buffer.
Close(i) ==
    /\ phase[i] = "flushed" /\ MutexFree(i)
    /\ Vanish(i)
    /\ \/ /\ outq[i] = <<>>
          /\ IF pending[i] = <<>> THEN NoFault /\ UNCHANGED <<dorisVars, lost>>
             ELSE Execute(i, pending[i])
       \/ /\ outq[i] # <<>> /\ Fault("delivery")
          /\ LET left == {<<"bus", r>> : r \in ToSet(outq[i])} IN
             IF pending[i] = <<>> \/ linked[i]
             THEN Upsert(pending[i]) /\ lost' = lost \union left
             ELSE /\ lost' = lost \union left \union {<<"doris", r>> : r \in ToSet(pending[i])}
                  /\ UNCHANGED dorisVars
    /\ UNCHANGED <<mode, archive, topic, linked, next, written>>

Restart(i) ==
    /\ phase[i] = "down"
    /\ phase' = [phase EXCEPT ![i] = "serving"]
    /\ linked' = [linked EXCEPT ![i] = TRUE]
    /\ UNCHANGED <<mode, dorisVars, archive, topic, pending, outq, sweep, sessionVars,
                   historyVars, rare>>

-----------------------------------------------------------------------------
SessionStep(c) ==
    \/ \E i \in Instance, groups \in Usages : Begin(c, i, groups)
    \/ \E i \in Instance : BeginRelease(c, i)
    \/ Write(c) \/ Detect(c)

InstanceStep(i) ==
    \/ Flusher(i) \/ Deliver(i)
    \/ Archive(i) \/ DeleteAged(i)
    \/ Disconnect(i) \/ Crash(i) \/ Stop(i) \/ FlushOnExit(i) \/ Close(i) \/ Restart(i)

RecordsNext ==
    \/ \E c \in Ref : SessionStep(c)
    \/ \E i \in Instance : InstanceStep(i)
    \/ \E r \in table : RowAges(r)
    \/ Load

\* The threads of an instance: the flusher wakes and finds the interval passed, a
\* sweep ends.
RecordsFairness ==
    \A i \in Instance :
        WF_recordVars(Flusher(i)) /\ WF_recordVars(DeleteAged(i))

RecordsSpec == RecordsInit /\ [][RecordsNext]_recordVars /\ RecordsFairness

-----------------------------------------------------------------------------
RecordsTypeOK ==
    /\ mode \in Modes
    /\ table \subseteq Row /\ aged \subseteq table /\ archive \subseteq Row
    /\ \A r, s \in table : Key(r) = Key(s) => r = s
    /\ ToSet(topic) \subseteq Row
    /\ phase \in [Instance -> {"serving", "stopping", "flushed", "down"}]
    /\ linked \in [Instance -> BOOLEAN]
    /\ \A i \in Instance : /\ ToSet(pending[i]) \subseteq Row /\ ToSet(outq[i]) \subseteq Row
                           /\ sweep[i] \subseteq Row
                           \* what a crash can take is bounded by the batch
                           /\ Len(pending[i]) < mode.batch
    /\ \A c \in Ref : request[c].at \in Instance \union {None} /\ ToSet(request[c].rows) \subseteq Row
    /\ next \in [Ref -> 0 .. MaxSeq + 1]
    /\ written \subseteq Row /\ lost \subseteq {"doris", "bus"} \X written
    /\ rare \in 0 .. MaxRare

Buffered(r) == \E i \in Instance : r \in ToSet(pending[i])
Queued(r) == r \in ToSet(topic) \/ \E i \in Instance : r \in ToSet(outq[i])
Stored(r) == r \in table \union archive

\* What the table does to a record it had: another record of its request, written for
\* another usage, replaces it, or a sweep deletes it that came too late to archive it.
Displaced(r) ==
    \/ r \in overwritten /\ \E q \in written \ {r} : Key(q) = Key(r)
    \/ r \in unarchived

\* A record that was written is itself in a buffer, in the table or in an archive, in
\* each of the sinks that are configured, through flushes, sweeps, shutdowns and
\* restarts, and goes for one of three reasons only: a failed INSERT, a failed delivery
\* or the death of the process took it; the record of another usage of its request
\* replaced it, the rating group being no part of the UNIQUE KEY; or it passed the
\* retention limit between the SELECT and the DELETE of a sweep (cdr.cpp, write,
\* flush_locked, apply_retention, ~CdrWriter; schema.doris.sql).
NothingVanishes ==
    \A r \in written :
        /\ mode.direct => Stored(r) \/ Displaced(r) \/ Buffered(r) \/ <<"doris", r>> \in lost
        /\ mode.bus => Stored(r) \/ Displaced(r) \/ Queued(r) \/ <<"bus", r>> \in lost

Records(c, s) == {r \in written : r.ref = c /\ r.seq = s}

\* "a hole means a charging record for this session never reached the CDR store"
\* (main.cpp, Release).  What the code guarantees is less: the request of a
\* missing number carried no usage, or its record was lost, or a sweep took it, or
\* is still on its way from one of several instances that served the session.
GapsExplained ==
    \A c \in Ref : Detecting(c) =>
        \A s \in Gaps(c) :
            \/ Records(c, s) = {}
            \/ \E r \in Records(c, s) :
                  \/ \E sink \in {"doris", "bus"} : <<sink, r>> \in lost
                  \/ r \in archive \union unarchived
                  \/ /\ Buffered(r) \/ Queued(r)
                     /\ \E q \in written : q.ref = c /\ q.by # r.by

\* A sweep deletes what it archived and nothing else: "deletes ONLY the rows it
\* successfully archived" (cdr.hpp).
DeletesOnlyArchived ==
    [][\A i \in Instance : DeleteAged(i) => table \ table' \subseteq sweep[i]]_recordVars

\* A buffered record does not wait for traffic: the flusher thread writes it out
\* on an idle CHF too (cdr.cpp, the flusher thread).
BuffersDrain == \A i \in Instance : pending[i] # <<>> ~> pending[i] = <<>>
=============================================================================
