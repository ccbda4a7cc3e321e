----------------------------- MODULE UdsfStore -----------------------------
(***************************************************************************)
(* The write path of one UDSF record: Store::modify_record of              *)
(* src/nfs/udsf/src/store.cpp as the handlers of dr_routes.cpp and the     *)
(* sweeper of worker.cpp run it, concurrently and on any number of         *)
(* replicas, against one Valkey shard.  A Valkey command is one step and   *)
(* MULTI ... EXEC is one step; everything in between can be overtaken.     *)
(*                                                                         *)
(* The record is three keys: the hash rec:<id> (meta and validator), the   *)
(* blocks blkm:/blkd:<id>, and its entries in the tag index.  Only the     *)
(* first is watched.  blkm and blkd always change together and a write     *)
(* copies no block it did not change, so one variable stands for both.     *)
(***************************************************************************)
EXTENDS RecordRequests, FiniteSets

CONSTANTS
  Handlers,      \* request threads and sweepers of all replicas
  Subs,          \* subscription identifiers
  MaxAttempts,   \* kMaxAttempts (32 in the code)
  MaxRequests,   \* bound: record requests begun
  MaxChanges     \* bound: changes of the subscriptions

ASSUME UdsfAssumption == MaxAttempts \in Nat \ {0}

VARIABLES
  rec,       \* hash rec:<id>: validator and tag; etag 0 when there is no key
  blk,       \* hash blkm:<id>: the version of each block, 0 when absent
  index,     \* the rtag:<tag> sets that list the record
  pushed,    \* the notifications that the latest commit pushed on notifq
  subs,      \* sub:<id>: the operations a subscription asks for, {} when absent
  commits,   \* history: transactions that took effect
  job,       \* what each handler is doing
  dirty,     \* the handlers whose watched key was written since WATCH
  begun,     \* history: record requests begun
  changes,   \* history: changes of the subscriptions
  held,      \* history: the condition that the latest commit was made under
  change,    \* history: what it did to the record
  owed       \* history: the notifications of it that could be counted on

storeVars == <<rec, blk, index, pushed, commits>>
subVars == <<subs, changes>>
historyVars == <<held, change, owed>>
udsfVars == <<rec, blk, index, pushed, subs, commits, job, dirty, begun, changes, held, change, owed>>

----------------------------------------------------------------------------
Kinds == {"CREATED", "UPDATED", "DELETED"}
\* A subscription without a filter, and one with monitoredResourceUris, which never
\* hears of a creation.
Monitored == Kinds \ {"CREATED"}
Filters == {Kinds, Monitored}

\* The steps of one attempt; the record key is watched in all but "watch".
Watched == {"read", "readBlocks", "decide", "exec"}
Steps == {"idle", "watch", "contended"} \cup Watched

NoRequest == [op |-> "None"]

Jobs == [step: Steps,
         request: RequestsAfter(commits) \cup {NoRequest},
         attempt: 0..MaxAttempts,
         before: Records,            \* what this attempt has read
         notes: SUBSET (Subs \X Kinds),
         stood: SUBSET Subs,         \* history: unchanged since WATCH
         seen: Nat]                  \* history: commits when the request began

\* An attempt that has read nothing yet.
Attempt(step, r, n, stood, seen) ==
  [step |-> step, request |-> r, attempt |-> n, before |-> NoRecord,
   notes |-> {}, stood |-> stood, seen |-> seen]
Idle == Attempt("idle", NoRequest, 0, {}, 0)

\* The record that the keys hold at this moment.
Stored == [etag |-> rec.etag, tag |-> rec.tag, blocks |-> blk]

UdsfInit ==
  /\ rec = [etag |-> 0, tag |-> NoTag]
  /\ blk = NoBlocks
  /\ index = {}
  /\ pushed = {}
  /\ subs = [s \in Subs |-> Kinds]     \* the store outlives the replicas
  /\ commits = 0
  /\ job = [h \in Handlers |-> Idle]
  /\ dirty = {}
  /\ begun = 0
  /\ changes = 0
  /\ held = NoCondition
  /\ change = "CREATED"
  /\ owed = {}

----------------------------------------------------------------------------
(***************************************************************************)
(* A write request.                                                        *)
(***************************************************************************)
Live == {s \in Subs : subs[s] # {}}

\* The handler parsed the request and sends its first WATCH.
Begin(h, r) ==
  /\ job[h].step = "idle"
  /\ begun < MaxRequests
  /\ begun' = begun + 1
  /\ job' = [job EXCEPT ![h] = Attempt("read", r, 0, Live, commits)]
  /\ UNCHANGED <<storeVars, dirty, subVars, historyVars>>

\* WATCH rec:<id>, at the start of each further attempt.
Watch(h) ==
  /\ job[h].step = "watch"
  /\ job' = [job EXCEPT ![h].step = "read", ![h].stood = Live]
  /\ dirty' = dirty \ {h}
  /\ UNCHANGED <<storeVars, subVars, begun, historyVars>>

\* load_record, first HGETALL: without a record the blocks are not read.
ReadRecord(h) ==
  /\ job[h].step = "read"
  /\ job' = [job EXCEPT
       ![h].step = IF rec.etag = 0 THEN "decide" ELSE "readBlocks",
       ![h].before = [etag |-> rec.etag, tag |-> rec.tag, blocks |-> NoBlocks]]
  /\ UNCHANGED <<storeVars, dirty, subVars, begun, historyVars>>

\* load_record, the blocks: another write may have come in between.
ReadBlocks(h) ==
  /\ job[h].step = "readBlocks"
  /\ job' = [job EXCEPT ![h].step = "decide", ![h].before.blocks = blk]
  /\ UNCHANGED <<storeVars, dirty, subVars, begun, historyVars>>

ToldOfKept(kind) ==   \* mutant: no subscription hears of a creation
  {s \in Live : kind \in subs[s] /\ kind # "CREATED"}

\* data_change_notifications: the subscriptions to be told, read at this moment.
Told(kind) == {s \in Live : kind \in subs[s]}

\* The handler's verdict, and the notifications that go into the transaction.
Decide(h) ==
  LET kind == ChangeKind(job[h].request, job[h].before)
  IN /\ job[h].step = "decide"
     /\ job' = [job EXCEPT
          ![h] = IF Verdict(@.request, @.before) = "Abort"
                   THEN Idle                       \* UNWATCH, 404, 412 or 422
                   ELSE [@ EXCEPT !.step = "exec", !.notes = Told(kind) \X {kind}]]
     /\ dirty' = IF job'[h] = Idle THEN dirty \ {h} ELSE dirty
     /\ UNCHANGED <<storeVars, subVars, begun, historyVars>>

DiscardWatched(h) ==   \* mutant: no UNWATCH, the connection goes back to the pool as it is
  /\ job[h].step = "decide"
  /\ job[h].request.op = "PatchMeta"
  /\ job' = [job EXCEPT ![h] = Idle]
  /\ UNCHANGED <<storeVars, dirty, subVars, begun, historyVars>>

\* PATCH of the meta of which every item was discarded: nothing is written.
Discard(h) ==
  /\ job[h].step = "decide"
  /\ job[h].request.op = "PatchMeta"
  /\ job' = [job EXCEPT ![h] = Idle]
  /\ dirty' = dirty \ {h}
  /\ UNCHANGED <<storeVars, subVars, begun, historyVars>>

\* What EXEC leaves of one block: HDEL what the record lost, HSET what is new.
BlockWritten(before, after, b) ==
  IF after.blocks[b] = 0
    THEN IF after.etag = 0 \/ before.blocks[b] # 0 THEN 0 ELSE blk[b]
    ELSE IF after.blocks[b] = before.blocks[b] THEN blk[b] ELSE after.blocks[b]

IndexGrown(before, after) == index \cup ({after.tag} \ {NoTag})   \* mutant: no SREM

\* queue_index: the tag it read is taken out, the tag it writes is put in.
IndexWritten(before, after) == (index \ {before.tag}) \cup ({after.tag} \ {NoTag})

ExecAlways(h) == TRUE   \* mutant: no WATCH

\* EXEC answers nil (WatchError) once the watched key was touched.
ExecSucceeds(h) == h \notin dirty

\* EXEC finds the watched key untouched: the whole transaction takes effect.
Commit(h) ==
  LET request == job[h].request
      before == job[h].before
      version == commits + 1
      after == After(request, before, version)
      kind == ChangeKind(request, before)
  IN /\ job[h].step = "exec"
     /\ ExecSucceeds(h)
     /\ rec' = [etag |-> after.etag, tag |-> after.tag]
     /\ blk' = [b \in Blocks |-> BlockWritten(before, after, b)]
     /\ index' = IndexWritten(before, after)
     /\ pushed' = job[h].notes
     /\ commits' = version
     /\ job' = [job EXCEPT ![h] = Idle]
     /\ dirty' = (dirty \cup {g \in Handlers : job[g].step \in Watched}) \ {h}
     /\ held' = request.cond
     /\ change' = kind
     /\ owed' = {s \in job[h].stood : kind \in subs[s]} \X {kind}
     /\ UNCHANGED <<subVars, begun>>

\* The race is lost: try again, or give up with a 500.
LoseRace(h) ==
  /\ job[h].step = "exec"
  /\ ~ExecSucceeds(h)
  /\ job' = [job EXCEPT
       ![h] = Attempt(IF @.attempt + 1 < MaxAttempts THEN "watch" ELSE "contended",
                      @.request, @.attempt + 1, {}, @.seen)]
  /\ UNCHANGED <<storeVars, dirty, subVars, begun, historyVars>>

\* The "contention" exception ends the request.
GiveUp(h) ==
  /\ job[h].step = "contended"
  /\ job' = [job EXCEPT ![h] = Idle]
  /\ dirty' = dirty \ {h}
  /\ UNCHANGED <<storeVars, subVars, begun, historyVars>>

\* The replica dies; its connection, and with it the WATCH, is gone.
Die(h) ==
  /\ job[h].step # "idle"
  /\ job' = [job EXCEPT ![h] = Idle]
  /\ dirty' = dirty \ {h}
  /\ UNCHANGED <<storeVars, subVars, begun, historyVars>>

----------------------------------------------------------------------------
(***************************************************************************)
(* The subscriptions, each one transaction on its own hash (modify_doc):   *)
(* PUT, PATCH, and DELETE or expiry.  No record write watches them.        *)
(***************************************************************************)
ChangeSub(s, filter) ==
  /\ changes < MaxChanges
  /\ changes' = changes + 1
  /\ subs' = [subs EXCEPT ![s] = filter]
  /\ job' = [h \in Handlers |-> [job[h] EXCEPT !.stood = @ \ {s}]]
  /\ UNCHANGED <<storeVars, dirty, begun, historyVars>>

\* A record to be monitored exists when the PUT asks for it, which is some time
\* before it writes the subscription; PATCH does not ask.
PutSub(s, filter) ==
  /\ filter = Monitored => commits > 0
  /\ ChangeSub(s, filter)

PatchSub(s, filter) == subs[s] # {} /\ ChangeSub(s, filter)

DeleteSub(s) == subs[s] # {} /\ ChangeSub(s, {})

----------------------------------------------------------------------------
HandlerStep(h) ==
  \/ Watch(h) \/ ReadRecord(h) \/ ReadBlocks(h)
  \/ Decide(h) \/ Discard(h) \/ Commit(h) \/ LoseRace(h) \/ GiveUp(h)
  \/ Die(h)

SubStep(s) ==
  \/ \E filter \in Filters : PutSub(s, filter) \/ PatchSub(s, filter)
  \/ DeleteSub(s)

UdsfNext ==
  \/ \E h \in Handlers : HandlerStep(h) \/ (\E r \in RequestsAfter(commits) : Begin(h, r))
  \/ \E s \in Subs : SubStep(s)

UdsfSpec == UdsfInit /\ [][UdsfNext]_udsfVars

----------------------------------------------------------------------------
\* Every key, job and history variable has its type; a record's keys exist together.
StoreTypeOK ==
  /\ rec \in [etag: Nat, tag: Tags \cup {NoTag}]
  /\ rec.etag = 0 <=> rec.tag = NoTag
  /\ blk \in [Blocks -> Nat]
  /\ rec.etag = 0 => blk = NoBlocks
  /\ index \subseteq Tags
  /\ pushed \subseteq Subs \X Kinds
  /\ subs \in [Subs -> SUBSET Kinds]
  /\ commits \in Nat /\ begun \in Nat /\ changes \in Nat
  /\ job \in [Handlers -> Jobs]
  /\ dirty \subseteq Handlers
  /\ held \in Nat \cup {IfAbsent}
  /\ change \in Kinds
  /\ owed \subseteq Subs \X Kinds

(***************************************************************************)
(* The promise of store.hpp ("every write is an optimistic transaction --  *)
(* WATCH the resource's own hash, read, decide, MULTI ... EXEC, retry on a *)
(* lost race"): whatever the interleaving of the reads, the record changes *)
(* only as if each request ran at once on the current record, under its    *)
(* condition -- although the blocks are read apart and are not watched.    *)
(***************************************************************************)
Atomic == INSTANCE AtomicRecord WITH record <- Stored
ImplementsAtomic == Atomic!Spec

(***************************************************************************)
(* The tag index, which each transaction updates from the tags it read     *)
(* before (queue_index in modify_record), lists the stored record under    *)
(* its tag and under no other: a search and a bulk deletion find it.       *)
(***************************************************************************)
IndexMatches == index = {rec.tag} \ {NoTag}

(***************************************************************************)
(* A subscription that stood unchanged while the committing attempt ran    *)
(* and asks for that change is notified of it, although subscriptions are  *)
(* not watched; and no notification tells a change that did not happen     *)
(* (notifications are computed before EXEC, again on each attempt).        *)
(***************************************************************************)
NotifiesStanding ==
  /\ owed \subseteq pushed
  /\ \A note \in pushed : note[2] = change

(***************************************************************************)
(* A request is refused for contention ("kept changing under a write",     *)
(* modify_record) only after as many writes of others took effect since it *)
(* began as it may make attempts: someone always gets through.             *)
(***************************************************************************)
ContentionIsReal ==
  \A h \in Handlers : job[h].seen + job[h].attempt <= commits
=============================================================================
