-------------------------- MODULE UdsfStoreProofs --------------------------
(***************************************************************************)
(* Proofs about UdsfStore for any number of handlers, tags, blocks,        *)
(* subscriptions and attempts: the types, the tag index, and that the      *)
(* optimistic transaction implements AtomicRecord.                         *)
(*                                                                         *)
(* The argument: while the watched key is untouched (the handler is not in dirty), what *)
(* an attempt has read so far is what the keys hold now, although the      *)
(* blocks are another key and are read later: every transaction writes or  *)
(* deletes the record's hash, so a change of the blocks shows on it.       *)
(***************************************************************************)
EXTENDS UdsfStore, TLAPS

\* The attempt has seen what is stored.
ReadsCurrent(h) ==
  h \notin dirty =>
    /\ job[h].step = "readBlocks" =>
         /\ rec.etag # 0
         /\ job[h].before.etag = rec.etag
         /\ job[h].before.tag = rec.tag
    /\ job[h].step \in {"decide", "exec"} => job[h].before = Stored

\* A request is being served, with an attempt left; at EXEC it has something to do.
ServesRequest(h) ==
  /\ job[h].step # "idle" => job[h].request \in RequestsAfter(commits)
  /\ job[h].step \notin {"idle", "contended"} => job[h].attempt < MaxAttempts
  /\ job[h].step = "exec" => Verdict(job[h].request, job[h].before) # "Abort"

StoreInv ==
  /\ StoreTypeOK
  /\ IndexMatches
  /\ \A h \in Handlers : ReadsCurrent(h) /\ ServesRequest(h)

----------------------------------------------------------------------------
\* The fields of a request.
LEMMA RequestFields ==
  ASSUME NEW n \in Nat, NEW r \in RequestsAfter(n)
  PROVE  /\ r.op \in Operations /\ r.block \in Blocks /\ r.cond \in Int
         /\ r.tag \in Tags \cup {NoTag}
         /\ r.tag = NoTag <=> r.op \notin SetsTag
  BY DEF RequestsAfter, IfAbsent

\* A request that can be made can still be made after a further commit.
LEMMA RequestsGrow ==
  ASSUME NEW n \in Nat
  PROVE  RequestsAfter(n) \subseteq RequestsAfter(n + 1)
  BY DEF RequestsAfter

\* A request is decided one way or another.
LEMMA VerdictIsOne ==
  ASSUME NEW n \in Nat, NEW r \in RequestsAfter(n), NEW before
  PROVE  Verdict(r, before) \in {"Write", "Delete", "Abort"}
  <1>1. r.op \in Operations
    BY RequestFields
  <1> QED
    BY <1>1 DEF Verdict, Operations

\* Whatever a request commits is a record, and only a deletion leaves none.
LEMMA AfterIsRecord ==
  ASSUME NEW n \in Nat, NEW r \in RequestsAfter(n), NEW before \in Records,
         before.etag = 0 <=> before.tag = NoTag,
         NEW version \in Nat \ {0},
         Verdict(r, before) # "Abort"
  PROVE  /\ After(r, before, version) \in Records
         /\ After(r, before, version).etag = 0 <=> After(r, before, version).tag = NoTag
         /\ After(r, before, version).etag = 0 => After(r, before, version).blocks = NoBlocks
  <1>1. /\ r.op \in Operations /\ r.block \in Blocks
        /\ r.tag \in Tags \cup {NoTag}
        /\ r.tag = NoTag <=> r.op \notin SetsTag
    BY RequestFields
  <1>2. CASE Verdict(r, before) = "Delete"
    BY <1>2 DEF After, NoRecord, Records, NoBlocks
  <1>3. CASE Verdict(r, before) # "Delete"
    <2>1. BlocksAfter(r, before, version) \in [Blocks -> Nat]
      BY <1>1 DEF BlocksAfter, Operations, Records, NoBlocks
    <2>2. before.etag # 0 \/ r.op = "PutRecord"
      BY <1>1, VerdictIsOne DEF Verdict, Operations
    <2>3. TagAfter(r, before) \in Tags /\ TagAfter(r, before) # NoTag
      BY <1>1, <2>2, TagsAssumption DEF TagAfter, SetsTag, Records
    <2> QED
      BY <1>3, <2>1, <2>3 DEF After, Records
  <1> QED
    BY <1>2, <1>3

\* What a request does to a record is one of the three kinds of change.
LEMMA KindIsKind ==
  ASSUME NEW r, NEW before
  PROVE  ChangeKind(r, before) \in Kinds
  BY DEF ChangeKind, Kinds

----------------------------------------------------------------------------
\* EXEC on an untouched key leaves what the request makes of the current record.
LEMMA CommitIsAtomic ==
  ASSUME StoreInv, NEW h \in Handlers, Commit(h)
  PROVE  /\ job[h].request \in RequestsAfter(commits)
         /\ Verdict(job[h].request, Stored) # "Abort"
         /\ job[h].before = Stored
         /\ Stored' = After(job[h].request, Stored, commits + 1)
         /\ commits' = commits + 1
  <1> DEFINE r == job[h].request
             after == After(r, Stored, commits + 1)
  <1>1. job[h].before = Stored /\ r \in RequestsAfter(commits)
        /\ Verdict(r, Stored) # "Abort"
    <2>1. h \notin dirty /\ job[h].step = "exec"
      BY DEF Commit, ExecSucceeds
    <2>2. job[h].before = Stored
      BY <2>1 DEF StoreInv, ReadsCurrent
    <2>3. r \in RequestsAfter(commits) /\ Verdict(r, job[h].before) # "Abort"
      BY <2>1 DEF StoreInv, ServesRequest
    <2> QED
      BY <2>2, <2>3
  <1>2. Stored \in Records /\ commits \in Nat /\ (Stored.etag = 0 <=> Stored.tag = NoTag)
    BY DEF StoreInv, StoreTypeOK, Stored, Records
  <1>3. after \in Records /\ (after.etag = 0 => after.blocks = NoBlocks)
    BY <1>1, <1>2, AfterIsRecord
  <1>4. rec' = [etag |-> after.etag, tag |-> after.tag]
        /\ blk' = [b \in Blocks |-> BlockWritten(Stored, after, b)]
        /\ commits' = commits + 1
    BY <1>1 DEF Commit
  <1>5. ASSUME NEW b \in Blocks
        PROVE  BlockWritten(Stored, after, b) = after.blocks[b]
    BY <1>3 DEF BlockWritten, Stored, NoBlocks
  <1>6. blk' = after.blocks
    <2>1. blk' = [b \in Blocks |-> after.blocks[b]]
      BY <1>4, <1>5
    <2>2. after.blocks \in [Blocks -> Nat]
      BY <1>3 DEF Records
    <2> QED
      BY <2>1, <2>2
  <1>7. Stored' = after
    <2>1. Stored' = [etag |-> after.etag, tag |-> after.tag, blocks |-> after.blocks]
      BY <1>4, <1>6 DEF Stored
    <2> QED
      BY <2>1, <1>3 DEF Records
  <1> QED
    BY <1>1, <1>4, <1>7

----------------------------------------------------------------------------
\* Initially nothing is stored and nobody has read anything.
LEMMA StoreInvInit ==
  ASSUME UdsfInit
  PROVE  StoreInv
  <1>1. Idle \in Jobs
    BY UdsfAssumption DEF UdsfInit, Idle, Attempt, Jobs, Steps, Records, NoRecord, NoBlocks
  <1>2. StoreTypeOK
    BY <1>1 DEF UdsfInit, StoreTypeOK, NoBlocks, Kinds, NoCondition
  <1>3. IndexMatches
    BY DEF UdsfInit, IndexMatches
  <1>4. ASSUME NEW h \in Handlers
        PROVE  ReadsCurrent(h) /\ ServesRequest(h)
    BY DEF UdsfInit, ReadsCurrent, ServesRequest, Idle, Attempt
  <1> QED
    BY <1>2, <1>3, <1>4 DEF StoreInv

\* What every step but Commit preserves: it suffices to look at the job it changes.
LEMMA JobStep ==
  ASSUME StoreInv, NEW h \in Handlers, NEW next \in Jobs,
         job' = [job EXCEPT ![h] = next],
         dirty' = dirty \/ dirty' = dirty \ {h},
         UNCHANGED <<storeVars, subVars, historyVars>>,
         begun' \in Nat,
         ReadsCurrent(h)', ServesRequest(h)'
  PROVE  StoreInv'
  <1> USE DEF StoreInv, storeVars, subVars, historyVars
  <1>1. job' \in [Handlers -> Jobs'] /\ dirty' \subseteq Handlers
    <2>1. Jobs' = Jobs
      BY DEF Jobs
    <2> QED
      BY <2>1 DEF StoreTypeOK
  <1>2. StoreTypeOK'
    BY <1>1 DEF StoreTypeOK
  <1>3. IndexMatches'
    BY DEF IndexMatches
  <1>4. ASSUME NEW g \in Handlers \ {h}
        PROVE  ReadsCurrent(g)' /\ ServesRequest(g)'
    <2>1. job'[g] = job[g] /\ (g \in dirty' <=> g \in dirty)
      BY DEF StoreTypeOK
    <2>2. Stored' = Stored
      BY DEF Stored
    <2> QED
      BY <2>1, <2>2 DEF ReadsCurrent, ServesRequest
  <1> QED
    BY <1>2, <1>3, <1>4

\* A handler that goes idle leaves nothing to check.
LEMMA IdleIsInOrder ==
  ASSUME StoreInv, NEW h \in Handlers, job' = [job EXCEPT ![h] = Idle]
  PROVE  Idle \in Jobs /\ ReadsCurrent(h)' /\ ServesRequest(h)'
  <1>1. Idle \in Jobs
    BY UdsfAssumption DEF Idle, Attempt, Jobs, Steps, Records, NoRecord, NoBlocks
  <1>2. job'[h] = Idle
    BY DEF StoreInv, StoreTypeOK
  <1> QED
    BY <1>1, <1>2 DEF ReadsCurrent, ServesRequest, Idle, Attempt

\* A request that begins has read nothing.
LEMMA BeginKeeps ==
  ASSUME StoreInv, NEW h \in Handlers, NEW r \in RequestsAfter(commits), Begin(h, r)
  PROVE  StoreInv'
  <1> DEFINE next == Attempt("read", r, 0, Live, commits)
  <1>1. commits \in Nat /\ begun \in Nat
    BY DEF StoreInv, StoreTypeOK
  <1>2. next \in Jobs
    <2>1. NoRecord \in Records /\ Live \subseteq Subs /\ 0 \in 0..MaxAttempts
      BY UdsfAssumption DEF Records, NoRecord, NoBlocks, Live
    <2> QED
      BY <1>1, <2>1 DEF Attempt, Jobs, Steps, Watched
  <1>3. job' = [job EXCEPT ![h] = next] /\ job'[h] = next
    BY DEF Begin, StoreInv, StoreTypeOK
  <1>4. /\ dirty' = dirty
        /\ UNCHANGED <<storeVars, subVars, historyVars>>
        /\ begun' \in Nat
    BY <1>1 DEF Begin
  <1>5. ReadsCurrent(h)'
    BY <1>3 DEF ReadsCurrent, Attempt
  <1>6. ServesRequest(h)'
    BY <1>3, <1>4, UdsfAssumption DEF ServesRequest, Attempt, storeVars
  <1> QED
    BY <1>2, <1>3, <1>4, <1>5, <1>6, JobStep

\* WATCH makes the handler clean before it has read.
LEMMA WatchKeeps ==
  ASSUME StoreInv, NEW h \in Handlers, Watch(h)
  PROVE  StoreInv'
  <1> DEFINE next == [job[h] EXCEPT !.step = "read", !.stood = Live]
  <1>1. job[h] \in Jobs /\ begun \in Nat
    BY DEF StoreInv, StoreTypeOK
  <1>2. next \in Jobs
    BY <1>1 DEF Jobs, Steps, Watched, Live
  <1>3. job' = [job EXCEPT ![h] = next] /\ job'[h] = next
    BY DEF Watch, StoreInv, StoreTypeOK
  <1>4. ReadsCurrent(h)' /\ ServesRequest(h)'
    BY <1>1, <1>3 DEF ReadsCurrent, ServesRequest, Watch, Jobs, StoreInv, storeVars
  <1> QED
    BY <1>1, <1>2, <1>3, <1>4, JobStep DEF Watch

\* HGETALL of the record reads what is stored now.
LEMMA ReadRecordKeeps ==
  ASSUME StoreInv, NEW h \in Handlers, ReadRecord(h)
  PROVE  StoreInv'
  <1> DEFINE next == [job[h] EXCEPT
                !.step = IF rec.etag = 0 THEN "decide" ELSE "readBlocks",
                !.before = [etag |-> rec.etag, tag |-> rec.tag, blocks |-> NoBlocks]]
  <1>1. job[h] \in Jobs /\ begun \in Nat /\ (rec.etag = 0 => blk = NoBlocks)
    BY DEF StoreInv, StoreTypeOK
  <1>2. [etag |-> rec.etag, tag |-> rec.tag, blocks |-> NoBlocks] \in Records
    BY DEF StoreInv, StoreTypeOK, Records, NoBlocks
  <1>3. next \in Jobs
    BY <1>1, <1>2 DEF Jobs, Steps, Watched
  <1>4. job' = [job EXCEPT ![h] = next] /\ job'[h] = next
    BY DEF ReadRecord, StoreInv, StoreTypeOK
  <1>5. ReadsCurrent(h)'
    <2>1. next.step = (IF rec.etag = 0 THEN "decide" ELSE "readBlocks")
          /\ next.before = [etag |-> rec.etag, tag |-> rec.tag, blocks |-> NoBlocks]
      BY <1>1 DEF Jobs
    <2>2. rec' = rec /\ blk' = blk /\ dirty' = dirty
      BY DEF ReadRecord, storeVars
    <2>3. Stored' = Stored /\ (rec.etag = 0 => next.before = Stored)
      BY <1>1, <2>1, <2>2 DEF Stored
    <2> HIDE DEF next
    <2>4. CASE rec.etag = 0
      BY <1>4, <2>1, <2>3, <2>4 DEF ReadsCurrent
    <2>5. CASE rec.etag # 0
      BY <1>4, <2>1, <2>2, <2>5 DEF ReadsCurrent
    <2> QED
      BY <2>4, <2>5
  <1>6. ServesRequest(h)'
    BY <1>1, <1>4 DEF ServesRequest, ReadRecord, Jobs, StoreInv, storeVars
  <1> QED
    BY <1>1, <1>3, <1>4, <1>5, <1>6, JobStep DEF ReadRecord

\* A handler still clean reads the blocks of the record it has read.
LEMMA ReadBlocksKeeps ==
  ASSUME StoreInv, NEW h \in Handlers, ReadBlocks(h)
  PROVE  StoreInv'
  <1> DEFINE next == [job[h] EXCEPT !.step = "decide", !.before.blocks = blk]
  <1>1. job[h] \in Jobs /\ begun \in Nat /\ job[h].before \in Records
    BY DEF StoreInv, StoreTypeOK, Jobs
  <1>2. [job[h].before EXCEPT !.blocks = blk] \in Records
    BY <1>1 DEF StoreInv, StoreTypeOK, Records
  <1>3. next \in Jobs
    BY <1>1, <1>2 DEF Jobs, Steps, Watched
  <1>4. job' = [job EXCEPT ![h] = next] /\ job'[h] = next
    BY DEF ReadBlocks, StoreInv, StoreTypeOK
  <1>5. next.before = [job[h].before EXCEPT !.blocks = blk] /\ next.step = "decide"
        /\ next.request = job[h].request /\ next.attempt = job[h].attempt
    BY <1>1 DEF Jobs
  <1>6. ReadsCurrent(h)'
    <2> SUFFICES ASSUME h \notin dirty PROVE next.before = Stored
      BY <1>4, <1>5 DEF ReadsCurrent, ReadBlocks, Stored, storeVars
    <2>1. job[h].before.etag = rec.etag /\ job[h].before.tag = rec.tag
      BY DEF StoreInv, ReadsCurrent, ReadBlocks
    <2> QED
      BY <1>1, <1>5, <2>1 DEF Records, Stored
  <1>7. ServesRequest(h)'
    BY <1>4, <1>5 DEF ServesRequest, ReadBlocks, StoreInv, storeVars
  <1> QED
    BY <1>1, <1>3, <1>4, <1>6, <1>7, JobStep DEF ReadBlocks

\* The decision is made on what was read.
LEMMA DecideKeeps ==
  ASSUME StoreInv, NEW h \in Handlers, Decide(h)
  PROVE  StoreInv'
  <1> DEFINE kind == ChangeKind(job[h].request, job[h].before)
             next == [job[h] EXCEPT !.step = "exec", !.notes = Told(kind) \X {kind}]
  <1>1. job[h] \in Jobs /\ begun \in Nat
    BY DEF StoreInv, StoreTypeOK
  <1>2. dirty' = dirty \/ dirty' = dirty \ {h}
    BY DEF Decide
  <1>3. CASE Verdict(job[h].request, job[h].before) = "Abort"
    <2>1. job' = [job EXCEPT ![h] = Idle]
      BY <1>3 DEF Decide
    <2> QED
      BY <1>1, <1>2, <2>1, IdleIsInOrder, JobStep DEF Decide
  <1>4. CASE Verdict(job[h].request, job[h].before) # "Abort"
    <2>1. job' = [job EXCEPT ![h] = next] /\ job'[h] = next
      BY <1>4 DEF Decide, StoreInv, StoreTypeOK
    <2>2. Told(kind) \X {kind} \in SUBSET (Subs \X Kinds)
      BY KindIsKind DEF Told, Live
    <2>3. next \in Jobs
      BY <1>1, <2>2 DEF Jobs, Steps, Watched
    <2>4. next.step = "exec" /\ next.before = job[h].before /\ next.request = job[h].request
          /\ next.attempt = job[h].attempt
      BY <1>1 DEF Jobs
    <2>5. h \notin dirty' => h \notin dirty
      <3>1. job'[h] # Idle
        <4>1. Idle.step = "idle"
          BY DEF Idle, Attempt
        <4> QED
          BY <2>1, <2>4, <4>1
      <3> QED
        BY <3>1 DEF Decide
    <2>6. ReadsCurrent(h)'
      BY <2>1, <2>4, <2>5 DEF ReadsCurrent, Decide, Stored, StoreInv, storeVars
    <2>7. ServesRequest(h)'
      BY <1>4, <2>1, <2>4 DEF ServesRequest, Decide, StoreInv, storeVars
    <2> QED
      BY <1>1, <1>2, <2>1, <2>3, <2>6, <2>7, JobStep DEF Decide
  <1> QED
    BY <1>3, <1>4

\* After a lost race the handler reads again, or has no attempt left.
LEMMA LoseRaceKeeps ==
  ASSUME StoreInv, NEW h \in Handlers, LoseRace(h)
  PROVE  StoreInv'
  <1> DEFINE next == Attempt(IF job[h].attempt + 1 < MaxAttempts THEN "watch" ELSE "contended",
                             job[h].request, job[h].attempt + 1, {}, job[h].seen)
  <1>1. job[h] \in Jobs /\ begun \in Nat
    BY DEF StoreInv, StoreTypeOK
  <1>2. next \in Jobs
    <2>1. job[h].attempt \in 0..MaxAttempts /\ job[h].attempt < MaxAttempts
      BY <1>1 DEF Jobs, StoreInv, ServesRequest, LoseRace
    <2>2. NoRecord \in Records /\ job[h].attempt + 1 \in 0..MaxAttempts
      BY <2>1, UdsfAssumption DEF Records, NoRecord, NoBlocks
    <2> QED
      BY <1>1, <2>2 DEF Attempt, Jobs, Steps
  <1>3. job' = [job EXCEPT ![h] = next] /\ job'[h] = next
    BY DEF LoseRace, StoreInv, StoreTypeOK
  <1>4. ReadsCurrent(h)'
    BY <1>3 DEF ReadsCurrent, Attempt
  <1>5. ServesRequest(h)'
    BY <1>3 DEF ServesRequest, Attempt, LoseRace, StoreInv, storeVars
  <1> QED
    BY <1>1, <1>2, <1>3, <1>4, <1>5, JobStep DEF LoseRace

\* A handler that leaves is idle.
LEMMA LeaveKeeps ==
  ASSUME StoreInv, NEW h \in Handlers, Discard(h) \/ GiveUp(h) \/ Die(h)
  PROVE  StoreInv'
  <1>1. /\ job' = [job EXCEPT ![h] = Idle]
        /\ dirty' = dirty \ {h}
        /\ UNCHANGED <<storeVars, subVars, historyVars>>
        /\ begun' = begun
    BY DEF Discard, GiveUp, Die
  <1>2. begun \in Nat
    BY DEF StoreInv, StoreTypeOK
  <1> QED
    BY <1>1, <1>2, IdleIsInOrder, JobStep

\* A change of a subscription touches neither the record nor what was read of it.
LEMMA ChangeSubKeeps ==
  ASSUME StoreInv, NEW s \in Subs, NEW filter \in SUBSET Kinds, ChangeSub(s, filter)
  PROVE  StoreInv'
  <1>1. /\ job' = [h \in Handlers |-> [job[h] EXCEPT !.stood = @ \ {s}]]
        /\ UNCHANGED <<storeVars, dirty, begun, historyVars>>
        /\ subs' = [subs EXCEPT ![s] = filter]
        /\ changes' = changes + 1
    BY DEF ChangeSub
  <1>2. ASSUME NEW h \in Handlers
        PROVE  /\ job'[h] \in Jobs
               /\ job'[h].step = job[h].step /\ job'[h].before = job[h].before
               /\ job'[h].request = job[h].request /\ job'[h].attempt = job[h].attempt
    <2>1. job[h] \in Jobs /\ job'[h] = [job[h] EXCEPT !.stood = @ \ {s}]
      BY <1>1 DEF StoreInv, StoreTypeOK
    <2> QED
      BY <2>1 DEF Jobs
  <1>3. job' \in [Handlers -> Jobs']
    <2>1. Jobs' = Jobs
      BY <1>1 DEF Jobs, storeVars
    <2> QED
      BY <1>1, <1>2, <2>1
  <1>4. subs' \in [Subs -> SUBSET Kinds] /\ changes' \in Nat
    BY <1>1 DEF StoreInv, StoreTypeOK
  <1>5. StoreTypeOK' /\ IndexMatches'
    BY <1>1, <1>3, <1>4 DEF StoreInv, StoreTypeOK, IndexMatches, storeVars, historyVars
  <1>6. ASSUME NEW h \in Handlers
        PROVE  ReadsCurrent(h)' /\ ServesRequest(h)'
    <2>1. Stored' = Stored /\ rec' = rec /\ dirty' = dirty /\ commits' = commits
      BY <1>1 DEF Stored, storeVars
    <2>2. ReadsCurrent(h) /\ ServesRequest(h)
      BY DEF StoreInv
    <2>3. ReadsCurrent(h)'
      BY <1>2, <2>1, <2>2 DEF ReadsCurrent
    <2>4. ServesRequest(h)'
      BY <1>2, <2>1, <2>2 DEF ServesRequest
    <2> QED
      BY <2>3, <2>4
  <1> QED
    BY <1>5, <1>6 DEF StoreInv

\* A commit that others raced with makes them dirty, so they are held to nothing.
LEMMA CommitKeeps ==
  ASSUME StoreInv, NEW h \in Handlers, Commit(h)
  PROVE  StoreInv'
  <1> DEFINE r == job[h].request
             after == After(r, Stored, commits + 1)
  <1>1. /\ r \in RequestsAfter(commits) /\ Verdict(r, Stored) # "Abort"
        /\ job[h].before = Stored /\ Stored' = after /\ commits' = commits + 1
    BY CommitIsAtomic
  <1>2. commits \in Nat /\ Stored \in Records /\ (Stored.etag = 0 <=> Stored.tag = NoTag)
    BY DEF StoreInv, StoreTypeOK, Stored, Records
  <1>3. /\ after \in Records
        /\ after.etag = 0 <=> after.tag = NoTag
        /\ after.etag = 0 => after.blocks = NoBlocks
    BY <1>1, <1>2, AfterIsRecord
  <1>4. rec' = [etag |-> after.etag, tag |-> after.tag] /\ blk' = after.blocks
    <2>1. rec' = [etag |-> after.etag, tag |-> after.tag]
      BY <1>1 DEF Commit
    <2>2. Stored'.blocks = blk'
      BY DEF Stored
    <2> QED
      BY <1>1, <2>1, <2>2
  <1>5. IndexMatches' /\ index' \subseteq Tags
    <2>1. index' = (index \ {rec.tag}) \cup ({after.tag} \ {NoTag})
      BY <1>1 DEF Commit, IndexWritten, Stored
    <2>2. index = {rec.tag} \ {NoTag}
      BY DEF StoreInv, IndexMatches
    <2>3. rec'.tag = after.tag /\ after.tag \in Tags \cup {NoTag}
      BY <1>3, <1>4 DEF Records
    <2> QED
      BY <2>1, <2>2, <2>3 DEF IndexMatches
  <1>6. job' = [job EXCEPT ![h] = Idle] /\ job' \in [Handlers -> Jobs']
    <2>1. job' = [job EXCEPT ![h] = Idle] /\ job \in [Handlers -> Jobs] /\ Idle \in Jobs
      BY IdleIsInOrder DEF Commit, StoreInv, StoreTypeOK
    <2>2. RequestsAfter(commits) \subseteq RequestsAfter(commits)'
      BY <1>1, <1>2, RequestsGrow
    <2>3. Jobs \subseteq Jobs'
      BY <2>2 DEF Jobs
    <2> QED
      BY <2>1, <2>3
  <1>7. StoreTypeOK'
    <2>1. /\ rec' \in [etag: Nat, tag: Tags \cup {NoTag}]
          /\ rec'.etag = 0 <=> rec'.tag = NoTag
          /\ blk' \in [Blocks -> Nat]
          /\ rec'.etag = 0 => blk' = NoBlocks
      BY <1>3, <1>4 DEF Records
    <2>2. pushed' \subseteq Subs \X Kinds
      BY DEF Commit, StoreInv, StoreTypeOK, Jobs
    <2>3. owed' \subseteq Subs \X Kinds /\ change' \in Kinds
      <3>1. job[h].stood \subseteq Subs
        BY DEF StoreInv, StoreTypeOK, Jobs
      <3> QED
        BY <3>1, KindIsKind DEF Commit
    <2>4. held' \in Nat \cup {IfAbsent}
      <3>1. r.cond \in {IfAbsent} \cup 0..commits
        BY <1>1 DEF RequestsAfter
      <3> QED
        BY <1>2, <3>1 DEF Commit
    <2>5. subs' = subs /\ changes' = changes /\ begun' = begun /\ dirty' \subseteq Handlers
      BY DEF Commit, subVars, StoreInv, StoreTypeOK
    <2> QED
      BY <1>1, <1>2, <1>5, <1>6, <2>1, <2>2, <2>3, <2>4, <2>5 DEF StoreInv, StoreTypeOK
  <1>8. ASSUME NEW g \in Handlers
        PROVE  ReadsCurrent(g)' /\ ServesRequest(g)'
    <2>1. CASE g = h
      <3>1. job'[g] = Idle
        BY <1>6, <2>1 DEF StoreInv, StoreTypeOK
      <3> QED
        BY <3>1 DEF ReadsCurrent, ServesRequest, Idle, Attempt
    <2>2. CASE g # h
      <3>1. job'[g] = job[g]
        BY <1>6, <2>2 DEF StoreInv, StoreTypeOK
      <3>2. job[g].step \in Watched => g \in dirty'
        BY <2>2 DEF Commit
      <3>3. ReadsCurrent(g)'
        BY <3>1, <3>2 DEF ReadsCurrent, Watched
      <3>4. RequestsAfter(commits) \subseteq RequestsAfter(commits)'
        BY <1>1, <1>2, RequestsGrow
      <3>5. ServesRequest(g)'
        BY <3>1, <3>4 DEF ServesRequest, StoreInv
      <3> QED
        BY <3>3, <3>5
    <2> QED
      BY <2>1, <2>2
  <1> QED
    BY <1>5, <1>7, <1>8 DEF StoreInv

----------------------------------------------------------------------------
\* Every step keeps the invariant.
LEMMA StoreInvNext ==
  ASSUME StoreInv, [UdsfNext]_udsfVars
  PROVE  StoreInv'
  <1>1. CASE UNCHANGED udsfVars
    <2>1. Stored' = Stored /\ Jobs' = Jobs
      BY <1>1 DEF udsfVars, Stored, Jobs
    <2> QED
      BY <1>1, <2>1 DEF udsfVars, StoreInv, StoreTypeOK, IndexMatches, ReadsCurrent, ServesRequest
  <1>2. ASSUME NEW h \in Handlers, HandlerStep(h)
        PROVE  StoreInv'
    BY <1>2, WatchKeeps, ReadRecordKeeps, ReadBlocksKeeps, DecideKeeps, CommitKeeps,
       LoseRaceKeeps, LeaveKeeps
    DEF HandlerStep
  <1>3. ASSUME NEW h \in Handlers, NEW r \in RequestsAfter(commits), Begin(h, r)
        PROVE  StoreInv'
    BY <1>3, BeginKeeps
  <1>4. ASSUME NEW s \in Subs, SubStep(s)
        PROVE  StoreInv'
    <2>1. \E filter \in SUBSET Kinds : ChangeSub(s, filter)
      BY <1>4 DEF SubStep, PutSub, PatchSub, DeleteSub, Filters, Monitored
    <2> QED
      BY <2>1, ChangeSubKeeps
  <1> QED
    BY <1>1, <1>2, <1>3, <1>4 DEF UdsfNext

\* The inductive invariant of the store.
THEOREM UdsfKeepsOrder == UdsfSpec => []StoreInv
  <1>1. UdsfInit => StoreInv
    BY StoreInvInit
  <1>2. StoreInv /\ [UdsfNext]_udsfVars => StoreInv'
    BY StoreInvNext
  <1> QED
    BY <1>1, <1>2, PTL DEF UdsfSpec

\* Every variable keeps its type, for any number of handlers and requests.
THEOREM StoreTypeCorrect == UdsfSpec => []StoreTypeOK
  <1>1. StoreInv => StoreTypeOK
    BY DEF StoreInv
  <1> QED
    BY <1>1, UdsfKeepsOrder, PTL

\* The tag index always lists the stored record under its tag and no other.
THEOREM IndexMatchesHolds == UdsfSpec => []IndexMatches
  <1>1. StoreInv => IndexMatches
    BY DEF StoreInv
  <1> QED
    BY <1>1, UdsfKeepsOrder, PTL

----------------------------------------------------------------------------
\* The requests that the promise and the store speak of are the same.
LEMMA SameRequests ==
  /\ \A n : Atomic!RequestsAfter(n) = RequestsAfter(n)
  /\ \A r, before : Atomic!Verdict(r, before) = Verdict(r, before)
  /\ \A r, before, version :
       Atomic!After(r, before, version) = After(r, before, version)
  /\ Atomic!NoRecord = NoRecord /\ Atomic!NoCondition = NoCondition
  <1>1. \A n : Atomic!RequestsAfter(n) = RequestsAfter(n)
    BY DEF Atomic!RequestsAfter, RequestsAfter, Atomic!Operations, Operations,
           Atomic!SetsTag, SetsTag, Atomic!IfAbsent, IfAbsent
  <1>2. \A r, before : Atomic!Verdict(r, before) = Verdict(r, before)
    <2>1. \A c, e : Atomic!WritePasses(c, e) <=> WritePasses(c, e)
      BY DEF Atomic!WritePasses, WritePasses, Atomic!IfAbsent, IfAbsent
    <2> SUFFICES ASSUME NEW r, NEW before PROVE Atomic!Verdict(r, before) = Verdict(r, before)
      OBVIOUS
    <2> HIDE <2>1
    <2>2. Atomic!WritePasses(r.cond, before.etag) <=> WritePasses(r.cond, before.etag)
      BY <2>1
    <2>3. Atomic!WritePasses(r.cond, before.blocks[r.block]) <=> WritePasses(r.cond, before.blocks[r.block])
      BY <2>1
    <2> QED
      BY <2>2, <2>3 DEF Atomic!Verdict, Verdict
  <1>3. Atomic!NoRecord = NoRecord /\ Atomic!NoCondition = NoCondition
    BY DEF Atomic!NoRecord, NoRecord, Atomic!NoBlocks, NoBlocks,
           Atomic!NoCondition, NoCondition
  <1>4. \A r, before, version :
          Atomic!After(r, before, version) = After(r, before, version)
    <2>1. \A r, before : Atomic!TagAfter(r, before) = TagAfter(r, before)
      BY DEF Atomic!TagAfter, TagAfter, Atomic!SetsTag, SetsTag
    <2>2. \A r, before, version :
            Atomic!BlocksAfter(r, before, version) = BlocksAfter(r, before, version)
      BY DEF Atomic!BlocksAfter, BlocksAfter, Atomic!NoBlocks, NoBlocks
    <2> QED
      BY <1>2, <1>3, <2>1, <2>2 DEF Atomic!After, After
  <1> QED
    BY <1>1, <1>2, <1>3, <1>4

\* A step of the store is one request served at once on the current record, or nothing.
LEMMA StepIsAtomic ==
  ASSUME StoreInv, [UdsfNext]_udsfVars
  PROVE  [Atomic!Next]_<<Stored, commits, held>>
  <1>1. CASE \E h \in Handlers : Commit(h)
    <2>1. PICK h \in Handlers : Commit(h)
      BY <1>1
    <2>2. held' = job[h].request.cond
      BY <2>1 DEF Commit
    <2>3. Atomic!Serve(job[h].request)
      BY <2>1, <2>2, CommitIsAtomic, SameRequests DEF Atomic!Serve
    <2> QED
      BY <2>1, <2>3, CommitIsAtomic, SameRequests DEF Atomic!Next
  <1>2. CASE ~\E h \in Handlers : Commit(h)
    <2>1. UNCHANGED <<rec, blk, commits, held>>
      BY <1>2
      DEF UdsfNext, HandlerStep, udsfVars, storeVars, historyVars, Begin, Watch, ReadRecord,
          ReadBlocks, Decide, Discard, LoseRace, GiveUp, Die, SubStep, PutSub, PatchSub,
          DeleteSub, ChangeSub
    <2> QED
      BY <2>1 DEF Stored
  <1> QED
    BY <1>1, <1>2

(***************************************************************************)
(* modify_record is atomic: the reads of an attempt, of two keys and of    *)
(* which one is watched, and its EXEC together implement one step on the   *)
(* current record, under the condition of the request.                     *)
(***************************************************************************)
THEOREM StoreImplementsAtomic == UdsfSpec => ImplementsAtomic
  <1>1. UdsfInit => Atomic!Init
    BY SameRequests DEF UdsfInit, Atomic!Init, Stored, NoRecord
  <1>2. StoreInv /\ [UdsfNext]_udsfVars => [Atomic!Next]_<<Stored, commits, held>>
    BY StepIsAtomic
  <1> QED
    BY <1>1, <1>2, UdsfKeepsOrder, PTL DEF UdsfSpec, ImplementsAtomic, Atomic!Spec

----------------------------------------------------------------------------
(***************************************************************************)
(* Contention.  An attempt can only fail after a write of someone else     *)
(* that came since its WATCH, so attempts never outnumber those writes.    *)
(***************************************************************************)
CountsAttempts(h) ==
  /\ job[h].step = "idle" => h \notin dirty
  /\ job[h].seen + job[h].attempt <= commits
  /\ job[h].step \in Watched /\ h \in dirty => job[h].seen + job[h].attempt + 1 <= commits

\* Whatever step is taken, the attempts of a request are matched by commits of others.
LEMMA AttemptsCounted ==
  ASSUME StoreInv, \A h \in Handlers : CountsAttempts(h), [UdsfNext]_udsfVars
  PROVE  \A h \in Handlers : CountsAttempts(h)'
  <1> SUFFICES ASSUME NEW g \in Handlers PROVE CountsAttempts(g)'
    OBVIOUS
  <1> DEFINE Same == /\ job'[g].step = job[g].step
                     /\ job'[g].attempt = job[g].attempt
                     /\ job'[g].seen = job[g].seen
  <1>1. /\ job \in [Handlers -> Jobs] /\ commits \in Nat /\ job[g] \in Jobs
        /\ job[g].attempt \in Nat /\ job[g].seen \in Nat
    <2>1. job \in [Handlers -> Jobs] /\ commits \in Nat /\ MaxAttempts \in Nat
      BY UdsfAssumption DEF StoreInv, StoreTypeOK
    <2> QED
      BY <2>1 DEF Jobs
  <1>2. CASE Same /\ commits' = commits /\ (g \in dirty' <=> g \in dirty)
    BY <1>2 DEF CountsAttempts
  <1>3. CASE /\ job'[g].step # "idle" /\ job'[g].step \notin Watched
             /\ job'[g].seen + job'[g].attempt <= commits'
    BY <1>3 DEF CountsAttempts
  <1>4. CASE job'[g] = Idle /\ g \notin dirty' /\ commits' \in Nat
    <2>1. Idle.step = "idle" /\ Idle.attempt = 0 /\ Idle.seen = 0
      BY DEF Idle, Attempt
    <2>2. job'[g].step = "idle" /\ job'[g].attempt = 0 /\ job'[g].seen = 0
      BY <1>4, <2>1
    <2>3. g \notin dirty' /\ 0 + 0 <= commits'
      BY <1>4
    <2> QED
      BY <2>2, <2>3 DEF CountsAttempts, Watched
  <1>5. ASSUME NEW h \in Handlers, NEW r \in RequestsAfter(commits), Begin(h, r)
        PROVE  CountsAttempts(g)'
    <2>1. commits' = commits /\ dirty' = dirty
      BY <1>5 DEF Begin, storeVars
    <2>2. CASE g = h
      <3>1. /\ job'[g].attempt = 0 /\ job'[g].seen = commits /\ job'[g].step = "read"
        BY <1>1, <1>5, <2>2 DEF Begin, Attempt
      <3>2. g \notin dirty
        BY <1>5, <2>2 DEF Begin, CountsAttempts
      <3> QED
        BY <1>1, <2>1, <3>1, <3>2 DEF CountsAttempts
    <2>3. CASE g # h
      BY <1>1, <1>2, <1>5, <2>1, <2>3 DEF Begin
    <2> QED
      BY <2>2, <2>3
  <1>6. ASSUME NEW h \in Handlers, Watch(h)
        PROVE  CountsAttempts(g)'
    <2>1. commits' = commits /\ dirty' = dirty \ {h}
      BY <1>6 DEF Watch, storeVars
    <2>2. CASE g = h
      <3>1. /\ job'[g].attempt = job[g].attempt /\ job'[g].seen = job[g].seen
            /\ job'[g].step = "read"
        BY <1>1, <1>6, <2>2 DEF Watch, Jobs
      <3> QED
        BY <2>1, <2>2, <3>1 DEF CountsAttempts
    <2>3. CASE g # h
      BY <1>1, <1>2, <1>6, <2>1, <2>3 DEF Watch
    <2> QED
      BY <2>2, <2>3
  <1>7. ASSUME NEW h \in Handlers, ReadRecord(h) \/ ReadBlocks(h)
        PROVE  CountsAttempts(g)'
    <2>1. commits' = commits /\ dirty' = dirty
      BY <1>7 DEF ReadRecord, ReadBlocks, storeVars
    <2>2. CASE g = h
      <3>1. /\ job'[g].attempt = job[g].attempt /\ job'[g].seen = job[g].seen
            /\ job[g].step \in Watched /\ job'[g].step # "idle"
        BY <1>1, <1>7, <2>2 DEF ReadRecord, ReadBlocks, Jobs, Watched
      <3> QED
        BY <2>1, <3>1 DEF CountsAttempts
    <2>3. CASE g # h
      BY <1>1, <1>2, <1>7, <2>1, <2>3 DEF ReadRecord, ReadBlocks
    <2> QED
      BY <2>2, <2>3
  <1>8. ASSUME NEW h \in Handlers, Decide(h)
        PROVE  CountsAttempts(g)'
    <2>1. commits' = commits
      BY <1>8 DEF Decide, storeVars
    <2>2. CASE g # h
      BY <1>1, <1>2, <1>8, <2>1, <2>2 DEF Decide
    <2>3. CASE g = h /\ Verdict(job[h].request, job[h].before) = "Abort"
      <3>1. job'[g] = Idle /\ dirty' = dirty \ {h}
        BY <1>1, <1>8, <2>3 DEF Decide
      <3> QED
        BY <1>1, <1>4, <2>1, <2>3, <3>1
    <2>4. CASE g = h /\ Verdict(job[h].request, job[h].before) # "Abort"
      <3>1. /\ job'[g].attempt = job[g].attempt /\ job'[g].seen = job[g].seen
            /\ job'[g].step = "exec" /\ job[g].step \in Watched
        BY <1>1, <1>8, <2>4 DEF Decide, Jobs, Watched
      <3>2. g \in dirty' => g \in dirty
        BY <1>8 DEF Decide
      <3> QED
        BY <2>1, <3>1, <3>2 DEF CountsAttempts
    <2> QED
      BY <2>2, <2>3, <2>4
  <1>9. ASSUME NEW h \in Handlers, Discard(h) \/ GiveUp(h) \/ Die(h)
        PROVE  CountsAttempts(g)'
    <2>1. job' = [job EXCEPT ![h] = Idle] /\ dirty' = dirty \ {h} /\ commits' = commits
      BY <1>9 DEF Discard, GiveUp, Die, storeVars
    <2> QED
      BY <1>1, <1>2, <1>4, <2>1
  <1>10. ASSUME NEW h \in Handlers, LoseRace(h)
         PROVE  CountsAttempts(g)'
    <2>1. commits' = commits /\ dirty' = dirty
      BY <1>10 DEF LoseRace, storeVars
    <2>2. CASE g = h
      <3>1. job[g].seen + job[g].attempt + 1 <= commits
        BY <1>10, <2>2 DEF LoseRace, ExecSucceeds, CountsAttempts, Watched
      <3>2. /\ job'[g].attempt = job[g].attempt + 1 /\ job'[g].seen = job[g].seen
            /\ job'[g].step \in {"watch", "contended"}
        BY <1>1, <1>10, <2>2 DEF LoseRace, Attempt
      <3>3. job'[g].seen + job'[g].attempt <= commits'
        BY <1>1, <2>1, <3>1, <3>2
      <3> QED
        BY <1>3, <3>2, <3>3 DEF Watched
    <2>3. CASE g # h
      BY <1>1, <1>2, <1>10, <2>1, <2>3 DEF LoseRace
    <2> QED
      BY <2>2, <2>3
  <1>11. ASSUME NEW h \in Handlers, Commit(h)
         PROVE  CountsAttempts(g)'
    <2>1. job' = [job EXCEPT ![h] = Idle] /\ commits' = commits + 1
          /\ dirty' = (dirty \cup {x \in Handlers : job[x].step \in Watched}) \ {h}
      BY <1>11 DEF Commit
    <2>2. CASE g = h
      BY <1>1, <1>4, <2>1, <2>2
    <2>3. CASE g # h
      <3>1. Same /\ (g \in dirty' => g \in dirty \/ job[g].step \in Watched)
        BY <1>1, <2>1, <2>3
      <3>2. job[g].step = "idle" => g \notin dirty'
        BY <3>1 DEF CountsAttempts, Watched
      <3>3. job[g].seen + job[g].attempt + 1 <= commits'
        BY <1>1, <2>1 DEF CountsAttempts
      <3> QED
        BY <1>1, <2>1, <3>1, <3>2, <3>3 DEF CountsAttempts
    <2> QED
      BY <2>2, <2>3
  <1>12. ASSUME NEW s \in Subs, SubStep(s)
         PROVE  CountsAttempts(g)'
    <2>1. /\ job' = [h \in Handlers |-> [job[h] EXCEPT !.stood = @ \ {s}]]
          /\ commits' = commits /\ dirty' = dirty
      BY <1>12 DEF SubStep, PutSub, PatchSub, DeleteSub, ChangeSub, storeVars
    <2>2. Same
      BY <1>1, <2>1 DEF Jobs
    <2> QED
      BY <1>2, <2>1, <2>2
  <1>13. CASE UNCHANGED udsfVars
    BY <1>2, <1>13 DEF udsfVars
  <1> QED
    BY <1>5, <1>6, <1>7, <1>8, <1>9, <1>10, <1>11, <1>12, <1>13 DEF UdsfNext, HandlerStep

\* No request is refused for contention unless others wrote as often as it tried.
THEOREM ContentionIsRealHolds == UdsfSpec => []ContentionIsReal
  <1> DEFINE Inv == StoreInv /\ \A h \in Handlers : CountsAttempts(h)
  <1>1. UdsfInit => Inv
    BY StoreInvInit DEF UdsfInit, CountsAttempts, Idle, Attempt, Watched
  <1>2. Inv /\ [UdsfNext]_udsfVars => Inv'
    BY StoreInvNext, AttemptsCounted
  <1>3. Inv => ContentionIsReal
    BY DEF CountsAttempts, ContentionIsReal
  <1> QED
    BY <1>1, <1>2, <1>3, PTL DEF UdsfSpec

----------------------------------------------------------------------------
(***************************************************************************)
(* Notifications.  From Decide on, an attempt carries a notification for   *)
(* every subscription that has stood unchanged since its WATCH and wants   *)
(* the change; a subscription that changes no longer counts as standing.   *)
(***************************************************************************)
CarriesNotes(h) ==
  job[h].step = "exec" =>
    LET kind == ChangeKind(job[h].request, job[h].before)
    IN /\ \A s \in job[h].stood : kind \in subs[s] => <<s, kind>> \in job[h].notes
       /\ \A note \in job[h].notes : note[2] = kind

\* Whatever step is taken, a handler at EXEC has notes for all that stood since its WATCH.
LEMMA NotesCarried ==
  ASSUME StoreInv, \A h \in Handlers : CarriesNotes(h), [UdsfNext]_udsfVars
  PROVE  \A h \in Handlers : CarriesNotes(h)'
  <1> SUFFICES ASSUME NEW g \in Handlers PROVE CarriesNotes(g)'
    OBVIOUS
  <1>1. job \in [Handlers -> Jobs] /\ job[g] \in Jobs
    BY DEF StoreInv, StoreTypeOK
  <1>2. CASE job'[g] = job[g] /\ subs' = subs
    BY <1>2 DEF CarriesNotes
  <1>3. CASE job'[g].step # "exec"
    BY <1>3 DEF CarriesNotes
  <1>4. ASSUME NEW h \in Handlers, NEW next, next.step # "exec",
               job' = [job EXCEPT ![h] = next], subs' = subs
        PROVE  CarriesNotes(g)'
    BY <1>1, <1>2, <1>3, <1>4
  <1>5. Idle.step # "exec"
    BY DEF Idle, Attempt
  <1>6. ASSUME NEW h \in Handlers, NEW r \in RequestsAfter(commits), Begin(h, r)
        PROVE  CarriesNotes(g)'
    <2>1. Attempt("read", r, 0, Live, commits).step # "exec"
      BY DEF Attempt
    <2> QED
      BY <1>4, <1>6, <2>1 DEF Begin, subVars
  <1>7. ASSUME NEW h \in Handlers, Watch(h) \/ ReadRecord(h) \/ ReadBlocks(h) \/ LoseRace(h)
        PROVE  CarriesNotes(g)'
    <2>1. subs' = subs
      BY <1>7 DEF Watch, ReadRecord, ReadBlocks, LoseRace, subVars
    <2>2. CASE g = h
      <3>1. job'[g].step # "exec"
        BY <1>1, <1>7, <2>2 DEF Watch, ReadRecord, ReadBlocks, LoseRace, Attempt, Jobs
      <3> QED
        BY <1>3, <3>1
    <2>3. CASE g # h
      BY <1>1, <1>2, <1>7, <2>1, <2>3 DEF Watch, ReadRecord, ReadBlocks, LoseRace
    <2> QED
      BY <2>2, <2>3
  <1>8. ASSUME NEW h \in Handlers, Decide(h)
        PROVE  CarriesNotes(g)'
    <2> DEFINE kind == ChangeKind(job[h].request, job[h].before)
    <2>1. subs' = subs
      BY <1>8 DEF Decide, subVars
    <2>2. CASE g # h
      BY <1>1, <1>2, <1>8, <2>1, <2>2 DEF Decide
    <2>3. CASE g = h /\ Verdict(job[h].request, job[h].before) = "Abort"
      BY <1>4, <1>5, <1>8, <2>1, <2>3 DEF Decide
    <2>4. CASE g = h /\ Verdict(job[h].request, job[h].before) # "Abort"
      <3>1. /\ job'[g].request = job[g].request /\ job'[g].before = job[g].before
            /\ job'[g].stood = job[g].stood /\ job'[g].notes = Told(kind) \X {kind}
        BY <1>1, <1>8, <2>4 DEF Decide, Jobs
      <3>2. \A s \in job[g].stood : kind \in subs[s] => s \in Told(kind)
        BY <1>1 DEF Told, Live, Jobs
      <3> QED
        BY <2>1, <2>4, <3>1, <3>2 DEF CarriesNotes
    <2> QED
      BY <2>2, <2>3, <2>4
  <1>9. ASSUME NEW h \in Handlers, Discard(h) \/ GiveUp(h) \/ Die(h) \/ Commit(h)
        PROVE  CarriesNotes(g)'
    BY <1>4, <1>5, <1>9 DEF Discard, GiveUp, Die, Commit, subVars
  <1>10. ASSUME NEW s \in Subs, SubStep(s)
         PROVE  CarriesNotes(g)'
    <2>1. PICK filter \in SUBSET Kinds : ChangeSub(s, filter)
      BY <1>10 DEF SubStep, PutSub, PatchSub, DeleteSub, Filters, Monitored
    <2>2. /\ job'[g] = [job[g] EXCEPT !.stood = @ \ {s}]
          /\ subs' = [subs EXCEPT ![s] = filter] /\ subs \in [Subs -> SUBSET Kinds]
      BY <1>1, <2>1 DEF ChangeSub, StoreInv, StoreTypeOK
    <2>3. /\ job'[g].step = job[g].step /\ job'[g].request = job[g].request
          /\ job'[g].before = job[g].before /\ job'[g].notes = job[g].notes
          /\ job'[g].stood = job[g].stood \ {s} /\ job[g].stood \subseteq Subs
      BY <1>1, <2>2 DEF Jobs
    <2>4. \A t \in job[g].stood \ {s} : subs'[t] = subs[t]
      BY <2>2, <2>3
    <2> QED
      BY <2>3, <2>4 DEF CarriesNotes
  <1>11. CASE UNCHANGED udsfVars
    BY <1>2, <1>11 DEF udsfVars
  <1> QED
    BY <1>6, <1>7, <1>8, <1>9, <1>10, <1>11 DEF UdsfNext, HandlerStep

\* EXEC pushes these notes, and nothing else changes what was pushed.
LEMMA CommitNotifies ==
  ASSUME NotifiesStanding, \A h \in Handlers : CarriesNotes(h), [UdsfNext]_udsfVars
  PROVE  NotifiesStanding'
  <1>1. CASE \E h \in Handlers : Commit(h)
    <2>1. PICK h \in Handlers : Commit(h)
      BY <1>1
    <2> DEFINE kind == ChangeKind(job[h].request, job[h].before)
    <2>2. /\ pushed' = job[h].notes /\ change' = kind /\ job[h].step = "exec"
          /\ owed' = {s \in job[h].stood : kind \in subs[s]} \X {kind}
      BY <2>1 DEF Commit
    <2>3. /\ \A s \in job[h].stood : kind \in subs[s] => <<s, kind>> \in job[h].notes
          /\ \A note \in job[h].notes : note[2] = kind
      BY <2>2 DEF CarriesNotes
    <2> QED
      BY <2>2, <2>3 DEF NotifiesStanding
  <1>2. CASE ~\E h \in Handlers : Commit(h)
    <2>1. UNCHANGED <<pushed, owed, change>>
      BY <1>2
      DEF UdsfNext, HandlerStep, udsfVars, storeVars, historyVars, Begin, Watch, ReadRecord,
          ReadBlocks, Decide, Discard, LoseRace, GiveUp, Die, SubStep, PutSub, PatchSub,
          DeleteSub, ChangeSub
    <2> QED
      BY <2>1 DEF NotifiesStanding
  <1> QED
    BY <1>1, <1>2

(***************************************************************************)
(* A subscription that stands unchanged from WATCH to EXEC is notified,    *)
(* although the transaction does not watch it.                             *)
(***************************************************************************)
THEOREM NotifiesStandingHolds == UdsfSpec => []NotifiesStanding
  <1> DEFINE Inv == /\ StoreInv /\ NotifiesStanding
                    /\ \A h \in Handlers : CarriesNotes(h)
  <1>1. UdsfInit => Inv
    BY StoreInvInit DEF UdsfInit, CarriesNotes, NotifiesStanding, Idle, Attempt
  <1>2. Inv /\ [UdsfNext]_udsfVars => Inv'
    BY StoreInvNext, NotesCarried, CommitNotifies
  <1> QED
    BY <1>1, <1>2, PTL DEF UdsfSpec
=============================================================================
