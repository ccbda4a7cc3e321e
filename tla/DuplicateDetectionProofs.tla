---------------------- MODULE DuplicateDetectionProofs ----------------------
(***************************************************************************)
(* Duplicate detection for any number of requests, handlers, deliveries,   *)
(* expiries and deaths: how often a request is processed, and what its     *)
(* retransmissions are told.                                               *)
(***************************************************************************)
EXTENDS DuplicateDetection, FiniteSetTheorems, TLAPS

Locals == [key : Key \union {"none"}, owned : BOOLEAN, polls : 0 .. MaxPolls,
           status : {0, 201, 204}, location : Nat]

Entry == [state : BOOLEAN, location : Nat, status : {0, 201, 204}, ttl : BOOLEAN]

\* The types, and that a handler in progress works on a request.
TypeInv ==
    /\ DupTypeOK
    /\ sessions \in [Key -> SUBSET Nat] /\ answers \in [Key -> SUBSET (Nat \X Nat)]
    /\ \A w \in Worker : pc[w] # "idle" => job[w].key \in Key

-----------------------------------------------------------------------------
\* The handlers that will process k: those at it, and the winner of HSETNX that has
\* not set the TTL yet.
Committed(k) ==
    {w \in Worker : /\ job[w].key = k
                    /\ pc[w] = "process" \/ (pc[w] = "arm" /\ job[w].owned)}

\* How often k was processed.
Processed(k) == Cardinality(sessions[k]) + (IF k \in ReleaseKey \ live THEN 1 ELSE 0)

\* One right to process k, and one more for every wait given up on and every TTL
\* that ran out: spent on a session, in the hands of a handler, or still in Redis.
RightsOf(k) ==
    /\ IsFiniteSet(sessions[k]) /\ IsFiniteSet(Committed(k))
    /\ Processed(k) + Cardinality(Committed(k)) + (IF entries[k].state THEN 0 ELSE 1)
         <= 1 + gaveUp[k] + lapses[k]

RightsAccounted == \A k \in Key : RightsOf(k)

-----------------------------------------------------------------------------
\* A remembered 201 has a Location of the same request beside it, from the moment
\* status is written and for whoever has read the status already.
LocationsHeld ==
    /\ \A k \in Key : entries[k].status = 201 => entries[k].location \in sessions[k]
    /\ \A w \in Worker :
          /\ pc[w] = "publishLocation" => job[w].status = 201
          /\ pc[w] \in {"publishLocation", "publishStatus"} /\ job[w].status = 201
                => job[w].location \in sessions[job[w].key]
          /\ pc[w] \in {"publishStatus", "replay"} /\ job[w].status = 201
                => entries[job[w].key].location \in sessions[job[w].key]
    /\ RepliesNameASession

DuplicateInv == TypeInv /\ RightsAccounted /\ LocationsHeld /\ ReleaseReplayed

-----------------------------------------------------------------------------
\* A handler that runs nothing has well-typed locals.
LEMMA NoJobTyped == NoJob \in Locals /\ NoJob.key = "none" /\ NoJob.status = 0
  BY DetectionAssumption DEF NoJob, Locals

\* The first state.
LEMMA DupStarts == DupInit => DuplicateInv
  <1> SUFFICES ASSUME DupInit PROVE DuplicateInv
    OBVIOUS
  <1>1. TypeInv
    BY NoJobTyped DEF DupInit, TypeInv, DupTypeOK, DupLabel, NoEntry, Locals
  <1>2. RightsAccounted
    <2> SUFFICES ASSUME NEW k \in Key
                 PROVE  /\ IsFiniteSet(sessions[k]) /\ IsFiniteSet(Committed(k))
                        /\ Processed(k) + Cardinality(Committed(k))
                             + (IF entries[k].state THEN 0 ELSE 1) <= 1 + gaveUp[k] + lapses[k]
      BY DEF RightsAccounted, RightsOf
    <2>1. sessions[k] = {} /\ Committed(k) = {} /\ k \notin ReleaseKey \ live
      BY DEF DupInit, Committed
    <2>2. Processed(k) = 0 /\ Cardinality(Committed(k)) = 0
      BY <2>1, FS_EmptySet DEF Processed
    <2> QED  BY <2>1, <2>2, FS_EmptySet DEF DupInit, NoEntry
  <1>3. LocationsHeld
    BY DEF DupInit, LocationsHeld, RepliesNameASession, NoEntry
  <1>4. ReleaseReplayed
    BY DetectionAssumption DEF DupInit, ReleaseReplayed
  <1> QED  BY <1>1, <1>2, <1>3, <1>4 DEF DuplicateInv

\* The entry of a key and the locals of a handler.
LEMMA PartsTyped ==
    ASSUME TypeInv
    PROVE  /\ entries \in [Key -> Entry] /\ \A k \in Key : entries[k] \in Entry
           /\ job \in [Worker -> Locals] /\ \A w \in Worker : job[w] \in Locals
  <1>1. entries \in [Key -> Entry]
    BY DEF TypeInv, DupTypeOK, Entry
  <1>2. job \in [Worker -> Locals]
    BY DEF TypeInv, DupTypeOK, Locals
  <1> QED  BY <1>1, <1>2

\* The fields a step writes keep an entry an entry.
LEMMA EntryWritten ==
    ASSUME NEW e \in Entry, NEW b \in BOOLEAN, NEW s \in {0, 201, 204}
    PROVE  [e EXCEPT !.state = b] \in Entry /\ [e EXCEPT !.status = s, !.ttl = b] \in Entry
  <1>1. [e EXCEPT !.state = b] \in Entry
    BY DEF Entry
  <1>2. [e EXCEPT !.status = s, !.ttl = b] \in Entry
    BY DEF Entry
  <1> QED  BY <1>1, <1>2

\* And those of a handler that claims, reads or waits.
LEMMA LocalsClaimed ==
    ASSUME NEW l \in Locals, NEW k \in Key, NEW b \in BOOLEAN
    PROVE  [l EXCEPT !.key = k, !.owned = b] \in Locals
  BY DEF Locals

LEMMA LocalsRead ==
    ASSUME NEW l \in Locals, NEW s \in {0, 201, 204}
    PROVE  [l EXCEPT !.status = s] \in Locals
  BY DEF Locals

LEMMA LocalsWaited ==
    ASSUME NEW l \in Locals, l.polls < MaxPolls
    PROVE  [l EXCEPT !.polls = @ + 1] \in Locals
  <1>1. l.polls + 1 \in 0 .. MaxPolls
    BY DetectionAssumption DEF Locals
  <1> QED  BY <1>1 DEF Locals

\* HSETNX has a winner or not.
LEMMA WinsTyped == \A k : Wins(k) \in BOOLEAN
  BY Zenon DEF Wins

\* An answer is kept, and its handler is done.
LEMMA AnswerTyped ==
    ASSUME TypeInv, NEW w \in Worker, NEW status \in Nat, NEW location \in Nat,
           pc[w] # "idle", Answer(w, status, location)
    PROVE  /\ pc' \in [Worker -> DupLabel] /\ job' \in [Worker -> Locals]
           /\ answers' \in [Key -> SUBSET (Nat \X Nat)]
           /\ \A v \in Worker : pc'[v] # "idle" => job'[v].key \in Key
  BY NoJobTyped DEF TypeInv, DupTypeOK, Answer, DupLabel, Locals

\* The steps at the store keep the types.
LEMMA StoreStepTyped ==
    ASSUME TypeInv, NEW w \in Worker,
           \/ \E k \in Key : Claim(w, k)
           \/ ArmTtl(w) \/ PublishLocation(w)
    PROVE  TypeInv'
  <1>1. ASSUME NEW k \in Key, Claim(w, k) PROVE TypeInv'
    <2>1. [NoJob EXCEPT !.key = k, !.owned = Wins(k)] \in Locals
      <3>1. ASSUME NEW b \in BOOLEAN PROVE [NoJob EXCEPT !.key = k, !.owned = b] \in Locals
        BY ONLY <3>1, NoJobTyped, LocalsClaimed
      <3> QED  BY ONLY <3>1, WinsTyped, Zenon
    <2>2. [entries[k] EXCEPT !.state = TRUE] \in Entry
      BY PartsTyped, EntryWritten
    <2>3. [NoJob EXCEPT !.key = k, !.owned = Wins(k)].key = k
      BY DEF NoJob
    <2>4. /\ entries' \in [Key -> Entry] /\ job' \in [Worker -> Locals] /\ job'[w].key = k
          /\ \A v \in Worker \ {w} : job'[v] = job[v]
      <3>1. /\ entries' = [entries EXCEPT ![k] = [entries[k] EXCEPT !.state = TRUE]]
            /\ job' = [job EXCEPT ![w] = [NoJob EXCEPT !.key = k, !.owned = Wins(k)]]
        BY <1>1 DEF Claim
      <3>2. entries' \in [Key -> Entry]
        BY <2>2, <3>1, PartsTyped
      <3> DEFINE r == [NoJob EXCEPT !.key = k, !.owned = Wins(k)]
      <3>3. r \in Locals /\ r.key = k /\ job' = [job EXCEPT ![w] = r]
        BY <2>1, <2>3, <3>1
      <3> HIDE DEF r
      <3> QED  BY <3>2, <3>3, PartsTyped
    <2>5. pc' \in [Worker -> DupLabel] /\ \A v \in Worker \ {w} : pc'[v] = pc[v]
      <3>1. pc \in [Worker -> DupLabel] /\ pc' = [pc EXCEPT ![w] = "arm"]
        BY <1>1 DEF Claim, Goto, TypeInv, DupTypeOK
      <3>2. "arm" \in DupLabel
        BY DEF DupLabel
      <3> QED  BY ONLY <3>1, <3>2
    <2>6. UNCHANGED <<nextRef, live, crashes, sessions, answers, gaveUp, lapses>>
          /\ deliveries' = deliveries + 1
      BY <1>1 DEF Claim, historyVars
    <2>7. \A v \in Worker : pc'[v] # "idle" => job'[v].key \in Key
      BY <2>4, <2>5 DEF TypeInv
    <2> QED  BY <2>4, <2>5, <2>6, <2>7 DEF TypeInv, DupTypeOK, Locals, Entry
  <1>2. CASE ArmTtl(w)
    <2> DEFINE k == job[w].key
    <2>1. k \in Key
      BY <1>2 DEF ArmTtl, TypeInv
    <2>2. [entries[k] EXCEPT !.ttl = entries[k].state] \in Entry
      BY <2>1, PartsTyped DEF Entry
    <2>3. AfterClaim(w) \in DupLabel
      BY DEF AfterClaim, DupLabel
    <2> QED  BY <1>2, <2>1, <2>2, <2>3
             DEF ArmTtl, Goto, TypeInv, DupTypeOK, historyVars, Entry
  <1>3. CASE PublishLocation(w)
    <2> DEFINE k == job[w].key
    <2>1. k \in Key /\ job[w].location \in Nat
      BY <1>3 DEF PublishLocation, TypeInv, DupTypeOK
    <2>2. [entries[k] EXCEPT !.location = job[w].location] \in Entry
      BY <2>1, PartsTyped DEF Entry
    <2> QED  BY <1>3, <2>1, <2>2
             DEF PublishLocation, Goto, TypeInv, DupTypeOK, DupLabel, historyVars, Entry
  <1> QED  BY <1>1, <1>2, <1>3

\* So do the wait and the steps that answer.
LEMMA WaitTyped ==
    ASSUME TypeInv, NEW w \in Worker, Poll(w) \/ Replay(w) \/ GiveUp(w)
    PROVE  TypeInv'
  <1>1. CASE Poll(w)
    <2> DEFINE entry == entries[job[w].key]
    <2>1. job[w].key \in Key /\ entry.status \in {0, 201, 204} /\ job[w] \in Locals
      BY <1>1 DEF Poll, TypeInv, DupTypeOK, Locals
    <2>2. /\ [job[w] EXCEPT !.status = entry.status] \in Locals
          /\ job[w].polls < MaxPolls => [job[w] EXCEPT !.polls = @ + 1] \in Locals
      <3>1. [job[w] EXCEPT !.status = entry.status] \in Locals
        <4> DEFINE s == entry.status
        <4>1. s \in {0, 201, 204} /\ job[w] \in Locals
          BY <2>1
        <4> HIDE DEF s
        <4>2. [job[w] EXCEPT !.status = s] \in Locals
          BY ONLY <4>1 DEF Locals
        <4> QED  BY <4>2 DEF s
      <3>2. ASSUME job[w].polls < MaxPolls PROVE [job[w] EXCEPT !.polls = @ + 1] \in Locals
        BY <2>1, <3>2, LocalsWaited
      <3> QED  BY <3>1, <3>2
    <2>3. \/ /\ job' = [job EXCEPT ![w] = [job[w] EXCEPT !.status = entry.status]]
             /\ pc' = [pc EXCEPT ![w] = "replay"]
          \/ /\ job' = [job EXCEPT ![w] = [job[w] EXCEPT !.polls = @ + 1]] /\ pc' = pc
             /\ job[w].polls < MaxPolls
      BY <1>1 DEF Poll, MayPoll, Goto
    <2>4. UNCHANGED <<entries, nextRef, live, deliveries, crashes, sessions, answers, gaveUp, lapses>>
      BY <1>1 DEF Poll, redisVars, historyVars
    <2>5. job' \in [Worker -> Locals] /\ \A v \in Worker : job'[v].key = job[v].key
      <3>1. PICK r \in Locals : job' = [job EXCEPT ![w] = r] /\ r.key = job[w].key
        BY <2>1, <2>2, <2>3 DEF Locals
      <3> QED  BY <3>1, PartsTyped
    <2>6. pc' \in [Worker -> DupLabel] /\ \A v \in Worker : pc'[v] # "idle" => pc[v] # "idle"
      <3>1. pc[w] # "idle" /\ (pc' = [pc EXCEPT ![w] = "replay"] \/ pc' = pc)
        BY <1>1, <2>3 DEF Poll
      <3> QED  BY <3>1 DEF TypeInv, DupTypeOK, DupLabel
    <2> QED  BY <2>4, <2>5, <2>6 DEF TypeInv, DupTypeOK, Locals
  <1>2. CASE Replay(w)
    <2>1. /\ job[w].status \in Nat /\ entries[job[w].key].location \in Nat /\ pc[w] # "idle"
          /\ UNCHANGED <<entries, nextRef, live, deliveries, crashes, sessions, gaveUp, lapses>>
      BY <1>2 DEF Replay, TypeInv, DupTypeOK, redisVars
    <2> QED  BY <1>2, <2>1, AnswerTyped DEF Replay, TypeInv, DupTypeOK, Locals
  <1>3. CASE GiveUp(w)
    <2>1. job[w].key \in Key
      BY <1>3 DEF GiveUp, TypeInv
    <2> QED  BY <1>3, <2>1 DEF GiveUp, Goto, TypeInv, DupTypeOK, DupLabel, redisVars
  <1> QED  BY <1>1, <1>2, <1>3

LEMMA ProcessTyped ==
    ASSUME TypeInv, NEW w \in Worker,
           RejectBody(w) \/ ProcessCreate(w) \/ ProcessRelease(w) \/ PublishStatus(w)
    PROVE  TypeInv'
  <1> DEFINE k == job[w].key
  <1>0. k \in Key /\ pc[w] # "idle" /\ job[w] \in Locals
    BY DEF RejectBody, ProcessCreate, ProcessRelease, PublishStatus, TypeInv, DupTypeOK, Locals
  <1>1. CASE RejectBody(w)
    <2>1. UNCHANGED <<entries, nextRef, live, deliveries, crashes, sessions, gaveUp, lapses>>
      BY <1>1 DEF RejectBody, redisVars
    <2> QED  BY <1>0, <1>1, <2>1, AnswerTyped DEF RejectBody, TypeInv, DupTypeOK, Locals
  <1>2. CASE ProcessCreate(w)
    <2>1. [job[w] EXCEPT !.status = 201, !.location = nextRef] \in Locals
      <3>1. nextRef \in Nat
        BY DEF TypeInv, DupTypeOK
      <3> QED  BY <1>0, <3>1 DEF Locals
    <2>2. job' \in [Worker -> Locals] /\ \A v \in Worker : job'[v].key = job[v].key
      <3> DEFINE r == [job[w] EXCEPT !.status = 201, !.location = nextRef]
      <3>1. r \in Locals
        BY ONLY <2>1
      <3>2. r.key = job[w].key
        BY ONLY <1>0 DEF Locals, r
      <3>3. job' = [job EXCEPT ![w] = r]
        <4>1. job' = [job EXCEPT ![w].status = 201, ![w].location = nextRef]
          BY ONLY <1>2 DEF ProcessCreate
        <4> QED  BY ONLY <4>1
      <3>4. job \in [Worker -> Locals]
        BY PartsTyped
      <3> HIDE DEF r
      <3> QED  BY ONLY <3>1, <3>2, <3>3, <3>4
    <2>3. /\ nextRef' = nextRef + 1 /\ nextRef \in Nat \ {0}
          /\ sessions' = [sessions EXCEPT ![k] = @ \union {nextRef}]
          /\ UNCHANGED <<entries, live, deliveries, crashes, answers, gaveUp, lapses>>
      <3>1. nextRef \in Nat \ {0}
        BY DEF TypeInv, DupTypeOK
      <3> QED  BY ONLY <1>2, <3>1 DEF ProcessCreate
    <2>4. /\ sessions' \in [Key -> SUBSET Nat]
          /\ \A c \in Key : sessions'[c] \subseteq 1 .. (nextRef' - 1)
      BY <1>0, <2>3 DEF TypeInv, DupTypeOK
    <2> QED  BY <1>2, <2>2, <2>3, <2>4
             DEF ProcessCreate, Goto, TypeInv, DupTypeOK, DupLabel, Locals
  <1>3. CASE ProcessRelease(w)
    <2>1. UNCHANGED <<entries, nextRef, deliveries, crashes, sessions, gaveUp, lapses>>
          /\ live' \subseteq ReleaseKey
      BY <1>3 DEF ProcessRelease, TypeInv, DupTypeOK
    <2>2. CASE job' = [job EXCEPT ![w].status = 204] /\ Goto(w, "publishStatus") /\ answers' = answers
      <3>1. [job[w] EXCEPT !.status = 204] \in Locals
        BY <1>0 DEF Locals
      <3>2. job' \in [Worker -> Locals] /\ \A v \in Worker : job'[v].key = job[v].key
        BY <2>2, <3>1 DEF TypeInv, DupTypeOK, Locals
      <3> QED  BY <1>0, <2>1, <2>2, <3>2 DEF Goto, TypeInv, DupTypeOK, DupLabel, Locals
    <2>3. CASE Answer(w, 404, 0)
      BY <1>0, <2>1, <2>3, AnswerTyped DEF TypeInv, DupTypeOK, Locals
    <2> QED  BY <1>3, <2>2, <2>3 DEF ProcessRelease
  <1>4. CASE PublishStatus(w)
    <2>1. /\ job[w].status \in {0, 201, 204} /\ job[w].location \in Nat
          /\ UNCHANGED <<nextRef, live, deliveries, crashes, sessions, gaveUp, lapses>>
      BY <1>0, <1>4 DEF PublishStatus, Locals
    <2>2. entries' \in [Key -> Entry]
      <3>1. [entries[k] EXCEPT !.status = job[w].status, !.ttl = TRUE] \in Entry
        <4>1. entries[k] \in Entry
          BY <1>0, PartsTyped
        <4> QED  BY ONLY <2>1, <4>1 DEF Entry
      <3>2. entries' = [entries EXCEPT ![k] = [entries[k] EXCEPT !.status = job[w].status, !.ttl = TRUE]]
        <4>1. entries' = [entries EXCEPT ![k].status = job[w].status, ![k].ttl = TRUE]
          BY ONLY <1>4 DEF PublishStatus
        <4>2. entries \in [Key -> Entry] /\ k \in Key /\ entries[k] \in Entry
          BY <1>0, PartsTyped
        <4> QED  BY ONLY <4>1, <4>2 DEF Entry
      <3> DEFINE e == [entries[k] EXCEPT !.status = job[w].status, !.ttl = TRUE]
      <3>3. e \in Entry /\ entries' = [entries EXCEPT ![k] = e] /\ entries \in [Key -> Entry]
        BY <3>1, <3>2, PartsTyped
      <3> HIDE DEF e
      <3> QED  BY ONLY <3>3
    <2>3. /\ pc' \in [Worker -> DupLabel] /\ job' \in [Worker -> Locals]
          /\ answers' \in [Key -> SUBSET (Nat \X Nat)]
          /\ \A v \in Worker : pc'[v] # "idle" => job'[v].key \in Key
      <3>1. job[w].status \in Nat /\ Answer(w, job[w].status, job[w].location)
        BY <1>4, <2>1 DEF PublishStatus
      <3> QED  BY <1>0, <2>1, <3>1, AnswerTyped
    <2> QED  BY <2>1, <2>2, <2>3 DEF TypeInv, DupTypeOK, Locals, Entry
  <1> QED  BY <1>1, <1>2, <1>3, <1>4

\* And what nobody asked for.
LEMMA MishapTyped ==
    ASSUME TypeInv, (\E k \in Key : Lapse(k)) \/ (\E w \in Worker : Crash(w))
    PROVE  TypeInv'
  <1>1. ASSUME NEW k \in Key, Lapse(k) PROVE TypeInv'
    <2>1. NoEntry \in Entry
      BY DEF NoEntry, Entry
    <2> QED  BY <1>1, <2>1 DEF Lapse, TypeInv, DupTypeOK, handlerVars, Entry
  <1>2. ASSUME NEW w \in Worker, Crash(w) PROVE TypeInv'
    BY <1>2, NoJobTyped DEF Crash, TypeInv, DupTypeOK, DupLabel, Locals, redisVars, historyVars
  <1> QED  BY <1>1, <1>2
-----------------------------------------------------------------------------
\* A set that gains at most an element, and one that loses one.
LEMMA AtMostOneMore ==
    ASSUME NEW S, IsFiniteSet(S), NEW x, NEW T, T \subseteq S \union {x}
    PROVE  /\ IsFiniteSet(T) /\ Cardinality(T) \in Nat /\ Cardinality(S) \in Nat
           /\ Cardinality(T) <= Cardinality(S) + 1
  <1>1. IsFiniteSet(S \union {x}) /\ Cardinality(S \union {x}) \in {Cardinality(S), Cardinality(S) + 1}
    BY FS_AddElement
  <1>2. IsFiniteSet(T) /\ Cardinality(T) <= Cardinality(S \union {x})
    BY <1>1, FS_Subset
  <1>3. Cardinality(S) \in Nat /\ Cardinality(T) \in Nat
    BY <1>2, FS_CardinalityType
  <1> QED  BY <1>1, <1>2, <1>3

LEMMA OneLess ==
    ASSUME NEW S, IsFiniteSet(S), NEW x \in S, NEW T, T \subseteq S \ {x}
    PROVE  /\ IsFiniteSet(T) /\ Cardinality(T) \in Nat /\ Cardinality(S) \in Nat
           /\ Cardinality(T) <= Cardinality(S) - 1
  <1>1. IsFiniteSet(S \ {x}) /\ Cardinality(S \ {x}) = Cardinality(S) - 1
    BY FS_RemoveElement
  <1>2. IsFiniteSet(T) /\ Cardinality(T) <= Cardinality(S \ {x})
    BY <1>1, FS_Subset
  <1>3. Cardinality(S) \in Nat /\ Cardinality(T) \in Nat
    BY <1>2, FS_CardinalityType
  <1> QED  BY <1>1, <1>2, <1>3

LEMMA NoMore ==
    ASSUME NEW S, IsFiniteSet(S), NEW T, T \subseteq S
    PROVE  /\ IsFiniteSet(T) /\ Cardinality(T) \in Nat /\ Cardinality(S) \in Nat
           /\ Cardinality(T) <= Cardinality(S)
  <1>1. IsFiniteSet(T) /\ Cardinality(T) <= Cardinality(S)
    BY FS_Subset
  <1> QED  BY <1>1, FS_CardinalityType

\* A step of one handler that leaves the others alone commits nobody else.
OthersKept(w) == \A v \in Worker \ {w} : pc'[v] = pc[v] /\ job'[v] = job[v]

LEMMA CommittedByOne ==
    ASSUME NEW w \in Worker, OthersKept(w), NEW k
    PROVE  /\ Committed(k)' \subseteq Committed(k) \union {w}
           /\ w \notin Committed(k)' => Committed(k)' \subseteq Committed(k) \ {w}
  BY DEF OthersKept, Committed

\* The rights of a key nothing is spent of or added to.
LEMMA RightsUnspent ==
    ASSUME TypeInv, NEW k \in Key, RightsOf(k), Committed(k)' \subseteq Committed(k),
           sessions'[k] = sessions[k], k \in ReleaseKey => (k \in live' <=> k \in live),
           entries'[k].state = entries[k].state, gaveUp'[k] = gaveUp[k], lapses'[k] = lapses[k]
    PROVE  RightsOf(k)'
  <1> DEFINE c == Cardinality(Committed(k))
             d == Cardinality(Committed(k)')
  <1>1. IsFiniteSet(Committed(k)') /\ c \in Nat /\ d \in Nat /\ d <= c
    BY NoMore DEF RightsOf
  <1>2. Processed(k)' = Processed(k) /\ Processed(k) \in Nat
    <2>1. Cardinality(sessions[k]) \in Nat
      BY FS_CardinalityType DEF RightsOf
    <2> QED  BY <2>1 DEF Processed
  <1>3. gaveUp[k] \in Nat /\ lapses[k] \in Nat
    BY DEF TypeInv, DupTypeOK
  <1>4. Processed(k) + c + (IF entries[k].state THEN 0 ELSE 1) <= 1 + gaveUp[k] + lapses[k]
    BY DEF RightsOf
  <1>5. IsFiniteSet(sessions'[k])
    BY DEF RightsOf
  <1> HIDE DEF c, d
  <1>6. Processed(k) + d + (IF entries[k].state THEN 0 ELSE 1) <= 1 + gaveUp[k] + lapses[k]
    BY <1>1, <1>2, <1>3, <1>4
  <1> QED  BY <1>1, <1>2, <1>5, <1>6 DEF RightsOf, d

\* What RightsOf says, as numbers.
LEMMA RightsNumbers ==
    ASSUME TypeInv, NEW k \in Key, RightsOf(k)
    PROVE  /\ Cardinality(sessions[k]) \in Nat /\ Cardinality(Committed(k)) \in Nat
           /\ gaveUp[k] \in Nat /\ lapses[k] \in Nat
  <1>1. IsFiniteSet(sessions[k]) /\ IsFiniteSet(Committed(k))
    BY DEF RightsOf
  <1> QED  BY <1>1, FS_CardinalityType DEF TypeInv, DupTypeOK

\* HSETNX spends what is in Redis: one delivery commits itself.
LEMMA ClaimAccounted ==
    ASSUME TypeInv, RightsAccounted, NEW w \in Worker, NEW claimed \in Key, Claim(w, claimed)
    PROVE  RightsAccounted'
  <1> SUFFICES ASSUME NEW k \in Key PROVE RightsOf(k)'
    BY DEF RightsAccounted
  <1>1. /\ UNCHANGED <<live, sessions, gaveUp, lapses>> /\ pc[w] = "idle"
        /\ \A c \in Key \ {claimed} : entries'[c] = entries[c]
        /\ entries'[claimed].state = TRUE
    BY PartsTyped DEF Claim, historyVars, Entry
  <1>2. /\ OthersKept(w) /\ pc'[w] = "arm" /\ job'[w].key = claimed
        /\ job'[w].owned = Wins(claimed)
    BY DEF Claim, Goto, OthersKept, TypeInv, DupTypeOK, NoJob
  <1>3. w \notin Committed(k)
    BY <1>1 DEF Committed
  <1>4. RightsOf(k)
    BY DEF RightsAccounted
  <1>5. CASE k # claimed
    <2>1. w \notin Committed(k)'
      BY <1>2, <1>5 DEF Committed
    <2>2. Committed(k)' \subseteq Committed(k)
      BY <1>2, <2>1, CommittedByOne
    <2> QED  BY <1>1, <1>4, <1>5, <2>2, RightsUnspent
  <1>6. CASE k = claimed /\ entries[k].state
    <2>1. w \notin Committed(k)'
      BY <1>2, <1>6 DEF Committed, Wins
    <2>2. Committed(k)' \subseteq Committed(k)
      BY <1>2, <2>1, CommittedByOne
    <2>3. entries[k].state = TRUE
      BY <1>6, PartsTyped DEF Entry
    <2> QED  BY <1>1, <1>4, <1>6, <2>2, <2>3, RightsUnspent
  <1>7. CASE k = claimed /\ ~entries[k].state
    <2> DEFINE c == Cardinality(Committed(k))
               d == Cardinality(Committed(k)')
    <2>1. IsFiniteSet(Committed(k)') /\ c \in Nat /\ d \in Nat /\ d <= c + 1
      <3>1. Committed(k)' \subseteq Committed(k) \union {w}
        BY <1>2, CommittedByOne
      <3>2. IsFiniteSet(Committed(k))
        BY <1>4 DEF RightsOf
      <3> QED  BY <3>1, <3>2, AtMostOneMore
    <2>2. Processed(k)' = Processed(k) /\ Processed(k) \in Nat
      BY <1>1, <1>4, RightsNumbers DEF Processed
    <2>3. gaveUp[k] \in Nat /\ lapses[k] \in Nat
      BY <1>4, RightsNumbers
    <2>4. Processed(k) + c + 1 <= 1 + gaveUp[k] + lapses[k] /\ IsFiniteSet(sessions[k])
      BY <1>4, <1>7 DEF RightsOf
    <2> HIDE DEF c, d
    <2>5. Processed(k) + d + 0 <= 1 + gaveUp[k] + lapses[k]
      BY <2>1, <2>2, <2>3, <2>4
    <2> QED  BY <1>1, <1>7, <2>1, <2>2, <2>4, <2>5 DEF RightsOf, d
  <1> QED  BY <1>5, <1>6, <1>7

\* A wait given up on is a right of its own.
LEMMA GiveUpAccounted ==
    ASSUME TypeInv, RightsAccounted, NEW w \in Worker, GiveUp(w)
    PROVE  RightsAccounted'
  <1> SUFFICES ASSUME NEW k \in Key PROVE RightsOf(k)'
    BY DEF RightsAccounted
  <1>1. /\ UNCHANGED <<entries, live, sessions, lapses>>
        /\ job[w].key \in Key /\ gaveUp' = [gaveUp EXCEPT ![job[w].key] = @ + 1]
        /\ OthersKept(w) /\ job' = job
    BY DEF GiveUp, redisVars, Goto, OthersKept, TypeInv, DupTypeOK
  <1>2. RightsOf(k)
    BY DEF RightsAccounted
  <1>3. CASE k # job[w].key
    <2>1. w \notin Committed(k)'
      BY <1>1, <1>3 DEF Committed
    <2>2. Committed(k)' \subseteq Committed(k)
      BY <1>1, <2>1, CommittedByOne
    <2>3. gaveUp'[k] = gaveUp[k]
      BY <1>1, <1>3 DEF TypeInv, DupTypeOK
    <2> QED  BY <1>1, <1>2, <2>2, <2>3, RightsUnspent
  <1>4. CASE k = job[w].key
    <2> DEFINE c == Cardinality(Committed(k))
               d == Cardinality(Committed(k)')
    <2>1. IsFiniteSet(Committed(k)') /\ c \in Nat /\ d \in Nat /\ d <= c + 1
      <3>1. Committed(k)' \subseteq Committed(k) \union {w}
        BY <1>1, CommittedByOne
      <3>2. IsFiniteSet(Committed(k))
        BY <1>2 DEF RightsOf
      <3> QED  BY <3>1, <3>2, AtMostOneMore
    <2>2. Processed(k)' = Processed(k) /\ Processed(k) \in Nat
      BY <1>1, <1>2, RightsNumbers DEF Processed
    <2>3. gaveUp[k] \in Nat /\ lapses[k] \in Nat /\ gaveUp'[k] = gaveUp[k] + 1
      BY <1>1, <1>4 DEF TypeInv, DupTypeOK
    <2>4. /\ Processed(k) + c + (IF entries[k].state THEN 0 ELSE 1) <= 1 + gaveUp[k] + lapses[k]
          /\ IsFiniteSet(sessions[k])
      BY <1>2 DEF RightsOf
    <2> HIDE DEF c, d
    <2>5. Processed(k) + d + (IF entries[k].state THEN 0 ELSE 1) <= 1 + (gaveUp[k] + 1) + lapses[k]
      BY <2>1, <2>2, <2>3, <2>4
    <2> QED  BY <1>1, <2>1, <2>2, <2>3, <2>4, <2>5 DEF RightsOf, d
  <1> QED  BY <1>3, <1>4

\* Processing spends the right of the handler that was committed.
LEMMA ProcessAccounted ==
    ASSUME TypeInv, RightsAccounted, NEW w \in Worker, ProcessCreate(w) \/ ProcessRelease(w)
    PROVE  RightsAccounted'
  <1> SUFFICES ASSUME NEW k \in Key PROVE RightsOf(k)'
    BY DEF RightsAccounted
  <1>1. /\ UNCHANGED <<entries, gaveUp, lapses>> /\ pc[w] = "process" /\ pc'[w] \notin {"process", "arm"}
        /\ job[w].key \in Key /\ OthersKept(w)
    BY DEF ProcessCreate, ProcessRelease, Answer, Goto, OthersKept, TypeInv, DupTypeOK
  <1>2. RightsOf(k)
    BY DEF RightsAccounted
  <1>3. w \notin Committed(k)'
    BY <1>1 DEF Committed
  <1>4. Committed(k)' \subseteq Committed(k) \ {w}
    BY <1>1, <1>3, CommittedByOne
  <1>5. CASE k # job[w].key
    <2>1. sessions'[k] = sessions[k] /\ (k \in live' <=> k \in live)
      BY <1>5 DEF ProcessCreate, ProcessRelease, TypeInv
    <2> QED  BY <1>1, <1>2, <1>4, <2>1, RightsUnspent
  <1>6. CASE k = job[w].key
    <2> DEFINE c == Cardinality(Committed(k))
               d == Cardinality(Committed(k)')
               m == Cardinality(sessions[k])
               n == Cardinality(sessions'[k])
    <2>1. w \in Committed(k)
      BY <1>1, <1>6 DEF Committed
    <2>2. IsFiniteSet(Committed(k)') /\ c \in Nat /\ d \in Nat /\ d <= c - 1
      BY <1>2, <1>4, <2>1, OneLess DEF RightsOf
    <2>3. Processed(k)' <= Processed(k) + 1 /\ Processed(k) \in Nat /\ Processed(k)' \in Nat
          /\ IsFiniteSet(sessions'[k])
      <3>1. CASE ProcessCreate(w)
        <4>1. sessions'[k] = sessions[k] \union {nextRef} /\ live' = live
          BY <1>6, <3>1 DEF ProcessCreate, TypeInv
        <4>2. IsFiniteSet(sessions'[k]) /\ m \in Nat /\ n \in Nat /\ n <= m + 1
          BY <1>2, <4>1, AtMostOneMore DEF RightsOf
        <4> QED  BY <4>1, <4>2 DEF Processed
      <3>2. CASE ProcessRelease(w)
        <4>1. sessions' = sessions /\ m \in Nat /\ IsFiniteSet(sessions[k])
          BY <1>2, <3>2, RightsNumbers DEF ProcessRelease, RightsOf
        <4> QED  BY <4>1 DEF Processed
      <3> QED  BY <3>1, <3>2
    <2>4. gaveUp[k] \in Nat /\ lapses[k] \in Nat
      BY <1>2, RightsNumbers
    <2>5. Processed(k) + c + (IF entries[k].state THEN 0 ELSE 1) <= 1 + gaveUp[k] + lapses[k]
      BY <1>2 DEF RightsOf
    <2> HIDE DEF c, d
    <2>6. Processed(k)' + d + (IF entries[k].state THEN 0 ELSE 1) <= 1 + gaveUp[k] + lapses[k]
      BY <2>2, <2>3, <2>4, <2>5
    <2> QED  BY <1>1, <2>2, <2>3, <2>6 DEF RightsOf, d
  <1> QED  BY <1>5, <1>6

\* A TTL that ran out puts the right back into Redis.
LEMMA LapseAccounted ==
    ASSUME TypeInv, RightsAccounted, NEW lapsed \in Key, Lapse(lapsed)
    PROVE  RightsAccounted'
  <1> SUFFICES ASSUME NEW k \in Key PROVE RightsOf(k)'
    BY DEF RightsAccounted
  <1>1. /\ UNCHANGED <<live, pc, job, sessions, gaveUp>>
        /\ entries' = [entries EXCEPT ![lapsed] = NoEntry]
        /\ lapses' = [lapses EXCEPT ![lapsed] = @ + 1]
    BY DEF Lapse, handlerVars
  <1>2. Committed(k)' = Committed(k)
    BY <1>1 DEF Committed
  <1>3. RightsOf(k)
    BY DEF RightsAccounted
  <1>4. CASE k # lapsed
    <2>1. entries'[k] = entries[k] /\ lapses'[k] = lapses[k]
      BY <1>1, <1>4 DEF TypeInv, DupTypeOK
    <2> QED  BY <1>1, <1>2, <1>3, <2>1, RightsUnspent
  <1>5. CASE k = lapsed
    <2>1. ~entries'[k].state /\ lapses'[k] = lapses[k] + 1
      BY <1>1, <1>5 DEF TypeInv, DupTypeOK, NoEntry
    <2>2. Processed(k)' = Processed(k) /\ Processed(k) \in Nat /\ Cardinality(Committed(k)) \in Nat
          /\ gaveUp[k] \in Nat /\ lapses[k] \in Nat
      BY <1>1, <1>3, RightsNumbers DEF Processed
    <2>3. /\ Processed(k) + Cardinality(Committed(k)) + (IF entries[k].state THEN 0 ELSE 1)
               <= 1 + gaveUp[k] + lapses[k]
          /\ IsFiniteSet(sessions[k]) /\ IsFiniteSet(Committed(k))
      BY <1>3 DEF RightsOf
    <2>4. Processed(k) + Cardinality(Committed(k)) + 1 <= 1 + gaveUp[k] + (lapses[k] + 1)
      BY <2>2, <2>3
    <2> QED  BY <1>1, <1>2, <2>1, <2>2, <2>3, <2>4 DEF RightsOf
  <1> QED  BY <1>4, <1>5

\* Every other step spends nothing: it commits nobody.
LEMMA RestAccounted ==
    ASSUME TypeInv, RightsAccounted, NEW w \in Worker,
           \/ ArmTtl(w) \/ Poll(w) \/ Replay(w) \/ RejectBody(w)
           \/ PublishLocation(w) \/ PublishStatus(w) \/ Crash(w)
    PROVE  RightsAccounted'
  <1> SUFFICES ASSUME NEW k \in Key PROVE RightsOf(k)'
    BY DEF RightsAccounted
  <1>1. UNCHANGED <<live, sessions, gaveUp, lapses>> /\ OthersKept(w)
    BY DEF ArmTtl, Poll, Replay, RejectBody, PublishLocation, PublishStatus, Crash, redisVars,
           historyVars, Goto, Answer, OthersKept, TypeInv, DupTypeOK
  <1>2. entries'[k].state = entries[k].state
    BY PartsTyped DEF ArmTtl, Poll, Replay, RejectBody, PublishLocation, PublishStatus, Crash,
                      redisVars, Entry
  <1>3. Committed(k)' \subseteq Committed(k)
    <2>1. CASE ArmTtl(w)
      <3>1. pc[w] = "arm" /\ job' = job /\ pc'[w] = AfterClaim(w)
        BY <2>1 DEF ArmTtl, Goto, TypeInv, DupTypeOK
      <3> QED  BY <1>1, <3>1 DEF Committed, AfterClaim, OthersKept
    <2>2. CASE ~ArmTtl(w)
      <3>1. pc'[w] \notin {"process", "arm"}
        BY <2>2 DEF Poll, Replay, RejectBody, PublishLocation, PublishStatus, Crash, Goto,
                    Answer, TypeInv, DupTypeOK
      <3>2. w \notin Committed(k)'
        BY <3>1 DEF Committed
      <3> QED  BY <1>1, <3>2, CommittedByOne
    <2> QED  BY <2>1, <2>2
  <1>4. RightsOf(k)
    BY DEF RightsAccounted
  <1> QED  BY <1>1, <1>2, <1>3, <1>4, RightsUnspent
-----------------------------------------------------------------------------
\* The answers of a handler that answers; the others keep theirs.
LEMMA AnswerKept ==
    ASSUME TypeInv, NEW w \in Worker, NEW status, NEW location, Answer(w, status, location),
           pc[w] # "idle"
    PROVE  /\ \A k \in Key : answers'[k] \subseteq
                 answers[k] \union (IF k = job[w].key THEN {<<status, location>>} ELSE {})
           /\ pc'[w] = "idle" /\ OthersKept(w)
  BY DEF Answer, TypeInv, DupTypeOK, OthersKept

\* A step that leaves Redis and the sessions alone and answers no 201 keeps the
\* Locations, when its handler holds none it may not hold.
LEMMA LocationsUntouched ==
    ASSUME TypeInv, LocationsHeld, NEW w \in Worker, OthersKept(w),
           \A k \in Key : /\ entries'[k].status = entries[k].status
                          /\ entries'[k].location = entries[k].location
                          /\ sessions[k] \subseteq sessions'[k]
                          /\ \A answer \in answers'[k] :
                                answer[1] = 201 => answer \in answers[k] \/ answer[2] \in sessions[k],
           pc'[w] # "publishLocation", pc'[w] = "publishStatus" => job'[w].status # 201,
           pc'[w] = "replay" => /\ job'[w].key \in Key
                                /\ job'[w].status = entries[job'[w].key].status
    PROVE  LocationsHeld'
  <1>1. ASSUME NEW k \in Key PROVE entries'[k].status = 201 => entries'[k].location \in sessions'[k]
    BY DEF LocationsHeld
  <1>2. ASSUME NEW v \in Worker
        PROVE  /\ pc'[v] = "publishLocation" => job'[v].status = 201
               /\ pc'[v] \in {"publishLocation", "publishStatus"} /\ job'[v].status = 201
                     => job'[v].location \in sessions'[job'[v].key]
               /\ pc'[v] \in {"publishStatus", "replay"} /\ job'[v].status = 201
                     => entries'[job'[v].key].location \in sessions'[job'[v].key]
    <2>1. CASE v = w
      BY <2>1 DEF LocationsHeld
    <2>2. CASE v # w
      <3>1. pc'[v] = pc[v] /\ job'[v] = job[v] /\ (pc[v] # "idle" => job[v].key \in Key)
        BY <2>2 DEF OthersKept, TypeInv
      <3> QED  BY <3>1 DEF LocationsHeld
    <2> QED  BY <2>1, <2>2
  <1>3. RepliesNameASession'
    BY DEF LocationsHeld, RepliesNameASession
  <1> QED  BY <1>1, <1>2, <1>3 DEF LocationsHeld

LEMMA ReadersKeepLocations ==
    ASSUME TypeInv, LocationsHeld, NEW w \in Worker,
           \/ \E k \in Key : Claim(w, k)
           \/ ArmTtl(w) \/ Poll(w) \/ Replay(w) \/ GiveUp(w) \/ RejectBody(w) \/ Crash(w)
    PROVE  LocationsHeld'
  <1>1. ASSUME NEW k \in Key, Claim(w, k) PROVE LocationsHeld'
    <2>1. /\ OthersKept(w) /\ pc'[w] = "arm" /\ UNCHANGED <<sessions, answers>>
          /\ entries' = [entries EXCEPT ![k].state = TRUE]
      <3>1. /\ UNCHANGED <<sessions, answers>> /\ entries' = [entries EXCEPT ![k].state = TRUE]
            /\ pc' = [pc EXCEPT ![w] = "arm"]
        BY <1>1 DEF Claim, Goto, historyVars
      <3>2. \A v \in Worker \ {w} : job'[v] = job[v]
        BY <1>1, PartsTyped DEF Claim
      <3> QED  BY <3>1, <3>2 DEF OthersKept, TypeInv, DupTypeOK
    <2>2. \A c \in Key : entries'[c].status = entries[c].status /\ entries'[c].location = entries[c].location
      BY <2>1, PartsTyped DEF Entry
    <2> QED  BY <2>1, <2>2, LocationsUntouched
  <1>2. CASE ArmTtl(w)
    <2>1. /\ OthersKept(w) /\ pc'[w] \in {"process", "await"} /\ UNCHANGED <<sessions, answers>>
          /\ entries' = [entries EXCEPT ![job[w].key].ttl = entries[job[w].key].state]
      BY <1>2 DEF ArmTtl, AfterClaim, Goto, OthersKept, TypeInv, DupTypeOK, historyVars
    <2>2. \A c \in Key : entries'[c].status = entries[c].status /\ entries'[c].location = entries[c].location
      BY <2>1, PartsTyped DEF Entry
    <2> QED  BY <2>1, <2>2, LocationsUntouched
  <1>3. CASE Poll(w)
    <2> DEFINE k == job[w].key
    <2>1. OthersKept(w) /\ UNCHANGED <<entries, sessions, answers>> /\ k \in Key
      BY <1>3 DEF Poll, Goto, OthersKept, TypeInv, DupTypeOK, redisVars, historyVars
    <2>2. /\ pc'[w] \in {"replay", "await"} /\ job'[w].key = k
          /\ pc'[w] = "replay" => job'[w].status = entries[k].status
      BY <1>3, PartsTyped DEF Poll, Goto, TypeInv, DupTypeOK, Locals
    <2> QED  BY <2>1, <2>2, LocationsUntouched
  <1>4. CASE Replay(w)
    <2> DEFINE k == job[w].key
    <2>1. UNCHANGED <<entries, sessions>> /\ k \in Key /\ pc[w] = "replay"
      BY <1>4 DEF Replay, TypeInv, redisVars
    <2>2. /\ \A c \in Key : answers'[c] \subseteq
                answers[c] \union (IF c = k THEN {<<job[w].status, entries[k].location>>} ELSE {})
          /\ pc'[w] = "idle" /\ OthersKept(w)
      BY <1>4, <2>1, AnswerKept DEF Replay
    <2>3. job[w].status = 201 => entries[k].location \in sessions[k]
      BY <2>1 DEF LocationsHeld
    <2>4. \A c \in Key : \A answer \in answers'[c] :
             answer[1] = 201 => answer \in answers[c] \/ answer[2] \in sessions[c]
      BY <2>2, <2>3
    <2> QED  BY <2>1, <2>2, <2>4, LocationsUntouched
  <1>5. CASE GiveUp(w)
    <2>1. OthersKept(w) /\ pc'[w] = "process" /\ UNCHANGED <<entries, sessions, answers>>
      BY <1>5 DEF GiveUp, Goto, OthersKept, TypeInv, DupTypeOK, redisVars
    <2> QED  BY <2>1, LocationsUntouched
  <1>6. CASE RejectBody(w)
    <2>1. UNCHANGED <<entries, sessions>> /\ pc[w] # "idle"
      BY <1>6 DEF RejectBody, redisVars
    <2>2. /\ \A c \in Key : answers'[c] \subseteq answers[c] \union {<<400, 0>>}
          /\ pc'[w] = "idle" /\ OthersKept(w)
      BY <1>6, <2>1, AnswerKept DEF RejectBody
    <2> QED  BY <2>1, <2>2, LocationsUntouched
  <1>7. CASE Crash(w)
    <2>1. OthersKept(w) /\ pc'[w] = "idle" /\ UNCHANGED <<entries, sessions, answers>>
      BY <1>7 DEF Crash, OthersKept, TypeInv, DupTypeOK, redisVars, historyVars
    <2> QED  BY <2>1, LocationsUntouched
  <1> QED  BY <1>1, <1>2, <1>3, <1>4, <1>5, <1>6, <1>7
LEMMA ProcessKeepsLocations ==
    ASSUME TypeInv, LocationsHeld, NEW w \in Worker, ProcessCreate(w) \/ ProcessRelease(w)
    PROVE  LocationsHeld'
  <1> DEFINE k == job[w].key
  <1>1. k \in Key /\ pc[w] = "process" /\ UNCHANGED entries
    BY DEF ProcessCreate, ProcessRelease, TypeInv
  <1>2. CASE ProcessCreate(w)
    <2>1. /\ OthersKept(w) /\ pc'[w] = "publishLocation" /\ answers' = answers
          /\ sessions' = [sessions EXCEPT ![k] = @ \union {nextRef}]
          /\ job'[w].key = k /\ job'[w].status = 201 /\ job'[w].location = nextRef
      BY <1>2, PartsTyped DEF ProcessCreate, Goto, OthersKept, TypeInv, DupTypeOK, Locals
    <2>2. nextRef \in sessions'[k] /\ \A c \in Key : sessions[c] \subseteq sessions'[c]
      BY <1>1, <2>1 DEF TypeInv
    <2>3. ASSUME NEW v \in Worker
          PROVE  /\ pc'[v] = "publishLocation" => job'[v].status = 201
                 /\ pc'[v] \in {"publishLocation", "publishStatus"} /\ job'[v].status = 201
                       => job'[v].location \in sessions'[job'[v].key]
                 /\ pc'[v] \in {"publishStatus", "replay"} /\ job'[v].status = 201
                       => entries'[job'[v].key].location \in sessions'[job'[v].key]
      <3>1. CASE v = w
        BY <2>1, <2>2, <3>1
      <3>2. CASE v # w
        <4>1. pc'[v] = pc[v] /\ job'[v] = job[v] /\ (pc[v] # "idle" => job[v].key \in Key)
          BY <2>1, <3>2 DEF OthersKept, TypeInv
        <4> QED  BY <1>1, <2>2, <4>1 DEF LocationsHeld
      <3> QED  BY <3>1, <3>2
    <2>4. RepliesNameASession' /\ \A c \in Key : entries'[c].status = 201
                                                   => entries'[c].location \in sessions'[c]
      BY <1>1, <2>1, <2>2 DEF LocationsHeld, RepliesNameASession
    <2> QED  BY <2>3, <2>4 DEF LocationsHeld
  <1>3. CASE ProcessRelease(w)
    <2>1. UNCHANGED sessions
      BY <1>3 DEF ProcessRelease
    <2>2. CASE job' = [job EXCEPT ![w].status = 204] /\ Goto(w, "publishStatus") /\ answers' = answers
      <3>1. OthersKept(w) /\ pc'[w] = "publishStatus" /\ job'[w].status = 204
        BY <2>2, PartsTyped DEF Goto, OthersKept, TypeInv, DupTypeOK, Locals
      <3> QED  BY <1>1, <2>1, <2>2, <3>1, LocationsUntouched
    <2>3. CASE Answer(w, 404, 0)
      <3>1. /\ \A c \in Key : answers'[c] \subseteq answers[c] \union {<<404, 0>>}
            /\ pc'[w] = "idle" /\ OthersKept(w)
        BY <1>1, <2>3, AnswerKept
      <3> QED  BY <1>1, <2>1, <3>1, LocationsUntouched
    <2> QED  BY <1>3, <2>2, <2>3 DEF ProcessRelease
  <1> QED  BY <1>2, <1>3

LEMMA PublishKeepsLocations ==
    ASSUME TypeInv, LocationsHeld, NEW w \in Worker, PublishLocation(w) \/ PublishStatus(w)
    PROVE  LocationsHeld'
  <1> DEFINE k == job[w].key
  <1>1. k \in Key /\ UNCHANGED sessions /\ OthersKept(w) /\ pc[w] # "idle"
    BY DEF PublishLocation, PublishStatus, Answer, Goto, OthersKept, historyVars, TypeInv, DupTypeOK
  <1>2. \A c \in Key \ {k} : entries'[c] = entries[c]
    BY <1>1 DEF PublishLocation, PublishStatus, TypeInv, DupTypeOK
  <1>3. /\ pc'[w] # "publishLocation"
        /\ pc'[w] \in {"publishStatus", "replay"} /\ job'[w].status = 201
              => /\ job'[w].location \in sessions[job'[w].key] /\ job'[w].key = k
                 /\ entries'[k].location = job'[w].location
    <2>1. CASE PublishLocation(w)
      <3>1. /\ entries' = [entries EXCEPT ![k].location = job[w].location] /\ job' = job
            /\ pc[w] = "publishLocation" /\ pc'[w] = "publishStatus"
        BY <2>1 DEF PublishLocation, Goto, TypeInv, DupTypeOK
      <3>2. entries'[k].location = job[w].location
        BY <1>1, <3>1, PartsTyped DEF Entry
      <3> QED  BY <3>1, <3>2 DEF LocationsHeld
    <2>2. CASE PublishStatus(w)
      BY <2>2 DEF PublishStatus, Answer, TypeInv, DupTypeOK
    <2> QED  BY <2>1, <2>2
  <1>4. \/ /\ entries'[k].location = entries[k].location
           /\ entries'[k].status = 201 => entries[k].location \in sessions[k]
        \/ entries'[k].location \in sessions[k]
    <2>1. CASE PublishLocation(w)
      <3>1. entries' = [entries EXCEPT ![k].location = job[w].location] /\ pc[w] = "publishLocation"
        BY <2>1 DEF PublishLocation
      <3>2. entries'[k].location = job[w].location
        BY <1>1, <3>1, PartsTyped DEF Entry
      <3> QED  BY <3>1, <3>2 DEF LocationsHeld
    <2>2. CASE PublishStatus(w)
      <3>1. /\ entries' = [entries EXCEPT ![k].status = job[w].status, ![k].ttl = TRUE]
            /\ pc[w] = "publishStatus"
        BY <2>2 DEF PublishStatus
      <3>2. entries'[k].location = entries[k].location /\ entries'[k].status = job[w].status
        BY <1>1, <3>1, PartsTyped DEF Entry
      <3> QED  BY <3>1, <3>2 DEF LocationsHeld
    <2> QED  BY <2>1, <2>2
  <1>5. ASSUME NEW c \in Key PROVE entries'[c].status = 201 => entries'[c].location \in sessions'[c]
    <2>1. CASE c = k
      BY <1>1, <1>4, <2>1
    <2>2. CASE c # k
      BY <1>1, <1>2, <2>2 DEF LocationsHeld
    <2> QED  BY <2>1, <2>2
  <1>6. ASSUME NEW v \in Worker
        PROVE  /\ pc'[v] = "publishLocation" => job'[v].status = 201
               /\ pc'[v] \in {"publishLocation", "publishStatus"} /\ job'[v].status = 201
                     => job'[v].location \in sessions'[job'[v].key]
               /\ pc'[v] \in {"publishStatus", "replay"} /\ job'[v].status = 201
                     => entries'[job'[v].key].location \in sessions'[job'[v].key]
    <2>1. CASE v = w
      BY <1>1, <1>3, <2>1
    <2>2. CASE v # w
      <3>1. pc'[v] = pc[v] /\ job'[v] = job[v] /\ (pc[v] # "idle" => job[v].key \in Key)
        BY <1>1, <2>2 DEF OthersKept, TypeInv
      <3>2. CASE pc[v] \in {"publishStatus", "replay"} /\ job[v].status = 201
        <4>1. entries[job[v].key].location \in sessions[job[v].key]
          BY <3>2 DEF LocationsHeld
        <4>2. entries'[job[v].key].location \in sessions[job[v].key]
          <5>1. CASE job[v].key = k
            BY <1>4, <4>1, <5>1
          <5>2. CASE job[v].key # k
            BY <1>2, <3>1, <3>2, <4>1, <5>2
          <5> QED  BY <5>1, <5>2
        <4> QED  BY <1>1, <3>1, <3>2, <4>2 DEF LocationsHeld
      <3>3. CASE ~(pc[v] \in {"publishStatus", "replay"} /\ job[v].status = 201)
        BY <1>1, <3>1, <3>3 DEF LocationsHeld
      <3> QED  BY <3>2, <3>3
    <2> QED  BY <2>1, <2>2
  <1>7. RepliesNameASession'
    <2>1. CASE PublishLocation(w)
      BY <1>1, <2>1 DEF PublishLocation, historyVars, LocationsHeld, RepliesNameASession
    <2>2. CASE PublishStatus(w)
      <3>1. \A c \in Key : answers'[c] \subseteq
               answers[c] \union (IF c = k THEN {<<job[w].status, job[w].location>>} ELSE {})
        BY <1>1, <2>2, AnswerKept DEF PublishStatus
      <3>2. job[w].status = 201 => job[w].location \in sessions[k]
        BY <2>2 DEF PublishStatus, LocationsHeld
      <3> QED  BY <1>1, <3>1, <3>2 DEF LocationsHeld, RepliesNameASession
    <2> QED  BY <2>1, <2>2
  <1> QED  BY <1>5, <1>6, <1>7 DEF LocationsHeld

\* An entry expires under no handler that has read its status.
LEMMA LapseKeepsLocations ==
    ASSUME TypeInv, LocationsHeld, NEW k \in Key, Lapse(k)
    PROVE  LocationsHeld'
  <1>1. /\ UNCHANGED <<pc, job, sessions, answers>>
        /\ entries' = [entries EXCEPT ![k] = NoEntry]
        /\ \A w \in Worker : job[w].key = k => pc[w] = "arm"
    BY DEF Lapse, handlerVars
  <1>2. entries'[k].status = 0 /\ \A c \in Key \ {k} : entries'[c] = entries[c]
    BY <1>1 DEF TypeInv, DupTypeOK, NoEntry
  <1>3. ASSUME NEW w \in Worker, pc[w] \in {"publishStatus", "replay"}, job[w].status = 201
        PROVE  entries'[job[w].key].location \in sessions[job[w].key]
    <2>1. job[w].key \in Key \ {k}
      BY <1>1, <1>3 DEF TypeInv
    <2> QED  BY <1>2, <1>3, <2>1 DEF LocationsHeld
  <1>4. \A c \in Key : entries'[c].status = 201 => entries'[c].location \in sessions[c]
    BY <1>2 DEF LocationsHeld
  <1>5. RepliesNameASession'
    BY <1>1 DEF LocationsHeld, RepliesNameASession
  <1> QED  BY <1>1, <1>3, <1>4, <1>5 DEF LocationsHeld

-----------------------------------------------------------------------------
\* A Release that finds its session gone finds it gone because a right beyond the
\* first was spent on it.
LEMMA ReplayedStep ==
    ASSUME TypeInv, RightsAccounted, LocationsHeld, ReleaseReplayed, DupNext
    PROVE  ReleaseReplayed'
  <1> SUFFICES ASSUME NEW k \in ReleaseKey, NEW answer \in answers'[k], answer[1] = 404
               PROVE  gaveUp'[k] + lapses'[k] > 0
    BY DEF ReleaseReplayed
  <1>1. k \in Key /\ gaveUp[k] \in Nat /\ lapses[k] \in Nat
    BY DetectionAssumption DEF TypeInv, DupTypeOK
  <1>2. /\ gaveUp'[k] \in Nat /\ lapses'[k] \in Nat
        /\ gaveUp'[k] >= gaveUp[k] /\ lapses'[k] >= lapses[k]
    <2>1. ASSUME NEW w \in Worker, GiveUp(w)
          PROVE  lapses' = lapses /\ \E c \in Key : gaveUp' = [gaveUp EXCEPT ![c] = @ + 1]
      <3>1. job[w].key \in Key
        BY <2>1 DEF GiveUp, TypeInv
      <3>2. gaveUp' = [gaveUp EXCEPT ![job[w].key] = @ + 1] /\ lapses' = lapses
        BY <2>1 DEF GiveUp
      <3> QED  BY ONLY <3>1, <3>2, Zenon
    <2>2. ASSUME NEW c \in Key, Lapse(c)
          PROVE  gaveUp' = gaveUp /\ lapses' = [lapses EXCEPT ![c] = @ + 1]
      BY <2>2 DEF Lapse
    <2>3. ASSUME NEW w \in Worker,
                 \/ \E c \in Key : Claim(w, c)
                 \/ ArmTtl(w) \/ Poll(w) \/ Replay(w) \/ RejectBody(w) \/ ProcessCreate(w)
                 \/ ProcessRelease(w) \/ PublishLocation(w) \/ PublishStatus(w) \/ Crash(w)
          PROVE  gaveUp' = gaveUp /\ lapses' = lapses
      BY <2>3 DEF Claim, ArmTtl, Poll, Replay, RejectBody, ProcessCreate, ProcessRelease,
                  PublishLocation, PublishStatus, Crash, historyVars
    <2>4. /\ gaveUp' = gaveUp \/ \E c \in Key : gaveUp' = [gaveUp EXCEPT ![c] = @ + 1]
          /\ lapses' = lapses \/ \E c \in Key : lapses' = [lapses EXCEPT ![c] = @ + 1]
      BY <2>1, <2>2, <2>3 DEF DupNext, HandlerStep
    <2> QED  BY <1>1, <2>4 DEF TypeInv, DupTypeOK
  <1>3. CASE answer \in answers[k]
    BY <1>1, <1>2, <1>3 DEF ReleaseReplayed
  <1>4. CASE answer \notin answers[k]
    <2>1. PICK w \in Worker : ProcessRelease(w) /\ k \notin live /\ k = job[w].key
      <3>1. PICK w \in Worker : Replay(w) \/ RejectBody(w) \/ ProcessRelease(w) \/ PublishStatus(w)
        <4>1. \/ \E w \in Worker : Replay(w) \/ RejectBody(w) \/ ProcessRelease(w) \/ PublishStatus(w)
              \/ \E w \in Worker, c \in Key : Claim(w, c)
              \/ \E w \in Worker : \/ ArmTtl(w) \/ Poll(w) \/ GiveUp(w) \/ ProcessCreate(w)
                                     \/ PublishLocation(w) \/ Crash(w)
              \/ \E c \in Key : Lapse(c)
          BY DEF DupNext, HandlerStep
        <4>2. answers' # answers
          BY <1>4
        <4>3. ASSUME NEW w \in Worker,
                     \/ \E c \in Key : Claim(w, c)
                     \/ ArmTtl(w) \/ Poll(w) \/ GiveUp(w) \/ ProcessCreate(w)
                     \/ PublishLocation(w) \/ Crash(w)
              PROVE  answers' = answers
          BY <4>3 DEF Claim, ArmTtl, Poll, GiveUp, ProcessCreate, PublishLocation, Crash,
                      historyVars
        <4>4. ASSUME NEW c \in Key, Lapse(c) PROVE answers' = answers
          BY <4>4 DEF Lapse
        <4> QED  BY <4>1, <4>2, <4>3, <4>4
      <3>2. CASE Replay(w)
        <4>1. answers'[k] \subseteq answers[k] \union
                {<<job[w].status, entries[job[w].key].location>>}
          BY <1>1, <3>2, AnswerKept DEF Replay
        <4> QED  BY <1>4, <4>1, PartsTyped DEF Locals
      <3>3. CASE RejectBody(w)
        <4>1. answers'[k] \subseteq answers[k] \union {<<400, 0>>}
          BY <1>1, <3>3, AnswerKept DEF RejectBody
        <4> QED  BY <1>4, <4>1
      <3>4. CASE PublishStatus(w)
        <4>1. answers'[k] \subseteq answers[k] \union {<<job[w].status, job[w].location>>}
          BY <1>1, <3>4, AnswerKept DEF PublishStatus
        <4> QED  BY <1>4, <4>1, PartsTyped DEF Locals
      <3>5. CASE ProcessRelease(w)
        <4>1. Answer(w, 404, 0) /\ job[w].key \notin live
          BY <1>4, <3>5 DEF ProcessRelease
        <4>2. answers'[k] \subseteq
                answers[k] \union (IF k = job[w].key THEN {<<404, 0>>} ELSE {})
          BY <1>1, <3>5, <4>1, AnswerKept DEF ProcessRelease
        <4> QED  BY <1>4, <3>5, <4>1, <4>2
      <3> QED  BY <3>1, <3>2, <3>3, <3>4, <3>5
    <2>2. RightsOf(k) /\ Cardinality(sessions[k]) \in Nat
      BY <1>1, RightsNumbers DEF RightsAccounted
    <2>3. w \in Committed(k)
      BY <2>1 DEF Committed, ProcessRelease
    <2>4. Cardinality(Committed(k)) \in Nat /\ Cardinality(Committed(k)) >= 1
      <3>1. IsFiniteSet(Committed(k)) /\ {} \subseteq Committed(k) \ {w}
        BY <2>2 DEF RightsOf
      <3>2. Cardinality(Committed(k)) \in Nat /\ Cardinality(Committed(k)) # 0
        BY <2>3, <3>1, FS_EmptySet, FS_CardinalityType
      <3> QED  BY <3>2
    <2>5. Processed(k) >= 1 /\ Processed(k) \in Nat
      BY <2>1, <2>2 DEF Processed
    <2>6. Processed(k) + Cardinality(Committed(k)) + (IF entries[k].state THEN 0 ELSE 1)
             <= 1 + gaveUp[k] + lapses[k]
      BY <2>2 DEF RightsOf
    <2>7. gaveUp[k] + lapses[k] >= 1
      BY <1>1, <2>4, <2>5, <2>6
    <2> QED  BY <1>1, <1>2, <2>7
  <1> QED  BY <1>3, <1>4

\* The inductive step.
LEMMA DupStep == DuplicateInv /\ [DupNext]_dupVars => DuplicateInv'
  <1> SUFFICES ASSUME DuplicateInv, [DupNext]_dupVars PROVE DuplicateInv'
    OBVIOUS
  <1>0. TypeInv /\ RightsAccounted /\ LocationsHeld /\ ReleaseReplayed
    BY DEF DuplicateInv
  <1>1. ASSUME DupNext PROVE DuplicateInv'
    <2>1. TypeInv' /\ RightsAccounted' /\ LocationsHeld'
      <3>1. ASSUME NEW w \in Worker, NEW k \in Key, Claim(w, k)
            PROVE  TypeInv' /\ RightsAccounted' /\ LocationsHeld'
        BY <1>0, <3>1, StoreStepTyped, ClaimAccounted, ReadersKeepLocations
      <3>2. ASSUME NEW w \in Worker, HandlerStep(w) PROVE TypeInv'
        BY <1>0, <3>2, StoreStepTyped, WaitTyped, ProcessTyped DEF HandlerStep
      <3>3. ASSUME NEW w \in Worker, HandlerStep(w) PROVE RightsAccounted'
        BY <1>0, <3>3, RestAccounted, GiveUpAccounted, ProcessAccounted DEF HandlerStep
      <3>4. ASSUME NEW w \in Worker, HandlerStep(w) PROVE LocationsHeld'
        BY <1>0, <3>4, ReadersKeepLocations, ProcessKeepsLocations, PublishKeepsLocations
           DEF HandlerStep
      <3>5. ASSUME NEW w \in Worker, Crash(w) PROVE TypeInv' /\ RightsAccounted' /\ LocationsHeld'
        BY <1>0, <3>5, MishapTyped, RestAccounted, ReadersKeepLocations
      <3>6. ASSUME NEW k \in Key, Lapse(k) PROVE TypeInv' /\ RightsAccounted' /\ LocationsHeld'
        BY <1>0, <3>6, MishapTyped, LapseAccounted, LapseKeepsLocations
      <3> QED  BY <1>1, <3>1, <3>2, <3>3, <3>4, <3>5, <3>6 DEF DupNext
    <2>2. ReleaseReplayed'
      BY <1>0, <1>1, ReplayedStep
    <2> QED  BY <2>1, <2>2 DEF DuplicateInv
  <1>2. CASE UNCHANGED dupVars
    <2>1. UNCHANGED <<entries, nextRef, live, pc, job, deliveries, crashes, sessions, answers,
                      gaveUp, lapses>>
      BY <1>2 DEF dupVars, redisVars, handlerVars, historyVars
    <2>2. \A k : Committed(k)' = Committed(k) /\ Processed(k)' = Processed(k)
      BY <2>1 DEF Committed, Processed
    <2>3. TypeInv' /\ ReleaseReplayed'
      BY <1>0, <2>1 DEF TypeInv, DupTypeOK, ReleaseReplayed
    <2>4. RightsAccounted'
      BY <1>0, <2>1, <2>2 DEF RightsAccounted, RightsOf
    <2>5. LocationsHeld'
      BY <1>0, <2>1 DEF LocationsHeld, RepliesNameASession
    <2> QED  BY <2>3, <2>4, <2>5 DEF DuplicateInv
  <1> QED  BY <1>1, <1>2

-----------------------------------------------------------------------------
\* The inductive invariant of the detection of duplicates, for any number of
\* requests, handlers, deliveries, expiries and deaths.
THEOREM DetectionKeepsOrder == DupSpec => []DuplicateInv
  BY DupStarts, DupStep, PTL DEF DupSpec

\* However its deliveries race, a request is processed once, and once more for every
\* wait given up on and every TTL that ran out.
THEOREM ExtraSessionsAccountedForHolds == DupSpec => []ExtraSessionsAccountedFor
  <1>1. DuplicateInv => ExtraSessionsAccountedFor
    <2> SUFFICES ASSUME DuplicateInv, NEW k \in Key
                 PROVE  Cardinality(sessions[k]) <= 1 + gaveUp[k] + lapses[k]
      BY DEF ExtraSessionsAccountedFor
    <2>1. TypeInv /\ RightsOf(k)
      BY DEF DuplicateInv, RightsAccounted
    <2>2. /\ Cardinality(sessions[k]) \in Nat /\ Cardinality(Committed(k)) \in Nat
          /\ gaveUp[k] \in Nat /\ lapses[k] \in Nat
      BY <2>1, RightsNumbers
    <2>3. Processed(k) + Cardinality(Committed(k)) + (IF entries[k].state THEN 0 ELSE 1)
             <= 1 + gaveUp[k] + lapses[k]
      BY <2>1 DEF RightsOf
    <2> QED  BY <2>2, <2>3 DEF Processed
  <1> QED  BY <1>1, DetectionKeepsOrder, PTL

\* Whoever is told 201 is told a session of the same request, also by a replay that
\* read the status before and the Location after another handler wrote them.
THEOREM RepliesNameASessionHolds == DupSpec => []RepliesNameASession
  <1>1. DuplicateInv => RepliesNameASession
    BY DEF DuplicateInv, LocationsHeld
  <1> QED  BY <1>1, DetectionKeepsOrder, PTL

\* A Release is answered 404 only when a wait was given up on or a TTL ran out,
\* never because its retransmissions raced.
THEOREM ReleaseReplayedHolds == DupSpec => []ReleaseReplayed
  <1>1. DuplicateInv => ReleaseReplayed
    BY DEF DuplicateInv
  <1> QED  BY <1>1, DetectionKeepsOrder, PTL
=============================================================================
