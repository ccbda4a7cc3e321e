------------------------- MODULE DuplicateDetection -------------------------
(***************************************************************************)
(* Detection of duplicated request messages (TS 29.500 clause 5.2.8) in    *)
(* front of the Create and Release handlers of the charging function:      *)
(* chf::IdempotencyStore in Redis, and the prologue and epilogue of the    *)
(* handlers that use it.                                                   *)
(*                                                                         *)
(* A key stands for one request of a client, delivered any number of times *)
(* to any thread of any instance.  Every Redis command is a step.  What    *)
(* the handler does in between is one step here (ConvergedCharging has its *)
(* parts): a Create allocates a ref, a Release takes its session out of    *)
(* the active set or finds it gone.                                        *)
(*                                                                         *)
(* The TTL is an hour and a handler lasts seconds (config/chf.json), so an *)
(* entry never lapses while a handler that has armed its TTL is running.   *)
(***************************************************************************)
EXTENDS Integers, FiniteSets

CONSTANTS
    Key,           \* idempotency keys, one per request
    ReleaseKey,    \* those that are Releases, each of a session of its own
    MalformedKey,  \* those whose body does not parse
    Worker,        \* handlers that can be in progress at once
    MaxPolls,      \* idempotency_wait_max_ms / idempotency_wait_poll_ms
    MaxDeliveries, \* bound of the model: deliveries of all requests
    MaxLapses,     \* bound of the model: TTL expiries
    MaxCrashes     \* bound of the model: handlers that die

ASSUME DetectionAssumption ==
    /\ ReleaseKey \subseteq Key /\ MalformedKey \subseteq Key
    /\ MaxPolls \in Nat \ {0}
    /\ MaxDeliveries \in Nat /\ MaxLapses \in Nat /\ MaxCrashes \in Nat

VARIABLES
    entries,    \* chf:idem:{key}: the hash, and whether a TTL is set on it
    nextRef,    \* chf:cdr:next_id
    live,       \* the Releases whose session is in chf:cdr:active
    pc, job,    \* the handlers in progress and their locals
    deliveries, \* deliveries so far
    crashes,    \* handlers that died
    sessions,   \* history: refs created for a key
    answers,    \* history: answers given for a key
    gaveUp,     \* history: waits that ended without an answer, per key
    lapses      \* history: expiries per key

redisVars == <<entries, nextRef, live>>
handlerVars == <<pc, job>>
historyVars == <<sessions, answers, gaveUp, lapses>>
dupVars == <<redisVars, handlerVars, deliveries, crashes, historyVars>>

NoEntry == [state |-> FALSE, location |-> 0, status |-> 0, ttl |-> FALSE]
NoJob == [key |-> "none", owned |-> FALSE, polls |-> 0, status |-> 0, location |-> 0]

DupInit ==
    /\ entries = [k \in Key |-> NoEntry]
    /\ nextRef = 1
    /\ live = ReleaseKey
    /\ pc = [w \in Worker |-> "idle"]
    /\ job = [w \in Worker |-> NoJob]
    /\ deliveries = 0
    /\ crashes = 0
    /\ sessions = [k \in Key |-> {}]
    /\ answers = [k \in Key |-> {}]
    /\ gaveUp = [k \in Key |-> 0]
    /\ lapses = [k \in Key |-> 0]

Goto(w, label) == pc' = [pc EXCEPT ![w] = label]

Answer(w, status, location) ==
    /\ answers' = [answers EXCEPT ![job[w].key] = @ \union {<<status, location>>}]
    /\ pc' = [pc EXCEPT ![w] = "idle"]
    /\ job' = [job EXCEPT ![w] = NoJob]

-----------------------------------------------------------------------------
\* Mutant of Wins: HSET instead of HSETNX.
WinsAlways(k) == TRUE

\* HSETNX created the field.
Wins(k) == ~entries[k].state

\* IdempotencyStore::claim, HSETNX state pending: one of all the deliveries owns.
Claim(w, k) ==
    /\ pc[w] = "idle"
    /\ deliveries < MaxDeliveries
    /\ deliveries' = deliveries + 1
    /\ entries' = [entries EXCEPT ![k].state = TRUE]
    /\ job' = [job EXCEPT ![w] = [NoJob EXCEPT !.key = k, !.owned = Wins(k)]]
    /\ Goto(w, "arm")
    /\ UNCHANGED <<nextRef, live, crashes, historyVars>>

\* Mutant of AfterClaim: the Claim is not compared with Duplicate.
ProcessAnyway(w) == "process"

\* The handlers' prologue: only a Duplicate waits.
AfterClaim(w) == IF job[w].owned THEN "process" ELSE "await"

\* IdempotencyStore::claim, EXPIRE: nothing happens to a key that is gone.
ArmTtl(w) ==
    LET k == job[w].key IN
    /\ pc[w] = "arm"
    /\ entries' = [entries EXCEPT ![k].ttl = entries[k].state]
    /\ Goto(w, AfterClaim(w))
    /\ UNCHANGED <<nextRef, live, job, deliveries, crashes, historyVars>>

\* waited < max_wait_ms
MayPoll(w) == job[w].polls < MaxPolls

\* await_response: HGET status; without one, sleep and try again.
Poll(w) ==
    LET entry == entries[job[w].key] IN
    /\ pc[w] = "await"
    /\ MayPoll(w)
    /\ IF entry.status # 0
       THEN /\ job' = [job EXCEPT ![w].status = entry.status]
            /\ Goto(w, "replay")
       ELSE /\ job' = [job EXCEPT ![w].polls = @ + 1]
            /\ UNCHANGED pc
    /\ UNCHANGED <<redisVars, deliveries, crashes, historyVars>>

\* await_response: HGET location, then replay_idempotent.
Replay(w) ==
    /\ pc[w] = "replay"
    /\ Answer(w, job[w].status, entries[job[w].key].location)
    /\ UNCHANGED <<redisVars, deliveries, crashes, sessions, gaveUp, lapses>>

\* Mutant of GiveUp: the wait starts over.
WaitAgain(w) ==
    /\ pc[w] = "await"
    /\ job[w].polls = MaxPolls
    /\ job' = [job EXCEPT ![w].polls = 0]
    /\ UNCHANGED <<redisVars, pc, deliveries, crashes, historyVars>>

\* The wait is over and nothing was published: process normally.
GiveUp(w) ==
    /\ pc[w] = "await"
    /\ job[w].polls = MaxPolls
    /\ gaveUp' = [gaveUp EXCEPT ![job[w].key] = @ + 1]
    /\ Goto(w, "process")
    /\ UNCHANGED <<redisVars, job, deliveries, crashes, sessions, answers, lapses>>

\* A body that does not parse is answered without publishing anything.
RejectBody(w) ==
    /\ pc[w] = "process"
    /\ job[w].key \in MalformedKey
    /\ Answer(w, 400, 0)
    /\ UNCHANGED <<redisVars, deliveries, crashes, sessions, gaveUp, lapses>>

ProcessCreate(w) ==
    LET k == job[w].key IN
    /\ pc[w] = "process"
    /\ k \notin ReleaseKey \union MalformedKey
    /\ nextRef' = nextRef + 1
    /\ sessions' = [sessions EXCEPT ![k] = @ \union {nextRef}]
    /\ job' = [job EXCEPT ![w].status = 201, ![w].location = nextRef]
    /\ Goto(w, "publishLocation")
    /\ UNCHANGED <<entries, live, deliveries, crashes, answers, gaveUp, lapses>>

ProcessRelease(w) ==
    LET k == job[w].key IN
    /\ pc[w] = "process"
    /\ k \in ReleaseKey \ MalformedKey
    /\ live' = live \ {k}
    /\ \/ /\ k \in live
          /\ job' = [job EXCEPT ![w].status = 204]
          /\ Goto(w, "publishStatus")
          /\ UNCHANGED answers
       \/ /\ k \notin live
          /\ Answer(w, 404, 0)
    /\ UNCHANGED <<entries, nextRef, deliveries, crashes, sessions, gaveUp, lapses>>

\* Mutant of PublishLocation: the Location header is not remembered.
PublishNoLocation(w) ==
    /\ pc[w] = "publishLocation"
    /\ Goto(w, "publishStatus")
    /\ UNCHANGED <<redisVars, job, deliveries, crashes, historyVars>>

\* IdempotencyStore::remember, HSET location.
PublishLocation(w) ==
    /\ pc[w] = "publishLocation"
    /\ entries' = [entries EXCEPT ![job[w].key].location = job[w].location]
    /\ Goto(w, "publishStatus")
    /\ UNCHANGED <<nextRef, live, job, deliveries, crashes, historyVars>>

\* IdempotencyStore::remember, HSET status, written last, EXPIRE; then the answer.
PublishStatus(w) ==
    /\ pc[w] = "publishStatus"
    /\ entries' = [entries EXCEPT ![job[w].key].status = job[w].status,
                                  ![job[w].key].ttl = TRUE]
    /\ Answer(w, job[w].status, job[w].location)
    /\ UNCHANGED <<nextRef, live, deliveries, crashes, sessions, gaveUp, lapses>>

-----------------------------------------------------------------------------
TotalLapses == Cardinality({p \in Key \X (1 .. MaxLapses) : lapses[p[1]] >= p[2]})

\* The TTL of an entry runs out: no handler has armed it lately.
Lapse(k) ==
    /\ entries[k].ttl
    /\ TotalLapses < MaxLapses
    /\ \A w \in Worker : job[w].key = k => pc[w] = "arm"
    /\ entries' = [entries EXCEPT ![k] = NoEntry]
    /\ lapses' = [lapses EXCEPT ![k] = @ + 1]
    /\ UNCHANGED <<nextRef, live, handlerVars, deliveries, crashes, sessions, answers, gaveUp>>

\* The process of a handler dies; Redis does not.
Crash(w) ==
    /\ pc[w] # "idle"
    /\ crashes < MaxCrashes
    /\ crashes' = crashes + 1
    /\ pc' = [pc EXCEPT ![w] = "idle"]
    /\ job' = [job EXCEPT ![w] = NoJob]
    /\ UNCHANGED <<redisVars, deliveries, historyVars>>

HandlerStep(w) ==
    \/ ArmTtl(w) \/ Poll(w) \/ Replay(w) \/ GiveUp(w)
    \/ RejectBody(w) \/ ProcessCreate(w) \/ ProcessRelease(w)
    \/ PublishLocation(w) \/ PublishStatus(w)

DupNext ==
    \/ \E w \in Worker, k \in Key : Claim(w, k)
    \/ \E w \in Worker : HandlerStep(w) \/ Crash(w)
    \/ \E k \in Key : Lapse(k)

\* Handlers are scheduled: every sleep of the poll loop ends.
DupSpec == DupInit /\ [][DupNext]_dupVars /\ \A w \in Worker : WF_dupVars(HandlerStep(w))

-----------------------------------------------------------------------------
DupLabel == {"idle", "arm", "await", "replay", "process", "publishLocation", "publishStatus"}

DupTypeOK ==
    /\ entries \in [Key -> [state : BOOLEAN, location : Nat, status : {0, 201, 204},
                            ttl : BOOLEAN]]
    /\ nextRef \in Nat \ {0} /\ live \subseteq ReleaseKey
    /\ pc \in [Worker -> DupLabel]
    /\ job \in [Worker -> [key : Key \union {"none"}, owned : BOOLEAN, polls : 0 .. MaxPolls,
                           status : {0, 201, 204}, location : Nat]]
    /\ deliveries \in Nat /\ crashes \in Nat
    /\ \A k \in Key : sessions[k] \subseteq 1 .. (nextRef - 1)
    /\ gaveUp \in [Key -> Nat] /\ lapses \in [Key -> Nat]

\* A request is processed once, and once more for every wait the design gives up
\* on and every TTL that ran out, never because two deliveries raced: HSETNX has
\* one winner and everybody else waits (stores.cpp, claim).
ExtraSessionsAccountedFor ==
    \A k \in Key : Cardinality(sessions[k]) <= 1 + gaveUp[k] + lapses[k]

\* Whoever is told 201 is told the Location of a session that was created for the
\* same request, replays included: status is published after the location it
\* belongs with (stores.cpp, remember), and read before it.
RepliesNameASession ==
    \A k \in Key : \A answer \in answers[k] :
        answer[1] = 201 => answer[2] \in sessions[k]

\* The retransmission of a Release is answered 204 like the original, not 404, as
\* long as no wait was given up and no TTL ran out (stores.hpp on the duplicate
\* guard, "indistinguishable from a genuinely unknown ChargingDataRef").
ReleaseReplayed ==
    \A k \in ReleaseKey : (\E answer \in answers[k] : answer[1] = 404)
                              => gaveUp[k] + lapses[k] > 0

\* "Bounded, because a charging request must not block on a peer's
\* retransmission" (stores.cpp, await_response): a wait ends, also when the
\* original died and never publishes.
WaitsEnd == \A w \in Worker : pc[w] = "await" ~> pc[w] # "await"
=============================================================================
