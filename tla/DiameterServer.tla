---------------------------- MODULE DiameterServer ----------------------------
(***************************************************************************)
(* The Diameter front door of the CHF: one thread per connection with its  *)
(* own maps from Session-Id to a session of the shared stores, for Gy      *)
(* (CCR), Rf (ACR) and Sy (SLR, STR), the registry of all connections that *)
(* tells where a Gy session lives, and the callers of send_reauth_request  *)
(* that use it from other threads.                                         *)
(*                                                                         *)
(* A connection is one accepted TCP connection: a peer that reconnects is  *)
(* the next one.  A request is read, handled and answered before the next  *)
(* is read.  What a charge costs is the concern of ConvergedCharging; here *)
(* it is a place where a handler may throw.  A request shed as TOO_BUSY, a *)
(* malformed one and one with an unknown type change nothing, and are left *)
(* out.                                                                    *)
(***************************************************************************)
EXTENDS Integers, FiniteSets

CONSTANTS
    Connection, \* accepted connections
    Session,    \* Session-Ids
    Caller,     \* threads that call send_reauth_request
    MaxRefs,    \* bound of the model: sessions created in the stores
    MaxCalls,   \* bound of the model: calls of send_reauth_request
    MaxCrashes, \* bound of the model: deaths of the process
    None

ASSUME DiameterAssumption ==
    /\ None \notin Connection
    /\ MaxRefs \in Nat /\ MaxCalls \in Nat /\ MaxCrashes \in Nat

App == {"gy", "rf", "sy"}
Refs == 1 .. MaxRefs
Calls == 1 .. MaxCalls

\* What the thread of a connection is at, and what a caller is at.
Task == [step : {"idle", "register", "charge", "settle", "deregister"},
         sid : Session \union {None}, ref : 0 .. MaxRefs]
Errand == [step : {"idle", "reset", "write", "wait", "done"},
           conn : Connection \union {None},
           call : 0 .. MaxCalls, result : 0 .. MaxCalls]

VARIABLES
    phase,    \* per connection: "new", "open", "closing" (left the loop) or "closed"
    at,       \* per connection: the step of the request in progress
    held,     \* session_to_ref, offline_session_to_ref, sl_session_to_id
    mine,     \* my_session_ids
    registry, \* session_to_connection_
    stored,   \* the sessions the stores of each application hold
    created,  \* sessions created so far
    caller,   \* per caller: where it is in send_reauth_request
    calls,    \* calls so far: next_request_id_
    unanswered, \* per connection: RARs the peer has not answered
    pending,  \* per connection: pending_raa_result, the call it answers
    crashes,
    settles,  \* history: finalizations per Gy session
    stranded, \* history: sessions no connection can reach any more
    cut       \* history: Gy sessions whose termination did not finish

connectionVars == <<phase, at, held, mine>>
storeVars == <<stored, created, settles>>
reauthVars == <<caller, calls, unanswered, pending>>
historyVars == <<stranded, cut>>
diameterVars == <<connectionVars, registry, storeVars, reauthVars, crashes, historyVars>>

Idle == [step |-> "idle", sid |-> None, ref |-> 0]
NoCall == [step |-> "idle", conn |-> None, call |-> 0, result |-> 0]

DiameterInit ==
    /\ phase = [c \in Connection |-> "new"]
    /\ at = [c \in Connection |-> Idle]
    /\ held = [a \in App |-> [c \in Connection |-> [s \in Session |-> 0]]]
    /\ mine = [c \in Connection |-> {}]
    /\ registry = [s \in Session |-> None]
    /\ stored = [a \in App |-> {}]
    /\ created = 0
    /\ caller = [t \in Caller |-> NoCall]
    /\ calls = 0
    /\ unanswered = [c \in Connection |-> {}]
    /\ pending = [c \in Connection |-> 0]
    /\ crashes = 0
    /\ settles = [r \in Refs |-> 0]
    /\ stranded = [a \in App |-> {}]
    /\ cut = {}

\* The sessions of an application that connection c has in its map.
Holds(a, c) == {held[a][c][s] : s \in Session} \ {0}

Fresh == created + 1

Goto(c, step, s, ref) == at' = [at EXCEPT ![c] = [step |-> step, sid |-> s, ref |-> ref]]

\* The loop reads the next message.
Reading(c) == phase[c] = "open" /\ at[c] = Idle

-----------------------------------------------------------------------------
(* The handlers of a connection. *)

\* CER and CEA; a connection that starts with anything else is closed.
Accept(c) ==
    /\ phase[c] = "new"
    /\ phase' = [phase EXCEPT ![c] = "open"]
    /\ UNCHANGED <<at, held, mine, registry, storeVars, reauthVars, crashes, historyVars>>

\* Store a new session under s.  What s stood for on this connection is forgotten.
Establish(a, c, s) ==
    /\ Fresh \in Refs
    /\ created' = Fresh
    /\ stored' = [stored EXCEPT ![a] = @ \union {Fresh}]
    /\ held' = [held EXCEPT ![a][c][s] = Fresh]
    /\ stranded' = [stranded EXCEPT ![a] = @ \union ({held[a][c][s]} \ {0})]

\* CCR-Initial, ACR Start and SLR Initial.  Gy goes on to register the session.
Initial(a, c, s) ==
    /\ Reading(c)
    /\ Establish(a, c, s)
    /\ IF a = "gy" THEN Goto(c, "register", s, Fresh) ELSE UNCHANGED at
    /\ UNCHANGED <<phase, mine, registry, settles, reauthVars, crashes, cut>>

\* Mutant of Register: the connection does not note the session for its cleanup.
RegisterUnnoted(c) ==
    /\ at[c].step = "register"
    /\ registry' = [registry EXCEPT ![at[c].sid] = c]
    /\ Goto(c, "charge", at[c].sid, at[c].ref)
    /\ UNCHANGED <<phase, held, mine, storeVars, reauthVars, crashes, historyVars>>

\* CCR-Initial: the last connection to name a Session-Id has it.
Register(c) ==
    /\ at[c].step = "register"
    /\ registry' = [registry EXCEPT ![at[c].sid] = c]
    /\ mine' = [mine EXCEPT ![c] = @ \union {at[c].sid}]
    /\ Goto(c, "charge", at[c].sid, at[c].ref)
    /\ UNCHANGED <<phase, held, storeVars, reauthVars, crashes, historyVars>>

\* CCR-Update of a session of this connection; of any other it is UNKNOWN_SESSION_ID.
Update(c, s) ==
    /\ Reading(c)
    /\ held["gy"][c][s] # 0
    /\ Goto(c, "charge", s, held["gy"][c][s])
    /\ UNCHANGED <<phase, held, mine, registry, storeVars, reauthVars, crashes, historyVars>>

\* charge_one_usage for every MSCC, and the CCA.
Charge(c) ==
    /\ at[c].step = "charge"
    /\ at' = [at EXCEPT ![c] = Idle]
    /\ UNCHANGED <<phase, held, mine, registry, storeVars, reauthVars, crashes, historyVars>>

\* Mutant of Terminate: the session is settled and left active.
TerminateUnreleased(c, s) ==
    LET ref == held["gy"][c][s] IN
    /\ Reading(c)
    /\ ref # 0
    /\ Goto(c, "settle", s, ref)
    /\ UNCHANGED <<phase, held, mine, registry, storeVars, reauthVars, crashes, historyVars>>

\* CCR-Termination: the totals are read and the session is released.
Terminate(c, s) ==
    LET ref == held["gy"][c][s] IN
    /\ Reading(c)
    /\ ref # 0
    /\ stored' = [stored EXCEPT !["gy"] = @ \ {ref}]
    /\ Goto(c, "settle", s, ref)
    /\ UNCHANGED <<phase, held, mine, registry, created, settles, reauthVars, crashes,
                   historyVars>>

\* Mutant of Settle: the Session-Id keeps standing for the released session.
SettleOnly(c) ==
    LET ref == at[c].ref IN
    /\ at[c].step = "settle"
    /\ settles' = [settles EXCEPT ![ref] = @ + 1]
    /\ Goto(c, "deregister", at[c].sid, ref)
    /\ UNCHANGED <<phase, held, mine, registry, stored, created, reauthVars, crashes,
                   historyVars>>

\* finalize_subscriber_balance and the record; then the Session-Id is forgotten.
Settle(c) ==
    LET ref == at[c].ref IN
    /\ at[c].step = "settle"
    /\ settles' = [settles EXCEPT ![ref] = @ + 1]
    /\ held' = [held EXCEPT !["gy"][c][at[c].sid] = 0]
    /\ Goto(c, "deregister", at[c].sid, ref)
    /\ UNCHANGED <<phase, mine, registry, stored, created, reauthVars, crashes, historyVars>>

\* The registry forgets the Session-Id, whoever registered it last, and the CCA.
Deregister(c) ==
    /\ at[c].step = "deregister"
    /\ registry' = [registry EXCEPT ![at[c].sid] = None]
    /\ at' = [at EXCEPT ![c] = Idle]
    /\ UNCHANGED <<phase, held, mine, storeVars, reauthVars, crashes, historyVars>>

\* ACR Stop and STR: the entry goes only when the store had the session.  ACR
\* Interim and SLR Intermediate answer by the same test and change no session.
Finish(a, c, s) ==
    LET ref == held[a][c][s] IN
    /\ a # "gy"
    /\ Reading(c)
    /\ ref # 0 /\ ref \in stored[a] \* otherwise UNKNOWN_SESSION_ID
    /\ stored' = [stored EXCEPT ![a] = @ \ {ref}]
    /\ held' = [held EXCEPT ![a][c][s] = 0]
    /\ UNCHANGED <<phase, at, mine, registry, created, settles, reauthVars, crashes,
                   historyVars>>

\* ACR Event: created and released at once, for no Session-Id.
Event(c) ==
    /\ Reading(c)
    /\ Fresh \in Refs
    /\ created' = Fresh
    /\ UNCHANGED <<connectionVars, registry, stored, settles, reauthVars, crashes,
                   historyVars>>

\* An RAA: whatever RAR it answers, it is the result.
ReceiveRaa(c) ==
    /\ Reading(c)
    /\ \E n \in unanswered[c] :
          /\ unanswered' = [unanswered EXCEPT ![c] = @ \ {n}]
          /\ pending' = [pending EXCEPT ![c] = n]
    /\ UNCHANGED <<connectionVars, registry, storeVars, caller, calls, crashes, historyVars>>

-----------------------------------------------------------------------------
(* The end of a connection. *)

\* What is out of reach once the maps of the connections in gone are.
Strand(gone) ==
    LET ending == {at[c].ref : c \in {x \in gone : at[x].step = "settle"}} IN
    /\ stranded' = [a \in App |-> stranded[a] \union
          ((UNION {Holds(a, c) : c \in gone}) \ (IF a = "gy" THEN ending ELSE {}))]
    /\ cut' = cut \union ending

\* The peer closes, a message cannot be handled, a write fails or a handler throws.
Leave(c) ==
    /\ phase[c] = "open"
    /\ phase' = [phase EXCEPT ![c] = "closing"]
    /\ at' = [at EXCEPT ![c] = Idle]
    /\ Strand({c})
    /\ held' = [a \in App |-> [held[a] EXCEPT ![c] = [s \in Session |-> 0]]]
    /\ UNCHANGED <<mine, registry, storeVars, reauthVars, crashes>>

\* ~SessionCleanupGuard by Session-Id, whoever registered it last; the socket goes.
Cleanup(c) ==
    /\ phase[c] = "closing"
    /\ phase' = [phase EXCEPT ![c] = "closed"]
    /\ registry' = [s \in Session |-> IF s \in mine[c] THEN None ELSE registry[s]]
    /\ UNCHANGED <<at, held, mine, storeVars, reauthVars, crashes, historyVars>>

\* What dies with the process; the stores are Redis.
Die ==
    LET gone == {c \in Connection : phase[c] # "new"} IN
    /\ crashes < MaxCrashes /\ crashes' = crashes + 1
    /\ Strand(gone)
    /\ phase' = [c \in Connection |-> IF c \in gone THEN "closed" ELSE "new"]
    /\ at' = [c \in Connection |-> Idle]
    /\ held' = [a \in App |-> [c \in Connection |-> [s \in Session |-> 0]]]
    /\ mine' = [c \in Connection |-> {}]
    /\ registry' = [s \in Session |-> None]
    /\ caller' = [t \in Caller |-> NoCall]
    /\ pending' = [c \in Connection |-> 0]
    /\ unanswered' = [c \in Connection |-> {}]
    /\ UNCHANGED <<storeVars, calls>>

-----------------------------------------------------------------------------
(* send_reauth_request. *)

At(t, step) == caller' = [caller EXCEPT ![t].step = step]

\* The lookup under sessions_mutex_; without a connection there is no result.
Lookup(t, s) ==
    /\ caller[t].step = "idle"
    /\ calls < MaxCalls
    /\ registry[s] # None
    /\ calls' = calls + 1
    /\ caller' = [caller EXCEPT ![t] = [step |-> "reset", conn |-> registry[s],
                                        call |-> calls + 1, result |-> 0]]
    /\ UNCHANGED <<connectionVars, registry, storeVars, unanswered, pending, crashes,
                   historyVars>>

Reset(t) ==
    /\ caller[t].step = "reset"
    /\ pending' = [pending EXCEPT ![caller[t].conn] = 0]
    /\ At(t, "write")
    /\ UNCHANGED <<connectionVars, registry, storeVars, calls, unanswered, crashes,
                   historyVars>>

\* The write to *conn->socket; a peer that left makes it fail.  Once the
\* connection's thread is gone so is the socket: the write fails, or goes nowhere.
Write(t) ==
    LET c == caller[t].conn IN
    /\ caller[t].step = "write"
    /\ \/ phase[c] # "closed" /\ At(t, "wait")
          /\ unanswered' = [unanswered EXCEPT ![c] = @ \union {caller[t].call}]
       \/ phase[c] = "closed" /\ At(t, "wait") /\ UNCHANGED unanswered
       \/ phase[c] # "open" /\ At(t, "done") /\ UNCHANGED unanswered
    /\ UNCHANGED <<connectionVars, registry, storeVars, calls, pending, crashes, historyVars>>

\* Mutant of Wait: wait, not wait_for.
WaitForever(t) ==
    /\ caller[t].step = "wait"
    /\ pending[caller[t].conn] # 0
    /\ caller' = [caller EXCEPT ![t].step = "done", ![t].result = pending[caller[t].conn]]
    /\ UNCHANGED <<connectionVars, registry, storeVars, calls, unanswered, pending, crashes,
                   historyVars>>

\* wait_for ends with whatever result is there, or without one after the timeout.
Wait(t) ==
    /\ caller[t].step = "wait"
    /\ caller' = [caller EXCEPT ![t].step = "done", ![t].result = pending[caller[t].conn]]
    /\ UNCHANGED <<connectionVars, registry, storeVars, calls, unanswered, pending, crashes,
                   historyVars>>

Return(t) ==
    /\ caller[t].step = "done"
    /\ caller' = [caller EXCEPT ![t] = NoCall]
    /\ UNCHANGED <<connectionVars, registry, storeVars, calls, unanswered, pending, crashes,
                   historyVars>>

-----------------------------------------------------------------------------
Request(c) ==
    \/ \E a \in App, s \in Session : Initial(a, c, s) \/ Finish(a, c, s)
    \/ \E s \in Session : Update(c, s) \/ Terminate(c, s)
    \/ Register(c) \/ Charge(c) \/ Settle(c) \/ Deregister(c)
    \/ Event(c) \/ ReceiveRaa(c)

ConnectionStep(c) == Accept(c) \/ Request(c) \/ Leave(c) \/ Cleanup(c)

CallerStep(t) == Reset(t) \/ Write(t) \/ Wait(t) \/ Return(t)

DiameterNext ==
    \/ \E c \in Connection : ConnectionStep(c)
    \/ \E t \in Caller, s \in Session : Lookup(t, s)
    \/ \E t \in Caller : CallerStep(t)
    \/ Die

\* A caller's thread runs, and its timeout passes.
DiameterFairness == \A t \in Caller : WF_diameterVars(CallerStep(t))

DiameterSpec == DiameterInit /\ [][DiameterNext]_diameterVars /\ DiameterFairness

-----------------------------------------------------------------------------
\* Every variable has its type.
DiameterTypeOK ==
    /\ phase \in [Connection -> {"new", "open", "closing", "closed"}]
    /\ at \in [Connection -> Task]
    /\ held \in [App -> [Connection -> [Session -> 0 .. MaxRefs]]]
    /\ mine \in [Connection -> SUBSET Session]
    /\ registry \in [Session -> Connection \union {None}]
    /\ stored \in [App -> SUBSET Refs] /\ stranded \in [App -> SUBSET Refs]
    /\ created \in 0 .. MaxRefs
    /\ caller \in [Caller -> Errand]
    /\ calls \in 0 .. MaxCalls
    /\ unanswered \in [Connection -> SUBSET Calls]
    /\ pending \in [Connection -> 0 .. MaxCalls]
    /\ crashes \in 0 .. MaxCrashes
    /\ settles \in [Refs -> Nat] /\ cut \subseteq Refs

\* Connections register a Session-Id over each other and erase it by its name; even so
\* whoever looks a session up gets a connection whose socket still exists, and, while
\* that connection serves, one that has the session in its map or is ending it now.
RegistryLeadsToSession ==
    \A s \in Session : LET c == registry[s] IN
        c # None =>
            /\ phase[c] \in {"open", "closing"}
            /\ phase[c] = "open" =>
                  held["gy"][c][s] # 0 \/ (at[c].step = "deregister" /\ at[c].sid = s)

\* The sessions the stores hold are those in the map of a connection, but for one that
\* is being settled, and those that a lost connection, a second Initial under the same
\* Session-Id or the death of the process put out of reach: no ended session stays and
\* no map refers to a session that is gone.
StoredIsReachable ==
    \A a \in App :
        LET reachable == UNION {Holds(a, c) : c \in Connection}
            ending == IF a = "gy" THEN {at[c].ref : c \in {x \in Connection : at[x].step = "settle"}}
                      ELSE {}
        IN  /\ stored[a] = (reachable \ ending) \union stranded[a]
            /\ ending \subseteq reachable
            /\ stranded[a] \intersect reachable = {}

\* CCR-Termination, repeated, cut short by a throw or followed by another Initial under
\* its Session-Id, finalizes a session at most once, and only after it was released.
FinalizedOnce ==
    \A r \in Refs : settles[r] > 0 => settles[r] = 1 /\ r \notin stored["gy"] \union cut

\* The claim of send_reauth_request that a caller sees the answer to its own request,
\* never one left over from an earlier attempt or meant for another caller.
AnswersOwnRequest ==
    \A t \in Caller :
        caller[t].step = "done" /\ caller[t].result # 0 => caller[t].result = caller[t].call

\* A call of send_reauth_request returns, whatever becomes of the connection.
CallsReturn == \A t \in Caller : caller[t].step # "idle" ~> caller[t].step = "idle"
=============================================================================
