---------------------------- MODULE SpendingLimit ----------------------------
(***************************************************************************)
(* Nchf_SpendingLimitControl of the charging function: subscriptions in    *)
(* Redis (a content key per subscription and the set of active ids), the   *)
(* status of a policy counter, and the PUT on the counter that pushes the  *)
(* new status to every subscription that names it.  Any number of threads  *)
(* run handlers at once; every Redis command and every notification is a   *)
(* step.                                                                   *)
(*                                                                         *)
(* One policy counter is modelled, so a subscription's content is whether  *)
(* it names that counter, and whether it gives a notifUri: the push skips  *)
(* one that gives none.                                                    *)
(***************************************************************************)
EXTENDS Integers, FiniteSets

CONSTANTS
    Subscription, \* subscription ids, numbered by INCR from 1
    Worker,       \* handlers that can be in progress at once
    Status,       \* the values an operator gives the counter
    Context,      \* the subscriptions that requests carry
    MaxPuts,      \* bound of the model: PUTs on the counter
    MaxUpdates,   \* bound of the model: PUTs on subscriptions
    MaxLost       \* bound of the model: notifications that are not delivered

Unknown == "unknown" \* currentStatus of a counter nobody configured
Nothing == "nothing" \* what a consumer has heard about a counter it does not name

\* SpendingLimitContext: whether it names the counter and gives a notifUri.
SpendingLimitContext == [names : BOOLEAN, notifUri : BOOLEAN]

NoContext == [names |-> FALSE, notifUri |-> FALSE]

ASSUME SpendingAssumption ==
    /\ Subscription \subseteq Nat \ {0}
    /\ Context \subseteq SpendingLimitContext
    /\ Unknown \notin Status /\ Nothing \notin Status
    /\ MaxPuts \in Nat /\ MaxUpdates \in Nat /\ MaxLost \in Nat

VARIABLES
    ids,     \* ids handed out
    listed,  \* the set of active subscription ids
    content, \* the content keys; an id outside of the domain has none
    status,  \* the counter's currentStatus
    pc, job, \* handlers in progress and their locals
    told,    \* consumer side: the last status received, for the ids it was given
    gone,    \* history: ids whose DELETE was answered 204
    stale,   \* history: ids whose last message was lost, or out of date when it arrived
    overlapped, \* history: a handler began while another one was in progress
    puts, updates, lost

storeVars == <<ids, listed, content, status>>
boundVars == <<puts, updates, lost>>
historyVars == <<gone, stale, overlapped>>
spendingVars == <<storeVars, pc, job, told, historyVars, boundVars>>

NoJob == [id |-> 0, context |-> NoContext, view |-> Nothing, todo |-> {}, targets |-> {}]

SpendingInit ==
    /\ ids = {} /\ listed = {}
    /\ content = [s \in {} |-> NoContext]
    /\ status = Unknown
    /\ pc = [w \in Worker |-> "idle"]
    /\ job = [w \in Worker |-> NoJob]
    /\ told = [s \in {} |-> Nothing]
    /\ gone = {} /\ stale = {}
    /\ overlapped = FALSE
    /\ puts = 0 /\ updates = 0 /\ lost = 0

With(f, x, v) == [y \in DOMAIN f \union {x} |-> IF y = x THEN v ELSE f[y]]

Begin(w, locals, label) ==
    /\ pc[w] = "idle"
    /\ job' = [job EXCEPT ![w] = locals]
    /\ pc' = [pc EXCEPT ![w] = label]
    /\ overlapped' = (overlapped \/ \E other \in Worker \ {w} : pc[other] # "idle")

Goto(w, label) == pc' = [pc EXCEPT ![w] = label]

Return(w) ==
    /\ pc' = [pc EXCEPT ![w] = "idle"]
    /\ job' = [job EXCEPT ![w] = NoJob]

\* build_spending_limit_status: the status now, for a context that names the counter.
View(context) == IF context.names THEN status ELSE Nothing

\* The push is for a subscription that names the counter and gives a notifUri.
Pushed(context) == context.notifUri /\ context.names

\* A consumer receives what a handler built for it, which may be out of date by now.
Tell(s, view) ==
    /\ told' = With(told, s, view)
    /\ stale' = IF view = status THEN stale \ {s} ELSE stale \union {s}

-----------------------------------------------------------------------------
(* Subscribe: the answer is built first, the subscription is stored after it. *)

Subscribe(w, context) ==
    /\ Begin(w, [NoJob EXCEPT !.context = context, !.view = View(context)], "store")
    /\ UNCHANGED <<storeVars, told, gone, stale, boundVars>>

\* SpendingLimitSubscriptionStore::create; nobody can name the id before its SADD.
Store(w) ==
    /\ pc[w] = "store"
    /\ \E s \in Subscription \ ids :
          /\ \A t \in Subscription \ ids : s <= t
          /\ ids' = ids \union {s}
          /\ listed' = listed \union {s}
          /\ content' = With(content, s, job[w].context)
          /\ job' = [job EXCEPT ![w].id = s]
    /\ Goto(w, "answer")
    /\ UNCHANGED <<status, told, historyVars, boundVars>>

\* The 201 or the 200 reaches the consumer.
AnswerStatus(w) ==
    /\ pc[w] = "answer"
    /\ Tell(job[w].id, job[w].view)
    /\ Return(w)
    /\ UNCHANGED <<storeVars, gone, overlapped, boundVars>>

-----------------------------------------------------------------------------
(* Update of a subscription: GET, SET, then the answer is built. *)

Update(w, s, context) ==
    /\ s \in DOMAIN told
    /\ updates < MaxUpdates
    /\ updates' = updates + 1
    /\ s \in DOMAIN content \* otherwise 404
    /\ Begin(w, [NoJob EXCEPT !.id = s, !.context = context], "set")
    /\ UNCHANGED <<storeVars, told, gone, stale, puts, lost>>

\* Mutant of SetContent: an upsert that lists the subscription again.
SetAndList(w) ==
    /\ pc[w] = "set"
    /\ content' = With(content, job[w].id, job[w].context)
    /\ listed' = listed \union {job[w].id}
    /\ Goto(w, "build")
    /\ UNCHANGED <<ids, status, job, told, historyVars, boundVars>>

SetContent(w) ==
    /\ pc[w] = "set"
    /\ content' = With(content, job[w].id, job[w].context)
    /\ Goto(w, "build")
    /\ UNCHANGED <<ids, listed, status, job, told, historyVars, boundVars>>

BuildStatus(w) ==
    /\ pc[w] = "build"
    /\ job' = [job EXCEPT ![w].view = View(job[w].context)]
    /\ Goto(w, "answer")
    /\ UNCHANGED <<storeVars, told, historyVars, boundVars>>

-----------------------------------------------------------------------------
(* Unsubscribe: SREM, DEL; 204 when there was something to delete, else 404. *)

Unsubscribe(w, s) ==
    /\ s \in DOMAIN told
    /\ Begin(w, [NoJob EXCEPT !.id = s], "delete")
    /\ listed' = listed \ {s}
    /\ UNCHANGED <<ids, content, status, told, gone, stale, boundVars>>

\* Mutant of DeleteContent: the content key is left behind.
KeepContent(w) ==
    /\ pc[w] = "delete"
    /\ Return(w)
    /\ UNCHANGED <<storeVars, told, historyVars, boundVars>>

DeleteContent(w) ==
    LET s == job[w].id IN
    /\ pc[w] = "delete"
    /\ content' = [t \in DOMAIN content \ {s} |-> content[t]]
    /\ gone' = IF s \in DOMAIN content THEN gone \union {s} ELSE gone
    /\ Return(w)
    /\ UNCHANGED <<ids, listed, status, told, stale, overlapped, boundVars>>

-----------------------------------------------------------------------------
(* PUT on the policy counter: set, list, then notify one by one. *)

PutStatus(w, value) ==
    /\ puts < MaxPuts
    /\ puts' = puts + 1
    /\ status' = value
    /\ Begin(w, NoJob, "list")
    /\ UNCHANGED <<ids, listed, content, told, gone, stale, updates, lost>>

\* list_all: SMEMBERS
List(w) ==
    /\ pc[w] = "list"
    /\ job' = [job EXCEPT ![w].todo = listed]
    /\ Goto(w, "fetch")
    /\ UNCHANGED <<storeVars, told, historyVars, boundVars>>

\* Mutant of Fetch: the enumeration stops at the first id.
FetchFirst(w) ==
    /\ pc[w] = "fetch"
    /\ \/ \E s \in job[w].todo : job' = [job EXCEPT ![w].todo = {}, ![w].targets = {s}]
       \/ job[w].todo = {} /\ UNCHANGED job
    /\ Goto(w, "push")
    /\ UNCHANGED <<storeVars, told, historyVars, boundVars>>

\* list_all: GET of one listed id; an id without content is skipped.
Fetch(w) ==
    /\ pc[w] = "fetch"
    /\ \/ \E s \in job[w].todo :
            /\ job' = [job EXCEPT ![w].todo = @ \ {s},
                          ![w].targets = IF s \in DOMAIN content /\ Pushed(content[s])
                                         THEN @ \union {s} ELSE @]
            /\ UNCHANGED pc
       \/ /\ job[w].todo = {}
          /\ Goto(w, "push")
          /\ UNCHANGED job
    /\ UNCHANGED <<storeVars, told, historyVars, boundVars>>

\* The status is rebuilt for the next subscription the push is for; when
\* there is none left, 204.
BuildNotification(w) ==
    /\ pc[w] = "push"
    /\ \/ \E s \in job[w].targets :
            /\ job' = [job EXCEPT ![w].targets = @ \ {s}, ![w].id = s, ![w].view = status]
            /\ Goto(w, "send")
       \/ job[w].targets = {} /\ Return(w)
    /\ UNCHANGED <<storeVars, told, historyVars, boundVars>>

\* POST {notifUri}/notify arrives.  A failure is logged, nothing is retried.
Send(w) ==
    /\ pc[w] = "send"
    /\ \/ Tell(job[w].id, job[w].view) /\ UNCHANGED lost
       \/ /\ lost < MaxLost /\ lost' = lost + 1
          /\ stale' = stale \union {job[w].id} /\ UNCHANGED told
    /\ Goto(w, "push")
    /\ UNCHANGED <<storeVars, job, gone, puts, updates, overlapped>>

-----------------------------------------------------------------------------
HandlerStep(w) ==
    \/ Store(w) \/ AnswerStatus(w)
    \/ SetContent(w) \/ BuildStatus(w)
    \/ DeleteContent(w)
    \/ List(w) \/ Fetch(w) \/ BuildNotification(w) \/ Send(w)

RequestStep(w) ==
    \/ \E context \in Context : Subscribe(w, context)
    \/ \E s \in Subscription : Unsubscribe(w, s)
    \/ \E s \in Subscription, context \in Context : Update(w, s, context)
    \/ \E value \in Status : PutStatus(w, value)

SpendingNext == \E w \in Worker : RequestStep(w) \/ HandlerStep(w)

SpendingSpec == SpendingInit /\ [][SpendingNext]_spendingVars

-----------------------------------------------------------------------------
SpendingLabel == {"idle", "store", "answer", "set", "build", "delete",
                  "list", "fetch", "push", "send"}

Heard == Status \union {Unknown, Nothing}

SpendingTypeOK ==
    /\ ids \subseteq Subscription /\ listed \subseteq ids
    /\ gone \subseteq ids /\ stale \subseteq ids
    /\ DOMAIN content \subseteq ids /\ DOMAIN told \subseteq ids
    /\ \A s \in DOMAIN content : content[s] \in SpendingLimitContext
    /\ \A s \in DOMAIN told : told[s] \in Heard
    /\ status \in Status \union {Unknown}
    /\ pc \in [Worker -> SpendingLabel]
    /\ \A w \in Worker : /\ job[w].id \in ids \union {0}
                         /\ job[w].context \in SpendingLimitContext
                         /\ job[w].view \in Heard
                         /\ job[w].todo \subseteq ids /\ job[w].targets \subseteq ids
    /\ overlapped \in BOOLEAN

\* A subscription whose DELETE was answered 204 is never active again, so no PUT
\* that comes later notifies it, whatever Updates and Deletes raced with it.
UnsubscribeIsFinal == gone \intersect listed = {}

\* No handler is in progress.
Idle == \A w \in Worker : pc[w] = "idle"

\* "every currently-active subscription that named this policyCounterId gets a
\* real POST" with the new status (main.cpp, the policy-counter route): when no
\* handler is in progress, the consumer of an active subscription that names the
\* counter and gave a notifUri knows the status, whatever Subscribes, Updates,
\* Deletes and PUTs overlapped, unless the last message to it was lost or was
\* already out of date when it arrived.
ConsumersKnowStatus ==
    Idle => \A s \in listed \intersect DOMAIN told :
                Pushed(content[s]) => told[s] = status \/ s \in stale

\* "Returns false (leaves state unchanged) if id isn't a currently active
\* subscription" (stores.hpp, update): of requests that do not overlap, no content
\* outlives its subscription.
NoOrphanContent == Idle /\ ~overlapped => DOMAIN content \subseteq listed
=============================================================================
