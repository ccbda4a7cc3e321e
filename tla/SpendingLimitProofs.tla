------------------------ MODULE SpendingLimitProofs ------------------------
(***************************************************************************)
(* Spending limit control for any number of subscriptions, contexts,        *)
(* handlers, requests and lost notifications: whatever overlaps, an          *)
(* unsubscribed id stays unsubscribed and a consumer that does not know the  *)
(* status was told too late or not at all; and handlers that do not overlap  *)
(* leave no content behind.                                                  *)
(***************************************************************************)
EXTENDS SpendingLimit, TLAPS

\* The locals of a handler; an id it works on has been handed out.
Locals == [id : ids \union {0}, context : SpendingLimitContext, view : Heard,
           todo : SUBSET ids, targets : SUBSET ids]

TypeInv ==
    /\ ids \subseteq Subscription /\ gone \subseteq ids /\ listed \subseteq DOMAIN content
    /\ content \in [DOMAIN content -> SpendingLimitContext] /\ DOMAIN content \subseteq ids
    /\ told \in [DOMAIN told -> Heard] /\ DOMAIN told \subseteq ids
    /\ status \in Status \union {Unknown}
    /\ pc \in [Worker -> SpendingLabel]
    /\ job \in [Worker -> Locals]
    /\ \A w \in Worker : pc[w] \in {"answer", "set", "build", "delete", "send"}
                             => job[w].id \in ids
    /\ overlapped \in BOOLEAN

\* Between SREM and DEL the id is off the list, and no id is listed a second time.
DeletesUnlisted ==
    /\ gone \intersect listed = {}
    /\ \A w \in Worker : pc[w] = "delete" => job[w].id \notin listed

\* The subscriptions whose consumer the handler has yet to tell, if it is to be told.
Behind(w) ==
    CASE pc[w] = "list" -> ids
      [] pc[w] = "fetch" -> job[w].todo \union job[w].targets
      [] pc[w] = "push" -> job[w].targets
      [] pc[w] = "send" -> job[w].targets \union {job[w].id}
      [] pc[w] \in {"build", "answer"} -> {job[w].id}
      [] OTHER -> {}

\* A consumer that does not know the status has some handler's message to come,
\* or its last one was lost or late.
CaughtUp ==
    \A s \in listed \intersect DOMAIN told :
        Pushed(content[s]) => \/ told[s] = status \/ s \in stale
                              \/ \E w \in Worker : s \in Behind(w)

\* The one handler in progress: only the subscription it deletes has content and
\* is off the list.
Serving(w) ==
    /\ pc[w] # "idle" /\ \A v \in Worker \ {w} : pc[v] = "idle"
    /\ DOMAIN content \subseteq listed \union (IF pc[w] = "delete" THEN {job[w].id} ELSE {})
    /\ pc[w] = "set" => job[w].id \in listed

\* What holds as long as no two handlers overlapped.
OneAtATime ==
    ~overlapped => \/ Idle /\ DOMAIN content \subseteq listed
                   \/ \E w \in Worker : Serving(w)

SpendingInv == TypeInv /\ DeletesUnlisted /\ CaughtUp /\ OneAtATime

-----------------------------------------------------------------------------
\* A map with one more entry stays typed.
LEMMA WithTyped ==
    ASSUME NEW D, NEW S, NEW f \in [D -> S], NEW x, NEW v \in S
    PROVE  /\ DOMAIN With(f, x, v) = D \union {x}
           /\ With(f, x, v) \in [D \union {x} -> S]
  BY DEF With

\* A handler that runs nothing has well-typed locals.
LEMMA NoJobTyped == NoJob \in Locals /\ NoJob.id = 0
  BY DEF NoJob, NoContext, SpendingLimitContext, Locals, Heard

\* A status that is shown to a consumer is one it may hear.
LEMMA ViewHeard ==
    ASSUME TypeInv, NEW context \in SpendingLimitContext
    PROVE  View(context) \in Heard
  BY DEF TypeInv, View, Heard

\* The first state.
LEMMA SpendingStarts == SpendingInit => SpendingInv
  <1> SUFFICES ASSUME SpendingInit PROVE SpendingInv
    OBVIOUS
  <1>1. TypeInv
    BY NoJobTyped DEF SpendingInit, TypeInv, SpendingLabel, Heard
  <1>2. DeletesUnlisted
    BY DEF SpendingInit, DeletesUnlisted
  <1>3. CaughtUp
    BY DEF SpendingInit, CaughtUp
  <1>4. OneAtATime
    BY DEF SpendingInit, OneAtATime, Idle
  <1> QED  BY <1>1, <1>2, <1>3, <1>4 DEF SpendingInv

\* A handler begins: its locals are those it was given, every other handler's are
\* what they were.
LEMMA BeginTyped ==
    ASSUME TypeInv, NEW w \in Worker, NEW locals \in Locals, NEW label \in SpendingLabel,
           Begin(w, locals, label), ids' = ids,
           label \in {"answer", "set", "build", "delete", "send"} => locals.id \in ids
    PROVE  /\ pc' \in [Worker -> SpendingLabel] /\ job' \in [Worker -> Locals']
           /\ \A v \in Worker : pc'[v] \in {"answer", "set", "build", "delete", "send"}
                                   => job'[v].id \in ids'
           /\ overlapped' \in BOOLEAN
  <1>1. Locals' = Locals
    BY DEF Locals
  <1> QED  BY <1>1 DEF TypeInv, Begin

\* The requests keep the types.
LEMMA RequestTyped ==
    ASSUME TypeInv, NEW w \in Worker, RequestStep(w)
    PROVE  TypeInv'
  <1>1. ASSUME NEW context \in Context, Subscribe(w, context) PROVE TypeInv'
    <2>0. context \in SpendingLimitContext
      BY SpendingAssumption
    <2>1. [NoJob EXCEPT !.context = context, !.view = View(context)] \in Locals
      BY <2>0, ViewHeard, NoJobTyped DEF Locals
    <2>2. "store" \in SpendingLabel
      BY DEF SpendingLabel
    <2>3. UNCHANGED <<ids, listed, content, status, told, gone>>
      BY <1>1 DEF Subscribe, storeVars
    <2> QED  BY <1>1, <2>1, <2>2, <2>3, BeginTyped DEF Subscribe, TypeInv
  <1>2. ASSUME NEW s \in Subscription, NEW context \in Context, Update(w, s, context)
        PROVE  TypeInv'
    <2>0. context \in SpendingLimitContext
      BY SpendingAssumption
    <2>1. s \in ids
      BY <1>2 DEF Update, TypeInv
    <2>2. [NoJob EXCEPT !.id = s, !.context = context] \in Locals
      BY <2>0, <2>1, NoJobTyped DEF Locals
    <2>3. "set" \in SpendingLabel
      BY DEF SpendingLabel
    <2>4. UNCHANGED <<ids, listed, content, status, told, gone>>
      BY <1>2 DEF Update, storeVars
    <2>5. [NoJob EXCEPT !.id = s, !.context = context].id = s
      BY DEF NoJob
    <2> QED  BY <1>2, <2>1, <2>2, <2>3, <2>4, <2>5, BeginTyped DEF Update, TypeInv
  <1>3. ASSUME NEW s \in Subscription, Unsubscribe(w, s) PROVE TypeInv'
    <2>1. s \in ids
      BY <1>3 DEF Unsubscribe, TypeInv
    <2>2. [NoJob EXCEPT !.id = s] \in Locals
      BY <2>1, NoJobTyped DEF Locals
    <2>3. "delete" \in SpendingLabel
      BY DEF SpendingLabel
    <2>4. UNCHANGED <<ids, content, status, told, gone>> /\ listed' = listed \ {s}
      BY <1>3 DEF Unsubscribe
    <2>5. [NoJob EXCEPT !.id = s].id = s
      BY DEF NoJob
    <2> QED  BY <1>3, <2>1, <2>2, <2>3, <2>4, <2>5, BeginTyped DEF Unsubscribe, TypeInv
  <1>4. ASSUME NEW value \in Status, PutStatus(w, value) PROVE TypeInv'
    <2>1. "list" \in SpendingLabel
      BY DEF SpendingLabel
    <2> QED  BY <1>4, <2>1, NoJobTyped, BeginTyped DEF PutStatus, TypeInv
  <1> QED  BY <1>1, <1>2, <1>3, <1>4 DEF RequestStep

\* The steps of a handler keep the types.
LEMMA HandlerTyped ==
    ASSUME TypeInv, DeletesUnlisted, NEW w \in Worker, HandlerStep(w)
    PROVE  TypeInv'
  <1>1. CASE Store(w)
    <2>1. PICK s \in Subscription \ ids :
             /\ ids' = ids \union {s} /\ listed' = listed \union {s}
             /\ content' = With(content, s, job[w].context)
             /\ job' = [job EXCEPT ![w].id = s]
      BY <1>1 DEF Store
    <2>2. /\ DOMAIN content' = DOMAIN content \union {s}
          /\ content' \in [DOMAIN content' -> SpendingLimitContext]
      <3>1. job[w].context \in SpendingLimitContext
        BY DEF TypeInv, Locals
      <3>2. content \in [DOMAIN content -> SpendingLimitContext]
        BY DEF TypeInv
      <3>3. /\ DOMAIN With(content, s, job[w].context) = DOMAIN content \union {s}
            /\ With(content, s, job[w].context)
                 \in [DOMAIN content \union {s} -> SpendingLimitContext]
        BY ONLY <3>1, <3>2, WithTyped
      <3> QED  BY <2>1, <3>3
    <2>3. job' \in [Worker -> Locals'] /\ job'[w].id = s
          /\ \A v \in Worker \ {w} : job'[v] = job[v]
      BY <2>1 DEF TypeInv, Locals
    <2> QED  BY <1>1, <2>1, <2>2, <2>3 DEF Store, TypeInv, Goto, SpendingLabel, historyVars
  <1>2. CASE AnswerStatus(w)
    <2>1. job[w].id \in ids /\ job[w].view \in Heard
      BY <1>2 DEF AnswerStatus, TypeInv, Locals
    <2>2. /\ DOMAIN told' = DOMAIN told \union {job[w].id}
          /\ told' \in [DOMAIN told' -> Heard]
      <3>1. told' = With(told, job[w].id, job[w].view)
        BY <1>2 DEF AnswerStatus, Tell
      <3>2. told \in [DOMAIN told -> Heard]
        BY DEF TypeInv
      <3>3. /\ DOMAIN With(told, job[w].id, job[w].view) = DOMAIN told \union {job[w].id}
            /\ With(told, job[w].id, job[w].view) \in [DOMAIN told \union {job[w].id} -> Heard]
        BY ONLY <2>1, <3>2, WithTyped
      <3> QED  BY <3>1, <3>3
    <2>3. Locals' = Locals
      BY <1>2 DEF AnswerStatus, storeVars, Locals
    <2> QED  BY <1>2, <2>1, <2>2, <2>3, NoJobTyped
             DEF AnswerStatus, TypeInv, Return, SpendingLabel, storeVars
  <1>3. CASE SetContent(w)
    <2>1. job[w].id \in ids /\ job[w].context \in SpendingLimitContext
      BY <1>3 DEF SetContent, TypeInv, Locals
    <2>2. /\ DOMAIN content' = DOMAIN content \union {job[w].id}
          /\ content' \in [DOMAIN content' -> SpendingLimitContext]
      <3>1. content' = With(content, job[w].id, job[w].context)
        BY <1>3 DEF SetContent
      <3>2. content \in [DOMAIN content -> SpendingLimitContext]
        BY DEF TypeInv
      <3>3. /\ DOMAIN With(content, job[w].id, job[w].context)
                 = DOMAIN content \union {job[w].id}
            /\ With(content, job[w].id, job[w].context)
                 \in [DOMAIN content \union {job[w].id} -> SpendingLimitContext]
        BY ONLY <2>1, <3>2, WithTyped
      <3> QED  BY <3>1, <3>3
    <2>3. Locals' = Locals
      BY <1>3 DEF SetContent, Locals
    <2> QED  BY <1>3, <2>1, <2>2, <2>3
             DEF SetContent, TypeInv, Goto, SpendingLabel, historyVars
  <1>4. CASE BuildStatus(w)
    <2>1. View(job[w].context) \in Heard
      <3>1. job[w].context \in SpendingLimitContext
        BY DEF TypeInv, Locals
      <3> QED  BY <3>1, ViewHeard
    <2>2. Locals' = Locals
      BY <1>4 DEF BuildStatus, storeVars, Locals
    <2>3. job' \in [Worker -> Locals] /\ \A v \in Worker : job'[v].id = job[v].id
      BY <1>4, <2>1 DEF BuildStatus, TypeInv, Locals
    <2> QED  BY <1>4, <2>2, <2>3
             DEF BuildStatus, TypeInv, Goto, SpendingLabel, storeVars, historyVars
  <1>5. CASE DeleteContent(w)
    <2>1. Locals' = Locals
      BY <1>5 DEF DeleteContent, Locals
    <2>2. /\ DOMAIN content' = DOMAIN content \ {job[w].id}
          /\ content' \in [DOMAIN content' -> SpendingLimitContext]
          /\ gone' \subseteq gone \union DOMAIN content
      BY <1>5 DEF DeleteContent, TypeInv
    <2> QED  BY <1>5, <2>1, <2>2, NoJobTyped
             DEF DeleteContent, TypeInv, DeletesUnlisted, Return, SpendingLabel
  <1>6. CASE List(w) \/ Fetch(w) \/ BuildNotification(w)
    <2>1. UNCHANGED <<ids, listed, content, status, told, gone, overlapped>>
      BY <1>6 DEF List, Fetch, BuildNotification, storeVars, historyVars
    <2>2. Locals' = Locals
      BY <2>1 DEF Locals
    <2>3. job[w] \in Locals /\ listed \subseteq ids /\ status \in Heard
      BY DEF TypeInv, Heard
    <2>4. job' \in [Worker -> Locals]
      <3>1. CASE List(w)
        <4>1. [job[w] EXCEPT !.todo = listed] \in Locals
          BY <2>3 DEF Locals
        <4> QED  BY <3>1, <4>1 DEF List, TypeInv
      <3>2. CASE Fetch(w)
        <4>1. ASSUME NEW s \in job[w].todo,
                     NEW T \in {job[w].targets, job[w].targets \union {s}}
              PROVE  [job[w] EXCEPT !.todo = @ \ {s}, !.targets = T] \in Locals
          BY <2>3 DEF Locals
        <4>2. \/ job' = job
              \/ \E s \in job[w].todo : \E T \in {job[w].targets, job[w].targets \union {s}} :
                    job' = [job EXCEPT ![w].todo = @ \ {s}, ![w].targets = T]
          BY <3>2 DEF Fetch, TypeInv
        <4>3. CASE job' = job
          BY <4>3 DEF TypeInv
        <4>4. ASSUME NEW s \in job[w].todo,
                     NEW T \in {job[w].targets, job[w].targets \union {s}},
                     job' = [job EXCEPT ![w].todo = @ \ {s}, ![w].targets = T]
              PROVE  job' \in [Worker -> Locals]
          BY <4>1, <4>4 DEF TypeInv
        <4> QED  BY <4>2, <4>3, <4>4
      <3>3. CASE BuildNotification(w)
        <4>1. ASSUME NEW s \in job[w].targets
              PROVE  [job[w] EXCEPT !.targets = @ \ {s}, !.id = s, !.view = status] \in Locals
          BY <2>3 DEF Locals
        <4> QED  BY <3>3, <4>1, NoJobTyped DEF BuildNotification, Return, TypeInv
      <3> QED  BY <1>6, <3>1, <3>2, <3>3
    <2>5. /\ pc' \in [Worker -> SpendingLabel]
          /\ \A v \in Worker \ {w} : pc'[v] = pc[v] /\ job'[v] = job[v]
      BY <1>6 DEF List, Fetch, BuildNotification, Return, Goto, TypeInv, SpendingLabel
    <2>6. pc'[w] \in {"answer", "set", "build", "delete", "send"} => job'[w].id \in ids
      <3>1. CASE BuildNotification(w)
        <4>1. CASE pc' = [pc EXCEPT ![w] = "idle"]
          BY <4>1 DEF TypeInv
        <4>2. ASSUME NEW s \in job[w].targets,
                     job' = [job EXCEPT ![w].targets = @ \ {s}, ![w].id = s, ![w].view = status]
              PROVE  job'[w].id \in ids
          BY <2>3, <4>2 DEF TypeInv, Locals
        <4> QED  BY <3>1, <4>1, <4>2 DEF BuildNotification, Return
      <3>2. CASE List(w) \/ Fetch(w)
        <4>1. pc'[w] \in {"fetch", "push"}
          BY <3>2 DEF List, Fetch, Goto, TypeInv
        <4> QED  BY <4>1
      <3> QED  BY <1>6, <3>1, <3>2
    <2>7. \A v \in Worker : pc'[v] \in {"answer", "set", "build", "delete", "send"}
                               => job'[v].id \in ids'
      BY <2>1, <2>5, <2>6 DEF TypeInv
    <2> QED  BY <2>1, <2>2, <2>4, <2>5, <2>7 DEF TypeInv
  <1>7. CASE Send(w)
    <2>1. job[w].id \in ids /\ job[w].view \in Heard
      BY <1>7 DEF Send, TypeInv, Locals
    <2>2. /\ DOMAIN told' \subseteq ids
          /\ told' \in [DOMAIN told' -> Heard]
      <3>1. told' = With(told, job[w].id, job[w].view) \/ told' = told
        BY <1>7 DEF Send, Tell
      <3>2. told \in [DOMAIN told -> Heard] /\ DOMAIN told \subseteq ids
        BY DEF TypeInv
      <3>3. /\ DOMAIN With(told, job[w].id, job[w].view) = DOMAIN told \union {job[w].id}
            /\ With(told, job[w].id, job[w].view) \in [DOMAIN told \union {job[w].id} -> Heard]
        BY ONLY <2>1, <3>2, WithTyped
      <3> QED  BY <2>1, <3>1, <3>2, <3>3
    <2>3. Locals' = Locals
      BY <1>7 DEF Send, storeVars, Locals
    <2> QED  BY <1>7, <2>1, <2>2, <2>3
             DEF Send, TypeInv, Goto, SpendingLabel, storeVars
  <1> QED  BY <1>1, <1>2, <1>3, <1>4, <1>5, <1>6, <1>7 DEF HandlerStep

-----------------------------------------------------------------------------
\* SREM takes an id off the list, and whoever lists an id lists a new one.
LEMMA DeletesStayUnlisted ==
    ASSUME TypeInv, DeletesUnlisted, NEW w \in Worker, RequestStep(w) \/ HandlerStep(w)
    PROVE  DeletesUnlisted'
  <1>1. CASE \E s \in Subscription : Unsubscribe(w, s)
    <2>1. PICK s \in Subscription : Unsubscribe(w, s)
      BY <1>1
    <2>2. /\ listed' = listed \ {s} /\ gone' = gone
          /\ job' = [job EXCEPT ![w] = [NoJob EXCEPT !.id = s]]
          /\ pc' = [pc EXCEPT ![w] = "delete"]
      BY <2>1 DEF Unsubscribe, Begin
    <2>3. job'[w].id = s /\ \A v \in Worker \ {w} : job'[v] = job[v] /\ pc'[v] = pc[v]
      BY <2>2 DEF TypeInv, NoJob
    <2> QED  BY <2>2, <2>3 DEF DeletesUnlisted
  <1>2. CASE Store(w)
    <2>1. PICK s \in Subscription \ ids :
             listed' = listed \union {s} /\ job' = [job EXCEPT ![w].id = s]
      BY <1>2 DEF Store
    <2>2. /\ gone' = gone /\ pc'[w] = "answer"
          /\ \A v \in Worker \ {w} : job'[v] = job[v] /\ pc'[v] = pc[v]
      BY <1>2, <2>1 DEF Store, Goto, TypeInv, historyVars
    <2> QED  BY <2>1, <2>2 DEF DeletesUnlisted, TypeInv
  <1>3. CASE DeleteContent(w)
    <2>1. /\ gone' \subseteq gone \union {job[w].id} /\ listed' = listed /\ pc[w] = "delete"
          /\ pc' = [pc EXCEPT ![w] = "idle"] /\ job' = [job EXCEPT ![w] = NoJob]
      BY <1>3 DEF DeleteContent, Return
    <2>2. pc'[w] = "idle" /\ \A v \in Worker \ {w} : job'[v] = job[v] /\ pc'[v] = pc[v]
      BY <2>1 DEF TypeInv
    <2> QED  BY <2>1, <2>2 DEF DeletesUnlisted
  <1>4. CASE \/ \E context \in Context : Subscribe(w, context)
             \/ \E s \in Subscription, context \in Context : Update(w, s, context)
             \/ \E value \in Status : PutStatus(w, value)
    <2>1. /\ UNCHANGED <<listed, gone>> /\ pc'[w] # "delete"
          /\ \A v \in Worker \ {w} : job'[v] = job[v] /\ pc'[v] = pc[v]
      BY <1>4 DEF Subscribe, Update, PutStatus, Begin, storeVars, TypeInv
    <2> QED  BY <2>1 DEF DeletesUnlisted
  <1>5. CASE \/ AnswerStatus(w) \/ SetContent(w) \/ BuildStatus(w) \/ List(w)
             \/ Fetch(w) \/ BuildNotification(w) \/ Send(w)
    <2>1. /\ UNCHANGED <<listed, gone>> /\ pc'[w] # "delete"
          /\ \A v \in Worker \ {w} : job'[v] = job[v] /\ pc'[v] = pc[v]
      BY <1>5 DEF AnswerStatus, SetContent, BuildStatus, List, Fetch, BuildNotification,
                  Send, Return, Goto, storeVars, historyVars, TypeInv
    <2> QED  BY <2>1 DEF DeletesUnlisted
  <1> QED  BY <1>1, <1>2, <1>3, <1>4, <1>5 DEF RequestStep, HandlerStep

-----------------------------------------------------------------------------
\* What the other handlers have yet to tell is what it was, or more when an id is new.
LEMMA OthersBehind ==
    ASSUME NEW w \in Worker, ids \subseteq ids',
           \A v \in Worker \ {w} : pc'[v] = pc[v] /\ job'[v] = job[v]
    PROVE  \A v \in Worker \ {w} : Behind(v) \subseteq Behind(v)'
  BY DEF Behind

\* A step keeps the consumers caught up when it keeps what each of them knows, or
\* explains it, or has it on its handler's list.
LEMMA CatchesUp ==
    ASSUME CaughtUp, NEW w \in Worker,
           \A v \in Worker \ {w} : Behind(v) \subseteq Behind(v)',
           \A s \in listed' \intersect DOMAIN told' :
              Pushed(content'[s]) =>
                 \/ s \in Behind(w)' \/ told'[s] = status' \/ s \in stale'
                 \/ /\ s \in listed \intersect DOMAIN told /\ s \notin Behind(w)
                    /\ Pushed(content[s])
                    /\ told[s] = status => told'[s] = status'
                    /\ s \in stale => s \in stale'
    PROVE  CaughtUp'
  <1> SUFFICES ASSUME NEW s \in listed' \intersect DOMAIN told', Pushed(content'[s])
               PROVE  \/ told'[s] = status' \/ s \in stale'
                      \/ \E v \in Worker : s \in Behind(v)'
    BY DEF CaughtUp, Pushed
  <1> QED  BY DEF CaughtUp

\* A request begins in a handler that has nobody to tell.
LEMMA BeginFrame ==
    ASSUME TypeInv, NEW w \in Worker, NEW locals, NEW label \in SpendingLabel,
           Begin(w, locals, label)
    PROVE  /\ Behind(w) = {} /\ pc'[w] = label /\ job'[w] = locals
           /\ \A v \in Worker \ {w} : pc'[v] = pc[v] /\ job'[v] = job[v]
  BY DEF Begin, TypeInv, Behind

\* A PUT has everybody on its list; the other requests change nothing a consumer knows.
LEMMA RequestCatchesUp ==
    ASSUME TypeInv, CaughtUp, NEW w \in Worker, RequestStep(w)
    PROVE  CaughtUp'
  <1>1. CASE \E value \in Status : PutStatus(w, value)
    <2>1. /\ pc'[w] = "list" /\ Behind(w) = {}
          /\ \A v \in Worker \ {w} : pc'[v] = pc[v] /\ job'[v] = job[v]
      BY <1>1, BeginFrame DEF PutStatus, SpendingLabel
    <2>2. UNCHANGED <<ids, listed, content, told, stale>>
      BY <1>1 DEF PutStatus
    <2>3. Behind(w)' = ids
      BY <2>1, <2>2 DEF Behind
    <2>4. DOMAIN told \subseteq ids
      BY DEF TypeInv
    <2>5. \A v \in Worker \ {w} : Behind(v) \subseteq Behind(v)'
      BY <2>1, <2>2, OthersBehind
    <2> QED  BY <2>2, <2>3, <2>4, <2>5, CatchesUp
  <1>2. CASE \/ \E context \in Context : Subscribe(w, context)
             \/ \E s \in Subscription, context \in Context : Update(w, s, context)
             \/ \E s \in Subscription : Unsubscribe(w, s)
    <2>1. /\ Behind(w) = {}
          /\ \A v \in Worker \ {w} : pc'[v] = pc[v] /\ job'[v] = job[v]
      BY <1>2, BeginFrame DEF Subscribe, Update, Unsubscribe, SpendingLabel
    <2>2. UNCHANGED <<ids, content, status, told, stale>> /\ listed' \subseteq listed
      BY <1>2 DEF Subscribe, Update, Unsubscribe, storeVars
    <2>3. \A v \in Worker \ {w} : Behind(v) \subseteq Behind(v)'
      BY <2>1, <2>2, OthersBehind
    <2> QED  BY <2>1, <2>2, <2>3, CatchesUp
  <1> QED  BY <1>1, <1>2 DEF RequestStep

\* What a message leaves: the consumer knows the status, or the message was late.
LEMMA Told ==
    ASSUME NEW s, NEW view, Tell(s, view)
    PROVE  /\ DOMAIN told' = DOMAIN told \union {s}
           /\ told'[s] = status \/ s \in stale'
           /\ \A t : t # s => /\ t \in DOMAIN told => told'[t] = told[t]
                              /\ t \in stale => t \in stale'
  <1>1. told' = With(told, s, view)
    BY DEF Tell
  <1>2. stale' = IF view = status THEN stale \ {s} ELSE stale \union {s}
    BY DEF Tell
  <1>3. /\ DOMAIN told' = DOMAIN told \union {s} /\ told'[s] = view
        /\ \A t \in DOMAIN told : t # s => told'[t] = told[t]
    BY <1>1 DEF With
  <1> QED  BY <1>2, <1>3

\* A new subscription has no consumer that knows its id yet.
LEMMA StoreCatchesUp ==
    ASSUME TypeInv, CaughtUp, NEW w \in Worker, Store(w)
    PROVE  CaughtUp'
  <1>1. PICK s \in Subscription \ ids :
           /\ ids' = ids \union {s} /\ listed' = listed \union {s}
           /\ content' = With(content, s, job[w].context)
           /\ job' = [job EXCEPT ![w].id = s]
    BY DEF Store
  <1>2. /\ Behind(w) = {} /\ UNCHANGED <<status, told, stale>>
        /\ \A v \in Worker \ {w} : pc'[v] = pc[v] /\ job'[v] = job[v]
    BY <1>1 DEF Store, Goto, historyVars, Behind, TypeInv
  <1>3. \A v \in Worker \ {w} : Behind(v) \subseteq Behind(v)'
    BY <1>1, <1>2, OthersBehind
  <1>4. s \notin DOMAIN told /\ listed \subseteq DOMAIN content
    BY DEF TypeInv
  <1>5. \A t \in DOMAIN content : t # s => content'[t] = content[t]
    BY <1>1 DEF With
  <1> QED  BY <1>1, <1>2, <1>3, <1>4, <1>5, CatchesUp

\* A content that changes does so before its answer.
LEMMA SetCatchesUp ==
    ASSUME TypeInv, CaughtUp, NEW w \in Worker, SetContent(w)
    PROVE  CaughtUp'
  <1> DEFINE s == job[w].id
  <1>1. /\ content' = With(content, s, job[w].context) /\ pc[w] = "set" /\ pc'[w] = "build"
        /\ UNCHANGED <<ids, listed, status, told, stale, job>>
        /\ \A v \in Worker \ {w} : pc'[v] = pc[v]
    BY DEF SetContent, Goto, historyVars, TypeInv
  <1>2. \A v \in Worker \ {w} : Behind(v) \subseteq Behind(v)'
    BY <1>1, OthersBehind
  <1>3. Behind(w) = {} /\ Behind(w)' = {s} /\ listed \subseteq DOMAIN content
    BY <1>1 DEF Behind, TypeInv
  <1>4. \A t \in DOMAIN content : t # s => content'[t] = content[t]
    BY <1>1 DEF With
  <1> QED  BY <1>1, <1>2, <1>3, <1>4, CatchesUp

\* An answer is built, and reaches its consumer.
LEMMA AnswerCatchesUp ==
    ASSUME TypeInv, CaughtUp, NEW w \in Worker, BuildStatus(w) \/ AnswerStatus(w)
    PROVE  CaughtUp'
  <1> DEFINE s == job[w].id
  <1>1. UNCHANGED <<ids, listed, content, status>>
    BY DEF BuildStatus, AnswerStatus, storeVars
  <1>2. Behind(w) = {s} /\ \A v \in Worker \ {w} : pc'[v] = pc[v] /\ job'[v] = job[v]
    BY DEF BuildStatus, AnswerStatus, Goto, Return, Behind, TypeInv
  <1>3. \A v \in Worker \ {w} : Behind(v) \subseteq Behind(v)'
    BY <1>1, <1>2, OthersBehind
  <1>4. CASE BuildStatus(w)
    <2>1. UNCHANGED <<told, stale>> /\ pc'[w] = "answer" /\ job'[w].id = s
      BY <1>4 DEF BuildStatus, Goto, historyVars, TypeInv, Locals
    <2>2. Behind(w)' = {s}
      BY <2>1 DEF Behind
    <2> QED  BY <1>1, <1>2, <1>3, <2>1, <2>2, CatchesUp
  <1>5. CASE AnswerStatus(w)
    <2>1. Tell(s, job[w].view)
      BY <1>5 DEF AnswerStatus
    <2>2. /\ DOMAIN told' = DOMAIN told \union {s}
          /\ told'[s] = status \/ s \in stale'
          /\ \A t : t # s => /\ t \in DOMAIN told => told'[t] = told[t]
                             /\ t \in stale => t \in stale'
      BY <2>1, Told
    <2> QED  BY <1>1, <1>2, <1>3, <2>2, CatchesUp
  <1> QED  BY <1>4, <1>5

\* A consumer without content is off the list.
LEMMA DeleteCatchesUp ==
    ASSUME TypeInv, DeletesUnlisted, CaughtUp, NEW w \in Worker, DeleteContent(w)
    PROVE  CaughtUp'
  <1> DEFINE s == job[w].id
  <1>1. /\ content' = [t \in DOMAIN content \ {s} |-> content[t]] /\ pc[w] = "delete"
        /\ UNCHANGED <<ids, listed, status, told, stale>>
        /\ \A v \in Worker \ {w} : pc'[v] = pc[v] /\ job'[v] = job[v]
    BY DEF DeleteContent, Return, TypeInv
  <1>2. \A v \in Worker \ {w} : Behind(v) \subseteq Behind(v)'
    BY <1>1, OthersBehind
  <1>3. Behind(w) = {} /\ s \notin listed /\ listed \subseteq DOMAIN content
    BY <1>1 DEF Behind, TypeInv, DeletesUnlisted
  <1> QED  BY <1>1, <1>2, <1>3, CatchesUp

\* The steps of the push: nobody it is for is forgotten between the list and the
\* POST.
LEMMA PushCatchesUp ==
    ASSUME TypeInv, CaughtUp, NEW w \in Worker, List(w) \/ Fetch(w) \/ BuildNotification(w)
    PROVE  CaughtUp'
  <1>1. /\ UNCHANGED <<ids, listed, content, status, told, stale>>
        /\ \A v \in Worker \ {w} : pc'[v] = pc[v] /\ job'[v] = job[v]
    BY DEF List, Fetch, BuildNotification, Goto, Return, storeVars, historyVars, TypeInv
  <1>2. \A v \in Worker \ {w} : Behind(v) \subseteq Behind(v)'
    BY <1>1, OthersBehind
  <1> SUFFICES \A s \in Behind(w) \intersect listed :
                  Pushed(content[s]) => s \in Behind(w)'
    BY <1>1, <1>2, CatchesUp
  <1>3. CASE List(w)
    <2>1. pc'[w] = "fetch" /\ job'[w].todo = listed
      BY <1>3 DEF List, Goto, TypeInv, Locals
    <2> QED  BY <2>1 DEF Behind
  <1>4. ASSUME NEW s \in job[w].todo, pc[w] = "fetch", pc' = pc,
               job' = [job EXCEPT ![w].todo = @ \ {s},
                          ![w].targets = IF s \in DOMAIN content /\ Pushed(content[s])
                                         THEN @ \union {s} ELSE @]
        PROVE  \A t \in Behind(w) \intersect listed : Pushed(content[t]) => t \in Behind(w)'
    <2>1. /\ job'[w].todo = job[w].todo \ {s}
          /\ s \in DOMAIN content /\ Pushed(content[s])
               => job'[w].targets = job[w].targets \union {s}
          /\ ~(s \in DOMAIN content /\ Pushed(content[s])) => job'[w].targets = job[w].targets
      BY <1>4 DEF TypeInv, Locals
    <2>2. /\ Behind(w)' = job'[w].todo \union job'[w].targets
          /\ Behind(w) = job[w].todo \union job[w].targets
      BY <1>4 DEF Behind
    <2>3. listed \subseteq DOMAIN content
      BY DEF TypeInv
    <2> QED  BY <2>1, <2>2, <2>3
  <1>5. CASE pc[w] = "fetch" /\ job[w].todo = {} /\ Goto(w, "push") /\ job' = job
    <2>1. pc'[w] = "push"
      BY <1>5 DEF Goto, TypeInv
    <2> QED  BY <1>5, <2>1 DEF Behind
  <1>6. ASSUME NEW s \in job[w].targets, pc[w] = "push", Goto(w, "send"),
               job' = [job EXCEPT ![w].targets = @ \ {s}, ![w].id = s, ![w].view = status]
        PROVE  Behind(w) \subseteq Behind(w)'
    <2>1. job'[w].targets = job[w].targets \ {s} /\ job'[w].id = s /\ pc'[w] = "send"
      BY <1>6 DEF Goto, TypeInv, Locals
    <2> QED  BY <1>6, <2>1 DEF Behind
  <1>7. CASE pc[w] = "push" /\ job[w].targets = {}
    BY <1>7 DEF Behind
  <1> QED  BY <1>3, <1>4, <1>5, <1>6, <1>7 DEF Fetch, BuildNotification

\* The POST arrives, or it is lost.
LEMMA SendCatchesUp ==
    ASSUME TypeInv, CaughtUp, NEW w \in Worker, Send(w)
    PROVE  CaughtUp'
  <1> DEFINE s == job[w].id
  <1>1. /\ pc[w] = "send" /\ pc'[w] = "push" /\ UNCHANGED <<ids, listed, content, status, job>>
        /\ \A v \in Worker \ {w} : pc'[v] = pc[v]
    BY DEF Send, Goto, storeVars, TypeInv
  <1>2. Behind(w) = job[w].targets \union {s} /\ Behind(w)' = job[w].targets
    BY <1>1 DEF Behind
  <1>3. \A v \in Worker \ {w} : Behind(v) \subseteq Behind(v)'
    BY <1>1, OthersBehind
  <1>4. CASE Tell(s, job[w].view)
    <2>1. /\ DOMAIN told' = DOMAIN told \union {s}
          /\ told'[s] = status \/ s \in stale'
          /\ \A t : t # s => /\ t \in DOMAIN told => told'[t] = told[t]
                             /\ t \in stale => t \in stale'
      BY <1>4, Told
    <2> QED  BY <1>1, <1>2, <1>3, <2>1, CatchesUp
  <1>5. CASE stale' = stale \union {s} /\ told' = told
    BY <1>1, <1>2, <1>3, <1>5, CatchesUp
  <1> QED  BY <1>4, <1>5 DEF Send

-----------------------------------------------------------------------------
\* A request that overlaps nothing is begun between requests.
LEMMA BegunAlone ==
    ASSUME TypeInv, OneAtATime, NEW w \in Worker, NEW locals, NEW label \in SpendingLabel,
           Begin(w, locals, label), ~overlapped'
    PROVE  /\ DOMAIN content \subseteq listed
           /\ pc'[w] = label /\ job'[w] = locals
           /\ \A v \in Worker \ {w} : pc'[v] = "idle"
  <1>1. ~overlapped /\ \A v \in Worker : pc[v] = "idle"
    BY DEF Begin, TypeInv
  <1>2. DOMAIN content \subseteq listed
    BY <1>1 DEF OneAtATime, Serving
  <1> QED  BY <1>1, <1>2 DEF Begin, TypeInv

\* Each request begins with content and list in agreement.
LEMMA RequestServes ==
    ASSUME TypeInv, OneAtATime, NEW w \in Worker, RequestStep(w)
    PROVE  OneAtATime'
  <1> SUFFICES ASSUME ~overlapped' PROVE Serving(w)'
    BY DEF OneAtATime
  <1>1. CASE \/ \E context \in Context : Subscribe(w, context)
             \/ \E value \in Status : PutStatus(w, value)
    <2>1. /\ DOMAIN content \subseteq listed /\ pc'[w] \in {"store", "list"}
          /\ \A v \in Worker \ {w} : pc'[v] = "idle"
      BY <1>1, BegunAlone DEF Subscribe, PutStatus, SpendingLabel
    <2>2. UNCHANGED <<listed, content>>
      BY <1>1 DEF Subscribe, PutStatus, storeVars
    <2> QED  BY <2>1, <2>2 DEF Serving
  <1>2. ASSUME NEW s \in Subscription, NEW context \in Context, Update(w, s, context)
        PROVE  Serving(w)'
    <2>1. /\ DOMAIN content \subseteq listed /\ pc'[w] = "set"
          /\ \A v \in Worker \ {w} : pc'[v] = "idle"
          /\ job'[w] = [NoJob EXCEPT !.id = s, !.context = context]
      BY <1>2, BegunAlone DEF Update, SpendingLabel
    <2>2. UNCHANGED <<listed, content>> /\ s \in DOMAIN content
      BY <1>2 DEF Update, storeVars
    <2>3. job'[w].id = s
      BY <2>1 DEF NoJob
    <2> QED  BY <2>1, <2>2, <2>3 DEF Serving
  <1>3. ASSUME NEW s \in Subscription, Unsubscribe(w, s) PROVE Serving(w)'
    <2>1. /\ DOMAIN content \subseteq listed /\ pc'[w] = "delete"
          /\ \A v \in Worker \ {w} : pc'[v] = "idle"
          /\ job'[w] = [NoJob EXCEPT !.id = s]
      BY <1>3, BegunAlone DEF Unsubscribe, SpendingLabel
    <2>2. UNCHANGED content /\ listed' = listed \ {s}
      BY <1>3 DEF Unsubscribe
    <2>3. job'[w].id = s
      BY <2>1 DEF NoJob
    <2> QED  BY <2>1, <2>2, <2>3 DEF Serving
  <1> QED  BY <1>1, <1>2, <1>3 DEF RequestStep

\* The steps of a handler that is alone keep them in agreement.
LEMMA HandlerServes ==
    ASSUME TypeInv, DeletesUnlisted, OneAtATime, NEW w \in Worker, HandlerStep(w)
    PROVE  OneAtATime'
  <1>1. overlapped' = overlapped /\ pc[w] # "idle"
    BY DEF HandlerStep, Store, AnswerStatus, SetContent, BuildStatus, DeleteContent, List,
           Fetch, BuildNotification, Send, historyVars
  <1> SUFFICES ASSUME ~overlapped
               PROVE  Serving(w)' \/ (Idle' /\ DOMAIN content' \subseteq listed')
    BY <1>1 DEF OneAtATime
  <1>2. Serving(w)
    BY <1>1 DEF OneAtATime, Idle, Serving
  <1>3. CASE Store(w)
    <2>1. PICK s \in Subscription \ ids :
             listed' = listed \union {s} /\ content' = With(content, s, job[w].context)
      BY <1>3 DEF Store
    <2>2. pc[w] = "store" /\ pc'[w] = "answer" /\ \A v \in Worker \ {w} : pc'[v] = "idle"
      BY <1>2, <1>3 DEF Store, Goto, Serving, TypeInv
    <2>3. DOMAIN content' = DOMAIN content \union {s}
      BY <2>1 DEF With
    <2> QED  BY <1>2, <2>1, <2>2, <2>3 DEF Serving
  <1>4. CASE SetContent(w)
    <2>1. /\ content' = With(content, job[w].id, job[w].context) /\ UNCHANGED listed
          /\ pc[w] = "set" /\ pc'[w] = "build" /\ \A v \in Worker \ {w} : pc'[v] = "idle"
      BY <1>2, <1>4 DEF SetContent, Goto, Serving, TypeInv
    <2>2. DOMAIN content' = DOMAIN content \union {job[w].id}
      BY <2>1 DEF With
    <2> QED  BY <1>2, <2>1, <2>2 DEF Serving
  <1>5. CASE DeleteContent(w)
    <2>1. /\ content' = [t \in DOMAIN content \ {job[w].id} |-> content[t]]
          /\ pc[w] = "delete" /\ UNCHANGED listed /\ \A v \in Worker : pc'[v] = "idle"
      BY <1>2, <1>5 DEF DeleteContent, Return, Serving, TypeInv
    <2> QED  BY <1>2, <2>1 DEF Serving, Idle
  <1>6. CASE AnswerStatus(w) \/ BuildStatus(w) \/ List(w) \/ Fetch(w) \/ BuildNotification(w)
             \/ Send(w)
    <2>1. /\ UNCHANGED <<listed, content>> /\ pc[w] \notin {"delete", "set"}
          /\ pc'[w] \notin {"delete", "set"} /\ \A v \in Worker \ {w} : pc'[v] = "idle"
      BY <1>2, <1>6 DEF AnswerStatus, BuildStatus, List, Fetch, BuildNotification, Send,
                        Goto, Return, storeVars, Serving, TypeInv
    <2> QED  BY <1>2, <2>1 DEF Serving, Idle
  <1> QED  BY <1>3, <1>4, <1>5, <1>6 DEF HandlerStep

\* The inductive step.
LEMMA SpendingStep == SpendingInv /\ [SpendingNext]_spendingVars => SpendingInv'
  <1> SUFFICES ASSUME SpendingInv, [SpendingNext]_spendingVars PROVE SpendingInv'
    OBVIOUS
  <1>1. TypeInv /\ DeletesUnlisted /\ CaughtUp /\ OneAtATime
    BY DEF SpendingInv
  <1>2. ASSUME NEW w \in Worker, RequestStep(w) PROVE SpendingInv'
    BY <1>1, <1>2, RequestTyped, DeletesStayUnlisted, RequestCatchesUp, RequestServes
       DEF SpendingInv
  <1>3. ASSUME NEW w \in Worker, HandlerStep(w) PROVE SpendingInv'
    <2>1. CaughtUp'
      BY <1>1, <1>3, StoreCatchesUp, SetCatchesUp, AnswerCatchesUp, DeleteCatchesUp,
         PushCatchesUp, SendCatchesUp DEF HandlerStep
    <2> QED  BY <1>1, <1>3, <2>1, HandlerTyped, DeletesStayUnlisted, HandlerServes
             DEF SpendingInv
  <1>4. CASE UNCHANGED spendingVars
    <2>1. UNCHANGED <<ids, listed, content, status, pc, job, told, gone, stale, overlapped>>
      BY <1>4 DEF spendingVars, storeVars, historyVars
    <2>2. Locals' = Locals /\ \A w \in Worker : Behind(w)' = Behind(w)
      BY <2>1 DEF Locals, Behind
    <2>3. TypeInv'
      BY <1>1, <2>1, <2>2 DEF TypeInv
    <2>4. DeletesUnlisted'
      BY <1>1, <2>1 DEF DeletesUnlisted
    <2>5. CaughtUp'
      BY <1>1, <2>1, <2>2 DEF CaughtUp, Pushed
    <2>6. OneAtATime'
      BY <1>1, <2>1 DEF OneAtATime, Serving, Idle
    <2> QED  BY <2>3, <2>4, <2>5, <2>6 DEF SpendingInv
  <1> QED  BY <1>2, <1>3, <1>4 DEF SpendingNext

-----------------------------------------------------------------------------
\* The inductive invariant of the subscriptions and the push, for any number of
\* subscriptions, handlers, requests and lost notifications.
THEOREM SpendingKeepsOrder == SpendingSpec => []SpendingInv
  BY SpendingStarts, SpendingStep, PTL DEF SpendingSpec

\* An id whose DELETE was answered 204 is never active again, whatever requests
\* overlapped: only Store lists an id, and it lists a new one.
THEOREM UnsubscribeIsFinalHolds == SpendingSpec => []UnsubscribeIsFinal
  <1>1. SpendingInv => UnsubscribeIsFinal
    BY DEF SpendingInv, DeletesUnlisted, UnsubscribeIsFinal
  <1> QED  BY <1>1, SpendingKeepsOrder, PTL

\* Requests that are served one at a time leave no content behind a subscription
\* that is gone.
THEOREM NoOrphanContentHolds == SpendingSpec => []NoOrphanContent
  <1>1. SpendingInv => NoOrphanContent
    BY DEF SpendingInv, OneAtATime, Serving, NoOrphanContent, Idle
  <1> QED  BY <1>1, SpendingKeepsOrder, PTL

\* Whatever requests overlap, a consumer the push is for knows the status when no
\* handler is in progress, unless its last message was lost or came late: between a
\* change and the end of its push somebody has the consumer on a list.
THEOREM ConsumersKnowStatusHolds == SpendingSpec => []ConsumersKnowStatus
  <1>1. SpendingInv => ConsumersKnowStatus
    BY DEF SpendingInv, CaughtUp, Behind, ConsumersKnowStatus, Idle
  <1> QED  BY <1>1, SpendingKeepsOrder, PTL
=============================================================================
