--------------------------- MODULE N2HandoverProofs ---------------------------
(***************************************************************************)
(* For any number of gNBs, UEs, associations and handovers: a relay that   *)
(* nothing else of its target's disturbs ends with its own answer; the     *)
(* entry of a UE leads to the gNB that serves it once its arrival is       *)
(* handled; the AMF releases a UE there only when a cancel or a disturbed  *)
(* relay accounts for it; and a cancelled handover leaves nothing behind   *)
(* at a registered target.                                                 *)
(***************************************************************************)
EXTENDS N2Handover, SequenceTheorems, TLAPS

LinkedAmf == [Link -> Seq(ToAmf)]
LinkedGnb == [Link -> Seq(ToGnb)]
Relayed == [by : Gnb \union {None}, to : Gnb \union {None}, calledOff : BOOLEAN]

-----------------------------------------------------------------------------
(* Types. *)

\* The first association of a gNB is one.
LEMMA FirstLink == \A g \in Gnb : <<g, 1>> \in Link /\ \A n \in 1 .. MaxLinks : <<g, n>> \in Link
  BY HandoverAssumption DEF Link

\* What is sent to a gNB, or not, keeps the sequences typed.
LEMMA SentTyped ==
    ASSUME NEW box \in LinkedGnb, NEW l, NEW u \in Ue,
           NEW kind \in {"request", "command", "failure", "cancelled", "release"}
    PROVE  Sent(box, l, kind, u) \in LinkedGnb
<1>1. Message(kind, u, None) \in ToGnb
  BY DEF Message, ToGnb
<1>2. CASE l \in Link
  <2>1. Append(box[l], Message(kind, u, None)) \in Seq(ToGnb)
    BY <1>1, <1>2, AppendProperties DEF LinkedGnb
  <2> QED BY <1>2, <2>1 DEF Sent, LinkedGnb
<1> QED BY <1>2 DEF Sent

\* A message read from an association is one a gNB sends.
LEMMA ReadTyped ==
    ASSUME inbox \in LinkedAmf, NEW l \in Link, inbox[l] # <<>>
    PROVE  Consumed(l) \in LinkedAmf /\ Head(inbox[l]) \in ToAmf
<1>1. Tail(inbox[l]) \in Seq(ToAmf) /\ Head(inbox[l]) \in ToAmf
  BY HeadTailProperties DEF LinkedAmf
<1> QED BY <1>1 DEF Consumed, LinkedAmf

\* The messages that name a UE only, and the one that names a target.
LEMMA AmfMessages ==
    /\ \A m \in ToAmf : m.ue \in Ue
    /\ \A m \in ToAmf : m.kind = "required" => m.to \in Gnb
    /\ \A m \in ToAmf : m.kind # "required" => m.to = None
    /\ \A u \in Ue : Message("accept", u, None) \in ToAmf /\ Message("refuse", u, None) \in ToAmf
    /\ \A u \in Ue : Message("cancel", u, None) \in ToAmf /\ Message("notify", u, None) \in ToAmf
    /\ \A u \in Ue : Message("complete", u, None) \in ToAmf
    /\ \A u \in Ue, to \in Gnb : Message("required", u, to) \in ToAmf
  BY DEF ToAmf, Message

\* What a gNB sends keeps the sequences typed.
LEMMA ToTheAmfTyped ==
    ASSUME HandoverTypeOK, NEW g \in Gnb, NEW kind, NEW u, NEW to, Message(kind, u, to) \in ToAmf
    PROVE  LinkOf(g) \in Link /\ ToTheAmf(g, kind, u, to) \in LinkedAmf
<1>1. LinkOf(g) \in Link
  BY FirstLink DEF LinkOf, HandoverTypeOK
<1>2. Append(inbox[LinkOf(g)], Message(kind, u, to)) \in Seq(ToAmf)
  BY <1>1, AppendProperties DEF HandoverTypeOK
<1> QED BY <1>1, <1>2 DEF ToTheAmf, LinkedAmf, HandoverTypeOK

\* What a gNB hears leaves the rest of its sequence.
LEMMA HearsTyped ==
    ASSUME HandoverTypeOK, NEW g \in Gnb, NEW kind, NEW u, Hears(g, kind, u)
    PROVE  LinkOf(g) \in Link /\ outbox' \in LinkedGnb
<1>1. LinkOf(g) \in Link
  BY FirstLink DEF LinkOf, HandoverTypeOK
<1>2. Tail(outbox[LinkOf(g)]) \in Seq(ToGnb)
  BY <1>1, HeadTailProperties DEF Hears, HandoverTypeOK
<1> QED BY <1>1, <1>2 DEF Hears, LinkedGnb, HandoverTypeOK

\* The tasks of a thread.
LEMMA TaskTyped ==
    /\ Reading \in Task
    /\ \A u \in Ue, to \in Gnb, via \in Link, b \in BOOLEAN :
          [at |-> "waiting", ue |-> u, to |-> to, via |-> via, got |-> Nothing, alone |-> b] \in Task
    /\ \A u \in Ue, to \in Gnb \union {None}, at \in {"callingOff", "repointing"} :
          [Reading EXCEPT !.at = at, !.ue = u, !.to = to] \in Task
    /\ \A u \in Ue : [Reading EXCEPT !.at = "repointing", !.ue = u] \in Task
  BY DEF Reading, Task

Waits == [at : {"waiting"}, ue : Ue, to : Gnb, via : Link, got : {Nothing}, alone : BOOLEAN]
AnswersOf == [at : {"answering"}, ue : Ue, to : Gnb, via : Link, got : Replies \ {Nothing},
              alone : BOOLEAN]
Informs == [at : {"callingOff", "repointing"}, ue : Ue, to : Gnb \union {None},
            via : {NoLink}, got : {Nothing}, alone : {FALSE}]

\* What the step of a thread says of the other fields of its task.
LEMMA TaskFields ==
    ASSUME NEW t \in Task
    PROVE  /\ t.at # "reading" => t.ue \in Ue
           /\ t.at \in {"callingOff", "repointing"} => t.to \in Gnb \union {None}
           /\ t.at \in {"waiting", "answering"} => t.to \in Gnb /\ t.via \in Link
           /\ t.at = "answering" => t.got \in Replies \ {Nothing}
           /\ t.alone \in BOOLEAN
<1>1. CASE t = Reading
  BY <1>1 DEF Reading
<1>2. CASE t \in Waits
  BY <1>2 DEF Waits
<1>3. CASE t \in AnswersOf
  BY <1>3 DEF AnswersOf
<1>4. CASE t \in Informs
  BY <1>4 DEF Informs
<1> QED BY <1>1, <1>2, <1>3, <1>4 DEF Task, Waits, AnswersOf, Informs

\* A task whose relay is disturbed, and one that is given a reply.
LEMMA WaitingTask ==
    ASSUME NEW t \in Task, t.at = "waiting"
    PROVE  t \in Waits
<1>1. t # Reading
  BY DEF Reading
<1>2. t \notin AnswersOf
  BY DEF AnswersOf
<1>3. t \notin Informs
  BY DEF Informs
<1> QED BY <1>1, <1>2, <1>3 DEF Task, Waits, AnswersOf, Informs

\* A waiting task that is disturbed, or takes a reply, is a task.
LEMMA TaskChanges ==
    ASSUME NEW t \in Task, t.at = "waiting"
    PROVE  /\ [t EXCEPT !.alone = FALSE] \in Task
           /\ \A r \in Replies \ {Nothing} : [t EXCEPT !.at = "answering", !.got = r] \in Task
<1>1. t \in Waits
  BY WaitingTask
<1>2. [t EXCEPT !.alone = FALSE] \in Waits
  BY <1>1 DEF Waits
<1>3. \A r \in Replies \ {Nothing} : [t EXCEPT !.at = "answering", !.got = r] \in AnswersOf
  BY <1>1 DEF Waits, AnswersOf
<1> QED BY <1>2, <1>3 DEF Task, Waits, AnswersOf

\* What a slot is given, by the target or by an earlier waiter, is a reply.
LEMMA RepliesTyped ==
    /\ Nothing \in Replies /\ MovedOut \in Replies \ {Nothing}
    /\ \A m \in ToAmf : m.kind \in {"accept", "refuse"} => [kind |-> m.kind, ue |-> m.ue] \in Answers
    /\ Answers \subseteq Replies \ {Nothing}
    /\ \A r \in Replies : r.kind = "accept" => r \in Answers /\ r.ue \in Ue
  BY DEF Nothing, MovedOut, Answers, Replies, ToAmf

\* A relay gives its thread, and the threads whose relay it disturbs, a task.
LEMMA RelayTyped ==
    ASSUME HandoverTypeOK, NEW l \in Link, NEW u \in Ue, NEW to \in Gnb, registered[to] # NoLink,
           Relay(l, u, to)
    PROVE  /\ registered[to] \in Link
           /\ slot' \in [Link -> [awaiting : BOOLEAN, reply : Replies]]
           /\ outbox' \in LinkedGnb
           /\ thread' \in [Link -> Task]
           /\ relayed' \in [Ue -> Relayed]
<1>1. registered[to] \in Link
  BY DEF HandoverTypeOK
<1>2. slot' \in [Link -> [awaiting : BOOLEAN, reply : Replies]]
  BY <1>1, RepliesTyped DEF Relay, HandoverTypeOK
<1>3. outbox' \in LinkedGnb
  BY <1>1, SentTyped DEF Relay, LinkedGnb, HandoverTypeOK
<1>4. thread' \in [Link -> Task]
  <2>1. [at |-> "waiting", ue |-> u, to |-> to, via |-> registered[to], got |-> Nothing,
         alone |-> Undisturbed(to)] \in Task
    BY <1>1, TaskTyped DEF Undisturbed
  <2>2. \A k \in Link : thread[k] \in Task
    BY DEF HandoverTypeOK
  <2>3. \A k \in Link : thread[k].at = "waiting" => [thread[k] EXCEPT !.alone = FALSE] \in Task
    BY <2>2, TaskChanges
  <2> QED BY <2>1, <2>2, <2>3 DEF Relay, Waiting
<1>5. relayed' \in [Ue -> Relayed]
  <2>1. relayed \in [Ue -> Relayed]
    BY DEF Relayed, HandoverTypeOK
  <2>2. [relayed[u] EXCEPT !.to = to] \in Relayed
    BY <2>1 DEF Relayed
  <2>3. relayed' = [relayed EXCEPT ![u] = [relayed[u] EXCEPT !.to = to]]
    BY <2>1 DEF Relay
  <2> QED BY <2>1, <2>2, <2>3
<1> QED BY <1>1, <1>2, <1>3, <1>4, <1>5

\* A slot that stops awaiting a reply, and one that is given one.
LEMMA SlotTyped ==
    ASSUME HandoverTypeOK, NEW k \in Link
    PROVE  /\ [slot EXCEPT ![k].awaiting = FALSE] \in [Link -> [awaiting : BOOLEAN, reply : Replies]]
           /\ \A r \in Replies :
                 [slot EXCEPT ![k].reply = r] \in [Link -> [awaiting : BOOLEAN, reply : Replies]]
<1> DEFINE Slots == [awaiting : BOOLEAN, reply : Replies]
<1>1. slot \in [Link -> Slots]
  BY DEF HandoverTypeOK
<1>2. [slot[k] EXCEPT !.awaiting = FALSE] \in Slots
  BY <1>1
<1>3. ASSUME NEW r \in Replies PROVE [slot EXCEPT ![k].reply = r] \in [Link -> Slots]
  <2>1. [slot[k] EXCEPT !.reply = r] \in Slots
    BY <1>1
  <2> HIDE DEF Slots
  <2> QED BY <1>1, <2>1
<1> HIDE DEF Slots
<1>4. [slot EXCEPT ![k].awaiting = FALSE] \in [Link -> Slots]
  BY <1>1, <1>2
<1> QED BY <1>3, <1>4 DEF Slots

\* Each step of a thread keeps the types of the variables it assigns.
LEMMA ThreadTypeStep ==
    ASSUME HandoverTypeOK, NEW l \in Link, ThreadStep(l)
    PROVE  HandoverTypeOK'
<1> USE DEF smfVars, ranVars, historyVars, linkVars
<1>0. /\ thread[l] \in Task /\ outbox \in LinkedGnb /\ inbox \in LinkedAmf
      /\ thread[l].at # "reading" => thread[l].ue \in Ue
  BY TaskFields DEF HandoverTypeOK, LinkedGnb, LinkedAmf
<1>a. \A kind : Reads(l, kind) =>
          Consumed(l) \in LinkedAmf /\ Head(inbox[l]) \in ToAmf /\ Head(inbox[l]).ue \in Ue
  BY <1>0, ReadTyped, AmfMessages DEF Reads
<1>b. \A u \in Ue : /\ Sent(outbox, l, "failure", u) \in LinkedGnb
                    /\ Sent(outbox, l, "command", u) \in LinkedGnb
  BY <1>0, SentTyped
<1>c. mishaps \in 0 .. MaxMishaps => (Mishap => mishaps' \in 0 .. MaxMishaps)
  BY HandoverAssumption DEF Mishap
<1>1. CASE Required(l)
  <2> DEFINE m == Head(inbox[l])
  <2>1. m.ue \in Ue /\ m.to \in Gnb /\ inbox' \in LinkedAmf
    BY <1>1, <1>a, AmfMessages DEF Required, Reads
  <2>2. CASE Smf /\ registered[m.to] # NoLink /\ target' = [target EXCEPT ![m.ue] = m.to]
             /\ Relay(l, m.ue, m.to)
    <3>1. /\ slot' \in [Link -> [awaiting : BOOLEAN, reply : Replies]]
          /\ outbox' \in LinkedGnb
          /\ thread' \in [Link -> Task]
          /\ relayed' \in [Ue -> Relayed]
      BY <2>1, <2>2, RelayTyped
    <3>2. target' \in [Ue -> Gnb \union {None}]
      BY <2>1, <2>2 DEF HandoverTypeOK
    <3> HIDE DEF m
    <3> QED BY <1>1, <2>1, <2>2, <3>1, <3>2 DEF Required, Smf, Relayed, HandoverTypeOK, LinkedAmf, LinkedGnb
  <2>3. CASE Smf /\ target' = [target EXCEPT ![m.ue] = m.to]
             /\ outbox' = Sent(outbox, l, "failure", m.ue) /\ UNCHANGED <<thread, slot, relayed>>
    <3>1. target' \in [Ue -> Gnb \union {None}] /\ outbox' \in LinkedGnb
      BY <1>b, <2>1, <2>3 DEF HandoverTypeOK
    <3> HIDE DEF m
    <3> QED BY <1>1, <2>1, <2>3, <3>1 DEF Required, Smf, HandoverTypeOK, LinkedAmf, LinkedGnb
  <2>4. CASE Mishap /\ outbox' = Sent(outbox, l, "failure", m.ue)
             /\ UNCHANGED <<thread, slot, target, relayed>>
    <3>1. outbox' \in LinkedGnb /\ mishaps' \in 0 .. MaxMishaps
      BY <1>b, <1>c, <2>1, <2>4 DEF HandoverTypeOK
    <3> HIDE DEF m
    <3> QED BY <1>1, <2>1, <2>4, <3>1 DEF Required, HandoverTypeOK, LinkedAmf, LinkedGnb
  <2> QED BY <1>1, <2>2, <2>3, <2>4 DEF Required
<1>2. CASE Deliver(l)
  <2>1. inbox' \in LinkedAmf
    BY <1>2, <1>a DEF Deliver
  <2>2. [kind |-> Head(inbox[l]).kind, ue |-> Head(inbox[l]).ue] \in Replies
    BY <1>2, <1>a, RepliesTyped DEF Deliver, Reads
  <2>3. slot' \in [Link -> [awaiting : BOOLEAN, reply : Replies]]
    <3> DEFINE found == registered[l[1]]
               reply == [kind |-> Head(inbox[l]).kind, ue |-> Head(inbox[l]).ue]
    <3>1. CASE found # NoLink
      <4>1. found \in Link
        BY <3>1 DEF Link, HandoverTypeOK
      <4>2. [slot EXCEPT ![found].reply = reply] \in [Link -> [awaiting : BOOLEAN, reply : Replies]]
        <5>1. reply \in Replies
          BY <2>2
        <5> HIDE DEF found, reply
        <5> QED BY <4>1, <5>1, SlotTyped
      <4> QED BY <1>2, <4>2 DEF Deliver, HandoverTypeOK
    <3>2. CASE found = NoLink
      BY <1>2, <3>2 DEF Deliver, HandoverTypeOK
    <3> QED BY <3>1, <3>2
  <2> QED BY <1>2, <2>1, <2>3 DEF Deliver, HandoverTypeOK, LinkedAmf
<1>3. CASE Take(l)
  <2>1. thread[l].via \in Link
    BY <1>0, <1>3, TaskFields DEF Take
  <2>2. slot[thread[l].via].reply \in Replies \ {Nothing}
    BY <1>3, <2>1 DEF Take, HandoverTypeOK
  <2>3. thread' \in [Link -> Task]
    BY <1>0, <1>3, <2>2, TaskChanges DEF Take, Goto, HandoverTypeOK
  <2>4. slot' \in [Link -> [awaiting : BOOLEAN, reply : Replies]]
    BY <1>3, <2>1, RepliesTyped DEF Take, HandoverTypeOK
  <2> QED BY <1>3, <2>3, <2>4 DEF Take, HandoverTypeOK
<1>4. CASE TimeOut(l)
  <2>1. outbox' \in LinkedGnb
    BY <1>0, <1>4, <1>b DEF TimeOut
  <2>2. thread[l].via \in Link
    BY <1>0, <1>4, TaskFields DEF TimeOut
  <2>3. slot' \in [Link -> [awaiting : BOOLEAN, reply : Replies]]
    BY <1>4, <2>2, SlotTyped DEF TimeOut
  <2> QED BY <1>4, <2>1, <2>3, TaskTyped DEF TimeOut, Goto, HandoverTypeOK, LinkedGnb
<1>5. CASE Refuse(l)
  <2>1. outbox' \in LinkedGnb
    BY <1>0, <1>5, <1>b DEF Refuse
  <2> QED BY <1>5, <2>1, TaskTyped DEF Refuse, Goto, HandoverTypeOK, LinkedGnb
<1>6. CASE Command(l)
  <2>1. outbox' \in LinkedGnb
    BY <1>0, <1>6, <1>b DEF Command
  <2>2. thread[l].ue \in Ue /\ thread[l].to \in Gnb /\ thread[l].got.ue \in Ue
    BY <1>0, <1>6, TaskFields, RepliesTyped DEF Command
  <2>3. [gnb |-> thread[l].to, ue |-> thread[l].got.ue] \in [gnb : Gnb, ue : Ue]
    BY <2>2
  <2>4. downlink' \in [Ue -> [Session -> [gnb : Gnb, ue : Ue]]]
    BY <1>6, <2>2, <2>3 DEF Command, Moved, HandoverTypeOK
  <2>5. misled' \subseteq Ue
    BY <1>6, <2>2 DEF Command, HandoverTypeOK
  <2> QED BY <1>6, <2>1, <2>4, <2>5, TaskTyped DEF Command, Goto, HandoverTypeOK, LinkedGnb
<1>7. CASE Cancel(l)
  <2>1. inbox' \in LinkedAmf /\ Head(inbox[l]).ue \in Ue
    BY <1>7, <1>a DEF Cancel
  <2>2. hoState' \in [Ue -> {"NONE", "COMPLETED", "CANCELLED"}] /\ mishaps' \in 0 .. MaxMishaps
    BY <1>7, <1>c, <2>1 DEF Cancel, Reported, Smf, HandoverTypeOK
  <2>3. thread' \in [Link -> Task]
    <3>1. target[Head(inbox[l]).ue] \in Gnb \union {None}
      BY <2>1 DEF HandoverTypeOK
    <3>2. [Reading EXCEPT !.at = "callingOff", !.ue = Head(inbox[l]).ue,
                          !.to = target[Head(inbox[l]).ue]] \in Task
      BY <2>1, <3>1, TaskTyped
    <3> QED BY <1>7, <3>2 DEF Cancel, Goto, HandoverTypeOK
  <2> QED BY <1>7, <2>1, <2>2, <2>3 DEF Cancel, HandoverTypeOK, LinkedAmf
<1>8. CASE CallOff(l)
  <2> DEFINE u == thread[l].ue
             to == thread[l].to
             told == IF to = None THEN outbox ELSE Sent(outbox, registered[to], "release", u)
  <2>1. u \in Ue
    BY <1>0, <1>8 DEF CallOff
  <2>2. told \in LinkedGnb
    BY <1>0, <2>1, SentTyped
  <2>3. Sent(told, l, "cancelled", u) \in LinkedGnb
    <3> HIDE DEF told
    <3> QED BY <2>1, <2>2, SentTyped
  <2>4. outbox' \in LinkedGnb
    BY <1>8, <2>3 DEF CallOff
  <2> QED BY <1>8, <2>4, TaskTyped DEF CallOff, Goto, HandoverTypeOK, LinkedGnb
<1>9. CASE Notify(l)
  <2>1. inbox' \in LinkedAmf /\ Head(inbox[l]).ue \in Ue
    BY <1>9, <1>a DEF Notify
  <2>2. hoState' \in [Ue -> {"NONE", "COMPLETED", "CANCELLED"}] /\ mishaps' \in 0 .. MaxMishaps
    BY <1>9, <1>c, <2>1 DEF Notify, Reported, Smf, HandoverTypeOK
  <2>3. thread' \in [Link -> Task] /\ outbox' \in LinkedGnb
    BY <1>0, <1>9, <2>1, TaskTyped, SentTyped DEF Notify, Goto, HandoverTypeOK
  <2> QED BY <1>9, <2>1, <2>2, <2>3 DEF Notify, HandoverTypeOK, LinkedAmf, LinkedGnb
<1>10. CASE Repoint(l)
  <2>1. entry' \in [Ue -> Link \union {NoLink}]
    BY <1>0, <1>10 DEF Repoint, HandoverTypeOK
  <2> QED BY <1>10, <2>1, TaskTyped DEF Repoint, Goto, HandoverTypeOK
<1>11. CASE Complete(l)
  <2>1. inbox' \in LinkedAmf
    BY <1>11, <1>a DEF Complete
  <2>2. entry' \in [Ue -> Link \union {NoLink}] /\ supi' \in [Link -> Ue \union {None}]
    BY <1>11 DEF Complete, Forgotten, HandoverTypeOK
  <2> QED BY <1>11, <2>1, <2>2 DEF Complete, HandoverTypeOK, LinkedAmf
<1>12. CASE Close(l)
  <2>1. l[1] \in Gnb
    BY DEF Link
  <2>2. /\ entry' \in [Ue -> Link \union {NoLink}]
        /\ registered' \in [Gnb -> Link \union {NoLink}]
        /\ phase' \in [Link -> {"unused", "up", "down", "closed"}]
        /\ unlisted' \subseteq Gnb
    BY <1>12, <2>1 DEF Close, Forgotten, HandoverTypeOK
  <2> QED BY <1>12, <2>2 DEF Close, HandoverTypeOK
<1> QED BY <1>1, <1>2, <1>3, <1>4, <1>5, <1>6, <1>7, <1>8, <1>9, <1>10, <1>11, <1>12 DEF ThreadStep

\* A source that forgets a handover.
LEMMA ForgetWanted ==
    ASSUME HandoverTypeOK, NEW g \in Gnb, NEW u \in Ue
    PROVE  /\ wanted \in [Gnb -> [Ue -> Gnb \union {None}]]
           /\ [wanted EXCEPT ![g][u] = None] \in [Gnb -> [Ue -> Gnb \union {None}]]
  BY DEF HandoverTypeOK

\* Each step of a gNB does, too.
LEMMA GnbTypeStep ==
    ASSUME HandoverTypeOK, NEW g \in Gnb, GnbStep(g)
    PROVE  HandoverTypeOK'
<1> USE DEF smfVars, amfVars, historyVars, linkVars
<1>0. LinkOf(g) \in Link
  BY FirstLink DEF LinkOf, HandoverTypeOK
<1>1. ASSUME NEW u \in Ue, NEW to \in Gnb, Ask(g, u, to) PROVE HandoverTypeOK'
  <2>1. inbox' \in LinkedAmf
    BY <1>1, ToTheAmfTyped, AmfMessages DEF Ask
  <2>2. /\ handovers' \in 0 .. MaxHandovers /\ moving' \subseteq Ue
        /\ wanted' \in [Gnb -> [Ue -> Gnb \union {None}]]
        /\ relayed' \in [Ue -> Relayed]
    BY <1>1, HandoverAssumption DEF Ask, NotRelayed, Relayed, HandoverTypeOK
  <2> QED BY <1>1, <2>1, <2>2 DEF Ask, Relayed, HandoverTypeOK, LinkedAmf
<1>2. ASSUME NEW u \in Ue, Allocate(g, u) PROVE HandoverTypeOK'
  <2>1. outbox' \in LinkedGnb
    BY <1>2, HearsTyped DEF Allocate
  <2>2. inbox' \in LinkedAmf /\ holds' \in [Gnb -> SUBSET Ue]
    <3>1. ToTheAmf(g, "accept", u, None) \in LinkedAmf /\ ToTheAmf(g, "refuse", u, None) \in LinkedAmf
      BY ToTheAmfTyped, AmfMessages
    <3>2. inbox' \in LinkedAmf
      BY <1>2, <3>1 DEF Allocate
    <3>3. holds \in [Gnb -> SUBSET Ue] /\ [holds EXCEPT ![g] = @ \union {u}] \in [Gnb -> SUBSET Ue]
      BY DEF HandoverTypeOK
    <3> QED BY <1>2, <3>2, <3>3 DEF Allocate
  <2> QED BY <1>2, <2>1, <2>2 DEF Allocate, HandoverTypeOK, LinkedAmf, LinkedGnb
<1>3. ASSUME NEW u \in Ue, Outcome(g, u) PROVE HandoverTypeOK'
  <2>1. outbox' \in LinkedGnb
    BY <1>3, HearsTyped DEF Outcome
  <2>2. wanted' \in [Gnb -> [Ue -> Gnb \union {None}]]
    BY <1>3, ForgetWanted DEF Outcome
  <2>3. position' \in [Ue -> Gnb \union {None}] /\ inbox' \in LinkedAmf
    <3>1. CASE wanted[g][u] # None /\ Arrive(g, u)
      <4>1. wanted[g][u] \in Gnb
        BY <3>1 DEF HandoverTypeOK
      <4>2. ToTheAmf(wanted[g][u], "notify", u, None) \in LinkedAmf
        BY <4>1, ToTheAmfTyped, AmfMessages
      <4> QED BY <3>1, <4>1, <4>2 DEF Arrive, HandoverTypeOK
    <3>2. CASE UNCHANGED <<position, inbox>>
      BY <3>2 DEF HandoverTypeOK, LinkedAmf
    <3> QED BY <1>3, <3>1, <3>2 DEF Outcome
  <2> QED BY <1>3, <2>1, <2>2, <2>3 DEF Outcome, HandoverTypeOK, LinkedAmf, LinkedGnb
<1>4. ASSUME NEW u \in Ue, SendCancel(g, u) PROVE HandoverTypeOK'
  <2>1. inbox' \in LinkedAmf
    BY <1>4, ToTheAmfTyped, AmfMessages DEF SendCancel
  <2>2. cancelling' \in [Gnb -> SUBSET Ue] /\ cancelled' \subseteq Ue
    BY <1>4 DEF SendCancel, HandoverTypeOK
  <2> QED BY <1>4, <2>1, <2>2 DEF SendCancel, HandoverTypeOK, LinkedAmf
<1>5. ASSUME NEW u \in Ue, Cancelled(g, u) PROVE HandoverTypeOK'
  <2>1. outbox' \in LinkedGnb
    BY <1>5, HearsTyped DEF Cancelled
  <2>2. /\ wanted' \in [Gnb -> [Ue -> Gnb \union {None}]] /\ cancelling' \in [Gnb -> SUBSET Ue]
        /\ relayed' \in [Ue -> Relayed]
    <3> DEFINE off == relayed[u].calledOff \/ CalledOff(g, u)
    <3>1. off \in BOOLEAN
      BY DEF CalledOff, HandoverTypeOK
    <3>2. relayed' = [relayed EXCEPT ![u] = [relayed[u] EXCEPT !.calledOff = off]]
      BY <1>5 DEF Cancelled, HandoverTypeOK
    <3> HIDE DEF off
    <3>3. relayed \in [Ue -> Relayed]
      BY DEF Relayed, HandoverTypeOK
    <3>4. [relayed[u] EXCEPT !.calledOff = off] \in Relayed
      BY <3>1, <3>3 DEF Relayed
    <3>5. cancelling' \in [Gnb -> SUBSET Ue]
      BY <1>5 DEF Cancelled, HandoverTypeOK
    <3>6. wanted' \in [Gnb -> [Ue -> Gnb \union {None}]]
      BY <1>5, ForgetWanted DEF Cancelled
    <3>7. relayed' \in [Ue -> Relayed]
      BY <3>2, <3>3, <3>4
    <3> QED BY <3>5, <3>6, <3>7
  <2> QED BY <1>5, <2>1, <2>2 DEF Cancelled, Relayed, HandoverTypeOK, LinkedGnb
<1>6. ASSUME NEW u \in Ue, Release(g, u) PROVE HandoverTypeOK'
  <2>1. outbox' \in LinkedGnb /\ inbox' \in LinkedAmf
    BY <1>6, HearsTyped, ToTheAmfTyped, AmfMessages DEF Release
  <2>2. /\ wanted' \in [Gnb -> [Ue -> Gnb \union {None}]] /\ cancelling' \in [Gnb -> SUBSET Ue]
        /\ holds' \in [Gnb -> SUBSET Ue]
        /\ position' \in [Ue -> Gnb \union {None}] /\ released' \subseteq Ue
    <3>1. wanted' \in [Gnb -> [Ue -> Gnb \union {None}]]
      BY <1>6, ForgetWanted DEF Release
    <3>2. cancelling' \in [Gnb -> SUBSET Ue] /\ holds' \in [Gnb -> SUBSET Ue]
      BY <1>6 DEF Release, HandoverTypeOK
    <3>3. position' \in [Ue -> Gnb \union {None}] /\ released' \subseteq Ue
      <4>1. /\ position \in [Ue -> Gnb \union {None}] /\ released \subseteq Ue
            /\ [position EXCEPT ![u] = None] \in [Ue -> Gnb \union {None}]
        BY DEF HandoverTypeOK
      <4>2. \/ position' = [position EXCEPT ![u] = None] /\ released' = released \union {u}
            \/ UNCHANGED <<position, released>>
        BY <1>6 DEF Release
      <4> QED BY <4>1, <4>2
    <3> QED BY <3>1, <3>2, <3>3
  <2> QED BY <1>6, <2>1, <2>2 DEF Release, HandoverTypeOK, LinkedAmf, LinkedGnb
<1>7. CASE Crash(g)
  <2>1. phase' \in [Link -> {"unused", "up", "down", "closed"}] /\ outbox' \in LinkedGnb
    BY <1>0, <1>7, EmptySeq DEF Crash, HandoverTypeOK, LinkedGnb
  <2>2. /\ wanted' \in [Gnb -> [Ue -> Gnb \union {None}]] /\ cancelling' \in [Gnb -> SUBSET Ue]
        /\ holds' \in [Gnb -> SUBSET Ue] /\ position' \in [Ue -> Gnb \union {None}]
    BY <1>7 DEF Crash, HandoverTypeOK
  <2>3. mishaps' \in 0 .. MaxMishaps
    BY <1>7, HandoverAssumption DEF Crash, Mishap, HandoverTypeOK
  <2> QED BY <1>7, <2>1, <2>2, <2>3 DEF Crash, HandoverTypeOK, LinkedGnb
<1>8. CASE Setup(g)
  <2>1. current[g] + 1 \in 1 .. MaxLinks
    BY <1>8, HandoverAssumption DEF Setup, HandoverTypeOK
  <2>2. <<g, current[g] + 1>> \in Link
    BY <2>1, FirstLink
  <2>3. /\ current' \in [Gnb -> 1 .. MaxLinks] /\ registered' \in [Gnb -> Link \union {NoLink}]
        /\ phase' \in [Link -> {"unused", "up", "down", "closed"}]
    BY <1>8, <2>1, <2>2 DEF Setup, HandoverTypeOK
  <2> QED BY <1>8, <2>3 DEF Setup, HandoverTypeOK
<1> QED BY <1>1, <1>2, <1>3, <1>4, <1>5, <1>6, <1>7, <1>8 DEF GnbStep

\* The initial state is typed.
LEMMA HandoverTypeInit ==
    ASSUME HandoverInit PROVE HandoverTypeOK
<1>1. /\ inbox \in [Link -> Seq(ToAmf)] /\ outbox \in [Link -> Seq(ToGnb)]
      /\ thread \in [Link -> Task]
  BY EmptySeq, TaskTyped DEF HandoverInit
<1>2. supi \in [Link -> Ue \union {None}]
  BY HandoverAssumption DEF HandoverInit, Link
<1>3. /\ registered \in [Gnb -> Link \union {NoLink}] /\ entry \in [Ue -> Link \union {NoLink}]
      /\ position \in [Ue -> Gnb \union {None}] /\ holds \in [Gnb -> SUBSET Ue]
  BY FirstLink, HandoverAssumption DEF HandoverInit
<1>4. downlink \in [Ue -> [Session -> [gnb : Gnb, ue : Ue]]]
  BY HandoverAssumption DEF HandoverInit
<1>5. /\ slot \in [Link -> [awaiting : BOOLEAN, reply : Replies]]
      /\ relayed \in [Ue -> Relayed]
  BY RepliesTyped DEF HandoverInit, NotRelayed, Relayed
<1>6. /\ current \in [Gnb -> 1 .. MaxLinks] /\ handovers \in 0 .. MaxHandovers
      /\ mishaps \in 0 .. MaxMishaps
  BY HandoverAssumption DEF HandoverInit
<1> QED BY <1>1, <1>2, <1>3, <1>4, <1>5, <1>6 DEF HandoverInit, Relayed, HandoverTypeOK

\* Types, for any number of gNBs, UEs, sessions, associations and handovers.
THEOREM HandoverTypeCorrect == HandoverSpec => []HandoverTypeOK
<1>1. HandoverInit => HandoverTypeOK
  BY HandoverTypeInit
<1>2. HandoverTypeOK /\ [HandoverNext]_handoverVars => HandoverTypeOK'
  <2> SUFFICES ASSUME HandoverTypeOK, [HandoverNext]_handoverVars PROVE HandoverTypeOK'
    OBVIOUS
  <2>1. CASE UNCHANGED handoverVars
    BY <2>1 DEF handoverVars, linkVars, amfVars, smfVars, ranVars, historyVars, HandoverTypeOK
  <2> QED BY <2>1, ThreadTypeStep, GnbTypeStep DEF HandoverNext
<1> QED BY <1>1, <1>2, PTL DEF HandoverSpec

-----------------------------------------------------------------------------
(* Replies. *)

\* Every request under way to a gNB, and every answer under way from it, is for u.
OnlyFor(in, out, g, u) ==
    \A k \in Link : k[1] = g =>
        /\ \A i \in DOMAIN out[k] : out[k][i].kind = "request" => out[k][i].ue = u
        /\ \A i \in DOMAIN in[k] : in[k][i].kind \in {"accept", "refuse"} => in[k][i].ue = u

AnswerFor(u) == [kind : {"accept", "refuse"}, ue : {u}]

\* A gNB is registered with an association of its own, and a relay waits at
\* an association of its target.
RegisteredIsOwn == \A g \in Gnb : registered[g] # NoLink => registered[g] \in Link /\ registered[g][1] = g
WaitsAtTarget == \A l \in Link : thread[l].at = "waiting" => thread[l].via[1] = thread[l].to

\* The one wait for a gNB that nothing disturbs: what is under way, and what
\* the slot holds, is its own.
WaitsUndisturbed ==
    \A l \in Link :
        (thread[l].at = "waiting" /\ thread[l].alone) =>
            /\ \A k \in Link \ {l} : ~ (thread[k].at = "waiting" /\ thread[k].to = thread[l].to)
            /\ OnlyFor(inbox, outbox, thread[l].to, thread[l].ue)
            /\ slot[thread[l].via].reply \in {Nothing} \union AnswerFor(thread[l].ue)

RelayInv ==
    /\ HandoverTypeOK /\ RegisteredIsOwn /\ WaitsAtTarget /\ WaitsUndisturbed
    /\ RepliesReachTheirRelay

\* A step adds no request, or no answer.
Adds(new, old, kinds) ==
    \A k \in Link : \A j \in DOMAIN new[k] :
        new[k][j].kind \in kinds => \E i \in DOMAIN old[k] : old[k][i] = new[k][j]

NoNewRequest == Adds(outbox', outbox, {"request"})
NoNewAnswer == Adds(inbox', inbox, {"accept", "refuse"})

\* Sending something else, and reading, add neither.
LEMMA AppendAdds ==
    ASSUME NEW S, NEW box \in [Link -> Seq(S)], NEW l \in Link, NEW m \in S, NEW kinds,
           m.kind \notin kinds
    PROVE  Adds([box EXCEPT ![l] = Append(@, m)], box, kinds)
<1> SUFFICES ASSUME NEW k \in Link, NEW j \in DOMAIN [box EXCEPT ![l] = Append(@, m)][k],
                    [box EXCEPT ![l] = Append(@, m)][k][j].kind \in kinds
             PROVE  \E i \in DOMAIN box[k] : box[k][i] = [box EXCEPT ![l] = Append(@, m)][k][j]
  BY DEF Adds
<1>1. CASE k = l
  <2>1. j \in DOMAIN Append(box[l], m) /\ Append(box[l], m)[j].kind \in kinds
    BY <1>1
  <2>2. j \in 1 .. Len(box[l]) + 1 /\ j # Len(box[l]) + 1
    BY <2>1, AppendProperties, LenProperties
  <2>3. j \in DOMAIN box[l] /\ Append(box[l], m)[j] = box[l][j]
    BY <2>2, AppendProperties, LenProperties
  <2> QED BY <1>1, <2>3
<1>2. CASE k # l
  BY <1>2
<1> QED BY <1>1, <1>2

\* Taking the first message of a queue adds none.
LEMMA TailAdds ==
    ASSUME NEW S, NEW box \in [Link -> Seq(S)], NEW l \in Link, box[l] # <<>>, NEW kinds
    PROVE  Adds([box EXCEPT ![l] = Tail(@)], box, kinds)
<1> SUFFICES ASSUME NEW k \in Link, NEW j \in DOMAIN [box EXCEPT ![l] = Tail(@)][k]
             PROVE  \E i \in DOMAIN box[k] : box[k][i] = [box EXCEPT ![l] = Tail(@)][k][j]
  BY DEF Adds
<1>1. CASE k = l
  <2>1. j \in DOMAIN Tail(box[l])
    BY <1>1
  <2>2. j + 1 \in DOMAIN box[l] /\ Tail(box[l])[j] = box[l][j + 1]
    BY <2>1, HeadTailProperties, LenProperties
  <2> QED BY <1>1, <2>2
<1>2. CASE k # l
  BY <1>2
<1> QED BY <1>1, <1>2

\* A message to a gNB other than a request adds no request.
LEMMA SentAdds ==
    ASSUME NEW box \in LinkedGnb, NEW l, NEW u \in Ue,
           NEW kind \in {"command", "failure", "cancelled", "release"}
    PROVE  Adds(Sent(box, l, kind, u), box, {"request"})
<1>1. Message(kind, u, None) \in ToGnb /\ Message(kind, u, None).kind \notin {"request"}
  BY DEF Message, ToGnb
<1>2. CASE l \in Link /\ phase[l] = "up"
  BY <1>1, <1>2, AppendAdds DEF Sent, LinkedGnb
<1>3. CASE ~ (l \in Link /\ phase[l] = "up")
  BY <1>3 DEF Sent, Adds
<1> QED BY <1>2, <1>3

\* Two changes that add no other message of these kinds add none together.
LEMMA AddsTransitive ==
    ASSUME NEW a, NEW b, NEW c, NEW kinds, Adds(a, b, kinds), Adds(b, c, kinds)
    PROVE  Adds(a, c, kinds)
  BY DEF Adds

\* Queues that stay as they are have nothing added.
LEMMA AddsSelf == \A a, kinds : Adds(a, a, kinds)
  BY DEF Adds

\* Without a new request or answer, what is under way stays for one UE.
LEMMA OnlyForKept ==
    ASSUME NoNewRequest, NoNewAnswer, NEW g, NEW u, OnlyFor(inbox, outbox, g, u)
    PROVE  OnlyFor(inbox', outbox', g, u)
  BY DEF OnlyFor, NoNewRequest, NoNewAnswer, Adds

\* A step that starts, answers and ends no relay with a reply.
LEMMA QuietStep ==
    ASSUME RelayInv, HandoverTypeOK', RegisteredIsOwn', NoNewRequest, NoNewAnswer,
           \A k \in Link : \/ thread'[k] = thread[k]
                           \/ thread'[k].at \notin {"waiting", "answering"},
           \A k \in Link : slot'[k].reply = slot[k].reply
    PROVE  RelayInv'
<1> USE DEF RelayInv
<1>1. WaitsAtTarget'
  BY DEF WaitsAtTarget
<1>2. RepliesReachTheirRelay'
  BY DEF RepliesReachTheirRelay
<1>3. WaitsUndisturbed'
  <2> SUFFICES ASSUME NEW l \in Link, thread'[l].at = "waiting", thread'[l].alone
               PROVE  /\ \A k \in Link \ {l} :
                            ~ (thread'[k].at = "waiting" /\ thread'[k].to = thread'[l].to)
                      /\ OnlyFor(inbox', outbox', thread'[l].to, thread'[l].ue)
                      /\ slot'[thread'[l].via].reply \in {Nothing} \union AnswerFor(thread'[l].ue)
    BY DEF WaitsUndisturbed
  <2>1. thread'[l] = thread[l] /\ thread[l] \in Task
    BY DEF HandoverTypeOK
  <2>2. thread[l].ue \in Ue /\ thread[l].to \in Gnb /\ thread[l].via \in Link
    BY <2>1, TaskFields
  <2>3. OnlyFor(inbox', outbox', thread[l].to, thread[l].ue)
    BY <2>1, <2>2, OnlyForKept DEF WaitsUndisturbed
  <2> QED BY <2>1, <2>2, <2>3 DEF WaitsUndisturbed
<1> QED BY <1>1, <1>2, <1>3

\* A thread that reads a message adds no answer.
LEMMA ReadAdds ==
    ASSUME HandoverTypeOK, NEW l \in Link, inbox[l] # <<>>
    PROVE  Adds(Consumed(l), inbox, {"accept", "refuse"})
  BY TailAdds DEF Consumed, HandoverTypeOK

\* A message to the AMF other than an answer adds no answer.
LEMMA ToTheAmfAdds ==
    ASSUME HandoverTypeOK, NEW g \in Gnb, NEW kind, NEW u, NEW to, Message(kind, u, to) \in ToAmf,
           kind \notin {"accept", "refuse"}
    PROVE  Adds(ToTheAmf(g, kind, u, to), inbox, {"accept", "refuse"})
<1>1. Message(kind, u, to).kind \notin {"accept", "refuse"}
  BY DEF Message
<1>2. LinkOf(g) \in Link
  BY FirstLink DEF LinkOf, HandoverTypeOK
<1> QED BY <1>1, <1>2, AppendAdds DEF ToTheAmf, HandoverTypeOK

\* A gNB that reads a message adds no request.
LEMMA HearsAdds ==
    ASSUME HandoverTypeOK, NEW g \in Gnb, NEW kind, NEW u, Hears(g, kind, u)
    PROVE  NoNewRequest
<1>1. LinkOf(g) \in Link
  BY FirstLink DEF LinkOf, HandoverTypeOK
<1> QED BY <1>1, TailAdds DEF Hears, NoNewRequest, HandoverTypeOK

\* The steps of a thread that start, answer and end no relay with a reply.
LEMMA QuietThreadStep ==
    ASSUME RelayInv, HandoverTypeOK', NEW l \in Link,
           \/ Required(l) /\ UNCHANGED <<thread, slot>>
           \/ TimeOut(l) \/ Refuse(l) \/ Command(l) \/ Cancel(l) \/ CallOff(l)
           \/ Notify(l) \/ Repoint(l) \/ Complete(l) \/ Close(l)
    PROVE  RelayInv'
<1> USE DEF smfVars, ranVars, historyVars, linkVars, RelayInv
<1>0. /\ outbox \in LinkedGnb /\ thread \in [Link -> Task]
      /\ thread[l].at # "reading" => thread[l].ue \in Ue
  BY TaskFields DEF HandoverTypeOK, LinkedGnb
<1>a. ASSUME UNCHANGED inbox PROVE NoNewAnswer
  BY <1>a, AddsSelf DEF NoNewAnswer
<1>b. ASSUME UNCHANGED outbox PROVE NoNewRequest
  BY <1>b, AddsSelf DEF NoNewRequest
<1>c. ASSUME NEW kind, Reads(l, kind), inbox' = Consumed(l)
      PROVE  NoNewAnswer /\ Head(inbox[l]).ue \in Ue
  BY <1>c, ReadAdds, ReadTyped, AmfMessages DEF Reads, NoNewAnswer, HandoverTypeOK, LinkedAmf
<1>d. ASSUME NEW u \in Ue, NEW kind \in {"command", "failure", "cancelled", "release"}, NEW k,
             outbox' = Sent(outbox, k, kind, u)
      PROVE  NoNewRequest
  BY <1>0, <1>d, SentAdds DEF NoNewRequest
<1>e. UNCHANGED registered => RegisteredIsOwn'
  BY DEF RegisteredIsOwn
<1>f. ASSUME NEW task, task.at \notin {"waiting", "answering"}, Goto(l, task)
      PROVE  \A k \in Link : thread'[k] = thread[k] \/ thread'[k].at \notin {"waiting", "answering"}
  BY <1>0, <1>f DEF Goto
<1>g. UNCHANGED slot => \A k \in Link : slot'[k].reply = slot[k].reply
  OBVIOUS
<1>h. Reading.at \notin {"waiting", "answering"}
  BY DEF Reading
<1>1. CASE Required(l) /\ UNCHANGED <<thread, slot>>
  <2>1. NoNewAnswer /\ Head(inbox[l]).ue \in Ue
    BY <1>1, <1>c DEF Required
  <2>2. outbox' = Sent(outbox, l, "failure", Head(inbox[l]).ue)
    <3>1. ASSUME NEW u \in Ue, NEW to \in Gnb, Relay(l, u, to) PROVE FALSE
      <4>1. thread'[l].at = "waiting"
        BY <3>1 DEF Relay, Waiting
      <4> QED BY <1>1, <4>1 DEF Required, Reads
    <3>2. Head(inbox[l]).to \in Gnb
      BY <1>1, ReadTyped, AmfMessages DEF Required, Reads, HandoverTypeOK, LinkedAmf
    <3> QED BY <1>1, <2>1, <3>1, <3>2 DEF Required
  <2> QED BY <1>1, <1>d, <1>e, <1>g, <2>1, <2>2, QuietStep DEF Required
<1>2. CASE TimeOut(l)
  <2>1. \A k \in Link : slot'[k].reply = slot[k].reply
    BY <1>2 DEF TimeOut, HandoverTypeOK
  <2> QED BY <1>0, <1>2, <1>a, <1>d, <1>e, <1>f, <1>h, <2>1, QuietStep DEF TimeOut
<1>3. CASE Refuse(l) \/ Command(l)
  BY <1>0, <1>3, <1>a, <1>d, <1>e, <1>f, <1>g, <1>h, QuietStep DEF Refuse, Command
<1>4. CASE Cancel(l)
  <2>1. [Reading EXCEPT !.at = "callingOff", !.ue = Head(inbox[l]).ue,
                        !.to = target[Head(inbox[l]).ue]].at \notin {"waiting", "answering"}
    BY DEF Reading
  <2> QED BY <1>4, <1>b, <1>c, <1>e, <1>f, <1>g, <2>1, QuietStep DEF Cancel
<1>5. CASE CallOff(l)
  <2> DEFINE u == thread[l].ue
             to == thread[l].to
             told == IF to = None THEN outbox ELSE Sent(outbox, registered[to], "release", u)
  <2>1. u \in Ue /\ outbox' = Sent(told, l, "cancelled", u)
    BY <1>0, <1>5 DEF CallOff
  <2>2. told \in LinkedGnb /\ Adds(told, outbox, {"request"})
    BY <1>0, <2>1, SentTyped, SentAdds, AddsSelf
  <2>3. NoNewRequest
    <3> HIDE DEF told
    <3>1. Adds(outbox', told, {"request"})
      BY <2>1, <2>2, SentAdds
    <3> QED BY <2>2, <3>1, AddsTransitive DEF NoNewRequest
  <2> QED BY <1>5, <1>a, <1>e, <1>f, <1>g, <1>h, <2>3, QuietStep DEF CallOff
<1>6. CASE Notify(l)
  <2>1. [Reading EXCEPT !.at = "repointing", !.ue = Head(inbox[l]).ue].at \notin {"waiting", "answering"}
    BY DEF Reading
  <2> QED BY <1>6, <1>c, <1>d, <1>e, <1>f, <1>g, <2>1, QuietStep DEF Notify
<1>7. CASE Repoint(l)
  BY <1>7, <1>a, <1>b, <1>e, <1>f, <1>g, <1>h, QuietStep DEF Repoint
<1>8. CASE Complete(l)
  BY <1>8, <1>b, <1>c, <1>e, <1>g, QuietStep DEF Complete
<1>9. CASE Close(l)
  <2>1. RegisteredIsOwn'
    BY <1>9 DEF Close, RegisteredIsOwn, HandoverTypeOK
  <2> QED BY <1>9, <1>a, <1>b, <1>g, <2>1, QuietStep DEF Close
<1> QED BY <1>1, <1>2, <1>3, <1>4, <1>5, <1>6, <1>7, <1>8, <1>9

\* And those of a gNB.
LEMMA QuietGnbStep ==
    ASSUME RelayInv, HandoverTypeOK', NEW g \in Gnb,
           \/ \E u \in Ue : \/ \E to \in Gnb : Ask(g, u, to)
                            \/ Outcome(g, u) \/ SendCancel(g, u) \/ Cancelled(g, u) \/ Release(g, u)
           \/ Crash(g) \/ Setup(g)
    PROVE  RelayInv'
<1> USE DEF smfVars, amfVars, historyVars, linkVars, RelayInv
<1>a. ASSUME UNCHANGED inbox PROVE NoNewAnswer
  BY <1>a, AddsSelf DEF NoNewAnswer
<1>b. ASSUME UNCHANGED outbox PROVE NoNewRequest
  BY <1>b, AddsSelf DEF NoNewRequest
<1>c. ASSUME NEW h \in Gnb, NEW kind \in {"required", "cancel", "notify", "complete"}, NEW u \in Ue, NEW to,
             Message(kind, u, to) \in ToAmf, inbox' = ToTheAmf(h, kind, u, to)
      PROVE  NoNewAnswer
  BY <1>c, ToTheAmfAdds DEF NoNewAnswer
<1>d. UNCHANGED registered => RegisteredIsOwn'
  BY DEF RegisteredIsOwn
<1>1. ASSUME NEW u \in Ue, NEW to \in Gnb, Ask(g, u, to) PROVE RelayInv'
  BY <1>1, <1>b, <1>c, <1>d, AmfMessages, QuietStep DEF Ask
<1>2. ASSUME NEW u \in Ue, Outcome(g, u) PROVE RelayInv'
  <2>1. NoNewRequest
    BY <1>2, HearsAdds DEF Outcome
  <2>2. NoNewAnswer
    <3>1. CASE wanted[g][u] # None /\ Arrive(g, u)
      <4>1. wanted[g][u] \in Gnb
        BY <3>1 DEF HandoverTypeOK
      <4> QED BY <1>c, <3>1, <4>1, AmfMessages DEF Arrive
    <3> QED BY <1>2, <1>a, <3>1 DEF Outcome
  <2> QED BY <1>2, <1>d, <2>1, <2>2, QuietStep DEF Outcome
<1>3. ASSUME NEW u \in Ue, SendCancel(g, u) PROVE RelayInv'
  BY <1>3, <1>b, <1>c, <1>d, AmfMessages, QuietStep DEF SendCancel
<1>4. ASSUME NEW u \in Ue, Cancelled(g, u) PROVE RelayInv'
  BY <1>4, <1>a, <1>d, HearsAdds, QuietStep DEF Cancelled
<1>5. ASSUME NEW u \in Ue, Release(g, u) PROVE RelayInv'
  BY <1>5, <1>c, <1>d, AmfMessages, HearsAdds, QuietStep DEF Release
<1>6. CASE Crash(g)
  <2>1. NoNewRequest
    BY <1>6 DEF Crash, NoNewRequest, Adds, HandoverTypeOK
  <2> QED BY <1>6, <1>a, <1>d, <2>1, QuietStep DEF Crash
<1>7. CASE Setup(g)
  <2>1. RegisteredIsOwn'
    <3>1. current[g] + 1 \in 1 .. MaxLinks
      BY <1>7, HandoverAssumption DEF Setup, HandoverTypeOK
    <3>2. <<g, current[g] + 1>> \in Link
      BY <3>1, FirstLink
    <3> QED BY <1>7, <3>2 DEF Setup, RegisteredIsOwn, HandoverTypeOK
  <2> QED BY <1>7, <1>a, <1>b, <2>1, QuietStep DEF Setup
<1> QED BY <1>1, <1>2, <1>3, <1>4, <1>5, <1>6, <1>7

\* What an appended message, or one taken away, changes.
LEMMA OnlyForSent ==
    ASSUME NEW in, NEW out \in LinkedGnb, NEW l \in Link, NEW u \in Ue, NEW g, NEW v,
           OnlyFor(in, out, g, v), l[1] = g => u = v
    PROVE  OnlyFor(in, Sent(out, l, "request", u), g, v)
<1> DEFINE m == Message("request", u, None)
<1>1. m \in ToGnb /\ m.ue = u
  BY DEF Message, ToGnb
<1>2. CASE phase[l] = "up"
  <2>1. \A i \in DOMAIN Append(out[l], m) : \/ i \in DOMAIN out[l] /\ Append(out[l], m)[i] = out[l][i]
                                          \/ Append(out[l], m)[i] = m
    BY <1>1, AppendProperties, LenProperties DEF LinkedGnb
  <2> HIDE DEF m
  <2>2. Sent(out, l, "request", u) = [out EXCEPT ![l] = Append(@, m)]
    BY <1>2 DEF Sent, m
  <2>3. \A k \in Link : Sent(out, l, "request", u)[k] = IF k = l THEN Append(out[l], m) ELSE out[k]
    BY <2>2 DEF LinkedGnb
  <2>4. ASSUME NEW k \in Link, k[1] = g, NEW i \in DOMAIN Sent(out, l, "request", u)[k],
               Sent(out, l, "request", u)[k][i].kind = "request"
        PROVE  Sent(out, l, "request", u)[k][i].ue = v
    <3>1. CASE k = l /\ Append(out[l], m)[i] = m
      BY <1>1, <2>3, <2>4, <3>1
    <3>2. CASE ~ (k = l /\ Append(out[l], m)[i] = m)
      <4>1. i \in DOMAIN out[k] /\ Sent(out, l, "request", u)[k][i] = out[k][i]
        BY <2>1, <2>3, <2>4, <3>2
      <4> QED BY <2>4, <4>1 DEF OnlyFor
    <3> QED BY <3>1, <3>2
  <2> QED BY <2>4 DEF OnlyFor
<1>3. CASE phase[l] # "up"
  BY <1>3 DEF Sent
<1> QED BY <1>2, <1>3

\* A relay empties the slot it waits at, and the other waits it leaves
\* undisturbed are for other gNBs.
LEMMA RelayStep ==
    ASSUME RelayInv, HandoverTypeOK', NEW l \in Link, Required(l),
           registered[Head(inbox[l]).to] # NoLink,
           Relay(l, Head(inbox[l]).ue, Head(inbox[l]).to)
    PROVE  RelayInv'
<1> DEFINE u == Head(inbox[l]).ue
           to == Head(inbox[l]).to
           via == registered[to]
<1> USE DEF RelayInv
<1>1. u \in Ue /\ to \in Gnb
  BY ReadTyped, AmfMessages DEF Required, Reads, HandoverTypeOK, LinkedAmf
<1>2. via \in Link /\ via[1] = to /\ RegisteredIsOwn'
  BY <1>1 DEF RegisteredIsOwn, Required
<1>3. /\ slot' = [slot EXCEPT ![via] = [awaiting |-> TRUE, reply |-> Nothing]]
      /\ outbox' = Sent(outbox, via, "request", u)
      /\ thread' = Waiting(l, u, to)
  BY DEF Relay
<1>4. inbox' = Consumed(l) /\ NoNewAnswer
  BY ReadAdds DEF Required, Reads, NoNewAnswer
<1> HIDE DEF u, to
<1>5. /\ thread'[l].at = "waiting" /\ thread'[l].ue = u /\ thread'[l].to = to /\ thread'[l].via = via
      /\ thread'[l].alone = Undisturbed(to)
  BY <1>3 DEF Waiting
<1>6. \A k \in Link \ {l} :
          \/ thread'[k] = thread[k] /\ ~ (thread[k].at = "waiting" /\ thread[k].to = to)
          \/ /\ thread[k].at = "waiting" /\ thread'[k] = [thread[k] EXCEPT !.alone = FALSE]
  BY <1>3 DEF Waiting
<1>7. \A k \in Link \ {l} : /\ thread'[k].at = thread[k].at /\ thread'[k].to = thread[k].to
                            /\ thread'[k].via = thread[k].via
                            /\ thread'[k].alone =>
                                  /\ thread'[k] = thread[k]
                                  /\ ~ (thread[k].at = "waiting" /\ thread[k].to = to)
  <2> SUFFICES ASSUME NEW k \in Link \ {l}
               PROVE  /\ thread'[k].at = thread[k].at /\ thread'[k].to = thread[k].to
                      /\ thread'[k].via = thread[k].via
                      /\ thread'[k].alone =>
                            /\ thread'[k] = thread[k]
                            /\ ~ (thread[k].at = "waiting" /\ thread[k].to = to)
    OBVIOUS
  <2>1. CASE thread[k].at = "waiting" /\ thread'[k] = [thread[k] EXCEPT !.alone = FALSE]
    <3>1. thread[k] \in Waits
      <4>1. thread[k] \in Task
        BY DEF HandoverTypeOK
      <4> QED BY <2>1, <4>1, WaitingTask
    <3> QED BY <2>1, <3>1 DEF Waits
  <2> QED BY <1>6, <2>1
<1>8. WaitsAtTarget'
  BY <1>2, <1>5, <1>7 DEF WaitsAtTarget
<1>9. RepliesReachTheirRelay'
  BY <1>5, <1>7 DEF RepliesReachTheirRelay
<1>10. WaitsUndisturbed'
  <2> SUFFICES ASSUME NEW k \in Link, thread'[k].at = "waiting", thread'[k].alone
               PROVE  /\ \A j \in Link \ {k} :
                            ~ (thread'[j].at = "waiting" /\ thread'[j].to = thread'[k].to)
                      /\ OnlyFor(inbox', outbox', thread'[k].to, thread'[k].ue)
                      /\ slot'[thread'[k].via].reply \in {Nothing} \union AnswerFor(thread'[k].ue)
    BY DEF WaitsUndisturbed
  <2>0. outbox \in LinkedGnb /\ \A v : Adds(outbox, outbox, v)
    BY AddsSelf DEF HandoverTypeOK, LinkedGnb
  <2>1. CASE k = l
    <3>1. Undisturbed(to)
      BY <1>5, <2>1
    <3>2. OnlyFor(inbox', outbox, to, u)
      BY <1>4, <3>1 DEF Undisturbed, OnlyFor, NoNewAnswer, Adds
    <3>3. OnlyFor(inbox', outbox', to, u)
      BY <1>1, <1>2, <1>3, <2>0, <3>2, OnlyForSent
    <3>4. slot'[via].reply = Nothing
      BY <1>2, <1>3 DEF HandoverTypeOK
    <3>5. \A j \in Link \ {l} : ~ (thread'[j].at = "waiting" /\ thread'[j].to = to)
      BY <1>7, <3>1 DEF Undisturbed
    <3> QED BY <1>5, <2>1, <3>3, <3>4, <3>5
  <2>2. CASE k # l
    <3>1. thread'[k] = thread[k] /\ thread[k].to # to
      BY <1>7, <2>2
    <3>2. thread[k].via \in Link /\ thread[k].via[1] = thread[k].to
      BY <3>1, TaskFields DEF WaitsAtTarget, HandoverTypeOK
    <3>3. OnlyFor(inbox', outbox, thread[k].to, thread[k].ue)
      BY <1>4, <3>1 DEF WaitsUndisturbed, OnlyFor, NoNewAnswer, Adds
    <3>4. OnlyFor(inbox', outbox', thread[k].to, thread[k].ue)
      BY <1>1, <1>2, <1>3, <2>0, <3>1, <3>3, OnlyForSent
    <3>5. slot'[thread[k].via] = slot[thread[k].via]
      BY <1>2, <1>3, <3>1, <3>2 DEF HandoverTypeOK
    <3>6. \A j \in Link \ {k} : ~ (thread'[j].at = "waiting" /\ thread'[j].to = thread[k].to)
      BY <1>5, <1>7, <3>1 DEF WaitsUndisturbed
    <3> QED BY <3>1, <3>4, <3>5, <3>6 DEF WaitsUndisturbed
  <2> QED BY <2>1, <2>2
<1> QED BY <1>2, <1>8, <1>9, <1>10

\* An answer delivered to the slot of a wait that is undisturbed is its own.
LEMMA DeliverStep ==
    ASSUME RelayInv, HandoverTypeOK', NEW l \in Link, Deliver(l)
    PROVE  RelayInv'
<1> USE DEF smfVars, ranVars, historyVars, RelayInv
<1> DEFINE m == Head(inbox[l])
           found == registered[l[1]]
<1>1. /\ inbox[l] # <<>> /\ m \in ToAmf /\ m.kind \in {"accept", "refuse"} /\ m = inbox[l][1]
      /\ 1 \in DOMAIN inbox[l]
  BY ReadTyped, HeadTailProperties, EmptySeq, LenProperties DEF Deliver, Reads, HandoverTypeOK, LinkedAmf
<1>2. NoNewAnswer /\ NoNewRequest
  BY <1>1, ReadAdds, AddsSelf DEF Deliver, NoNewAnswer, NoNewRequest
<1>3. /\ RegisteredIsOwn' /\ WaitsAtTarget' /\ RepliesReachTheirRelay'
  BY DEF Deliver, RegisteredIsOwn, WaitsAtTarget, RepliesReachTheirRelay
<1>4. WaitsUndisturbed'
  <2> SUFFICES ASSUME NEW k \in Link, thread[k].at = "waiting", thread[k].alone
               PROVE  /\ OnlyFor(inbox', outbox', thread[k].to, thread[k].ue)
                      /\ slot'[thread[k].via].reply \in {Nothing} \union AnswerFor(thread[k].ue)
    BY DEF WaitsUndisturbed, Deliver
  <2>1. OnlyFor(inbox', outbox', thread[k].to, thread[k].ue)
    BY <1>2, OnlyForKept DEF WaitsUndisturbed
  <2>2. thread[k].via \in Link /\ thread[k].via[1] = thread[k].to /\ thread[k].to \in Gnb
    BY TaskFields DEF WaitsAtTarget, HandoverTypeOK
  <2>3. CASE found # NoLink /\ slot[found].awaiting /\ thread[k].via = found
    <3>1. l[1] \in Gnb /\ found[1] = l[1]
      BY <2>3 DEF Link, RegisteredIsOwn
    <3>2. m.ue = thread[k].ue
      BY <1>1, <2>2, <2>3, <3>1 DEF WaitsUndisturbed, OnlyFor
    <3>3. slot'[found].reply = [kind |-> m.kind, ue |-> m.ue]
      BY <2>2, <2>3 DEF Deliver, HandoverTypeOK
    <3>4. [kind |-> m.kind, ue |-> m.ue] \in AnswerFor(thread[k].ue)
      BY <1>1, <3>2 DEF AnswerFor
    <3> QED BY <2>1, <2>3, <3>3, <3>4
  <2>4. CASE ~ (found # NoLink /\ slot[found].awaiting /\ thread[k].via = found)
    <3>1. slot'[thread[k].via] = slot[thread[k].via]
      BY <2>2, <2>4 DEF Deliver, HandoverTypeOK
    <3> QED BY <2>1, <3>1 DEF WaitsUndisturbed
  <2> QED BY <2>3, <2>4
<1> QED BY <1>3, <1>4

\* What an undisturbed wait takes from its slot is its own answer.
LEMMA TakeStep ==
    ASSUME RelayInv, HandoverTypeOK', NEW l \in Link, Take(l)
    PROVE  RelayInv'
<1> USE DEF smfVars, ranVars, historyVars, linkVars, RelayInv
<1>1. /\ thread[l] \in Waits /\ thread \in [Link -> Task]
      /\ thread[l].via \in Link
  <2>1. thread[l] \in Task /\ thread \in [Link -> Task]
    BY DEF HandoverTypeOK
  <2>2. thread[l] \in Waits
    BY <2>1, WaitingTask DEF Take
  <2> QED BY <2>1, <2>2 DEF Waits
<1>2. /\ thread'[l].at = "answering" /\ thread'[l].got = slot[thread[l].via].reply
      /\ thread'[l].ue = thread[l].ue /\ thread'[l].alone = thread[l].alone
      /\ \A k \in Link \ {l} : thread'[k] = thread[k]
  BY <1>1 DEF Take, Goto, Waits
<1>3. RegisteredIsOwn' /\ WaitsAtTarget'
  BY <1>2 DEF Take, RegisteredIsOwn, WaitsAtTarget
<1>4. RepliesReachTheirRelay'
  <2>1. thread[l].alone => slot[thread[l].via].reply \in AnswerFor(thread[l].ue)
    BY DEF Take, WaitsUndisturbed
  <2> QED BY <1>2, <2>1 DEF RepliesReachTheirRelay, AnswerFor
<1>5. WaitsUndisturbed'
  <2> SUFFICES ASSUME NEW k \in Link \ {l}, thread[k].at = "waiting", thread[k].alone
               PROVE  slot'[thread[k].via].reply \in {Nothing} \union AnswerFor(thread[k].ue)
    BY <1>2 DEF WaitsUndisturbed, Take
  <2>1. thread[k].via \in Link /\ thread[k].via # thread[l].via
    <3>1. thread[k].via \in Link
      BY <1>1, TaskFields
    <3>2. thread[l].to # thread[k].to
      BY DEF Take, WaitsUndisturbed
    <3> QED BY <3>1, <3>2 DEF Take, WaitsAtTarget
  <2>2. slot'[thread[k].via] = slot[thread[k].via]
    BY <1>1, <2>1 DEF Take, HandoverTypeOK
  <2> QED BY <2>2 DEF WaitsUndisturbed
<1> QED BY <1>3, <1>4, <1>5

\* A target answers for the UE it was asked for.
LEMMA AllocateStep ==
    ASSUME RelayInv, HandoverTypeOK', NEW g \in Gnb, NEW u \in Ue, Allocate(g, u)
    PROVE  RelayInv'
<1> USE DEF smfVars, amfVars, historyVars, RelayInv
<1>1. NoNewRequest
  BY HearsAdds DEF Allocate
<1>2. LinkOf(g) \in Link /\ LinkOf(g)[1] = g
  BY FirstLink DEF LinkOf, HandoverTypeOK
<1>3. /\ RegisteredIsOwn' /\ WaitsAtTarget' /\ RepliesReachTheirRelay'
  BY DEF Allocate, RegisteredIsOwn, WaitsAtTarget, RepliesReachTheirRelay
<1>4. PICK kind \in {"accept", "refuse"} : inbox' = ToTheAmf(g, kind, u, None)
  BY DEF Allocate
<1> DEFINE m == Message(kind, u, None)
<1>5. m \in ToAmf /\ m.ue = u
  BY AmfMessages DEF Message
<1>6. \A k \in Link : \A i \in DOMAIN inbox'[k] :
          \/ i \in DOMAIN inbox[k] /\ inbox'[k][i] = inbox[k][i]
          \/ k = LinkOf(g) /\ inbox'[k][i] = m
  <2>1. \A i \in DOMAIN Append(inbox[LinkOf(g)], m) :
            \/ i \in DOMAIN inbox[LinkOf(g)] /\ Append(inbox[LinkOf(g)], m)[i] = inbox[LinkOf(g)][i]
            \/ Append(inbox[LinkOf(g)], m)[i] = m
    BY <1>2, <1>5, AppendProperties, LenProperties DEF HandoverTypeOK
  <2> HIDE DEF m
  <2>2. inbox' = [inbox EXCEPT ![LinkOf(g)] = Append(@, m)]
    BY <1>4 DEF ToTheAmf, m
  <2>3. \A k \in Link : inbox'[k] = IF k = LinkOf(g) THEN Append(inbox[k], m) ELSE inbox[k]
    BY <2>2 DEF HandoverTypeOK
  <2> QED BY <2>1, <2>3
<1>7. ASSUME NEW v, OnlyFor(inbox, outbox, g, v) PROVE u = v
  <2>1. /\ 1 \in DOMAIN outbox[LinkOf(g)] /\ outbox[LinkOf(g)][1] = Message("request", u, None)
    BY <1>2, HeadTailProperties, EmptySeq, LenProperties DEF Allocate, Hears, HandoverTypeOK
  <2> QED BY <1>2, <1>7, <2>1 DEF OnlyFor, Message
<1>8. WaitsUndisturbed'
  <2> SUFFICES ASSUME NEW k \in Link, thread[k].at = "waiting", thread[k].alone
               PROVE  OnlyFor(inbox', outbox', thread[k].to, thread[k].ue)
    BY DEF WaitsUndisturbed, Allocate
  <2>1. OnlyFor(inbox, outbox, thread[k].to, thread[k].ue)
    BY DEF WaitsUndisturbed
  <2>2. thread[k].to = g => u = thread[k].ue
    BY <1>7, <2>1
  <2> HIDE DEF m
  <2> QED BY <1>1, <1>2, <1>5, <1>6, <2>1, <2>2 DEF OnlyFor, NoNewRequest, Adds
<1> QED BY <1>3, <1>8

\* The inductive invariant of the relays.
THEOREM RelaysKeepOrder == HandoverSpec => []RelayInv
<1>1. HandoverInit => RelayInv
  <2> SUFFICES ASSUME HandoverInit PROVE RelayInv
    OBVIOUS
  <2>1. RegisteredIsOwn
    BY FirstLink DEF HandoverInit, RegisteredIsOwn
  <2>2. WaitsAtTarget /\ WaitsUndisturbed /\ RepliesReachTheirRelay
    BY DEF HandoverInit, Reading, WaitsAtTarget, WaitsUndisturbed, RepliesReachTheirRelay
  <2> QED BY <2>1, <2>2, HandoverTypeInit DEF RelayInv
<1>2. RelayInv /\ HandoverTypeOK' /\ [HandoverNext]_handoverVars => RelayInv'
  <2> SUFFICES ASSUME RelayInv, HandoverTypeOK', [HandoverNext]_handoverVars PROVE RelayInv'
    OBVIOUS
  <2>1. CASE UNCHANGED handoverVars
    BY <2>1 DEF handoverVars, linkVars, amfVars, RelayInv, RegisteredIsOwn, WaitsAtTarget,
                WaitsUndisturbed, RepliesReachTheirRelay
  <2>2. ASSUME NEW l \in Link, ThreadStep(l) PROVE RelayInv'
    <3>1. CASE Required(l)
      BY <3>1, RelayStep, QuietThreadStep DEF Required
    <3> QED BY <2>2, <3>1, QuietThreadStep, DeliverStep, TakeStep DEF ThreadStep
  <2>3. ASSUME NEW g \in Gnb, GnbStep(g) PROVE RelayInv'
    BY <2>3, QuietGnbStep, AllocateStep DEF GnbStep
  <2> QED BY <2>1, <2>2, <2>3 DEF HandoverNext
<1> QED BY <1>1, <1>2, HandoverTypeCorrect, PTL DEF HandoverSpec

\* A relay that nothing else of its target's disturbs ends with its own answer.
THEOREM RepliesReachTheirRelayHolds == HandoverSpec => []RepliesReachTheirRelay
<1>1. RelayInv => RepliesReachTheirRelay
  BY DEF RelayInv
<1> QED BY <1>1, RelaysKeepOrder, PTL

-----------------------------------------------------------------------------
(* The order of the messages of an association. *)

\* A message of these kinds about the UE: one, one in the queue, at most one
\* in the queue, and every one of the first kinds ahead of all of the others.
Is(m, kinds, u) == m.kind \in kinds /\ m.ue = u
In(s, kinds, u) == \E i \in DOMAIN s : Is(s[i], kinds, u)
One(s, kinds, u) == \A i, j \in DOMAIN s : Is(s[i], kinds, u) /\ Is(s[j], kinds, u) => i = j
Ahead(s, first, then, u) ==
    \A i, j \in DOMAIN s : Is(s[i], first, u) /\ Is(s[j], then, u) => i < j

\* An empty queue is in order.
LEMMA QueueEmpty ==
    \A kinds, then, u : /\ ~ In(<<>>, kinds, u) /\ One(<<>>, kinds, u)
                        /\ Ahead(<<>>, kinds, then, u)
  BY DEF In, One, Ahead

\* A message added to a queue: what the queue then holds, and when it stays in order.
LEMMA QueueAppend ==
    ASSUME NEW S, NEW s \in Seq(S), NEW m \in S
    PROVE  /\ \A kinds, u : In(Append(s, m), kinds, u) <=> In(s, kinds, u) \/ Is(m, kinds, u)
           /\ \A kinds, u : One(s, kinds, u) /\ ~ (Is(m, kinds, u) /\ In(s, kinds, u))
                                => One(Append(s, m), kinds, u)
           /\ \A first, then, u :
                 Ahead(s, first, then, u) /\ ~ (Is(m, first, u) /\ (Is(m, then, u) \/ In(s, then, u)))
                     => Ahead(Append(s, m), first, then, u)
<1> DEFINE n == Len(s)
           e == Append(s, m)
<1>1. /\ n \in Nat /\ DOMAIN s = 1 .. n /\ DOMAIN e = 1 .. (n + 1) /\ e[n + 1] = m
      /\ \A i \in 1 .. n : e[i] = s[i]
  BY AppendProperties, LenProperties
<1> HIDE DEF n, e
<1>2. \A i \in 1 .. (n + 1) : i \in 1 .. n \/ i = n + 1
  BY <1>1
<1>3. \A kinds, u : In(e, kinds, u) <=> In(s, kinds, u) \/ Is(m, kinds, u)
  <2> SUFFICES ASSUME NEW kinds, NEW u
               PROVE  In(e, kinds, u) <=> In(s, kinds, u) \/ Is(m, kinds, u)
    OBVIOUS
  <2>1. In(e, kinds, u) => In(s, kinds, u) \/ Is(m, kinds, u)
    BY <1>1, <1>2 DEF In
  <2>2. In(s, kinds, u) => In(e, kinds, u)
    BY <1>1 DEF In
  <2>3. Is(m, kinds, u) => In(e, kinds, u)
    BY <1>1 DEF In
  <2> QED BY <2>1, <2>2, <2>3
<1>4. ASSUME NEW kinds, NEW u, One(s, kinds, u), ~ (Is(m, kinds, u) /\ In(s, kinds, u))
      PROVE  One(e, kinds, u)
  BY <1>1, <1>2, <1>4 DEF In, One
<1>5. ASSUME NEW first, NEW then, NEW u, Ahead(s, first, then, u),
             ~ (Is(m, first, u) /\ (Is(m, then, u) \/ In(s, then, u)))
      PROVE  Ahead(e, first, then, u)
  <2> SUFFICES ASSUME NEW i \in 1 .. (n + 1), NEW j \in 1 .. (n + 1),
                      Is(e[i], first, u), Is(e[j], then, u)
               PROVE  i < j
    BY <1>1 DEF Ahead
  <2>1. CASE i = n + 1
    BY <1>1, <1>2, <1>5, <2>1 DEF In
  <2>2. CASE i \in 1 .. n /\ j = n + 1
    BY <1>1, <2>2
  <2>3. CASE i \in 1 .. n /\ j \in 1 .. n
    BY <1>1, <1>5, <2>3 DEF Ahead
  <2> QED BY <1>2, <2>1, <2>2, <2>3
<1> QED BY <1>3, <1>4, <1>5 DEF e

\* A message read from a queue: it headed it, and what is left is in order.
LEMMA QueueTail ==
    ASSUME NEW S, NEW s \in Seq(S), s # <<>>
    PROVE  /\ \A kinds, u : In(s, kinds, u) <=> Is(Head(s), kinds, u) \/ In(Tail(s), kinds, u)
           /\ \A kinds, u : One(s, kinds, u) =>
                 /\ One(Tail(s), kinds, u)
                 /\ Is(Head(s), kinds, u) => ~ In(Tail(s), kinds, u)
           /\ \A first, then, u : Ahead(s, first, then, u) =>
                 /\ Ahead(Tail(s), first, then, u)
                 /\ Is(Head(s), then, u) => ~ In(Tail(s), first, u)
<1> DEFINE n == Len(s)
           h == Head(s)
           e == Tail(s)
<1>1. /\ n \in Nat \ {0} /\ DOMAIN s = 1 .. n /\ DOMAIN e = 1 .. (n - 1) /\ s[1] = h
      /\ \A i \in 1 .. (n - 1) : e[i] = s[i + 1]
  BY HeadTailProperties, EmptySeq, LenProperties
<1> HIDE DEF n, h, e
<1>2. /\ 1 \in 1 .. n /\ \A i \in 1 .. (n - 1) : i + 1 \in 1 .. n /\ i + 1 > 1
      /\ \A i \in 1 .. n : i = 1 \/ (i - 1 \in 1 .. (n - 1) /\ (i - 1) + 1 = i)
  BY <1>1
<1>3. ASSUME NEW kinds, NEW u
      PROVE  In(s, kinds, u) <=> Is(h, kinds, u) \/ In(e, kinds, u)
  <2>1. In(s, kinds, u) => Is(h, kinds, u) \/ In(e, kinds, u)
    <3> SUFFICES ASSUME NEW i \in 1 .. n, Is(s[i], kinds, u)
                 PROVE  Is(h, kinds, u) \/ In(e, kinds, u)
      BY <1>1 DEF In
    <3>1. CASE i = 1
      BY <1>1, <3>1
    <3>2. CASE i - 1 \in 1 .. (n - 1) /\ (i - 1) + 1 = i
      <4>1. Is(e[i - 1], kinds, u)
        BY <1>1, <3>2
      <4> QED BY <1>1, <3>2, <4>1 DEF In
    <3> QED BY <1>2, <3>1, <3>2
  <2>2. Is(h, kinds, u) => In(s, kinds, u)
    BY <1>1, <1>2 DEF In
  <2>3. In(e, kinds, u) => In(s, kinds, u)
    <3> SUFFICES ASSUME NEW i \in 1 .. (n - 1), Is(e[i], kinds, u) PROVE In(s, kinds, u)
      BY <1>1 DEF In
    <3>1. Is(s[i + 1], kinds, u) /\ i + 1 \in DOMAIN s
      BY <1>1, <1>2
    <3> QED BY <3>1 DEF In
  <2> QED BY <2>1, <2>2, <2>3
<1>4. ASSUME NEW kinds, NEW u, One(s, kinds, u)
      PROVE  One(e, kinds, u) /\ (Is(h, kinds, u) => ~ In(e, kinds, u))
  <2>1. ASSUME NEW i \in 1 .. (n - 1), NEW j \in 1 .. (n - 1), Is(e[i], kinds, u), Is(e[j], kinds, u)
        PROVE  i = j
    <3>1. i + 1 = j + 1
      BY <1>1, <1>2, <1>4, <2>1 DEF One
    <3> QED BY <3>1
  <2>2. ASSUME NEW i \in 1 .. (n - 1), Is(e[i], kinds, u), Is(h, kinds, u) PROVE FALSE
    <3>1. i + 1 = 1
      BY <1>1, <1>2, <1>4, <2>2 DEF One
    <3> QED BY <3>1
  <2> QED BY <1>1, <2>1, <2>2 DEF One, In
<1>5. ASSUME NEW first, NEW then, NEW u, Ahead(s, first, then, u)
      PROVE  Ahead(e, first, then, u) /\ (Is(h, then, u) => ~ In(e, first, u))
  <2>1. ASSUME NEW i \in 1 .. (n - 1), NEW j \in 1 .. (n - 1), Is(e[i], first, u), Is(e[j], then, u)
        PROVE  i < j
    <3>1. i + 1 < j + 1
      BY <1>1, <1>2, <1>5, <2>1 DEF Ahead
    <3> QED BY <3>1
  <2>2. ASSUME NEW i \in 1 .. (n - 1), Is(e[i], first, u), Is(h, then, u) PROVE FALSE
    <3>1. i + 1 < 1
      BY <1>1, <1>2, <1>5, <2>2 DEF Ahead
    <3> QED BY <3>1
  <2> QED BY <1>1, <2>1, <2>2 DEF Ahead, In
<1> QED BY <1>3, <1>4, <1>5 DEF e, h

\* What a message the AMF or a gNB sends is about.
LEMMA IsMessage ==
    ASSUME NEW kind, NEW u, NEW to, NEW kinds, NEW v
    PROVE  Is(Message(kind, u, to), kinds, v) <=> kind \in kinds /\ u = v
  BY DEF Is, Message

\* The thread is at one of these steps for the UE.
Serves(t, steps, u) == t.at \in steps /\ t.ue = u

\* On an association, with what the AMF and the gNB have not read and the task
\* of its thread: the preparation the gNB asked for has not reached it yet, the
\* arrival of the UE is not handled yet, a cancel is not acknowledged yet.
Preparing(in, out, t, u) ==
    \/ In(in, {"required"}, u)
    \/ Serves(t, {"waiting", "answering"}, u)
    \/ In(out, {"command", "failure"}, u)
Entering(in, t, u) == In(in, {"notify"}, u) \/ Serves(t, {"repointing"}, u)
Cancels(in, out, t, u) ==
    \/ In(in, {"cancel"}, u)
    \/ Serves(t, {"callingOff"}, u)
    \/ In(out, {"cancelled"}, u)

\* Each of the three is at one place at a time, and the thread takes them in
\* the order of the association: the arrival before a new handover, and that
\* before its cancel.
Line(in, out, t, u) ==
    /\ One(in, {"required"}, u) /\ One(in, {"notify"}, u) /\ One(in, {"cancel"}, u)
    /\ One(out, {"command", "failure"}, u) /\ One(out, {"cancelled"}, u)
    /\ Ahead(in, {"notify"}, {"required"}, u)
    /\ Ahead(in, {"required"}, {"cancel"}, u)
    /\ Ahead(out, {"command", "failure"}, {"cancelled"}, u)
    /\ Serves(t, {"waiting", "answering"}, u) =>
          ~ In(in, {"required"}, u) /\ ~ In(in, {"notify"}, u)
    /\ Serves(t, {"repointing"}, u) => ~ In(in, {"notify"}, u)
    /\ Serves(t, {"callingOff"}, u) => ~ In(in, {"required"}, u) /\ ~ In(in, {"cancel"}, u)
    /\ In(out, {"command", "failure"}, u) =>
          /\ ~ In(in, {"required"}, u) /\ ~ In(in, {"notify"}, u)
          /\ ~ Serves(t, {"waiting", "answering"}, u) /\ ~ Serves(t, {"repointing"}, u)
    /\ In(out, {"cancelled"}, u) =>
          /\ ~ In(in, {"required"}, u) /\ ~ In(in, {"cancel"}, u)
          /\ ~ Serves(t, {"waiting", "answering"}, u) /\ ~ Serves(t, {"callingOff"}, u)

\* A message to the AMF: a new handover where nothing is under way, an arrival
\* where no handover is, and a cancel where no other one is.
LEMMA LineAppend ==
    ASSUME NEW in \in Seq(ToAmf), NEW m \in ToAmf, NEW out, NEW t, NEW u, Line(in, out, t, u),
           Is(m, {"required"}, u) => ~ Preparing(in, out, t, u) /\ ~ Cancels(in, out, t, u),
           Is(m, {"notify"}, u) => ~ Preparing(in, out, t, u) /\ ~ Entering(in, t, u),
           Is(m, {"cancel"}, u) => ~ Cancels(in, out, t, u)
    PROVE  Line(Append(in, m), out, t, u)
<1> DEFINE e == Append(in, m)
<1>1. /\ \A kinds : In(e, kinds, u) <=> In(in, kinds, u) \/ Is(m, kinds, u)
      /\ \A kinds : One(in, kinds, u) /\ ~ (Is(m, kinds, u) /\ In(in, kinds, u)) => One(e, kinds, u)
      /\ \A first, then :
            Ahead(in, first, then, u) /\ ~ (Is(m, first, u) /\ (Is(m, then, u) \/ In(in, then, u)))
                => Ahead(e, first, then, u)
  BY QueueAppend
<1>2. /\ ~ (Is(m, {"required"}, u) /\ Is(m, {"notify"}, u))
      /\ ~ (Is(m, {"required"}, u) /\ Is(m, {"cancel"}, u))
      /\ ~ (Is(m, {"notify"}, u) /\ Is(m, {"cancel"}, u))
  BY DEF Is
<1> HIDE DEF e
<1>3. Line(e, out, t, u)
  BY <1>1, <1>2 DEF Line, Preparing, Entering, Cancels
<1> QED BY <1>3 DEF e

\* The AMF reads a message: what it was about is nowhere else.
LEMMA LineRead ==
    ASSUME NEW in \in Seq(ToAmf), in # <<>>, NEW out, NEW t, NEW u, Line(in, out, t, u)
    PROVE  /\ Line(Tail(in), out, t, u)
           /\ Is(Head(in), {"required"}, u) =>
                 /\ ~ In(Tail(in), {"required"}, u) /\ ~ In(Tail(in), {"notify"}, u)
                 /\ ~ In(out, {"command", "failure"}, u) /\ ~ In(out, {"cancelled"}, u)
           /\ Is(Head(in), {"notify"}, u) =>
                 ~ In(Tail(in), {"notify"}, u) /\ ~ In(out, {"command", "failure"}, u)
           /\ Is(Head(in), {"cancel"}, u) =>
                 /\ ~ In(Tail(in), {"required"}, u) /\ ~ In(Tail(in), {"cancel"}, u)
                 /\ ~ In(out, {"cancelled"}, u)
<1> DEFINE e == Tail(in)
           m == Head(in)
<1>1. /\ \A kinds : In(in, kinds, u) <=> Is(m, kinds, u) \/ In(e, kinds, u)
      /\ \A kinds : One(in, kinds, u) =>
            One(e, kinds, u) /\ (Is(m, kinds, u) => ~ In(e, kinds, u))
      /\ \A first, then : Ahead(in, first, then, u) =>
            Ahead(e, first, then, u) /\ (Is(m, then, u) => ~ In(e, first, u))
  BY QueueTail
<1> HIDE DEF e, m
<1>2. Line(e, out, t, u)
  BY <1>1 DEF Line
<1>3. Is(m, {"required"}, u) => /\ ~ In(e, {"required"}, u) /\ ~ In(e, {"notify"}, u)
                                /\ ~ In(out, {"command", "failure"}, u) /\ ~ In(out, {"cancelled"}, u)
  BY <1>1 DEF Line
<1>4. Is(m, {"notify"}, u) => ~ In(e, {"notify"}, u) /\ ~ In(out, {"command", "failure"}, u)
  BY <1>1 DEF Line
<1>5. Is(m, {"cancel"}, u) => /\ ~ In(e, {"required"}, u) /\ ~ In(e, {"cancel"}, u)
                              /\ ~ In(out, {"cancelled"}, u)
  BY <1>1 DEF Line
<1> QED BY <1>2, <1>3, <1>4, <1>5 DEF e, m

\* A message to the gNB: the outcome of a preparation that is nowhere else, or
\* the answer to a cancel.
LEMMA LineSends ==
    ASSUME NEW in, NEW out \in Seq(ToGnb), NEW m \in ToGnb, NEW t, NEW u, Line(in, out, t, u),
           Is(m, {"command", "failure"}, u) =>
               /\ ~ Preparing(in, out, t, u) /\ ~ Entering(in, t, u) /\ ~ In(out, {"cancelled"}, u),
           Is(m, {"cancelled"}, u) =>
               /\ ~ In(in, {"required"}, u) /\ ~ Serves(t, {"waiting", "answering"}, u)
               /\ ~ Cancels(in, out, t, u)
    PROVE  Line(in, Append(out, m), t, u)
<1> DEFINE e == Append(out, m)
<1>1. /\ \A kinds : In(e, kinds, u) <=> In(out, kinds, u) \/ Is(m, kinds, u)
      /\ \A kinds : One(out, kinds, u) /\ ~ (Is(m, kinds, u) /\ In(out, kinds, u)) => One(e, kinds, u)
      /\ \A first, then :
            Ahead(out, first, then, u) /\ ~ (Is(m, first, u) /\ (Is(m, then, u) \/ In(out, then, u)))
                => Ahead(e, first, then, u)
  BY QueueAppend
<1>2. ~ (Is(m, {"command", "failure"}, u) /\ Is(m, {"cancelled"}, u))
  BY DEF Is
<1> HIDE DEF e
<1>3. Line(in, e, t, u)
  BY <1>1, <1>2 DEF Line, Preparing, Entering, Cancels
<1> QED BY <1>3 DEF e

\* The gNB reads a message.
LEMMA LineHears ==
    ASSUME NEW in, NEW out \in Seq(ToGnb), out # <<>>, NEW t, NEW u, Line(in, out, t, u)
    PROVE  /\ Line(in, Tail(out), t, u)
           /\ Is(Head(out), {"command", "failure"}, u) =>
                 ~ Preparing(in, Tail(out), t, u) /\ ~ Entering(in, t, u)
           /\ Is(Head(out), {"cancelled"}, u) =>
                 ~ Preparing(in, Tail(out), t, u) /\ ~ Cancels(in, Tail(out), t, u)
<1> DEFINE e == Tail(out)
           m == Head(out)
<1>1. /\ \A kinds : In(out, kinds, u) <=> Is(m, kinds, u) \/ In(e, kinds, u)
      /\ \A kinds : One(out, kinds, u) =>
            One(e, kinds, u) /\ (Is(m, kinds, u) => ~ In(e, kinds, u))
      /\ \A first, then : Ahead(out, first, then, u) =>
            Ahead(e, first, then, u) /\ (Is(m, then, u) => ~ In(e, first, u))
  BY QueueTail
<1> HIDE DEF e, m
<1>2. Line(in, e, t, u)
  BY <1>1 DEF Line
<1>3. Is(m, {"command", "failure"}, u) => ~ Preparing(in, e, t, u) /\ ~ Entering(in, t, u)
  BY <1>1 DEF Line, Preparing, Entering
<1>4. Is(m, {"cancelled"}, u) => ~ Preparing(in, e, t, u) /\ ~ Cancels(in, e, t, u)
  BY <1>1 DEF Line, Preparing, Cancels
<1> QED BY <1>2, <1>3, <1>4 DEF e, m

\* The thread goes on, or serves the UE next.
LEMMA LineServes ==
    ASSUME NEW in, NEW out, NEW t, NEW next, NEW u, Line(in, out, t, u),
           Serves(next, {"waiting", "answering"}, u) =>
               \/ Serves(t, {"waiting", "answering"}, u)
               \/ /\ ~ In(in, {"required"}, u) /\ ~ In(in, {"notify"}, u)
                  /\ ~ In(out, {"command", "failure"}, u) /\ ~ In(out, {"cancelled"}, u),
           Serves(next, {"repointing"}, u) =>
               \/ Serves(t, {"repointing"}, u)
               \/ ~ In(in, {"notify"}, u) /\ ~ In(out, {"command", "failure"}, u),
           Serves(next, {"callingOff"}, u) =>
               \/ Serves(t, {"callingOff"}, u)
               \/ /\ ~ In(in, {"required"}, u) /\ ~ In(in, {"cancel"}, u)
                  /\ ~ In(out, {"cancelled"}, u)
    PROVE  Line(in, out, next, u)
  BY DEF Line

\* An empty association.
LEMMA LineEmpty == \A u \in Ue : Line(<<>>, <<>>, Reading, u)
  BY QueueEmpty DEF Line, Serves, Reading

-----------------------------------------------------------------------------
(* What a thread does to its association. *)

\* A step after which the association is in order, and nothing is under way at
\* it that was not before.
Keeps(in, out, t, in2, out2, t2, u) ==
    /\ Line(in2, out2, t2, u)
    /\ Preparing(in2, out2, t2, u) => Preparing(in, out, t, u)
    /\ Cancels(in2, out2, t2, u) => Cancels(in, out, t, u)
    /\ Entering(in2, t2, u) => Entering(in, t, u)
    /\ In(in2, {"required"}, u) => In(in, {"required"}, u)
    /\ In(in2, {"notify"}, u) => In(in, {"notify"}, u)

\* Two such steps are one.
LEMMA KeepsTransitive ==
    ASSUME NEW in, NEW out, NEW t, NEW in2, NEW out2, NEW t2, NEW in3, NEW out3, NEW t3, NEW u,
           Keeps(in, out, t, in2, out2, t2, u), Keeps(in2, out2, t2, in3, out3, t3, u)
    PROVE  Keeps(in, out, t, in3, out3, t3, u)
  BY DEF Keeps

\* The thread goes on with the same UE.
LEMMA KeepsSelf ==
    ASSUME NEW in, NEW out, NEW t, NEW t2, NEW u, Line(in, out, t, u),
           \/ t2.at = t.at /\ t2.ue = t.ue
           \/ t.at = "waiting" /\ t2.at = "answering" /\ t2.ue = t.ue
    PROVE  Keeps(in, out, t, in, out, t2, u)
<1>1. /\ Serves(t2, {"waiting", "answering"}, u) <=> Serves(t, {"waiting", "answering"}, u)
      /\ Serves(t2, {"repointing"}, u) <=> Serves(t, {"repointing"}, u)
      /\ Serves(t2, {"callingOff"}, u) <=> Serves(t, {"callingOff"}, u)
  BY DEF Serves
<1> QED BY <1>1, LineServes DEF Keeps, Preparing, Cancels, Entering

\* Nothing changes.
LEMMA KeepsSame ==
    ASSUME NEW in, NEW out, NEW t, NEW u, Line(in, out, t, u)
    PROVE  Keeps(in, out, t, in, out, t, u)
  BY DEF Keeps

\* A request or a release for a gNB, for whichever UE.
LEMMA KeepsSends ==
    ASSUME NEW in, NEW out \in Seq(ToGnb), NEW m \in ToGnb, NEW t, NEW u, Line(in, out, t, u),
           m.kind \in {"request", "release"}
    PROVE  Keeps(in, out, t, in, Append(out, m), t, u)
<1>1. ~ Is(m, {"command", "failure"}, u) /\ ~ Is(m, {"cancelled"}, u)
  BY DEF Is
<1>2. \A kinds : In(Append(out, m), kinds, u) <=> In(out, kinds, u) \/ Is(m, kinds, u)
  BY QueueAppend
<1>3. Line(in, Append(out, m), t, u)
  BY <1>1, LineSends
<1> QED BY <1>1, <1>2, <1>3 DEF Keeps, Preparing, Cancels, Entering

\* A message is read, and the thread does what it asks for.
LEMMA KeepsReads ==
    ASSUME NEW in \in Seq(ToAmf), in # <<>>, NEW out, NEW t, NEW t2, NEW u, Line(in, out, t, u),
           t.at = "reading",
           \/ t2.at = "reading"
           \/ Head(in).kind = "required" /\ t2.at = "waiting" /\ t2.ue = Head(in).ue
           \/ Head(in).kind = "notify" /\ t2.at = "repointing" /\ t2.ue = Head(in).ue
           \/ Head(in).kind = "cancel" /\ t2.at = "callingOff" /\ t2.ue = Head(in).ue
    PROVE  Keeps(in, out, t, Tail(in), out, t2, u)
<1>1. /\ Serves(t2, {"waiting", "answering"}, u) => Is(Head(in), {"required"}, u)
      /\ Serves(t2, {"repointing"}, u) => Is(Head(in), {"notify"}, u)
      /\ Serves(t2, {"callingOff"}, u) => Is(Head(in), {"cancel"}, u)
  BY DEF Serves, Is
<1>2. \A kinds : In(in, kinds, u) <=> Is(Head(in), kinds, u) \/ In(Tail(in), kinds, u)
  BY QueueTail
<1>3. Line(Tail(in), out, t2, u)
  BY <1>1, LineRead, LineServes
<1> QED BY <1>1, <1>2, <1>3 DEF Keeps, Preparing, Cancels, Entering

\* A message is read that changes nothing else.
LEMMA KeepsDrops ==
    ASSUME NEW in \in Seq(ToAmf), in # <<>>, NEW out, NEW t, NEW u, Line(in, out, t, u)
    PROVE  Keeps(in, out, t, Tail(in), out, t, u)
<1>1. \A kinds : In(in, kinds, u) <=> Is(Head(in), kinds, u) \/ In(Tail(in), kinds, u)
  BY QueueTail
<1> QED BY <1>1, LineRead DEF Keeps, Preparing, Cancels, Entering

\* A preparation fails before the target is asked.
LEMMA KeepsFails ==
    ASSUME NEW in \in Seq(ToAmf), in # <<>>, NEW out \in Seq(ToGnb), NEW m \in ToGnb, NEW t, NEW u,
           Line(in, out, t, u), t.at = "reading", Head(in).kind = "required",
           m.kind = "failure", m.ue = Head(in).ue
    PROVE  Keeps(in, out, t, Tail(in), Append(out, m), t, u)
<1>1. /\ ~ Serves(t, {"waiting", "answering"}, u) /\ ~ Serves(t, {"repointing"}, u)
      /\ Is(m, {"command", "failure"}, u) => Is(Head(in), {"required"}, u)
      /\ ~ Is(m, {"cancelled"}, u)
  BY DEF Serves, Is
<1>2. \A kinds : In(in, kinds, u) <=> Is(Head(in), kinds, u) \/ In(Tail(in), kinds, u)
  BY QueueTail
<1>3. \A kinds : In(Append(out, m), kinds, u) <=> In(out, kinds, u) \/ Is(m, kinds, u)
  BY QueueAppend
<1>4. Line(Tail(in), out, t, u)
  BY LineRead
<1>5. Is(m, {"command", "failure"}, u) =>
          /\ ~ Preparing(Tail(in), out, t, u) /\ ~ Entering(Tail(in), t, u)
          /\ ~ In(out, {"cancelled"}, u)
  BY <1>1, LineRead DEF Preparing, Entering
<1>6. Line(Tail(in), Append(out, m), t, u)
  BY <1>1, <1>4, <1>5, LineSends
<1> QED BY <1>1, <1>2, <1>3, <1>6 DEF Keeps, Preparing, Cancels, Entering

\* A thread that is done with the UE it serves.
LEMMA KeepsEnds ==
    ASSUME NEW in, NEW out, NEW t, NEW u, Line(in, out, t, u)
    PROVE  Keeps(in, out, t, in, out, Reading, u)
<1>1. \A steps : "reading" \notin steps => ~ Serves(Reading, steps, u)
  BY DEF Serves, Reading
<1>2. Line(in, out, Reading, u)
  BY <1>1, LineServes
<1> QED BY <1>1, <1>2 DEF Keeps, Preparing, Cancels, Entering

\* The outcome of a preparation is sent to the source.
LEMMA KeepsAnswers ==
    ASSUME NEW in, NEW out \in Seq(ToGnb), NEW m \in ToGnb, NEW t, NEW u, Line(in, out, t, u),
           t.at \in {"waiting", "answering"}, m.kind \in {"command", "failure"}, m.ue = t.ue
    PROVE  Keeps(in, out, t, in, Append(out, m), Reading, u)
<1>1. /\ Is(m, {"command", "failure"}, u) => Serves(t, {"waiting", "answering"}, u)
      /\ ~ Is(m, {"cancelled"}, u)
      /\ \A steps : "reading" \notin steps => ~ Serves(Reading, steps, u)
  BY DEF Serves, Is, Reading
<1>2. \A kinds : In(Append(out, m), kinds, u) <=> In(out, kinds, u) \/ Is(m, kinds, u)
  BY QueueAppend
<1>3. Line(in, out, Reading, u)
  BY KeepsEnds DEF Keeps
<1>4. Is(m, {"command", "failure"}, u) =>
          /\ ~ Preparing(in, out, Reading, u) /\ ~ Entering(in, Reading, u)
          /\ ~ In(out, {"cancelled"}, u)
  BY <1>1 DEF Line, Preparing, Entering
<1>5. Line(in, Append(out, m), Reading, u)
  BY <1>1, <1>3, <1>4, LineSends
<1> QED BY <1>1, <1>2, <1>5 DEF Keeps, Preparing, Cancels, Entering

\* A cancel is acknowledged.
LEMMA KeepsCallsOff ==
    ASSUME NEW in, NEW out \in Seq(ToGnb), NEW m \in ToGnb, NEW t, NEW u, Line(in, out, t, u),
           t.at = "callingOff", m.kind = "cancelled", m.ue = t.ue
    PROVE  Keeps(in, out, t, in, Append(out, m), Reading, u)
<1>1. /\ Is(m, {"cancelled"}, u) => Serves(t, {"callingOff"}, u)
      /\ ~ Is(m, {"command", "failure"}, u)
      /\ \A steps : "reading" \notin steps => ~ Serves(Reading, steps, u)
  BY DEF Serves, Is, Reading
<1>2. \A kinds : In(Append(out, m), kinds, u) <=> In(out, kinds, u) \/ Is(m, kinds, u)
  BY QueueAppend
<1>3. Line(in, out, Reading, u)
  BY KeepsEnds DEF Keeps
<1>4. Is(m, {"cancelled"}, u) =>
          /\ ~ In(in, {"required"}, u) /\ ~ Serves(Reading, {"waiting", "answering"}, u)
          /\ ~ Cancels(in, out, Reading, u)
  BY <1>1 DEF Line, Cancels
<1>5. Line(in, Append(out, m), Reading, u)
  BY <1>1, <1>3, <1>4, LineSends
<1> QED BY <1>1, <1>2, <1>5 DEF Keeps, Preparing, Cancels, Entering

\* What reaches an association is appended to what is under way to its gNB.
LEMMA SentAt ==
    ASSUME NEW box \in LinkedGnb, NEW x, NEW u \in Ue, NEW k \in Link,
           NEW kind \in {"request", "command", "failure", "cancelled", "release"}
    PROVE  /\ Message(kind, u, None) \in ToGnb
           /\ box[k] \in Seq(ToGnb)
           /\ k = x /\ phase[x] = "up" => Sent(box, x, kind, u)[k] = Append(box[k], Message(kind, u, None))
           /\ ~ (k = x /\ phase[x] = "up") => Sent(box, x, kind, u)[k] = box[k]
<1>1. Message(kind, u, None) \in ToGnb
  BY DEF Message, ToGnb
<1>2. box[k] \in Seq(ToGnb)
  BY DEF LinkedGnb
<1> DEFINE m == Message(kind, u, None)
<1>3. m \in ToGnb
  BY <1>1
<1> HIDE DEF m
<1>4. CASE x \in Link /\ phase[x] = "up"
  <2>1. Sent(box, x, kind, u) = [box EXCEPT ![x] = Append(@, m)]
    BY <1>4 DEF Sent, m
  <2> QED BY <1>1, <1>2, <1>4, <2>1 DEF LinkedGnb, m
<1>5. CASE ~ (x \in Link /\ phase[x] = "up")
  <2>1. Sent(box, x, kind, u) = box
    BY <1>5 DEF Sent
  <2> QED BY <1>1, <1>2, <1>5, <2>1
<1> QED BY <1>4, <1>5

\* A request or a release that is sent keeps every association in order.
LEMMA KeepsSent ==
    ASSUME NEW box \in LinkedGnb, NEW x, NEW u \in Ue, NEW k \in Link, NEW in, NEW t, NEW v,
           NEW kind \in {"request", "release"}, Line(in, box[k], t, v)
    PROVE  Keeps(in, box[k], t, in, Sent(box, x, kind, u)[k], t, v)
<1>1. Message(kind, u, None).kind = kind
  BY DEF Message
<1> DEFINE m == Message(kind, u, None)
<1>2. m \in ToGnb /\ m.kind \in {"request", "release"} /\ box[k] \in Seq(ToGnb)
  BY <1>1, SentAt
<1>3. Keeps(in, box[k], t, in, Append(box[k], m), t, v)
  <2> HIDE DEF m
  <2> QED BY <1>2, KeepsSends
<1>4. Keeps(in, box[k], t, in, box[k], t, v)
  BY KeepsSame
<1>5. Sent(box, x, kind, u)[k] \in {box[k], Append(box[k], m)}
  BY SentAt
<1> QED BY <1>3, <1>4, <1>5

\* The threads a new relay leaves as they are but for being disturbed.
LEMMA WaitingAt ==
    ASSUME HandoverTypeOK, NEW l \in Link, NEW u, NEW to
    PROVE  LET w == Waiting(l, u, to) IN
           /\ w[l].at = "waiting" /\ w[l].ue = u /\ w[l].to = to /\ w[l].via = registered[to]
           /\ w[l].alone = Undisturbed(to)
           /\ \A k \in Link \ {l} :
                 /\ w[k].at = thread[k].at /\ w[k].ue = thread[k].ue /\ w[k].to = thread[k].to
                 /\ w[k].via = thread[k].via /\ w[k].got = thread[k].got
                 /\ w[k].alone => thread[k].alone
                 /\ w[k].alone => ~ (thread[k].at = "waiting" /\ thread[k].to = to)
<1> DEFINE w == Waiting(l, u, to)
<1>1. w[l] = [at |-> "waiting", ue |-> u, to |-> to, via |-> registered[to],
              got |-> Nothing, alone |-> Undisturbed(to)]
  BY DEF Waiting
<1>2. ASSUME NEW k \in Link \ {l}
      PROVE  /\ w[k].at = thread[k].at /\ w[k].ue = thread[k].ue /\ w[k].to = thread[k].to
             /\ w[k].via = thread[k].via /\ w[k].got = thread[k].got
             /\ w[k].alone => thread[k].alone
             /\ w[k].alone => ~ (thread[k].at = "waiting" /\ thread[k].to = to)
  <2>1. CASE thread[k].at = "waiting" /\ thread[k].to = to
    <3>1. thread[k] \in Waits
      BY <2>1, WaitingTask DEF HandoverTypeOK
    <3>2. w[k] = [thread[k] EXCEPT !.alone = FALSE]
      BY <2>1 DEF Waiting
    <3> HIDE DEF w
    <3> QED BY <2>1, <3>1, <3>2 DEF Waits
  <2>2. CASE ~ (thread[k].at = "waiting" /\ thread[k].to = to)
    <3>1. w[k] = thread[k]
      BY <2>2 DEF Waiting
    <3> HIDE DEF w
    <3> QED BY <2>2, <3>1
  <2> QED BY <2>1, <2>2
<1> HIDE DEF w
<1>3. /\ w[l].at = "waiting" /\ w[l].ue = u /\ w[l].to = to /\ w[l].via = registered[to]
      /\ w[l].alone = Undisturbed(to)
  BY <1>1
<1> QED BY <1>2, <1>3 DEF w

PreparingAt(l, u) == Preparing(inbox[l], outbox[l], thread[l], u)
EnteringAt(l, u) == Entering(inbox[l], thread[l], u)
CancelsAt(l, u) == Cancels(inbox[l], outbox[l], thread[l], u)
LinesInOrder == \A l \in Link, u \in Ue : Line(inbox[l], outbox[l], thread[l], u)

KeepsAt(k, u) ==
    Keeps(inbox[k], outbox[k], thread[k], inbox'[k], outbox'[k], thread'[k], u)

\* The queues of an association, its task, and a message its thread reads.
LEMMA AtLink ==
    ASSUME HandoverTypeOK, NEW k \in Link
    PROVE  /\ inbox[k] \in Seq(ToAmf) /\ outbox[k] \in Seq(ToGnb) /\ thread[k] \in Task
           /\ outbox \in LinkedGnb
           /\ Consumed(k)[k] = Tail(inbox[k]) /\ \A j \in Link \ {k} : Consumed(k)[j] = inbox[j]
           /\ inbox[k] # <<>> => Head(inbox[k]) \in ToAmf /\ Head(inbox[k]).ue \in Ue
  BY ReadTyped, AmfMessages DEF HandoverTypeOK, LinkedAmf, LinkedGnb, Consumed

\* No step of a thread adds to what is under way for a UE.
LEMMA RequiredKeeps ==
    ASSUME HandoverTypeOK, LinesInOrder, NEW l \in Link, Required(l), NEW k \in Link, NEW v \in Ue
    PROVE  KeepsAt(k, v)
<1> DEFINE m == Head(inbox[l])
<1>1. /\ Reads(l, "required") /\ inbox' = Consumed(l) /\ m.ue \in Ue
      /\ thread[l].at = "reading" /\ inbox[l] # <<>> /\ m.kind = "required"
  BY AtLink DEF Required, Reads
<1>2. Line(inbox[k], outbox[k], thread[k], v) /\ Line(inbox[l], outbox[l], thread[l], v)
  BY DEF LinesInOrder
<1> HIDE DEF m
<1>3. CASE Relay(l, m.ue, m.to)
  <2>1. thread' = Waiting(l, m.ue, m.to) /\ outbox' = Sent(outbox, registered[m.to], "request", m.ue)
    BY <1>3 DEF Relay
  <2>2. Keeps(inbox[k], outbox[k], thread[k], inbox'[k], outbox[k], thread'[k], v)
    <3>1. CASE k = l
      <4>1. thread'[l].at = "waiting" /\ thread'[l].ue = m.ue /\ inbox'[l] = Tail(inbox[l])
        BY <1>1, <2>1, WaitingAt, AtLink
      <4>2. Keeps(inbox[l], outbox[l], thread[l], Tail(inbox[l]), outbox[l], thread'[l], v)
        <5>1. inbox[l] \in Seq(ToAmf)
          BY AtLink
        <5> QED BY <1>1, <1>2, <4>1, <5>1, KeepsReads DEF m
      <4> QED BY <3>1, <4>1, <4>2
    <3>2. CASE k # l
      <4>1. thread'[k].at = thread[k].at /\ thread'[k].ue = thread[k].ue /\ inbox'[k] = inbox[k]
        BY <1>1, <2>1, <3>2, WaitingAt, AtLink
      <4> QED BY <1>2, <4>1, KeepsSelf
    <3> QED BY <3>1, <3>2
  <2>3. Keeps(inbox'[k], outbox[k], thread'[k], inbox'[k], outbox'[k], thread'[k], v)
    BY <1>1, <2>1, <2>2, KeepsSent, AtLink DEF Keeps
  <2> QED BY <2>2, <2>3, KeepsTransitive DEF KeepsAt
<1>4. CASE outbox' = Sent(outbox, l, "failure", m.ue) /\ UNCHANGED thread
  <2> DEFINE f == Message("failure", m.ue, None)
  <2>1. f.kind = "failure" /\ f.ue = m.ue
    BY DEF Message
  <2>2. f \in ToGnb
    BY <1>1, SentAt, AtLink
  <2>3. CASE k = l /\ phase[l] = "up"
    <3>1. inbox'[k] = Tail(inbox[k]) /\ outbox'[k] = Append(outbox[k], f) /\ thread'[k] = thread[k]
      BY <1>1, <1>4, <2>3, SentAt, AtLink
    <3> HIDE DEF f
    <3> QED BY <1>1, <1>2, <2>1, <2>2, <2>3, <3>1, KeepsFails, AtLink DEF KeepsAt, m
  <2>4. CASE k = l /\ phase[l] # "up"
    <3>1. inbox'[k] = Tail(inbox[k]) /\ outbox'[k] = outbox[k] /\ thread'[k] = thread[k]
      BY <1>1, <1>4, <2>4, SentAt, AtLink
    <3>2. inbox[k] \in Seq(ToAmf)
      BY AtLink
    <3> QED BY <1>1, <1>2, <2>4, <3>1, <3>2, KeepsDrops DEF KeepsAt
  <2>5. CASE k # l
    <3>1. inbox'[k] = inbox[k] /\ outbox'[k] = outbox[k] /\ thread'[k] = thread[k]
      BY <1>1, <1>4, <2>5, SentAt, AtLink
    <3> QED BY <1>2, <3>1, KeepsSame DEF KeepsAt
  <2> QED BY <2>3, <2>4, <2>5
<1> QED BY <1>3, <1>4 DEF Required, m

\* A thread that reads a message, tells one gNB to release or nothing, and goes
\* on to what it read.
LEMMA ReadKeeps ==
    ASSUME HandoverTypeOK, LinesInOrder, NEW l \in Link, NEW k \in Link, NEW v \in Ue,
           inbox[l] # <<>>, thread[l].at = "reading", inbox' = Consumed(l),
           outbox' = outbox \/ \E x : \E u \in Ue : outbox' = Sent(outbox, x, "release", u),
           \A j \in Link \ {l} : thread'[j] = thread[j],
           \/ thread'[l] = thread[l]
           \/ Head(inbox[l]).kind = "notify" /\ thread'[l].at = "repointing"
                                             /\ thread'[l].ue = Head(inbox[l]).ue
           \/ Head(inbox[l]).kind = "cancel" /\ thread'[l].at = "callingOff"
                                             /\ thread'[l].ue = Head(inbox[l]).ue
    PROVE  KeepsAt(k, v)
<1>1. Line(inbox[k], outbox[k], thread[k], v) /\ Line(inbox[l], outbox[l], thread[l], v)
  BY DEF LinesInOrder
<1>2. Keeps(inbox[k], outbox[k], thread[k], inbox'[k], outbox[k], thread'[k], v)
  <2>1. CASE k = l
    <3>1. inbox[l] \in Seq(ToAmf) /\ inbox'[l] = Tail(inbox[l])
      BY AtLink
    <3>2. Keeps(inbox[l], outbox[l], thread[l], Tail(inbox[l]), outbox[l], thread'[l], v)
      BY <1>1, <3>1, KeepsReads
    <3> QED BY <2>1, <3>1, <3>2
  <2>2. CASE k # l
    <3>1. inbox'[k] = inbox[k] /\ thread'[k] = thread[k]
      BY <2>2, AtLink
    <3> QED BY <1>1, <3>1, KeepsSame
  <2> QED BY <2>1, <2>2
<1>3. Keeps(inbox'[k], outbox[k], thread'[k], inbox'[k], outbox'[k], thread'[k], v)
  <2>1. Line(inbox'[k], outbox[k], thread'[k], v) /\ outbox \in LinkedGnb
    BY <1>2, AtLink DEF Keeps
  <2>2. CASE outbox' = outbox
    BY <2>1, <2>2, KeepsSame
  <2>3. ASSUME NEW x, NEW u \in Ue, outbox' = Sent(outbox, x, "release", u)
        PROVE  Keeps(inbox'[k], outbox[k], thread'[k], inbox'[k], outbox'[k], thread'[k], v)
    BY <2>1, <2>3, KeepsSent
  <2> QED BY <2>2, <2>3
<1> QED BY <1>2, <1>3, KeepsTransitive DEF KeepsAt

\* A thread that answers the source: what it has prepared, or called off.
LEMMA AnswerKeeps ==
    ASSUME HandoverTypeOK, LinesInOrder, NEW l \in Link, NEW k \in Link, NEW v \in Ue,
           NEW box \in LinkedGnb, NEW u \in Ue, u = thread[l].ue, inbox' = inbox,
           NEW kind \in {"command", "failure", "cancelled"}, outbox' = Sent(box, l, kind, u),
           Keeps(inbox[k], outbox[k], thread[k], inbox[k], box[k], thread[k], v),
           \/ thread[l].at \in {"waiting", "answering"} /\ kind \in {"command", "failure"}
           \/ thread[l].at = "callingOff" /\ kind = "cancelled",
           Goto(l, Reading)
    PROVE  KeepsAt(k, v)
<1> DEFINE m == Message(kind, u, None)
<1>1. Line(inbox[k], box[k], thread[k], v)
  BY DEF Keeps
<1>2. thread'[l] = Reading /\ \A j \in Link \ {l} : thread'[j] = thread[j]
  BY DEF Goto, HandoverTypeOK
<1>3. m \in ToGnb /\ box[k] \in Seq(ToGnb)
  BY SentAt
<1>4. m.kind = kind /\ m.ue = u
  BY DEF Message
<1>5. /\ k = l /\ phase[l] = "up" => outbox'[k] = Append(box[k], m)
      /\ ~ (k = l /\ phase[l] = "up") => outbox'[k] = box[k]
  BY SentAt
<1> HIDE DEF m
<1>6. Keeps(inbox[k], box[k], thread[k], inbox'[k], outbox'[k], thread'[k], v)
  <2>1. CASE k = l /\ phase[l] = "up"
    <3>1. CASE thread[l].at \in {"waiting", "answering"} /\ kind \in {"command", "failure"}
      <4>1. Keeps(inbox[l], box[l], thread[l], inbox[l], Append(box[l], m), Reading, v)
        <5>1. m.ue = thread[l].ue /\ Line(inbox[l], box[l], thread[l], v) /\ box[l] \in Seq(ToGnb)
          BY <1>1, <1>3, <1>4, <2>1
        <5> QED BY <1>3, <1>4, <3>1, <5>1, KeepsAnswers
      <4> QED BY <1>2, <1>5, <2>1, <4>1
    <3>2. CASE thread[l].at = "callingOff" /\ kind = "cancelled"
      <4>1. Keeps(inbox[l], box[l], thread[l], inbox[l], Append(box[l], m), Reading, v)
        <5>1. m.ue = thread[l].ue /\ Line(inbox[l], box[l], thread[l], v) /\ box[l] \in Seq(ToGnb)
          BY <1>1, <1>3, <1>4, <2>1
        <5> QED BY <1>3, <1>4, <3>2, <5>1, KeepsCallsOff
      <4> QED BY <1>2, <1>5, <2>1, <4>1
    <3> QED BY <3>1, <3>2
  <2>2. CASE k = l /\ phase[l] # "up"
    BY <1>1, <1>2, <1>5, <2>2, KeepsEnds
  <2>3. CASE k # l
    BY <1>1, <1>2, <1>5, <2>3, KeepsSame
  <2> QED BY <2>1, <2>2, <2>3
<1> QED BY <1>6, KeepsTransitive DEF KeepsAt

\* No step of a thread puts anything more under way on an association.
LEMMA ThreadKeeps ==
    ASSUME HandoverTypeOK, LinesInOrder, NEW l \in Link, ThreadStep(l), NEW k \in Link, NEW v \in Ue
    PROVE  KeepsAt(k, v)
<1> USE DEF linkVars
<1>a. /\ Line(inbox[k], outbox[k], thread[k], v) /\ outbox \in LinkedGnb
      /\ thread[l].at # "reading" => thread[l].ue \in Ue
      /\ thread[l].at = "callingOff" => thread[l].to \in Gnb \union {None}
      /\ inbox[l] # <<>> => Head(inbox[l]) \in ToAmf /\ Head(inbox[l]).ue \in Ue
  BY TaskFields, AtLink DEF LinesInOrder
<1>b. Keeps(inbox[k], outbox[k], thread[k], inbox[k], outbox[k], thread[k], v)
  BY <1>a, KeepsSame
<1>c. \A task : Goto(l, task) => thread'[l] = task /\ \A j \in Link \ {l} : thread'[j] = thread[j]
  BY DEF Goto, HandoverTypeOK
<1>1. CASE Required(l)
  BY <1>1, RequiredKeeps
<1>2. CASE Deliver(l)
  BY <1>2, ReadKeeps DEF Deliver, Reads
<1>3. CASE Take(l)
  <2>1. thread[l] \in Waits
    BY <1>3, WaitingTask DEF Take, HandoverTypeOK
  <2>2. thread'[l].at = "answering" /\ thread'[l].ue = thread[l].ue /\ inbox' = inbox /\ outbox' = outbox
    <3>1. thread'[l] = [thread[l] EXCEPT !.at = "answering", !.got = slot[thread[l].via].reply]
      BY <1>3, <1>c DEF Take
    <3> QED BY <1>3, <2>1, <3>1 DEF Take, Waits
  <2>3. CASE k = l
    BY <1>3, <1>a, <2>2, <2>3, KeepsSelf DEF KeepsAt, Take
  <2>4. CASE k # l
    <3>1. thread'[k] = thread[k]
      BY <1>3, <1>c, <2>4 DEF Take
    <3> QED BY <1>b, <2>2, <3>1 DEF KeepsAt
  <2> QED BY <2>3, <2>4
<1>4. CASE TimeOut(l)
  BY <1>4, <1>a, <1>b, AnswerKeeps DEF TimeOut
<1>5. CASE Refuse(l)
  BY <1>5, <1>a, <1>b, AnswerKeeps DEF Refuse
<1>6. CASE Command(l)
  BY <1>6, <1>a, <1>b, AnswerKeeps DEF Command
<1>7. CASE Cancel(l)
  <2>1. /\ thread'[l].at = "callingOff" /\ thread'[l].ue = Head(inbox[l]).ue
        /\ \A j \in Link \ {l} : thread'[j] = thread[j]
    <3>1. Goto(l, [Reading EXCEPT !.at = "callingOff", !.ue = Head(inbox[l]).ue,
                                  !.to = target[Head(inbox[l]).ue]])
      BY <1>7 DEF Cancel
    <3>2. /\ thread'[l] = [Reading EXCEPT !.at = "callingOff", !.ue = Head(inbox[l]).ue,
                                          !.to = target[Head(inbox[l]).ue]]
          /\ \A j \in Link \ {l} : thread'[j] = thread[j]
      BY <1>c, <3>1
    <3> QED BY <3>2 DEF Reading
  <2> QED BY <1>7, <2>1, ReadKeeps DEF Cancel, Reads
<1>8. CASE CallOff(l)
  <2> DEFINE u == thread[l].ue
             to == thread[l].to
             told == IF to = None THEN outbox ELSE Sent(outbox, registered[to], "release", u)
  <2>1. u \in Ue
    BY <1>8, <1>a DEF CallOff
  <2>2. told \in LinkedGnb
    BY <1>a, <2>1, SentTyped
  <2>3. Keeps(inbox[k], outbox[k], thread[k], inbox[k], told[k], thread[k], v)
    BY <1>a, <1>b, <2>1, KeepsSent
  <2>4. outbox' = Sent(told, l, "cancelled", u) /\ inbox' = inbox /\ Goto(l, Reading)
        /\ thread[l].at = "callingOff"
    BY <1>8 DEF CallOff
  <2> HIDE DEF told
  <2> QED BY <2>1, <2>2, <2>3, <2>4, AnswerKeeps
<1>9. CASE Notify(l)
  <2>1. /\ thread'[l].at = "repointing" /\ thread'[l].ue = Head(inbox[l]).ue
        /\ \A j \in Link \ {l} : thread'[j] = thread[j]
    <3>1. Goto(l, [Reading EXCEPT !.at = "repointing", !.ue = Head(inbox[l]).ue])
      BY <1>9 DEF Notify
    <3>2. /\ thread'[l] = [Reading EXCEPT !.at = "repointing", !.ue = Head(inbox[l]).ue]
          /\ \A j \in Link \ {l} : thread'[j] = thread[j]
      BY <1>c, <3>1
    <3> QED BY <3>2 DEF Reading
  <2>2. \E x : \E u \in Ue : outbox' = Sent(outbox, x, "release", u)
    BY <1>9, <1>a DEF Notify, Reads
  <2> QED BY <1>9, <2>1, <2>2, ReadKeeps DEF Notify, Reads
<1>10. CASE Repoint(l)
  <2>1. Keeps(inbox[k], outbox[k], thread[k], inbox[k], outbox[k], Reading, v)
    BY <1>a, KeepsEnds
  <2> QED BY <1>10, <1>b, <1>c, <2>1 DEF Repoint, KeepsAt
<1>11. CASE Complete(l)
  BY <1>11, ReadKeeps DEF Complete, Reads
<1>12. CASE Close(l)
  BY <1>12, <1>b DEF Close, KeepsAt
<1> QED BY <1>1, <1>2, <1>3, <1>4, <1>5, <1>6, <1>7, <1>8, <1>9, <1>10, <1>11, <1>12 DEF ThreadStep

\* A gNB hears what heads its queue: an outcome ends the preparation, and the
\* answer to a cancel ends that and the preparation.
LEMMA HearsKeeps ==
    ASSUME HandoverTypeOK, LinesInOrder, NEW g \in Gnb, NEW kind, NEW u \in Ue, Hears(g, kind, u)
    PROVE  LET l == LinkOf(g) IN
           /\ l \in Link /\ phase[l] = "up" /\ outbox[l] # <<>>
           /\ Head(outbox[l]) = Message(kind, u, None)
           /\ outbox'[l] = Tail(outbox[l]) /\ \A k \in Link \ {l} : outbox'[k] = outbox[k]
           /\ \A k \in Link, v \in Ue :
                 Keeps(inbox[k], outbox[k], thread[k], inbox[k], outbox'[k], thread[k], v)
           /\ kind \in {"command", "failure"} =>
                 /\ ~ Preparing(inbox[l], outbox'[l], thread[l], u)
                 /\ ~ Entering(inbox[l], thread[l], u)
           /\ kind = "cancelled" =>
                 /\ ~ Preparing(inbox[l], outbox'[l], thread[l], u)
                 /\ ~ Cancels(inbox[l], outbox'[l], thread[l], u)
<1> DEFINE l == LinkOf(g)
<1>1. l \in Link
  BY FirstLink DEF LinkOf, HandoverTypeOK
<1> HIDE DEF l
<1>2. /\ phase[l] = "up" /\ outbox[l] # <<>> /\ Head(outbox[l]) = Message(kind, u, None)
      /\ outbox' = [outbox EXCEPT ![l] = Tail(@)]
  BY DEF Hears, Up, l
<1>3. outbox'[l] = Tail(outbox[l]) /\ \A k \in Link \ {l} : outbox'[k] = outbox[k]
  BY <1>1, <1>2 DEF HandoverTypeOK
<1>4. \A kinds, v : Is(Head(outbox[l]), kinds, v) <=> kind \in kinds /\ u = v
  BY <1>2, IsMessage
<1>5. outbox[l] \in Seq(ToGnb) /\ \A v \in Ue : Line(inbox[l], outbox[l], thread[l], v)
  BY <1>1, AtLink DEF LinesInOrder
<1>6. ASSUME NEW k \in Link, NEW v \in Ue
      PROVE  Keeps(inbox[k], outbox[k], thread[k], inbox[k], outbox'[k], thread[k], v)
  <2>1. CASE k = l
    <3>1. Line(inbox[l], Tail(outbox[l]), thread[l], v)
      BY <1>2, <1>5, LineHears
    <3>2. \A kinds : In(Tail(outbox[l]), kinds, v) => In(outbox[l], kinds, v)
      BY <1>2, <1>5, QueueTail
    <3>3. Keeps(inbox[l], outbox[l], thread[l], inbox[l], Tail(outbox[l]), thread[l], v)
      BY <3>1, <3>2 DEF Keeps, Preparing, Cancels, Entering
    <3> QED BY <1>3, <2>1, <3>3
  <2>2. CASE k # l
    <3>1. outbox'[k] = outbox[k] /\ Line(inbox[k], outbox[k], thread[k], v)
      BY <1>3, <2>2 DEF LinesInOrder
    <3> QED BY <3>1, KeepsSame
  <2> QED BY <2>1, <2>2
<1>7. kind \in {"command", "failure"} => /\ ~ Preparing(inbox[l], outbox'[l], thread[l], u)
                                         /\ ~ Entering(inbox[l], thread[l], u)
  BY <1>2, <1>3, <1>4, <1>5, LineHears
<1>8. kind = "cancelled" => /\ ~ Preparing(inbox[l], outbox'[l], thread[l], u)
                            /\ ~ Cancels(inbox[l], outbox'[l], thread[l], u)
  BY <1>2, <1>3, <1>4, <1>5, LineHears
<1> QED BY <1>1, <1>2, <1>3, <1>6, <1>7, <1>8 DEF l

\* A gNB sends a message on its newest association.
Told(in, next, l, m) ==
    /\ next[l] = Append(in[l], m) /\ \A k \in Link \ {l} : next[k] = in[k]
    /\ \A kinds, v : In(next[l], kinds, v) <=> In(in[l], kinds, v) \/ Is(m, kinds, v)

\* The message is added at the end of what the AMF has not read there.
LEMMA TellsAt ==
    ASSUME HandoverTypeOK, NEW g \in Gnb, NEW kind, NEW u, NEW to, Message(kind, u, to) \in ToAmf
    PROVE  /\ LinkOf(g) \in Link /\ inbox[LinkOf(g)] \in Seq(ToAmf)
           /\ Told(inbox, ToTheAmf(g, kind, u, to), LinkOf(g), Message(kind, u, to))
<1> DEFINE l == LinkOf(g)
           m == Message(kind, u, to)
           in == ToTheAmf(g, kind, u, to)
<1>1. l \in Link
  BY FirstLink DEF LinkOf, HandoverTypeOK
<1>2. in = [inbox EXCEPT ![l] = Append(@, m)] /\ m \in ToAmf
  BY DEF ToTheAmf
<1> HIDE DEF l, m, in
<1>3. in[l] = Append(inbox[l], m) /\ \A k \in Link \ {l} : in[k] = inbox[k]
  BY <1>1, <1>2 DEF HandoverTypeOK
<1>4. inbox[l] \in Seq(ToAmf)
  BY <1>1, AtLink
<1>5. \A kinds, v : In(in[l], kinds, v) <=> In(inbox[l], kinds, v) \/ Is(m, kinds, v)
  BY <1>2, <1>3, <1>4, QueueAppend
<1>6. Told(inbox, in, l, m)
  BY <1>3, <1>5 DEF Told
<1> QED BY <1>1, <1>4, <1>6 DEF l, m, in

\* A message that is not about the order keeps every association in order, and
\* so does one about another UE.
LEMMA TellsKeeps ==
    ASSUME HandoverTypeOK, NEW g \in Gnb, NEW kind, NEW u, NEW to, Message(kind, u, to) \in ToAmf,
           NEW k \in Link, NEW v \in Ue, NEW out, NEW t, Line(inbox[k], out, t, v),
           kind \in {"accept", "refuse", "complete"} \/ u # v \/ k # LinkOf(g)
    PROVE  Keeps(inbox[k], out, t, ToTheAmf(g, kind, u, to)[k], out, t, v)
<1> DEFINE l == LinkOf(g)
           m == Message(kind, u, to)
           in == ToTheAmf(g, kind, u, to)
<1>1. l \in Link /\ inbox[l] \in Seq(ToAmf) /\ Told(inbox, in, l, m)
  BY TellsAt
<1>2. m \in ToAmf /\ \A kinds : Is(m, kinds, v) <=> kind \in kinds /\ u = v
  BY IsMessage
<1> HIDE DEF m, in
<1>3. CASE k = l
  <2>1. kind \in {"accept", "refuse", "complete"} \/ u # v
    BY <1>3
  <2> HIDE DEF l
  <2>2. ~ Is(m, {"required"}, v) /\ ~ Is(m, {"notify"}, v) /\ ~ Is(m, {"cancel"}, v)
    BY <1>2, <2>1
  <2>3. /\ In(in[l], {"required"}, v) => In(inbox[l], {"required"}, v)
        /\ In(in[l], {"notify"}, v) => In(inbox[l], {"notify"}, v)
        /\ In(in[l], {"cancel"}, v) => In(inbox[l], {"cancel"}, v)
    BY <1>1, <2>2 DEF Told
  <2>4. Line(in[l], out, t, v)
    BY <1>1, <1>2, <1>3, <2>2, LineAppend DEF Told
  <2> QED BY <1>3, <2>3, <2>4 DEF Keeps, Preparing, Cancels, Entering, in
<1>4. CASE k # l
  <2>1. in[k] = inbox[k]
    BY <1>1, <1>4 DEF Told
  <2> QED BY <2>1, KeepsSame DEF in
<1> QED BY <1>3, <1>4

-----------------------------------------------------------------------------
(* The UE a gNB serves. *)

\* Only the newest association of a gNB may be up; those to come are empty,
\* and no message is under way to a gNB that is gone.
LinksInOrder ==
    \A l \in Link :
        /\ l[2] < current[l[1]] => phase[l] # "up"
        /\ l[2] > current[l[1]] => /\ phase[l] = "unused" /\ thread[l] = Reading
                                   /\ inbox[l] = <<>> /\ outbox[l] = <<>>
        /\ phase[l] # "up" => outbox[l] = <<>>

\* A gNB knows of a cancel it has sent until it is acknowledged.
CancelsKnown == \A g \in Gnb, u \in Ue : (Up(g) /\ CancelsAt(LinkOf(g), u)) => u \in cancelling[g]

\* A gNB never wants a UE handed over to itself.
WantsElsewhere == \A g \in Gnb, u \in Ue : wanted[g][u] # g

\* All that is under way for a UE is at the association of the gNB that serves
\* it: at most one preparation, which that gNB has asked for, and its arrival,
\* until which its entry leads elsewhere.
Served(u) ==
    LET g == position[u] IN
    g # None =>
        /\ Up(g)
        /\ \A l \in Link : (PreparingAt(l, u) \/ EnteringAt(l, u)) => l = LinkOf(g)
        /\ PreparingAt(LinkOf(g), u) => wanted[g][u] # None
        /\ (entry[u] # NoLink /\ ~ EnteringAt(LinkOf(g), u)) => entry[u] = LinkOf(g)
        /\ In(inbox[LinkOf(g)], {"notify"}, u) => entry[u] # LinkOf(g)
AllServed == \A u \in Ue : Served(u)

OrderInv ==
    /\ HandoverTypeOK /\ LinesInOrder /\ LinksInOrder /\ CancelsKnown /\ WantsElsewhere
    /\ AllServed

\* A gNB that dies reads nothing more.
LEMMA KeepsEmptied ==
    ASSUME NEW in, NEW out, NEW t, NEW u, Line(in, out, t, u)
    PROVE  Keeps(in, out, t, in, <<>>, t, u)
  BY QueueEmpty DEF Keeps, Line, Preparing, Cancels, Entering

\* The steps of a gNB that ask for nothing, cancel nothing and let no UE arrive.
LEMMA GnbKeeps ==
    ASSUME HandoverTypeOK, LinesInOrder, NEW g \in Gnb, NEW u \in Ue,
           \/ Allocate(g, u) \/ (Outcome(g, u) /\ UNCHANGED inbox)
           \/ Cancelled(g, u) \/ Release(g, u) \/ Crash(g) \/ Setup(g),
           NEW k \in Link, NEW v \in Ue
    PROVE  KeepsAt(k, v)
<1> USE DEF amfVars, linkVars
<1>1. Line(inbox[k], outbox[k], thread[k], v)
  BY DEF LinesInOrder
<1>2. ASSUME NEW kind, Hears(g, kind, u)
      PROVE  /\ Keeps(inbox[k], outbox[k], thread[k], inbox[k], outbox'[k], thread[k], v)
             /\ Line(inbox[k], outbox'[k], thread[k], v)
  BY <1>2, HearsKeeps DEF Keeps
<1>3. ASSUME NEW kind \in {"accept", "refuse", "complete"}, inbox' = ToTheAmf(g, kind, u, None),
             Line(inbox[k], outbox'[k], thread[k], v)
      PROVE  Keeps(inbox[k], outbox'[k], thread[k], inbox'[k], outbox'[k], thread[k], v)
  BY <1>3, AmfMessages, TellsKeeps
<1>4. CASE Allocate(g, u)
  <2>1. PICK kind \in {"accept", "refuse", "complete"} : inbox' = ToTheAmf(g, kind, u, None)
    BY <1>4 DEF Allocate
  <2>2. Hears(g, "request", u) /\ thread' = thread
    BY <1>4 DEF Allocate
  <2> QED BY <1>2, <1>3, <2>1, <2>2, KeepsTransitive DEF KeepsAt
<1>5. CASE Outcome(g, u) /\ UNCHANGED inbox
  <2>1. PICK kind : Hears(g, kind, u)
    BY <1>5 DEF Outcome
  <2>2. thread' = thread
    BY <1>5 DEF Outcome
  <2> QED BY <1>2, <1>5, <2>1, <2>2 DEF KeepsAt
<1>6. CASE Cancelled(g, u)
  BY <1>2, <1>6 DEF Cancelled, KeepsAt
<1>7. CASE Release(g, u)
  <2>1. Hears(g, "release", u) /\ thread' = thread /\ inbox' = ToTheAmf(g, "complete", u, None)
    BY <1>7 DEF Release
  <2> QED BY <1>2, <1>3, <2>1, KeepsTransitive DEF KeepsAt
<1>8. CASE Crash(g)
  <2>1. /\ inbox' = inbox /\ thread' = thread
        /\ outbox'[k] = outbox[k] \/ outbox'[k] = <<>>
    BY <1>8 DEF Crash, HandoverTypeOK
  <2> QED BY <1>1, <2>1, KeepsSame, KeepsEmptied DEF KeepsAt
<1>9. CASE Setup(g)
  BY <1>1, <1>9, KeepsSame DEF Setup, KeepsAt
<1> QED BY <1>4, <1>5, <1>6, <1>7, <1>8, <1>9

\* A new handover is asked for where nothing of an earlier one is under way.
LEMMA AskKeeps ==
    ASSUME OrderInv, NEW g \in Gnb, NEW u \in Ue, NEW to \in Gnb, Ask(g, u, to)
    PROVE  /\ LinkOf(g) \in Link /\ ~ PreparingAt(LinkOf(g), u) /\ ~ CancelsAt(LinkOf(g), u)
           /\ \A k \in Link : ~ PreparingAt(k, u)
           /\ \A k \in Link, v \in Ue :
                 /\ Line(inbox'[k], outbox'[k], thread'[k], v)
                 /\ In(inbox'[k], {"notify"}, v) <=> In(inbox[k], {"notify"}, v)
                 /\ Cancels(inbox'[k], outbox'[k], thread'[k], v) <=> CancelsAt(k, v)
                 /\ k # LinkOf(g) \/ v # u => KeepsAt(k, v)
<1> USE DEF amfVars, OrderInv
<1> DEFINE l == LinkOf(g)
<1>1. /\ Up(g) /\ position[u] = g /\ wanted[g][u] = None /\ u \notin cancelling[g]
      /\ inbox' = ToTheAmf(g, "required", u, to) /\ outbox' = outbox /\ thread' = thread
      /\ Message("required", u, to) \in ToAmf /\ g # None
  BY AmfMessages, HandoverAssumption DEF Ask
<1>2. /\ l \in Link /\ inbox[l] \in Seq(ToAmf)
      /\ inbox'[l] = Append(inbox[l], Message("required", u, to))
      /\ \A k \in Link \ {l} : inbox'[k] = inbox[k]
      /\ \A kinds, v : In(inbox'[l], kinds, v) <=> In(inbox[l], kinds, v) \/ ("required" \in kinds /\ u = v)
  <2>1. l \in Link /\ inbox[l] \in Seq(ToAmf) /\ Told(inbox, inbox', l, Message("required", u, to))
    BY <1>1, TellsAt
  <2> HIDE DEF l
  <2> QED BY <2>1, IsMessage DEF Told
<1>3. ~ PreparingAt(l, u) /\ ~ CancelsAt(l, u) /\ \A k \in Link : ~ PreparingAt(k, u)
  BY <1>1 DEF AllServed, Served, CancelsKnown
<1> HIDE DEF l
<1>4. ASSUME NEW k \in Link, NEW v \in Ue, k # l \/ v # u PROVE KeepsAt(k, v)
  <2>1. Line(inbox[k], outbox[k], thread[k], v)
    BY DEF LinesInOrder
  <2> QED BY <1>1, <1>4, <2>1, TellsKeeps DEF KeepsAt, l
<1>5. Line(inbox'[l], outbox[l], thread[l], u)
  <2>1. Line(inbox[l], outbox[l], thread[l], u)
    BY <1>2 DEF LinesInOrder
  <2> DEFINE m == Message("required", u, to)
  <2>2. /\ m \in ToAmf /\ inbox'[l] = Append(inbox[l], m)
        /\ Is(m, {"required"}, u) /\ ~ Is(m, {"notify"}, u) /\ ~ Is(m, {"cancel"}, u)
    BY <1>1, <1>2, IsMessage
  <2> HIDE DEF m
  <2> QED BY <1>2, <1>3, <2>1, <2>2, LineAppend DEF PreparingAt, CancelsAt
<1>6. ASSUME NEW k \in Link, NEW v \in Ue
      PROVE  /\ Line(inbox'[k], outbox'[k], thread'[k], v)
             /\ In(inbox'[k], {"notify"}, v) <=> In(inbox[k], {"notify"}, v)
             /\ Cancels(inbox'[k], outbox'[k], thread'[k], v) <=> CancelsAt(k, v)
  <2>1. Line(inbox'[k], outbox'[k], thread'[k], v)
    BY <1>1, <1>4, <1>5 DEF KeepsAt, Keeps
  <2>2. /\ In(inbox'[k], {"notify"}, v) <=> In(inbox[k], {"notify"}, v)
        /\ In(inbox'[k], {"cancel"}, v) <=> In(inbox[k], {"cancel"}, v)
    BY <1>2
  <2> QED BY <1>1, <2>1, <2>2 DEF Cancels, CancelsAt
<1> QED BY <1>2, <1>3, <1>4, <1>6 DEF l

\* A UE arrives where nothing of it is under way, and leaves nothing behind.
LEMMA ArriveKeeps ==
    ASSUME OrderInv, NEW g \in Gnb, NEW u \in Ue, NEW to \in Gnb, to = wanted[g][u],
           Hears(g, "command", u), Arrive(g, u), thread' = thread
    PROVE  /\ to # g /\ position[u] = g /\ LinkOf(to) \in Link
           /\ \A k \in Link, v \in Ue :
                 /\ Line(inbox'[k], outbox'[k], thread'[k], v)
                 /\ Cancels(inbox'[k], outbox'[k], thread'[k], v) => CancelsAt(k, v)
                 /\ Preparing(inbox'[k], outbox'[k], thread'[k], v) => PreparingAt(k, v)
                 /\ In(inbox'[k], {"required"}, v) => In(inbox[k], {"required"}, v)
                 /\ k # LinkOf(to) \/ v # u => KeepsAt(k, v)
           /\ \A k \in Link : /\ ~ Preparing(inbox'[k], outbox'[k], thread'[k], u)
                              /\ Entering(inbox'[k], thread'[k], u) <=> k = LinkOf(to)
           /\ ~ EnteringAt(LinkOf(g), u)
<1> USE DEF OrderInv
<1> DEFINE l == LinkOf(to)
<1>1. /\ to # g /\ position[u] = g /\ g # None /\ inbox' = ToTheAmf(to, "notify", u, None)
      /\ Message("notify", u, None) \in ToAmf
  BY AmfMessages, HandoverAssumption DEF Arrive, WantsElsewhere
<1>2. /\ l \in Link /\ inbox[l] \in Seq(ToAmf)
      /\ inbox'[l] = Append(inbox[l], Message("notify", u, None))
      /\ \A k \in Link \ {l} : inbox'[k] = inbox[k]
      /\ \A kinds, v : In(inbox'[l], kinds, v) <=> In(inbox[l], kinds, v) \/ ("notify" \in kinds /\ u = v)
  <2>1. l \in Link /\ inbox[l] \in Seq(ToAmf) /\ Told(inbox, inbox', l, Message("notify", u, None))
    BY <1>1, TellsAt
  <2> HIDE DEF l
  <2> QED BY <2>1, IsMessage DEF Told
<1>3. l # LinkOf(g) /\ LinkOf(g) \in Link
  BY <1>1, FirstLink DEF LinkOf, HandoverTypeOK
<1>4. /\ outbox'[l] = outbox[l]
      /\ \A k \in Link, v \in Ue :
            Keeps(inbox[k], outbox[k], thread[k], inbox[k], outbox'[k], thread[k], v)
      /\ ~ Preparing(inbox[LinkOf(g)], outbox'[LinkOf(g)], thread[LinkOf(g)], u)
      /\ ~ Entering(inbox[LinkOf(g)], thread[LinkOf(g)], u)
  BY <1>2, <1>3, HearsKeeps
<1>5. \A k \in Link \ {LinkOf(g)} : ~ PreparingAt(k, u) /\ ~ EnteringAt(k, u)
  BY <1>1 DEF AllServed, Served
<1>6. ASSUME NEW k \in Link, NEW v \in Ue, k # l \/ v # u PROVE KeepsAt(k, v)
  <2>1. Line(inbox[k], outbox'[k], thread[k], v)
    BY <1>4 DEF Keeps
  <2>2. Keeps(inbox[k], outbox'[k], thread[k], inbox'[k], outbox'[k], thread[k], v)
    BY <1>1, <1>6, <2>1, TellsKeeps
  <2> QED BY <1>4, <2>2, KeepsTransitive DEF KeepsAt
<1> HIDE DEF l
<1>7. Line(inbox'[l], outbox[l], thread[l], u)
  <2>1. Line(inbox[l], outbox[l], thread[l], u)
    BY <1>2 DEF LinesInOrder
  <2> DEFINE m == Message("notify", u, None)
  <2>2. /\ m \in ToAmf /\ inbox'[l] = Append(inbox[l], m)
        /\ ~ Is(m, {"required"}, u) /\ Is(m, {"notify"}, u) /\ ~ Is(m, {"cancel"}, u)
    BY <1>1, <1>2, IsMessage
  <2> HIDE DEF m
  <2>3. ~ Preparing(inbox[l], outbox[l], thread[l], u) /\ ~ Entering(inbox[l], thread[l], u)
    BY <1>2, <1>3, <1>5 DEF PreparingAt, EnteringAt
  <2> QED BY <1>2, <2>1, <2>2, <2>3, LineAppend
<1>8. ASSUME NEW k \in Link, NEW v \in Ue
      PROVE  /\ Line(inbox'[k], outbox'[k], thread'[k], v)
             /\ Cancels(inbox'[k], outbox'[k], thread'[k], v) => CancelsAt(k, v)
             /\ Preparing(inbox'[k], outbox'[k], thread'[k], v) => PreparingAt(k, v)
             /\ In(inbox'[k], {"required"}, v) => In(inbox[k], {"required"}, v)
  <2>1. Line(inbox'[k], outbox'[k], thread'[k], v)
    BY <1>4, <1>6, <1>7 DEF KeepsAt, Keeps
  <2>2. /\ In(inbox'[k], {"required"}, v) <=> In(inbox[k], {"required"}, v)
        /\ In(inbox'[k], {"cancel"}, v) <=> In(inbox[k], {"cancel"}, v)
    BY <1>2
  <2>3. Keeps(inbox[k], outbox[k], thread[k], inbox[k], outbox'[k], thread[k], v)
    BY <1>4
  <2> QED BY <2>1, <2>2, <2>3 DEF Keeps, Preparing, Cancels, PreparingAt, CancelsAt
<1>9. ASSUME NEW k \in Link
      PROVE  /\ ~ Preparing(inbox'[k], outbox'[k], thread'[k], u)
             /\ Entering(inbox'[k], thread'[k], u) <=> k = l
  <2>1. CASE k = LinkOf(g)
    <3>1. inbox'[k] = inbox[k]
      BY <1>2, <1>3, <2>1
    <3> QED BY <1>3, <1>4, <2>1, <3>1
  <2>2. CASE k = l
    <3>1. ~ PreparingAt(k, u)
      BY <1>2, <1>3, <1>5, <2>2
    <3> QED BY <1>2, <1>8, <2>2, <3>1 DEF Entering
  <2>3. CASE k # l /\ k # LinkOf(g)
    <3>1. KeepsAt(k, u) /\ ~ PreparingAt(k, u) /\ ~ EnteringAt(k, u)
      BY <1>5, <1>6, <2>3
    <3> QED BY <2>3, <3>1 DEF KeepsAt, Keeps, PreparingAt, EnteringAt
  <2> QED BY <2>1, <2>2, <2>3
<1>10. ~ EnteringAt(LinkOf(g), u)
  BY <1>4 DEF EnteringAt
<1> QED BY <1>1, <1>2, <1>6, <1>8, <1>9, <1>10 DEF l

\* A gNB cancels a handover once.
LEMMA SendCancelKeeps ==
    ASSUME OrderInv, NEW g \in Gnb, NEW u \in Ue, SendCancel(g, u)
    PROVE  /\ LinkOf(g) \in Link /\ ~ CancelsAt(LinkOf(g), u)
           /\ \A k \in Link, v \in Ue :
                 /\ Line(inbox'[k], outbox'[k], thread'[k], v)
                 /\ Preparing(inbox'[k], outbox'[k], thread'[k], v) <=> PreparingAt(k, v)
                 /\ In(inbox'[k], {"required"}, v) <=> In(inbox[k], {"required"}, v)
                 /\ In(inbox'[k], {"notify"}, v) <=> In(inbox[k], {"notify"}, v)
                 /\ k # LinkOf(g) \/ v # u => KeepsAt(k, v)
<1> USE DEF amfVars, OrderInv
<1> DEFINE l == LinkOf(g)
<1>1. /\ Up(g) /\ u \notin cancelling[g] /\ inbox' = ToTheAmf(g, "cancel", u, None)
      /\ outbox' = outbox /\ thread' = thread /\ Message("cancel", u, None) \in ToAmf
  BY AmfMessages DEF SendCancel
<1>2. /\ l \in Link /\ inbox[l] \in Seq(ToAmf)
      /\ inbox'[l] = Append(inbox[l], Message("cancel", u, None))
      /\ \A k \in Link \ {l} : inbox'[k] = inbox[k]
      /\ \A kinds, v : In(inbox'[l], kinds, v) <=> In(inbox[l], kinds, v) \/ ("cancel" \in kinds /\ u = v)
  <2>1. l \in Link /\ inbox[l] \in Seq(ToAmf) /\ Told(inbox, inbox', l, Message("cancel", u, None))
    BY <1>1, TellsAt
  <2> HIDE DEF l
  <2> QED BY <2>1, IsMessage DEF Told
<1>3. ~ CancelsAt(l, u)
  BY <1>1 DEF CancelsKnown
<1> HIDE DEF l
<1>4. ASSUME NEW k \in Link, NEW v \in Ue, k # l \/ v # u PROVE KeepsAt(k, v)
  <2>1. Line(inbox[k], outbox[k], thread[k], v)
    BY DEF LinesInOrder
  <2> QED BY <1>1, <1>4, <2>1, TellsKeeps DEF KeepsAt, l
<1>5. Line(inbox'[l], outbox[l], thread[l], u)
  <2>1. Line(inbox[l], outbox[l], thread[l], u)
    BY <1>2 DEF LinesInOrder
  <2> DEFINE m == Message("cancel", u, None)
  <2>2. /\ m \in ToAmf /\ inbox'[l] = Append(inbox[l], m)
        /\ ~ Is(m, {"required"}, u) /\ ~ Is(m, {"notify"}, u) /\ Is(m, {"cancel"}, u)
    BY <1>1, <1>2, IsMessage
  <2> HIDE DEF m
  <2> QED BY <1>2, <1>3, <2>1, <2>2, LineAppend DEF CancelsAt
<1>6. ASSUME NEW k \in Link, NEW v \in Ue
      PROVE  /\ Line(inbox'[k], outbox'[k], thread'[k], v)
             /\ Preparing(inbox'[k], outbox'[k], thread'[k], v) <=> PreparingAt(k, v)
             /\ In(inbox'[k], {"required"}, v) <=> In(inbox[k], {"required"}, v)
             /\ In(inbox'[k], {"notify"}, v) <=> In(inbox[k], {"notify"}, v)
  <2>1. Line(inbox'[k], outbox'[k], thread'[k], v)
    BY <1>1, <1>4, <1>5 DEF KeepsAt, Keeps
  <2>2. /\ In(inbox'[k], {"notify"}, v) <=> In(inbox[k], {"notify"}, v)
        /\ In(inbox'[k], {"required"}, v) <=> In(inbox[k], {"required"}, v)
    BY <1>2
  <2> QED BY <1>1, <2>1, <2>2 DEF Preparing, PreparingAt
<1> QED BY <1>2, <1>3, <1>4, <1>6 DEF l

\* A step that adds nothing to what is under way for a UE, and ends an arrival
\* only by leading the entry to it.
LEMMA ServedKept ==
    ASSUME HandoverTypeOK, NEW u \in Ue, Served(u), \A k \in Link : KeepsAt(k, u),
           position'[u] \in {position[u], None},
           position'[u] # None =>
               LET g == position[u]
                   l == LinkOf(g) IN
               /\ current'[g] = current[g] /\ phase'[l] = phase[l]
               /\ \/ wanted'[g][u] = wanted[g][u]
                  \/ ~ Preparing(inbox'[l], outbox'[l], thread'[l], u)
               /\ \/ entry'[u] = NoLink
                  \/ entry'[u] = entry[u] /\ (EnteringAt(l, u) => Entering(inbox'[l], thread'[l], u))
                  \/ entry'[u] = l /\ ~ In(inbox'[l], {"notify"}, u)
    PROVE  Served(u)'
<1> SUFFICES ASSUME position'[u] # None
             PROVE  LET g == position'[u]
                        l == <<g, current'[g]>> IN
                    /\ phase'[l] = "up"
                    /\ \A k \in Link : (\/ Preparing(inbox'[k], outbox'[k], thread'[k], u)
                                        \/ Entering(inbox'[k], thread'[k], u)) => k = l
                    /\ Preparing(inbox'[l], outbox'[l], thread'[l], u) => wanted'[g][u] # None
                    /\ (entry'[u] # NoLink /\ ~ Entering(inbox'[l], thread'[l], u)) => entry'[u] = l
                    /\ In(inbox'[l], {"notify"}, u) => entry'[u] # l
  BY DEF Served, LinkOf, Up, PreparingAt, EnteringAt
<1> DEFINE g == position[u]
           l == LinkOf(g)
<1>1. /\ position'[u] = g /\ g \in Gnb /\ g # None /\ <<g, current'[g]>> = l
      /\ l \in Link /\ l # NoLink
  <2>1. g \in Gnb /\ g # None
    BY HandoverAssumption DEF HandoverTypeOK
  <2>2. l \in Link
    BY <2>1, FirstLink DEF LinkOf, HandoverTypeOK
  <2>3. l # NoLink
    BY <2>1 DEF LinkOf, NoLink
  <2> QED BY <2>1, <2>2, <2>3 DEF LinkOf
<1>2. /\ phase[l] = "up"
      /\ \A k \in Link : (PreparingAt(k, u) \/ EnteringAt(k, u)) => k = l
      /\ PreparingAt(l, u) => wanted[g][u] # None
      /\ (entry[u] # NoLink /\ ~ EnteringAt(l, u)) => entry[u] = l
      /\ In(inbox[l], {"notify"}, u) => entry[u] # l
  BY <1>1 DEF Served, Up
<1>3. \A k \in Link : /\ Preparing(inbox'[k], outbox'[k], thread'[k], u) => PreparingAt(k, u)
                      /\ Entering(inbox'[k], thread'[k], u) => EnteringAt(k, u)
                      /\ In(inbox'[k], {"notify"}, u) => In(inbox[k], {"notify"}, u)
  BY DEF KeepsAt, Keeps, PreparingAt, EnteringAt
<1>4. /\ phase'[l] = phase[l]
      /\ \/ wanted'[g][u] = wanted[g][u]
         \/ ~ Preparing(inbox'[l], outbox'[l], thread'[l], u)
      /\ \/ entry'[u] = NoLink
         \/ entry'[u] = entry[u] /\ (EnteringAt(l, u) => Entering(inbox'[l], thread'[l], u))
         \/ entry'[u] = l /\ ~ In(inbox'[l], {"notify"}, u)
  OBVIOUS
<1> HIDE DEF g, l
<1>5. /\ phase'[l] = "up"
      /\ \A k \in Link : (\/ Preparing(inbox'[k], outbox'[k], thread'[k], u)
                          \/ Entering(inbox'[k], thread'[k], u)) => k = l
      /\ Preparing(inbox'[l], outbox'[l], thread'[l], u) => wanted'[g][u] # None
  BY <1>1, <1>2, <1>3, <1>4
<1>6. /\ (entry'[u] # NoLink /\ ~ Entering(inbox'[l], thread'[l], u)) => entry'[u] = l
      /\ In(inbox'[l], {"notify"}, u) => entry'[u] # l
  BY <1>1, <1>2, <1>3, <1>4
<1> QED BY <1>1, <1>5, <1>6

\* A thread ends an arrival only by leading the entry of the UE to its gNB.
LEMMA ThreadEnters ==
    ASSUME HandoverTypeOK, NEW l \in Link, ThreadStep(l), NEW k \in Link, NEW u \in Ue,
           EnteringAt(k, u)
    PROVE  \/ Entering(inbox'[k], thread'[k], u)
           \/ Repoint(l) /\ k = l /\ thread[l].ue = u
<1> USE DEF linkVars
<1>c. \A task : Goto(l, task) => thread'[l] = task /\ \A j \in Link \ {l} : thread'[j] = thread[j]
  BY DEF Goto, HandoverTypeOK
<1>1. CASE k # l
  <2>1. inbox'[k] = inbox[k]
    BY <1>1, AtLink DEF ThreadStep, Required, Deliver, Take, TimeOut, Refuse, Command, Cancel,
                        CallOff, Notify, Repoint, Complete, Close
  <2>2. thread'[k].at = thread[k].at /\ thread'[k].ue = thread[k].ue
    <3>1. CASE Required(l)
      BY <1>1, <3>1, WaitingAt DEF Required, Relay
    <3>2. CASE ~ Required(l)
      BY <1>1, <1>c, <3>2 DEF ThreadStep, Deliver, Take, TimeOut, Refuse, Command, Cancel,
                              CallOff, Notify, Repoint, Complete, Close
    <3> QED BY <3>1, <3>2
  <2> QED BY <2>1, <2>2 DEF EnteringAt, Entering, Serves
<1>2. CASE k = l /\ Serves(thread[l], {"repointing"}, u)
  <2>1. thread[l].at = "repointing" /\ thread[l].ue = u
    BY <1>2 DEF Serves
  <2>2. CASE Repoint(l)
    BY <1>2, <2>1, <2>2
  <2>3. CASE ~ Repoint(l)
    BY <2>1, <2>3 DEF ThreadStep, Required, Deliver, Take, TimeOut, Refuse, Command, Cancel,
                      CallOff, Notify, Complete, Close, Reads
  <2> QED BY <2>2, <2>3
<1>3. CASE k = l /\ In(inbox[l], {"notify"}, u)
  <2>1. CASE inbox'[l] = inbox[l]
    BY <1>3, <2>1 DEF Entering
  <2>2. CASE \E kind : Reads(l, kind) /\ inbox' = Consumed(l)
    <3>1. PICK kind : Reads(l, kind) /\ inbox' = Consumed(l)
      BY <2>2
    <3>2. inbox[l] # <<>> /\ inbox'[l] = Tail(inbox[l]) /\ inbox[l] \in Seq(ToAmf)
      BY <3>1, AtLink DEF Reads
    <3>3. Is(Head(inbox[l]), {"notify"}, u) \/ In(inbox'[l], {"notify"}, u)
      BY <1>3, <3>2, QueueTail
    <3>4. CASE Is(Head(inbox[l]), {"notify"}, u)
      <4>1. Head(inbox[l]).kind = "notify" /\ Head(inbox[l]).ue = u
        BY <3>4 DEF Is
      <4>2. CASE Notify(l)
        <5>1. Goto(l, [Reading EXCEPT !.at = "repointing", !.ue = Head(inbox[l]).ue])
          BY <4>2 DEF Notify
        <5>2. thread'[l] = [Reading EXCEPT !.at = "repointing", !.ue = Head(inbox[l]).ue]
          BY <1>c, <5>1
        <5>3. thread'[l].at = "repointing" /\ thread'[l].ue = u
          BY <4>1, <5>2 DEF Reading
        <5> QED BY <1>3, <5>3 DEF Entering, Serves
      <4>3. CASE ~ Notify(l)
        <5>1. Reads(l, "notify") /\ thread[l].at = "reading" /\ inbox[l] # <<>>
          BY <3>1, <4>1 DEF Reads
        <5> QED BY <4>1, <4>3, <5>1 DEF ThreadStep, Required, Deliver, Take, TimeOut, Refuse,
                      Command, Cancel, CallOff, Repoint, Complete, Close, Reads
      <4> QED BY <4>2, <4>3
    <3> QED BY <1>3, <3>3, <3>4 DEF Entering
  <2> QED BY <2>1, <2>2 DEF ThreadStep, Required, Deliver, Take, TimeOut, Refuse, Command, Cancel,
                            CallOff, Notify, Repoint, Complete, Close
<1> QED BY <1>1, <1>2, <1>3 DEF EnteringAt, Entering

\* What a thread leaves to the gNBs, and to the ends of associations.
LEMMA ThreadLeaves ==
    ASSUME HandoverTypeOK, NEW l \in Link, ThreadStep(l)
    PROVE  /\ UNCHANGED <<current, holds, position, wanted, cancelling, released, cancelled>>
           /\ \A k \in Link : \/ phase'[k] = phase[k]
                              \/ k = l /\ phase[l] = "down" /\ phase'[l] = "closed" /\ Close(l)
           /\ \A u \in Ue : \/ entry'[u] = entry[u] \/ entry'[u] = NoLink
                            \/ Repoint(l) /\ u = thread[l].ue /\ entry'[u] = l
<1> USE DEF linkVars, ranVars, historyVars
<1>1. UNCHANGED <<current, holds, position, wanted, cancelling, released, cancelled>>
  BY DEF ThreadStep, Required, Deliver, Take, TimeOut, Refuse, Command, Cancel, CallOff, Notify,
         Repoint, Complete, Close
<1>2. \A k \in Link : \/ phase'[k] = phase[k]
                      \/ k = l /\ phase[l] = "down" /\ phase'[l] = "closed" /\ Close(l)
  <2>1. CASE Close(l)
    BY <2>1 DEF Close, HandoverTypeOK
  <2>2. CASE ~ Close(l)
    BY <2>2 DEF ThreadStep, Required, Deliver, Take, TimeOut, Refuse, Command, Cancel, CallOff,
                Notify, Repoint, Complete
  <2> QED BY <2>1, <2>2
<1>3. \A u \in Ue : \/ entry'[u] = entry[u] \/ entry'[u] = NoLink
                    \/ Repoint(l) /\ u = thread[l].ue /\ entry'[u] = l
  <2>1. CASE Complete(l) \/ Close(l)
    BY <2>1 DEF Complete, Close, Forgotten, HandoverTypeOK
  <2>2. CASE Repoint(l)
    BY <2>2 DEF Repoint, HandoverTypeOK
  <2>3. CASE ~ Complete(l) /\ ~ Close(l) /\ ~ Repoint(l)
    BY <2>3 DEF ThreadStep, Required, Deliver, Take, TimeOut, Refuse, Command, Cancel, CallOff,
                Notify
  <2> QED BY <2>1, <2>2, <2>3
<1> QED BY <1>1, <1>2, <1>3

\* What a thread leaves to the other associations.
LEMMA ThreadBoxes ==
    ASSUME HandoverTypeOK, NEW l \in Link, ThreadStep(l), NEW k \in Link
    PROVE  /\ phase[k] # "up" => outbox'[k] = outbox[k]
           /\ k # l => inbox'[k] = inbox[k]
           /\ k # l /\ thread[k].at # "waiting" => thread'[k] = thread[k]
           /\ ~ (thread[l].at = "reading" /\ inbox[l] = <<>> /\ phase[l] = "unused")
<1> USE DEF linkVars
<1>1. phase[k] # "up" => outbox'[k] = outbox[k]
  <2> SUFFICES ASSUME phase[k] # "up" PROVE outbox'[k] = outbox[k]
    OBVIOUS
  <2>1. \A box \in LinkedGnb : \A x, kind, u :
            Sent(box, x, kind, u)[k] = box[k]
    BY DEF Sent, LinkedGnb
  <2>2. outbox \in LinkedGnb
    BY AtLink
  <2>3. CASE CallOff(l)
    <3> DEFINE told == IF thread[l].to = None THEN outbox
                       ELSE Sent(outbox, registered[thread[l].to], "release", thread[l].ue)
    <3>1. thread[l].ue \in Ue
      BY <2>3, TaskFields, AtLink DEF CallOff
    <3>2. told \in LinkedGnb /\ told[k] = outbox[k]
      BY <2>1, <2>2, <3>1, SentTyped
    <3>3. outbox' = Sent(told, l, "cancelled", thread[l].ue)
      BY <2>3 DEF CallOff
    <3> HIDE DEF told
    <3> QED BY <2>1, <3>2, <3>3
  <2>4. CASE Required(l)
    BY <2>1, <2>2, <2>4 DEF Required, Relay
  <2> QED BY <2>1, <2>2, <2>3, <2>4 DEF ThreadStep, Deliver, Take, TimeOut, Refuse, Command,
                                      Cancel, Notify, Repoint, Complete, Close
<1>2. k # l => inbox'[k] = inbox[k]
  BY AtLink DEF ThreadStep, Required, Deliver, Take, TimeOut, Refuse, Command, Cancel,
                CallOff, Notify, Repoint, Complete, Close
<1>3. k # l /\ thread[k].at # "waiting" => thread'[k] = thread[k]
  BY SMTT(30) DEF HandoverTypeOK, Goto, ThreadStep, Required, Relay, Waiting, Deliver, Take, TimeOut, Refuse,
         Command, Cancel, CallOff, Notify, Repoint, Complete, Close
<1>4. ~ (thread[l].at = "reading" /\ inbox[l] = <<>> /\ phase[l] = "unused")
  BY DEF ThreadStep, Required, Deliver, Take, TimeOut, Refuse, Command, Cancel, CallOff, Notify,
         Repoint, Complete, Close, Reads
<1> QED BY <1>1, <1>2, <1>3, <1>4

\* The threads of the AMF keep the order.
LEMMA ThreadOrder ==
    ASSUME OrderInv, HandoverTypeOK', NEW l \in Link, ThreadStep(l)
    PROVE  OrderInv'
<1> USE DEF OrderInv
<1>1. /\ UNCHANGED <<current, position, wanted, cancelling>>
      /\ \A k \in Link : \/ phase'[k] = phase[k]
                         \/ k = l /\ phase[l] = "down" /\ phase'[l] = "closed"
      /\ \A u \in Ue : \/ entry'[u] = entry[u] \/ entry'[u] = NoLink
                       \/ Repoint(l) /\ u = thread[l].ue /\ entry'[u] = l
  BY ThreadLeaves
<1>2. \A k \in Link, u \in Ue : KeepsAt(k, u)
  BY ThreadKeeps
<1>3. LinesInOrder'
  BY <1>2 DEF LinesInOrder, KeepsAt, Keeps
<1>4. LinksInOrder'
  <2> SUFFICES ASSUME NEW k \in Link
               PROVE  /\ k[2] < current[k[1]] => phase'[k] # "up"
                      /\ k[2] > current[k[1]] => /\ phase'[k] = "unused" /\ thread'[k] = Reading
                                                 /\ inbox'[k] = <<>> /\ outbox'[k] = <<>>
                      /\ phase'[k] # "up" => outbox'[k] = <<>>
    BY <1>1 DEF LinksInOrder
  <2>1. /\ k[2] < current[k[1]] => phase[k] # "up"
        /\ k[2] > current[k[1]] => /\ phase[k] = "unused" /\ thread[k] = Reading
                                   /\ inbox[k] = <<>> /\ outbox[k] = <<>>
        /\ phase[k] # "up" => outbox[k] = <<>>
    BY DEF LinksInOrder
  <2>2. phase'[k] = phase[k] \/ (phase[k] = "down" /\ phase'[k] = "closed")
    BY <1>1
  <2>3. Reading.at = "reading"
    BY DEF Reading
  <2> QED BY <2>1, <2>2, <2>3, ThreadBoxes
<1>5. CancelsKnown'
  <2> SUFFICES ASSUME NEW g \in Gnb, NEW u \in Ue, Up(g)', CancelsAt(LinkOf(g), u)'
               PROVE  u \in cancelling[g]
    BY <1>1 DEF CancelsKnown
  <2>1. LinkOf(g) \in Link /\ LinkOf(g)' = LinkOf(g)
    BY <1>1, FirstLink DEF LinkOf, HandoverTypeOK
  <2>2. Up(g)
    BY <1>1, <2>1 DEF Up
  <2>3. CancelsAt(LinkOf(g), u)
    BY <1>2, <2>1 DEF KeepsAt, Keeps, CancelsAt
  <2> QED BY <2>2, <2>3 DEF CancelsKnown
<1>6. WantsElsewhere'
  BY <1>1 DEF WantsElsewhere
<1>7. AllServed'
  <2> SUFFICES ASSUME NEW u \in Ue, position[u] # None PROVE Served(u)'
    BY <1>1 DEF AllServed, Served
  <2> DEFINE g == position[u]
             k == LinkOf(g)
  <2>1. Served(u) /\ g \in Gnb /\ k \in Link
    BY FirstLink DEF AllServed, HandoverTypeOK, LinkOf
  <2>2. phase[k] = "up" /\ \A j \in Link : EnteringAt(j, u) => j = k
    BY <2>1 DEF Served, Up
  <2>3. phase'[k] = phase[k]
    BY <1>1, <2>1, <2>2
  <2> HIDE DEF k
  <2>4. \/ entry'[u] = NoLink
        \/ entry'[u] = entry[u] /\ (EnteringAt(k, u) => Entering(inbox'[k], thread'[k], u))
        \/ entry'[u] = k /\ ~ In(inbox'[k], {"notify"}, u)
    <3>1. CASE Repoint(l) /\ u = thread[l].ue /\ entry'[u] = l
      <4>1. Serves(thread[l], {"repointing"}, u) /\ inbox'[l] = inbox[l]
        BY <3>1 DEF Repoint, Serves, linkVars
      <4>2. l = k
        BY <2>2, <4>1 DEF EnteringAt, Entering
      <4>3. ~ In(inbox[l], {"notify"}, u)
        BY <4>1 DEF LinesInOrder, Line
      <4> QED BY <3>1, <4>1, <4>2, <4>3
    <3>2. CASE ~ (Repoint(l) /\ u = thread[l].ue)
      BY <1>1, <2>1, <3>2, ThreadEnters
    <3>3. CASE Repoint(l) /\ u = thread[l].ue /\ entry'[u] # l
      BY <3>3 DEF Repoint, HandoverTypeOK
    <3> QED BY <3>1, <3>2, <3>3
  <2> QED BY <1>1, <1>2, <2>1, <2>3, <2>4, ServedKept DEF k
<1> QED BY <1>3, <1>4, <1>5, <1>6, <1>7

\* The steps of a gNB that stays up.
Awake(g) ==
    \E u \in Ue : \/ \E to \in Gnb : Ask(g, u, to)
                  \/ Allocate(g, u) \/ Outcome(g, u)
                  \/ SendCancel(g, u) \/ Cancelled(g, u) \/ Release(g, u)

\* What a message to the AMF leaves of what is under way.
LEMMA TellsGrows ==
    ASSUME HandoverTypeOK, NEW g \in Gnb, NEW kind, NEW u, NEW to, Message(kind, u, to) \in ToAmf,
           Up(g), inbox' = ToTheAmf(g, kind, u, to), NEW k \in Link
    PROVE  /\ phase[k] # "up" => inbox'[k] = inbox[k]
           /\ \A kinds, v : In(inbox[k], kinds, v) => In(inbox'[k], kinds, v)
<1> DEFINE l == LinkOf(g)
           m == Message(kind, u, to)
<1>1. l \in Link /\ Told(inbox, inbox', l, m) /\ phase[l] = "up"
  BY TellsAt DEF Up
<1> HIDE DEF l, m
<1>2. CASE k = l
  BY <1>1, <1>2 DEF Told
<1>3. CASE k # l
  <2>1. inbox'[k] = inbox[k]
    BY <1>1, <1>3 DEF Told
  <2> QED BY <2>1
<1> QED BY <1>2, <1>3

\* A gNB that stays up leaves the AMF's state alone, and takes back no message.
LEMMA GnbBoxes ==
    ASSUME HandoverTypeOK, NEW g \in Gnb, Awake(g)
    PROVE  /\ UNCHANGED <<phase, current, thread, entry, registered, slot, target, unlisted, misled>>
           /\ \A k \in Link : /\ phase[k] # "up" => inbox'[k] = inbox[k] /\ outbox'[k] = outbox[k]
                              /\ \A kinds, v : In(inbox[k], kinds, v) => In(inbox'[k], kinds, v)
<1> USE DEF amfVars, historyVars
<1>1. UNCHANGED <<phase, current, thread, entry, registered, slot, target, unlisted, misled>>
  BY DEF Awake, Ask, Allocate, Outcome, SendCancel, Cancelled, Release
<1>2. LinkOf(g) \in Link
  BY FirstLink DEF LinkOf, HandoverTypeOK
<1>3. ASSUME NEW k \in Link, phase[k] # "up" PROVE outbox'[k] = outbox[k]
  <2>1. ASSUME NEW kind, NEW u, Hears(g, kind, u) PROVE outbox'[k] = outbox[k]
    BY <1>2, <1>3, <2>1 DEF Hears, Up, HandoverTypeOK
  <2> QED BY <2>1 DEF Awake, Ask, Allocate, Outcome, SendCancel, Cancelled, Release
<1>4. ASSUME NEW k \in Link
      PROVE  /\ phase[k] # "up" => inbox'[k] = inbox[k]
             /\ \A kinds, v : In(inbox[k], kinds, v) => In(inbox'[k], kinds, v)
  <2>1. PICK u \in Ue : \/ \E to \in Gnb : Ask(g, u, to)
                        \/ Allocate(g, u) \/ Outcome(g, u)
                        \/ SendCancel(g, u) \/ Cancelled(g, u) \/ Release(g, u)
    BY DEF Awake
  <2>2. ASSUME NEW to \in Gnb, Ask(g, u, to)
        PROVE  /\ phase[k] # "up" => inbox'[k] = inbox[k]
               /\ \A kinds, v : In(inbox[k], kinds, v) => In(inbox'[k], kinds, v)
    BY <2>2, AmfMessages, TellsGrows DEF Ask
  <2>3. CASE Allocate(g, u)
    BY <2>3, AmfMessages, TellsGrows DEF Allocate, Hears
  <2>4. CASE Outcome(g, u)
    <3>1. CASE inbox' = inbox
      BY <3>1
    <3>2. CASE wanted[g][u] # None /\ Arrive(g, u)
      <4>1. wanted[g][u] \in Gnb
        BY <3>2 DEF HandoverTypeOK
      <4> QED BY <3>2, <4>1, AmfMessages, TellsGrows DEF Arrive
    <3> QED BY <2>4, <3>1, <3>2 DEF Outcome
  <2>5. CASE SendCancel(g, u)
    BY <2>5, AmfMessages, TellsGrows DEF SendCancel
  <2>6. CASE Cancelled(g, u)
    BY <2>6 DEF Cancelled
  <2>7. CASE Release(g, u)
    BY <2>7, AmfMessages, TellsGrows DEF Release, Hears
  <2> QED BY <2>1, <2>2, <2>3, <2>4, <2>5, <2>6, <2>7
<1> QED BY <1>1, <1>3, <1>4

\* The associations after a step of a gNB.
LEMMA GnbLinks ==
    ASSUME OrderInv, HandoverTypeOK', NEW g \in Gnb, GnbStep(g)
    PROVE  LinksInOrder'
<1> USE DEF OrderInv, amfVars
<1>0. LinkOf(g) \in Link
  BY FirstLink DEF LinkOf, HandoverTypeOK
<1>1. CASE Awake(g)
  BY <1>1, GnbBoxes DEF LinksInOrder
<1>2. CASE Crash(g)
  <2>1. /\ UNCHANGED <<inbox, thread, current>>
        /\ phase' = [phase EXCEPT ![LinkOf(g)] = "down"] /\ outbox' = [outbox EXCEPT ![LinkOf(g)] = <<>>]
        /\ LinkOf(g)[2] = current[g] /\ LinkOf(g)[1] = g /\ current[g] \in Nat
    BY <1>2 DEF Crash, LinkOf, HandoverTypeOK
  <2>2. \A k \in Link : k # LinkOf(g) => phase'[k] = phase[k] /\ outbox'[k] = outbox[k]
    BY <2>1 DEF HandoverTypeOK
  <2>3. phase'[LinkOf(g)] = "down" /\ outbox'[LinkOf(g)] = <<>>
    BY <1>0, <2>1 DEF HandoverTypeOK
  <2> QED BY <2>1, <2>2, <2>3 DEF LinksInOrder
<1>3. CASE Setup(g)
  <2> DEFINE n == current[g] + 1
  <2>1. /\ UNCHANGED <<inbox, outbox, thread>> /\ phase[LinkOf(g)] # "up"
        /\ current' = [current EXCEPT ![g] = n] /\ phase' = [phase EXCEPT ![<<g, n>>] = "up"]
        /\ current \in [Gnb -> Int] /\ n \in 1 .. MaxLinks
    BY <1>3, HandoverAssumption DEF Setup, Up, HandoverTypeOK
  <2>2. current[g] \in Int /\ n = current[g] + 1 /\ <<g, n>> \in Link
    BY <2>1, FirstLink
  <2> HIDE DEF n
  <2>3. /\ current'[g] = n /\ \A h \in Gnb \ {g} : current'[h] = current[h]
        /\ phase'[<<g, n>>] = "up" /\ \A k \in Link \ {<<g, n>>} : phase'[k] = phase[k]
    BY <2>1, <2>2 DEF HandoverTypeOK
  <2>4. ASSUME NEW k \in Link
        PROVE  /\ k[2] < current'[k[1]] => phase'[k] # "up"
               /\ k[2] > current'[k[1]] => /\ phase'[k] = "unused" /\ thread[k] = Reading
                                           /\ inbox[k] = <<>> /\ outbox[k] = <<>>
               /\ phase'[k] # "up" => outbox[k] = <<>>
    <3>1. k = <<k[1], k[2]>> /\ k[1] \in Gnb /\ k[2] \in Int
      BY DEF Link
    <3>2. /\ k[2] < current[k[1]] => phase[k] # "up"
          /\ k[2] > current[k[1]] => /\ phase[k] = "unused" /\ thread[k] = Reading
                                     /\ inbox[k] = <<>> /\ outbox[k] = <<>>
          /\ phase[k] # "up" => outbox[k] = <<>>
      BY DEF LinksInOrder
    <3>3. CASE k = <<g, n>>
      BY <2>1, <2>2, <2>3, <3>1, <3>3
    <3>4. CASE k # <<g, n>> /\ k[1] # g
      BY <2>3, <3>1, <3>2, <3>4
    <3>5. CASE k # <<g, n>> /\ k[1] = g
      <4>1. k[2] # n
        BY <3>1, <3>5
      <4>2. k[2] = current[g] => k = LinkOf(g)
        BY <3>1, <3>5 DEF LinkOf
      <4> QED BY <2>1, <2>2, <2>3, <3>1, <3>2, <3>5, <4>1, <4>2
    <3> QED BY <3>3, <3>4, <3>5
  <2> QED BY <2>1, <2>4 DEF LinksInOrder
<1> QED BY <1>1, <1>2, <1>3 DEF GnbStep, Awake

\* The steps of a gNB that stays up leave the cancels it does not know of, and
\* the UEs they are not about, as they are.
LEMMA CancelsStillKnown ==
    ASSUME OrderInv, UNCHANGED <<phase, current>>, NEW g \in Gnb, NEW u \in Ue,
           \A k \in Link, v \in Ue : (k # LinkOf(g) \/ v # u) =>
               (Cancels(inbox'[k], outbox'[k], thread'[k], v) => CancelsAt(k, v)),
           \A h \in Gnb, v \in Ue : (h # g \/ v # u) =>
               (v \in cancelling[h] => v \in cancelling'[h]),
           u \in cancelling'[g] \/ ~ Cancels(inbox'[LinkOf(g)], outbox'[LinkOf(g)], thread'[LinkOf(g)], u)
    PROVE  CancelsKnown'
<1> SUFFICES ASSUME NEW h \in Gnb, NEW v \in Ue, phase[LinkOf(h)] = "up",
                    Cancels(inbox'[LinkOf(h)], outbox'[LinkOf(h)], thread'[LinkOf(h)], v)
             PROVE  v \in cancelling'[h]
  BY DEF CancelsKnown, CancelsAt, Up, LinkOf
<1>1. LinkOf(h) \in Link /\ LinkOf(h)[1] = h /\ LinkOf(g)[1] = g
  BY FirstLink DEF LinkOf, OrderInv, HandoverTypeOK
<1>2. CASE h = g /\ v = u
  BY <1>2
<1>3. CASE h # g \/ v # u
  <2>1. CancelsAt(LinkOf(h), v)
    BY <1>1, <1>3
  <2> QED BY <1>3, <2>1 DEF OrderInv, CancelsKnown, Up
<1> QED BY <1>2, <1>3

\* What stays as it is for a gNB that does not set up again.
LEMMA QuietServed ==
    ASSUME OrderInv, NEW v \in Ue, \A k \in Link : KeepsAt(k, v),
           UNCHANGED <<thread, entry>>, position'[v] \in {position[v], None},
           \A k \in Link : \A kinds : In(inbox[k], kinds, v) => In(inbox'[k], kinds, v),
           position'[v] # None =>
               LET g == position[v]
                   l == LinkOf(g) IN
               /\ current'[g] = current[g] /\ phase'[l] = phase[l]
               /\ \/ wanted'[g][v] = wanted[g][v]
                  \/ ~ Preparing(inbox'[l], outbox'[l], thread'[l], v)
    PROVE  Served(v)'
<1>1. HandoverTypeOK /\ Served(v)
  BY DEF OrderInv, AllServed
<1>2. position[v] # None => LinkOf(position[v]) \in Link
  BY <1>1, FirstLink DEF LinkOf, HandoverTypeOK
<1>3. position[v] # None =>
          (EnteringAt(LinkOf(position[v]), v)
               => Entering(inbox'[LinkOf(position[v])], thread'[LinkOf(position[v])], v))
  BY <1>2 DEF EnteringAt, Entering
<1> QED BY <1>1, <1>3, ServedKept

\* A handover is asked for by the gNB that serves the UE.
LEMMA AskOrder ==
    ASSUME OrderInv, HandoverTypeOK', NEW g \in Gnb, NEW u \in Ue, NEW to \in Gnb, Ask(g, u, to)
    PROVE  LinesInOrder' /\ CancelsKnown' /\ WantsElsewhere' /\ AllServed'
<1>0. /\ HandoverTypeOK /\ Awake(g) /\ to # g /\ position[u] = g /\ Up(g) /\ to # None /\ g # None
      /\ wanted' = [wanted EXCEPT ![g][u] = to] /\ UNCHANGED <<position, cancelling, entry, thread>>
  BY HandoverAssumption DEF Ask, Awake, OrderInv, amfVars
<1>1. /\ \A k \in Link : ~ PreparingAt(k, u)
      /\ \A k \in Link, v \in Ue :
            /\ Line(inbox'[k], outbox'[k], thread'[k], v)
            /\ In(inbox'[k], {"notify"}, v) <=> In(inbox[k], {"notify"}, v)
            /\ Cancels(inbox'[k], outbox'[k], thread'[k], v) <=> CancelsAt(k, v)
            /\ k # LinkOf(g) \/ v # u => KeepsAt(k, v)
  BY AskKeeps
<1>2. /\ UNCHANGED <<phase, current, thread, entry>>
      /\ \A k \in Link : \A kinds, v : In(inbox[k], kinds, v) => In(inbox'[k], kinds, v)
  BY <1>0, GnbBoxes
<1>3. \A h \in Gnb, v \in Ue : wanted'[h][v] = IF h = g /\ v = u THEN to ELSE wanted[h][v]
  BY <1>0 DEF HandoverTypeOK
<1>4. LinesInOrder'
  BY <1>1 DEF LinesInOrder
<1>5. CancelsKnown'
  <2>1. u \in cancelling'[g] \/ ~ Cancels(inbox'[LinkOf(g)], outbox'[LinkOf(g)], thread'[LinkOf(g)], u)
    <3>1. LinkOf(g) \in Link
      BY AskKeeps
    <3> QED BY <1>0, <1>1, <3>1 DEF OrderInv, CancelsKnown
  <2> QED BY <1>0, <1>1, <1>2, <2>1, CancelsStillKnown
<1>6. WantsElsewhere'
  BY <1>0, <1>3 DEF WantsElsewhere, OrderInv
<1>7. AllServed'
  <2>1. ASSUME NEW v \in Ue, v # u PROVE Served(v)'
    <3>1. \A k \in Link : KeepsAt(k, v)
      BY <1>1, <2>1
    <3>2. \A h \in Gnb : wanted'[h][v] = wanted[h][v]
      BY <1>3, <2>1
    <3>3. position[v] # None => position[v] \in Gnb
      BY <1>0 DEF HandoverTypeOK
    <3> QED BY <1>0, <1>2, <3>1, <3>2, <3>3, QuietServed
  <2>2. Served(u)'
    <3> DEFINE l == LinkOf(g)
    <3>1. /\ l \in Link /\ LinkOf(g)' = l /\ position'[u] = g /\ Up(g)' /\ wanted'[g][u] # None
      BY <1>0, <1>2, <1>3, AskKeeps DEF LinkOf, Up
    <3>2. /\ \A k \in Link : EnteringAt(k, u) => k = l
          /\ (entry[u] # NoLink /\ ~ EnteringAt(l, u)) => entry[u] = l
          /\ In(inbox[l], {"notify"}, u) => entry[u] # l
      BY <1>0 DEF OrderInv, AllServed, Served
    <3> HIDE DEF l
    <3>3. \A k \in Link : /\ Preparing(inbox'[k], outbox'[k], thread'[k], u) => k = l
                          /\ Entering(inbox'[k], thread'[k], u) <=> EnteringAt(k, u)
                          /\ In(inbox'[k], {"notify"}, u) <=> In(inbox[k], {"notify"}, u)
      <4> SUFFICES ASSUME NEW k \in Link
                   PROVE  /\ Preparing(inbox'[k], outbox'[k], thread'[k], u) => k = l
                          /\ Entering(inbox'[k], thread'[k], u) <=> EnteringAt(k, u)
                          /\ In(inbox'[k], {"notify"}, u) <=> In(inbox[k], {"notify"}, u)
        OBVIOUS
      <4>1. In(inbox'[k], {"notify"}, u) <=> In(inbox[k], {"notify"}, u)
        BY <1>1
      <4>2. Entering(inbox'[k], thread'[k], u) <=> EnteringAt(k, u)
        BY <1>2, <4>1 DEF Entering, EnteringAt
      <4>3. Preparing(inbox'[k], outbox'[k], thread'[k], u) => k = l
        BY <1>1 DEF KeepsAt, Keeps, PreparingAt, l
      <4> QED BY <4>1, <4>2, <4>3
    <3> QED BY <1>0, <1>2, <3>1, <3>2, <3>3 DEF Served, PreparingAt, EnteringAt
  <2> QED BY <2>1, <2>2 DEF AllServed
<1> QED BY <1>4, <1>5, <1>6, <1>7

\* The UE arrives at its target, which then serves it.
LEMMA ArriveOrder ==
    ASSUME OrderInv, HandoverTypeOK', NEW g \in Gnb, NEW u \in Ue, Outcome(g, u),
           Hears(g, "command", u), Arrive(g, u), wanted[g][u] # None
    PROVE  LinesInOrder' /\ CancelsKnown' /\ WantsElsewhere' /\ AllServed'
<1>a. PICK to \in Gnb : to = wanted[g][u]
  BY DEF OrderInv, HandoverTypeOK
<1> DEFINE l == LinkOf(to)
<1>0. /\ HandoverTypeOK /\ Awake(g) /\ Up(to) /\ position' = [position EXCEPT ![u] = to]
      /\ UNCHANGED <<wanted, cancelling, thread, entry>> /\ thread' = thread
  <2>1. HandoverTypeOK /\ Awake(g)
    BY DEF Awake, OrderInv
  <2>2. Up(to) /\ position' = [position EXCEPT ![u] = to]
    BY <1>a DEF Arrive
  <2>3. UNCHANGED <<cancelling, thread, entry>>
    BY DEF Outcome, amfVars
  <2>4. ~ Hears(g, "failure", u)
    BY DEF Hears, Message
  <2>5. wanted' = wanted
    BY <2>4 DEF Outcome
  <2> QED BY <2>1, <2>2, <2>3, <2>5
<1>1. /\ to # g /\ position[u] = g /\ l \in Link
      /\ \A k \in Link, v \in Ue :
            /\ Line(inbox'[k], outbox'[k], thread'[k], v)
            /\ Cancels(inbox'[k], outbox'[k], thread'[k], v) => CancelsAt(k, v)
            /\ k # l \/ v # u => KeepsAt(k, v)
      /\ \A k \in Link : /\ ~ Preparing(inbox'[k], outbox'[k], thread'[k], u)
                         /\ Entering(inbox'[k], thread'[k], u) <=> k = l
      /\ ~ EnteringAt(LinkOf(g), u)
  BY <1>0, <1>a, ArriveKeeps
<1>2. /\ UNCHANGED <<phase, current, thread, entry>>
      /\ \A k \in Link : \A kinds, v : In(inbox[k], kinds, v) => In(inbox'[k], kinds, v)
  BY <1>0, GnbBoxes
<1>3. position'[u] = to /\ \A v \in Ue \ {u} : position'[v] = position[v]
  BY <1>0 DEF HandoverTypeOK
<1> HIDE DEF l
<1>4. LinesInOrder'
  BY <1>1 DEF LinesInOrder
<1>5. CancelsKnown'
  <2>1. LinkOf(g) \in Link /\ Up(g)
    BY <1>0, FirstLink DEF LinkOf, HandoverTypeOK, Hears
  <2>2. u \in cancelling'[g] \/ ~ Cancels(inbox'[LinkOf(g)], outbox'[LinkOf(g)], thread'[LinkOf(g)], u)
    BY <1>0, <1>1, <2>1 DEF OrderInv, CancelsKnown
  <2> QED BY <1>0, <1>1, <1>2, <2>2, CancelsStillKnown
<1>6. WantsElsewhere'
  BY <1>0 DEF WantsElsewhere, OrderInv
<1>7. AllServed'
  <2>1. ASSUME NEW v \in Ue, v # u PROVE Served(v)'
    <3>1. \A k \in Link : KeepsAt(k, v)
      BY <1>1, <2>1
    <3>2. position'[v] = position[v] /\ position[v] \in Gnb \union {None}
      BY <1>0, <1>3, <2>1 DEF HandoverTypeOK
    <3> QED BY <1>0, <1>2, <3>1, <3>2, QuietServed
  <2>2. Served(u)'
    <3>1. LinkOf(to)' = l /\ Up(to)' /\ to # None
      BY <1>0, <1>a, <1>1, <1>2, HandoverAssumption DEF LinkOf, Up, l
    <3>2. entry[u] # NoLink => entry[u] = LinkOf(g)
      BY <1>a, <1>1, HandoverAssumption DEF OrderInv, AllServed, Served
    <3>3. l # LinkOf(g) /\ l # NoLink
      BY <1>a, <1>1, HandoverAssumption DEF l, LinkOf, NoLink
    <3>4. entry'[u] # l
      BY <1>2, <3>2, <3>3
    <3> QED BY <1>1, <1>3, <3>1, <3>4 DEF Served, PreparingAt, EnteringAt
  <2> QED BY <2>1, <2>2 DEF AllServed
<1> QED BY <1>4, <1>5, <1>6, <1>7

\* What a gNB that is told the outcome, or the answer to its cancel, no longer
\* wants is not under way.
LEMMA ForgetsWanted ==
    ASSUME OrderInv, HandoverTypeOK', NEW g \in Gnb, NEW u \in Ue, Awake(g),
           \A k \in Link, v \in Ue : KeepsAt(k, v),
           wanted' \in {wanted, [wanted EXCEPT ![g][u] = None]},
           \A v \in Ue : \/ position'[v] = position[v]
                         \/ position'[v] = None,
           \/ wanted' = wanted
           \/ ~ Preparing(inbox'[LinkOf(g)], outbox'[LinkOf(g)], thread'[LinkOf(g)], u)
           \/ position[u] # g \/ position'[u] = None,
           cancelling' = cancelling \/ /\ cancelling' = [cancelling EXCEPT ![g] = @ \ {u}]
                                       /\ ~ Cancels(inbox'[LinkOf(g)], outbox'[LinkOf(g)],
                                                    thread'[LinkOf(g)], u)
    PROVE  LinesInOrder' /\ CancelsKnown' /\ WantsElsewhere' /\ AllServed'
<1>0. /\ HandoverTypeOK
      /\ UNCHANGED <<phase, current, thread, entry>>
      /\ \A k \in Link : \A kinds, v : In(inbox[k], kinds, v) => In(inbox'[k], kinds, v)
  BY GnbBoxes DEF OrderInv
<1>1. LinesInOrder'
  BY DEF LinesInOrder, KeepsAt, Keeps
<1>2. CancelsKnown'
  <2>1. /\ LinkOf(g) \in Link
        /\ \A k \in Link, v \in Ue : Cancels(inbox'[k], outbox'[k], thread'[k], v) => CancelsAt(k, v)
    BY <1>0, FirstLink DEF KeepsAt, Keeps, CancelsAt, LinkOf, HandoverTypeOK
  <2>2. \A h \in Gnb, v \in Ue : (h # g \/ v # u) => (v \in cancelling[h] => v \in cancelling'[h])
    BY <1>0 DEF HandoverTypeOK
  <2>3. CASE ~ Cancels(inbox'[LinkOf(g)], outbox'[LinkOf(g)], thread'[LinkOf(g)], u)
    BY <1>0, <2>1, <2>2, <2>3, CancelsStillKnown
  <2>4. CASE cancelling' = cancelling
    <3> SUFFICES ASSUME NEW h \in Gnb, NEW v \in Ue, phase[LinkOf(h)] = "up",
                        Cancels(inbox'[LinkOf(h)], outbox'[LinkOf(h)], thread'[LinkOf(h)], v)
                 PROVE  v \in cancelling[h]
      BY <1>0, <2>4 DEF CancelsKnown, CancelsAt, Up, LinkOf
    <3>1. LinkOf(h) \in Link
      BY <1>0, FirstLink DEF LinkOf, HandoverTypeOK
    <3> QED BY <2>1, <3>1 DEF OrderInv, CancelsKnown, Up
  <2> QED BY <2>3, <2>4
<1>3. /\ \A h \in Gnb, v \in Ue : \/ wanted'[h][v] = wanted[h][v]
                                  \/ h = g /\ v = u /\ wanted'[h][v] = None /\ wanted' # wanted
  BY <1>0 DEF HandoverTypeOK
<1>4. WantsElsewhere'
  BY <1>3, HandoverAssumption DEF WantsElsewhere, OrderInv
<1>5. AllServed'
  <2> SUFFICES ASSUME NEW v \in Ue PROVE Served(v)'
    BY DEF AllServed
  <2>1. position[v] \in Gnb \union {None}
    BY <1>0 DEF HandoverTypeOK
  <2>2. position'[v] # None => \/ wanted'[position[v]][v] = wanted[position[v]][v]
                               \/ /\ position[v] = g /\ v = u
                                  /\ ~ Preparing(inbox'[LinkOf(g)], outbox'[LinkOf(g)],
                                                 thread'[LinkOf(g)], u)
    BY <1>3, <2>1
  <2> QED BY <1>0, <2>2, QuietServed
<1> QED BY <1>1, <1>2, <1>4, <1>5

\* The other steps of a gNB that stays up.
LEMMA AwakeOrder ==
    ASSUME OrderInv, HandoverTypeOK', NEW g \in Gnb, Awake(g)
    PROVE  LinesInOrder' /\ CancelsKnown' /\ WantsElsewhere' /\ AllServed'
<1> USE DEF amfVars
<1>0. HandoverTypeOK /\ LinesInOrder
  BY DEF OrderInv
<1>1. PICK u \in Ue : \/ \E to \in Gnb : Ask(g, u, to)
                      \/ Allocate(g, u) \/ Outcome(g, u)
                      \/ SendCancel(g, u) \/ Cancelled(g, u) \/ Release(g, u)
  BY DEF Awake
<1>2. CASE \E to \in Gnb : Ask(g, u, to)
  BY <1>2, AskOrder
<1>3. CASE Allocate(g, u)
  <2>1. \A k \in Link, v \in Ue : KeepsAt(k, v)
    BY <1>0, <1>3, GnbKeeps
  <2>2. UNCHANGED <<wanted, position, cancelling>>
    BY <1>3 DEF Allocate
  <2> QED BY <2>1, <2>2, ForgetsWanted
<1>4. CASE Outcome(g, u)
  <2>1. CASE inbox' = inbox
    <3>1. \A k \in Link, v \in Ue : KeepsAt(k, v)
      BY <1>0, <1>4, <2>1, GnbKeeps
    <3>2. cancelling' = cancelling
      BY <1>4 DEF Outcome
    <3>3. CASE UNCHANGED <<position, wanted>>
      BY <3>1, <3>2, <3>3, ForgetsWanted
    <3>4. CASE /\ Hears(g, "failure", u) /\ UNCHANGED position
               /\ wanted' \in {wanted, [wanted EXCEPT ![g][u] = None]}
      <4>1. ~ Preparing(inbox[LinkOf(g)], outbox'[LinkOf(g)], thread[LinkOf(g)], u)
        BY <1>0, <3>4, HearsKeeps
      <4>2. thread' = thread
        BY <1>4 DEF Outcome
      <4> QED BY <2>1, <3>1, <3>2, <3>4, <4>1, <4>2, ForgetsWanted
    <3>5. CASE Hears(g, "command", u) /\ wanted[g][u] # None /\ Arrive(g, u)
      BY <1>4, <3>5, ArriveOrder
    <3> QED BY <1>4, <3>3, <3>4, <3>5 DEF Outcome
  <2>2. CASE inbox' # inbox
    BY <1>4, <2>2, ArriveOrder DEF Outcome
  <2> QED BY <2>1, <2>2
<1>5. CASE SendCancel(g, u)
  <2>1. /\ UNCHANGED <<wanted, position>> /\ cancelling' = [cancelling EXCEPT ![g] = @ \union {u}]
    BY <1>5 DEF SendCancel
  <2>2. /\ UNCHANGED <<phase, current, thread, entry>>
        /\ \A k \in Link : \A kinds, v : In(inbox[k], kinds, v) => In(inbox'[k], kinds, v)
    BY <1>0, GnbBoxes
  <2>3. \A k \in Link, v \in Ue :
            /\ Line(inbox'[k], outbox'[k], thread'[k], v)
            /\ Preparing(inbox'[k], outbox'[k], thread'[k], v) <=> PreparingAt(k, v)
            /\ In(inbox'[k], {"notify"}, v) <=> In(inbox[k], {"notify"}, v)
            /\ k # LinkOf(g) \/ v # u => KeepsAt(k, v)
    BY <1>5, SendCancelKeeps
  <2>4. LinesInOrder'
    BY <2>3 DEF LinesInOrder
  <2>5. CancelsKnown'
    <3>1. u \in cancelling'[g]
      BY <1>0, <2>1 DEF HandoverTypeOK
    <3>2. \A h \in Gnb, v \in Ue : v \in cancelling[h] => v \in cancelling'[h]
      BY <1>0, <2>1 DEF HandoverTypeOK
    <3>3. \A k \in Link, v \in Ue : (k # LinkOf(g) \/ v # u) =>
              (Cancels(inbox'[k], outbox'[k], thread'[k], v) => CancelsAt(k, v))
      BY <2>3 DEF KeepsAt, Keeps, CancelsAt
    <3> QED BY <2>2, <3>1, <3>2, <3>3, CancelsStillKnown
  <2>6. WantsElsewhere'
    BY <2>1 DEF OrderInv, WantsElsewhere
  <2>7. AllServed'
    <3> SUFFICES ASSUME NEW v \in Ue PROVE Served(v)'
      BY DEF AllServed
    <3>1. Served(v) /\ LinkOf(position[v])' = LinkOf(position[v]) /\ Up(position[v])' = Up(position[v])
      BY <2>1, <2>2 DEF OrderInv, AllServed, LinkOf, Up
    <3>2. position[v] # None => LinkOf(position[v]) \in Link
      BY <1>0, FirstLink DEF LinkOf, HandoverTypeOK
    <3>3. \A k \in Link : /\ PreparingAt(k, v)' <=> PreparingAt(k, v)
                          /\ EnteringAt(k, v)' <=> EnteringAt(k, v)
                          /\ In(inbox'[k], {"notify"}, v) <=> In(inbox[k], {"notify"}, v)
      BY <2>2, <2>3 DEF PreparingAt, EnteringAt, Entering
    <3> QED BY <2>1, <2>2, <3>1, <3>2, <3>3 DEF Served
  <2> QED BY <2>4, <2>5, <2>6, <2>7
<1>6. CASE Cancelled(g, u)
  <2>1. \A k \in Link, v \in Ue : KeepsAt(k, v)
    BY <1>0, <1>6, GnbKeeps
  <2>2. /\ Hears(g, "cancelled", u) /\ UNCHANGED <<inbox, thread, position>>
        /\ wanted' = [wanted EXCEPT ![g][u] = None]
        /\ cancelling' = [cancelling EXCEPT ![g] = @ \ {u}]
    BY <1>6 DEF Cancelled
  <2>3. /\ ~ Preparing(inbox[LinkOf(g)], outbox'[LinkOf(g)], thread[LinkOf(g)], u)
        /\ ~ Cancels(inbox[LinkOf(g)], outbox'[LinkOf(g)], thread[LinkOf(g)], u)
    BY <1>0, <2>2, HearsKeeps
  <2> QED BY <2>1, <2>2, <2>3, ForgetsWanted
<1>7. CASE Release(g, u)
  <2>1. \A k \in Link, v \in Ue : KeepsAt(k, v)
    BY <1>0, <1>7, GnbKeeps
  <2>2. /\ wanted' = [wanted EXCEPT ![g][u] = None] /\ cancelling' = cancelling
        /\ \A v \in Ue : position'[v] = position[v] \/ position'[v] = None
        /\ position[u] # g \/ position'[u] = None
    BY <1>0, <1>7 DEF Release, HandoverTypeOK
  <2> QED BY <2>1, <2>2, ForgetsWanted
<1> QED BY <1>1, <1>2, <1>3, <1>4, <1>5, <1>6, <1>7

\* A gNB dies: nobody is served there, and nothing is asked of it any more.
LEMMA CrashOrder ==
    ASSUME OrderInv, HandoverTypeOK', NEW g \in Gnb, Crash(g)
    PROVE  LinesInOrder' /\ CancelsKnown' /\ WantsElsewhere' /\ AllServed'
<1> USE DEF amfVars
<1>0. /\ HandoverTypeOK /\ LinesInOrder /\ UNCHANGED <<inbox, thread, entry, current>>
      /\ phase' = [phase EXCEPT ![LinkOf(g)] = "down"]
      /\ position' = [u \in Ue |-> IF position[u] = g THEN None ELSE position[u]]
      /\ wanted' = [wanted EXCEPT ![g] = [u \in Ue |-> None]]
      /\ cancelling' = [cancelling EXCEPT ![g] = {}]
  BY DEF Crash, OrderInv
<1>1. \A k \in Link, v \in Ue : KeepsAt(k, v)
  BY <1>0, GnbKeeps
<1>2. \A h \in Gnb : LinkOf(h) \in Link /\ (h # g => LinkOf(h) # LinkOf(g)) /\ LinkOf(h)' = LinkOf(h)
  BY <1>0, FirstLink DEF LinkOf, HandoverTypeOK
<1>3. /\ phase'[LinkOf(g)] = "down"
      /\ \A h \in Gnb \ {g} : /\ phase'[LinkOf(h)] = phase[LinkOf(h)] /\ wanted'[h] = wanted[h]
                              /\ cancelling'[h] = cancelling[h]
      /\ \A v \in Ue : wanted'[g][v] = None
  BY <1>0, <1>2 DEF HandoverTypeOK
<1>4. LinesInOrder'
  BY <1>1 DEF LinesInOrder, KeepsAt, Keeps
<1>5. CancelsKnown'
  <2> SUFFICES ASSUME NEW h \in Gnb, NEW v \in Ue, Up(h)', CancelsAt(LinkOf(h), v)'
               PROVE  v \in cancelling'[h]
    BY DEF CancelsKnown
  <2>1. phase'[LinkOf(h)] = "up"
    BY <1>2 DEF Up
  <2>2. h # g /\ Up(h)
    BY <1>3, <2>1 DEF Up
  <2>3. CancelsAt(LinkOf(h), v)
    <3>1. KeepsAt(LinkOf(h), v)
      BY <1>1, <1>2
    <3>2. Cancels(inbox'[LinkOf(h)], outbox'[LinkOf(h)], thread'[LinkOf(h)], v)
      BY <1>2 DEF CancelsAt
    <3> QED BY <3>1, <3>2 DEF KeepsAt, Keeps, CancelsAt
  <2> QED BY <1>3, <2>2, <2>3 DEF OrderInv, CancelsKnown
<1>6. WantsElsewhere'
  BY <1>3, HandoverAssumption DEF OrderInv, WantsElsewhere
<1>7. AllServed'
  <2> SUFFICES ASSUME NEW v \in Ue PROVE Served(v)'
    BY DEF AllServed
  <2>1. /\ position[v] \in Gnb \union {None} /\ position'[v] \in {position[v], None}
        /\ position'[v] # None => position[v] \in Gnb \ {g}
    BY <1>0 DEF HandoverTypeOK
  <2> QED BY <1>0, <1>1, <1>3, <2>1, QuietServed
<1> QED BY <1>4, <1>5, <1>6, <1>7

\* A gNB that connects again starts with an association nothing is under way at.
LEMMA SetupOrder ==
    ASSUME OrderInv, HandoverTypeOK', NEW g \in Gnb, Setup(g)
    PROVE  LinesInOrder' /\ CancelsKnown' /\ WantsElsewhere' /\ AllServed'
<1> DEFINE n == current[g] + 1
<1>0. /\ HandoverTypeOK /\ LinesInOrder
      /\ UNCHANGED <<inbox, outbox, thread, entry, position, wanted, cancelling>>
      /\ ~ Up(g) /\ current' = [current EXCEPT ![g] = n] /\ phase' = [phase EXCEPT ![<<g, n>>] = "up"]
  BY DEF Setup, OrderInv
<1>1. \A k \in Link, v \in Ue : KeepsAt(k, v)
  BY <1>0, GnbKeeps
<1>2. current[g] \in Int /\ n \in 1 .. MaxLinks
  BY HandoverAssumption DEF Setup, OrderInv, HandoverTypeOK
<1>3. <<g, n>> \in Link /\ current'[g] = n /\ \A h \in Gnb \ {g} : current'[h] = current[h]
  BY <1>0, <1>2, FirstLink DEF HandoverTypeOK
<1>4. /\ thread[<<g, n>>] = Reading /\ inbox[<<g, n>>] = <<>> /\ outbox[<<g, n>>] = <<>>
  <2>1. n > current[g]
    BY <1>2
  <2> HIDE DEF n
  <2>2. <<g, n>>[1] = g /\ <<g, n>>[2] = n
    OBVIOUS
  <2> QED BY <1>3, <2>1, <2>2 DEF OrderInv, LinksInOrder
<1> HIDE DEF n
<1>5. \A h \in Gnb \ {g} : /\ LinkOf(h) \in Link /\ LinkOf(h)' = LinkOf(h)
                           /\ phase'[LinkOf(h)] = phase[LinkOf(h)]
  BY <1>0, <1>3, FirstLink DEF LinkOf, HandoverTypeOK
<1>6. LinkOf(g)' = <<g, n>>
  BY <1>3 DEF LinkOf
<1>7. LinesInOrder'
  BY <1>1 DEF LinesInOrder, KeepsAt, Keeps
<1>8. CancelsKnown'
  <2> SUFFICES ASSUME NEW h \in Gnb, NEW v \in Ue, Up(h)', CancelsAt(LinkOf(h), v)'
               PROVE  v \in cancelling'[h]
    BY DEF CancelsKnown
  <2>1. CASE h = g
    <3>1. Cancels(<<>>, <<>>, Reading, v)
      BY <1>0, <1>4, <1>6, <2>1 DEF CancelsAt
    <3> QED BY <3>1, QueueEmpty DEF Cancels, Serves, Reading
  <2>2. CASE h # g
    <3>1. Up(h) /\ CancelsAt(LinkOf(h), v)
      BY <1>0, <1>5, <2>2 DEF Up, CancelsAt
    <3> QED BY <1>0, <3>1 DEF OrderInv, CancelsKnown
  <2> QED BY <2>1, <2>2
<1>9. WantsElsewhere'
  BY <1>0 DEF OrderInv, WantsElsewhere
<1>10. AllServed'
  <2> SUFFICES ASSUME NEW v \in Ue PROVE Served(v)'
    BY DEF AllServed
  <2>1. position[v] # None => position[v] \in Gnb \ {g}
    BY <1>0 DEF HandoverTypeOK, OrderInv, AllServed, Served
  <2>2. position[v] # None =>
            /\ current'[position[v]] = current[position[v]]
            /\ phase'[LinkOf(position[v])] = phase[LinkOf(position[v])]
    BY <1>3, <1>5, <2>1
  <2> QED BY <1>0, <1>1, <2>2, QuietServed
<1> QED BY <1>7, <1>8, <1>9, <1>10

\* The inductive invariant of the UEs and their associations.
THEOREM HandoversKeepOrder == HandoverSpec => []OrderInv
<1>1. HandoverInit => OrderInv
  <2> SUFFICES ASSUME HandoverInit PROVE OrderInv
    OBVIOUS
  <2>1. /\ \A l \in Link : /\ inbox[l] = <<>> /\ outbox[l] = <<>> /\ thread[l] = Reading
                           /\ phase[l] = IF l[2] = 1 THEN "up" ELSE "unused"
        /\ \A g \in Gnb : /\ current[g] = 1 /\ LinkOf(g) = <<g, 1>> /\ LinkOf(g) \in Link /\ Up(g)
                          /\ \A u \in Ue : wanted[g][u] = None
        /\ \A u \in Ue : position[u] = Home[u] /\ entry[u] = <<Home[u], 1>>
    <3>1. \A g \in Gnb : current[g] = 1 /\ LinkOf(g) = <<g, 1>>
      BY DEF HandoverInit, LinkOf
    <3>2. \A l \in Link : phase[l] = IF l[2] = 1 THEN "up" ELSE "unused"
      BY DEF HandoverInit
    <3>3. \A g \in Gnb : LinkOf(g) \in Link /\ Up(g)
      BY <3>1, <3>2, FirstLink DEF Up
    <3> QED BY <3>1, <3>2, <3>3 DEF HandoverInit
  <2>2. \A l \in Link, u \in Ue : /\ Line(inbox[l], outbox[l], thread[l], u)
                                  /\ ~ PreparingAt(l, u) /\ ~ EnteringAt(l, u) /\ ~ CancelsAt(l, u)
                                  /\ ~ In(inbox[l], {"notify"}, u)
    <3>1. \A steps, u : "reading" \notin steps => ~ Serves(Reading, steps, u)
      BY DEF Serves, Reading
    <3>2. ASSUME NEW u \in Ue
          PROVE  /\ Line(<<>>, <<>>, Reading, u) /\ ~ In(<<>>, {"notify"}, u)
                 /\ ~ Preparing(<<>>, <<>>, Reading, u) /\ ~ Entering(<<>>, Reading, u)
                 /\ ~ Cancels(<<>>, <<>>, Reading, u)
      BY <3>1, LineEmpty, QueueEmpty DEF Preparing, Entering, Cancels
    <3> QED BY <2>1, <3>2 DEF PreparingAt, EnteringAt, CancelsAt
  <2>3. LinesInOrder /\ CancelsKnown
    BY <2>1, <2>2 DEF LinesInOrder, CancelsKnown
  <2>4. LinksInOrder
    <3>1. \A l \in Link : l[1] \in Gnb /\ l[2] \in Nat \ {0}
      BY DEF Link
    <3> QED BY <2>1, <3>1 DEF LinksInOrder
  <2>5. WantsElsewhere
    BY <2>1, HandoverAssumption DEF WantsElsewhere
  <2>6. AllServed
    BY <2>1, <2>2, HandoverAssumption DEF AllServed, Served
  <2> QED BY <2>3, <2>4, <2>5, <2>6, HandoverTypeInit DEF OrderInv
<1>2. OrderInv /\ HandoverTypeOK' /\ [HandoverNext]_handoverVars => OrderInv'
  <2> SUFFICES ASSUME OrderInv, HandoverTypeOK', [HandoverNext]_handoverVars PROVE OrderInv'
    OBVIOUS
  <2>1. CASE UNCHANGED handoverVars
    BY <2>1 DEF handoverVars, linkVars, amfVars, ranVars, OrderInv, LinesInOrder, LinksInOrder,
                CancelsKnown, WantsElsewhere, AllServed, Served, PreparingAt, EnteringAt,
                CancelsAt, Up, LinkOf
  <2>2. ASSUME NEW l \in Link, ThreadStep(l) PROVE OrderInv'
    BY <2>2, ThreadOrder
  <2>3. ASSUME NEW g \in Gnb, GnbStep(g) PROVE OrderInv'
    <3>1. Awake(g) \/ Crash(g) \/ Setup(g)
      BY <2>3 DEF GnbStep, Awake
    <3>2. LinksInOrder'
      BY <2>3, GnbLinks
    <3>3. LinesInOrder' /\ CancelsKnown' /\ WantsElsewhere' /\ AllServed'
      BY <3>1, AwakeOrder, CrashOrder, SetupOrder
    <3> QED BY <3>2, <3>3 DEF OrderInv
  <2> QED BY <2>1, <2>2, <2>3 DEF HandoverNext
<1> QED BY <1>1, <1>2, HandoverTypeCorrect, PTL DEF HandoverSpec

\* Once a HandoverNotify is handled the entry leads to the gNB that serves the UE.
THEOREM EntryLeadsToUeHolds == HandoverSpec => []EntryLeadsToUe
<1>1. OrderInv => EntryLeadsToUe
  <2> SUFFICES ASSUME OrderInv, NEW u \in Ue, entry[u] # NoLink, position[u] # None, ~ Arriving(u)
               PROVE  entry[u][1] = position[u]
    BY DEF EntryLeadsToUe
  <2> DEFINE l == LinkOf(position[u])
  <2>1. l \in Link /\ l[1] = position[u] /\ inbox[l] \in Seq(ToAmf)
    BY FirstLink DEF LinkOf, OrderInv, HandoverTypeOK
  <2>2. ~ EnteringAt(l, u)
    <3> HIDE DEF l
    <3>1. ~ Serves(thread[l], {"repointing"}, u)
      BY <2>1 DEF Arriving, Serves
    <3>2. ASSUME NEW i \in DOMAIN inbox[l], Is(inbox[l][i], {"notify"}, u) PROVE FALSE
      <4>1. inbox[l][i] \in ToAmf
        BY <2>1
      <4>2. inbox[l][i] = Message("notify", u, None)
        BY <3>2, <4>1 DEF ToAmf, Is, Message
      <4> QED BY <2>1, <4>2 DEF Arriving
    <3> QED BY <3>1, <3>2 DEF EnteringAt, Entering, In
  <2>3. entry[u] = l
    BY <2>2 DEF OrderInv, AllServed, Served
  <2> QED BY <2>1, <2>3
<1> QED BY <1>1, HandoversKeepOrder, PTL

-----------------------------------------------------------------------------
(* The releases of a UE. *)

\* No release of the UE is under way to the gNB.
Clear(g, u) == Up(g) => ~ In(outbox[LinkOf(g)], {"release"}, u)

\* What was asked for the UE, and is waited for, is a handover to this gNB.
Names(in, t, u, to) ==
    /\ \A i \in DOMAIN in : Is(in[i], {"required"}, u) => in[i].to = to
    /\ Serves(t, {"waiting", "answering"}, u) => t.to = to

\* The AMF calls off only what a gNB has cancelled.
CancelsSent ==
    \A l \in Link, u \in Ue :
        (In(inbox[l], {"cancel"}, u) \/ Serves(thread[l], {"callingOff"}, u)) => u \in cancelled

\* The AMF prepares the handover that the gNB which serves the UE wants.
AimsRight ==
    \A u \in Ue : position[u] # None =>
        LET l == LinkOf(position[u]) IN Names(inbox[l], thread[l], u, wanted[position[u]][u])

\* A release at the target of an undisturbed relay is read before the request,
\* so none is left once the target accepts.
Unreleased(t, u) ==
    /\ slot[t.via].reply.kind = "accept" => Clear(t.to, u)
    /\ \A k \in Link : (k[1] = t.to /\ In(inbox[k], {"accept"}, u)) => Clear(t.to, u)
    /\ Up(t.to) => Ahead(outbox[LinkOf(t.to)], {"release"}, {"request"}, u)

\* No release is under way to the gNB that serves the UE, nor to the one the
\* UE is about to be sent to.
Sound(u) ==
    LET g == position[u]
        l == LinkOf(g)
        t == thread[l] IN
    /\ Clear(g, u)
    /\ (In(outbox[l], {"command"}, u) /\ wanted[g][u] # None) => Clear(wanted[g][u], u)
    /\ (Serves(t, {"answering"}, u) /\ t.alone /\ t.got.kind = "accept") => Clear(t.to, u)
    /\ (Serves(t, {"waiting"}, u) /\ t.alone) => Unreleased(t, u)
ReleasesBehind ==
    \A u \in Ue : (position[u] # None /\ u \notin cancelled \union misled) => Sound(u)

ReleaseInv ==
    /\ OrderInv /\ RelayInv /\ CancelsSent /\ AimsRight /\ ReleasesBehind
    /\ ReleasedOnlyWhenCancelled

\* What a message of this kind for this UE adds to a queue, and behind what.
Grows(old, new, kind, u) ==
    /\ \A kinds, v : In(new, kinds, v) <=> In(old, kinds, v) \/ (kind \in kinds /\ u = v)
    /\ \A first, then, v :
          (Ahead(old, first, then, v) /\ ~ (kind \in first /\ u = v)) => Ahead(new, first, then, v)

\* A message is added at the association it is sent to, if that is up.
LEMMA SentGrows ==
    ASSUME NEW box \in LinkedGnb, NEW x, NEW u \in Ue, NEW k \in Link,
           NEW kind \in {"request", "command", "failure", "cancelled", "release"}
    PROVE  \/ Sent(box, x, kind, u)[k] = box[k]
           \/ k = x /\ phase[x] = "up" /\ Grows(box[k], Sent(box, x, kind, u)[k], kind, u)
<1> DEFINE m == Message(kind, u, None)
           e == Sent(box, x, kind, u)[k]
<1>1. m \in ToGnb /\ box[k] \in Seq(ToGnb)
  BY SentAt
<1>2. CASE k = x /\ phase[x] = "up"
  <2>1. e = Append(box[k], m)
    BY <1>1, <1>2 DEF Sent, LinkedGnb
  <2>2. \A kinds, v : Is(m, kinds, v) <=> kind \in kinds /\ u = v
    BY IsMessage
  <2> HIDE DEF m, e
  <2>3. /\ \A kinds, v : In(e, kinds, v) <=> In(box[k], kinds, v) \/ Is(m, kinds, v)
        /\ \A first, then, v :
              Ahead(box[k], first, then, v) /\ ~ (Is(m, first, v) /\ (Is(m, then, v) \/ In(box[k], then, v)))
                  => Ahead(e, first, then, v)
    BY <1>1, <2>1, QueueAppend
  <2>4. Grows(box[k], e, kind, u)
    BY <2>2, <2>3 DEF Grows
  <2> QED BY <1>2, <2>4 DEF e
<1>3. CASE ~ (k = x /\ phase[x] = "up")
  BY <1>1, <1>3 DEF Sent, LinkedGnb
<1> QED BY <1>2, <1>3

\* What a thread sends that these properties are about.
LEMMA ThreadSends ==
    ASSUME HandoverTypeOK, NEW l \in Link, ThreadStep(l), NEW k \in Link, NEW v \in Ue
    PROVE  /\ In(outbox'[k], {"release"}, v) =>
                 \/ In(outbox[k], {"release"}, v)
                 \/ CallOff(l) /\ thread[l].ue = v
                 \/ Notify(l) /\ Head(inbox[l]).ue = v /\ k = entry[v] /\ phase[k] = "up"
           /\ In(outbox'[k], {"command"}, v) =>
                 \/ In(outbox[k], {"command"}, v)
                 \/ Command(l) /\ k = l /\ thread[l].ue = v
           /\ In(outbox'[k], {"cancelled"}, v) =>
                 \/ In(outbox[k], {"cancelled"}, v)
                 \/ CallOff(l) /\ k = l /\ thread[l].ue = v
           /\ Ahead(outbox[k], {"release"}, {"request"}, v) =>
                 \/ Ahead(outbox'[k], {"release"}, {"request"}, v)
                 \/ CallOff(l) /\ thread[l].ue = v
                 \/ Notify(l) /\ Head(inbox[l]).ue = v
<1> USE DEF linkVars
<1> DEFINE Wanted ==
           /\ In(outbox'[k], {"release"}, v) =>
                 \/ In(outbox[k], {"release"}, v)
                 \/ CallOff(l) /\ thread[l].ue = v
                 \/ Notify(l) /\ Head(inbox[l]).ue = v /\ k = entry[v] /\ phase[k] = "up"
           /\ In(outbox'[k], {"command"}, v) =>
                 \/ In(outbox[k], {"command"}, v)
                 \/ Command(l) /\ k = l /\ thread[l].ue = v
           /\ In(outbox'[k], {"cancelled"}, v) =>
                 \/ In(outbox[k], {"cancelled"}, v)
                 \/ CallOff(l) /\ k = l /\ thread[l].ue = v
           /\ Ahead(outbox[k], {"release"}, {"request"}, v) =>
                 \/ Ahead(outbox'[k], {"release"}, {"request"}, v)
                 \/ CallOff(l) /\ thread[l].ue = v
                 \/ Notify(l) /\ Head(inbox[l]).ue = v
<1>a. /\ outbox \in LinkedGnb
      /\ thread[l].at # "reading" => thread[l].ue \in Ue
      /\ inbox[l] # <<>> => Head(inbox[l]).ue \in Ue
  BY TaskFields, AtLink
<1>1. CASE outbox' = outbox
  BY <1>1
<1>b. ASSUME NEW box \in LinkedGnb, NEW x, NEW u \in Ue,
             NEW kind \in {"request", "command", "failure", "cancelled", "release"}
      PROVE  /\ In(Sent(box, x, kind, u)[k], {"release"}, v) =>
                    In(box[k], {"release"}, v) \/ (k = x /\ phase[x] = "up" /\ kind = "release" /\ u = v)
             /\ In(Sent(box, x, kind, u)[k], {"command"}, v) =>
                    In(box[k], {"command"}, v) \/ (k = x /\ kind = "command" /\ u = v)
             /\ In(Sent(box, x, kind, u)[k], {"cancelled"}, v) =>
                    In(box[k], {"cancelled"}, v) \/ (k = x /\ kind = "cancelled" /\ u = v)
             /\ Ahead(box[k], {"release"}, {"request"}, v) =>
                    \/ Ahead(Sent(box, x, kind, u)[k], {"release"}, {"request"}, v)
                    \/ kind = "release" /\ u = v
  <2> DEFINE e == Sent(box, x, kind, u)[k]
  <2>1. e = box[k] \/ (k = x /\ phase[x] = "up" /\ Grows(box[k], e, kind, u))
    BY SentGrows
  <2> HIDE DEF e
  <2>2. CASE k = x /\ phase[x] = "up" /\ Grows(box[k], e, kind, u)
    <3>1. /\ In(e, {"release"}, v) <=> In(box[k], {"release"}, v) \/ (kind \in {"release"} /\ u = v)
          /\ In(e, {"command"}, v) <=> In(box[k], {"command"}, v) \/ (kind \in {"command"} /\ u = v)
          /\ In(e, {"cancelled"}, v) <=> In(box[k], {"cancelled"}, v) \/ (kind \in {"cancelled"} /\ u = v)
          /\ (Ahead(box[k], {"release"}, {"request"}, v) /\ ~ (kind \in {"release"} /\ u = v))
                 => Ahead(e, {"release"}, {"request"}, v)
      BY <2>2 DEF Grows
    <3> QED BY <2>2, <3>1 DEF e
  <2>3. CASE e = box[k]
    BY <2>3 DEF e
  <2> QED BY <2>1, <2>2, <2>3
<1>2. ASSUME NEW x, NEW u \in Ue, NEW kind \in {"request", "failure"}, outbox' = Sent(outbox, x, kind, u)
      PROVE  Wanted
  BY <1>a, <1>b, <1>2
<1>3. CASE Command(l)
  <2>1. thread[l].ue \in Ue /\ outbox' = Sent(outbox, l, "command", thread[l].ue)
    BY <1>3, <1>a DEF Command
  <2> QED BY <1>3, <1>a, <2>1, <1>b
<1>4. CASE Notify(l)
  <2>1. /\ Head(inbox[l]).ue \in Ue
        /\ outbox' = Sent(outbox, entry[Head(inbox[l]).ue], "release", Head(inbox[l]).ue)
    BY <1>4, <1>a DEF Notify, Reads
  <2> QED BY <1>4, <1>a, <2>1, <1>b
<1>5. CASE CallOff(l)
  <2> DEFINE u == thread[l].ue
             told == IF thread[l].to = None THEN outbox ELSE Sent(outbox, registered[thread[l].to], "release", u)
  <2>1. u \in Ue /\ outbox' = Sent(told, l, "cancelled", u)
    BY <1>5, <1>a DEF CallOff
  <2>2. told \in LinkedGnb
    BY <1>a, <2>1, SentTyped
  <2>3. /\ In(told[k], {"release"}, v) => In(outbox[k], {"release"}, v) \/ u = v
        /\ In(told[k], {"command"}, v) => In(outbox[k], {"command"}, v)
        /\ In(told[k], {"cancelled"}, v) => In(outbox[k], {"cancelled"}, v)
        /\ Ahead(outbox[k], {"release"}, {"request"}, v) =>
              Ahead(told[k], {"release"}, {"request"}, v) \/ u = v
    BY <1>a, <2>1, <1>b
  <2> HIDE DEF told
  <2>4. /\ In(outbox'[k], {"release"}, v) => In(told[k], {"release"}, v)
        /\ In(outbox'[k], {"command"}, v) => In(told[k], {"command"}, v)
        /\ In(outbox'[k], {"cancelled"}, v) => In(told[k], {"cancelled"}, v) \/ (k = l /\ u = v)
        /\ Ahead(told[k], {"release"}, {"request"}, v) => Ahead(outbox'[k], {"release"}, {"request"}, v)
    BY <2>1, <2>2, <1>b
  <2> QED BY <1>5, <2>3, <2>4
<1>6. CASE Required(l) \/ TimeOut(l) \/ Refuse(l)
  <2>1. \E x : \E u \in Ue, kind \in {"request", "failure"} : outbox' = Sent(outbox, x, kind, u)
    BY <1>6, <1>a DEF Required, Relay, TimeOut, Refuse, Reads
  <2> HIDE DEF Wanted
  <2> QED BY <1>2, <2>1 DEF Wanted
<1> HIDE DEF Wanted
<1>7. Wanted
  BY <1>1, <1>3, <1>4, <1>5, <1>6 DEF Wanted, ThreadStep, Deliver, Take, Cancel, Repoint, Complete, Close
<1> QED BY <1>7 DEF Wanted

\* The thread of an association reads its messages, and sends none to the AMF.
LEMMA ThreadReads ==
    ASSUME HandoverTypeOK, NEW l \in Link, ThreadStep(l), NEW k \in Link
    PROVE  \/ inbox'[k] = inbox[k]
           \/ k = l /\ inbox[l] # <<>> /\ thread[l].at = "reading" /\ inbox'[l] = Tail(inbox[l])
<1>1. CASE inbox' = inbox
  BY <1>1
<1>2. CASE inbox' = Consumed(l) /\ inbox[l] # <<>> /\ thread[l].at = "reading"
  BY <1>2, AtLink
<1> QED BY <1>1, <1>2 DEF ThreadStep, Required, Deliver, Take, TimeOut, Refuse, Command, Cancel,
             CallOff, Notify, Repoint, Complete, Close, Reads, linkVars

\* A wait, and the answer it ends with, belong to one relay.
Continues(t, next) ==
    /\ next.at = t.at /\ next.ue = t.ue /\ next.to = t.to /\ next.via = t.via /\ next.got = t.got
    /\ next.alone => t.alone
Takes(t, next, got) ==
    /\ t.at = "waiting" /\ next.at = "answering" /\ next.ue = t.ue /\ next.to = t.to
    /\ next.alone = t.alone /\ next.got = got

\* A thread waits for the relay it has started, and answers with its reply.
LEMMA WaitsFrom ==
    ASSUME HandoverTypeOK, NEW l \in Link, ThreadStep(l), NEW k \in Link,
           thread'[k].at \in {"waiting", "answering"}
    PROVE  \/ Continues(thread[k], thread'[k])
           \/ k = l /\ Take(l) /\ Takes(thread[l], thread'[l], slot[thread[l].via].reply)
           \/ /\ k = l /\ Required(l) /\ Relay(l, Head(inbox[l]).ue, Head(inbox[l]).to)
              /\ thread'[l].at = "waiting" /\ thread'[l].ue = Head(inbox[l]).ue
              /\ thread'[l].to = Head(inbox[l]).to
              /\ thread'[l].via = registered[Head(inbox[l]).to]
              /\ thread'[l].alone = Undisturbed(Head(inbox[l]).to)
<1>c. \A task : Goto(l, task) => thread'[l] = task /\ \A j \in Link \ {l} : thread'[j] = thread[j]
  BY DEF Goto, HandoverTypeOK
<1>1. CASE thread'[k] = thread[k]
  BY <1>1 DEF Continues
<1>2. CASE Required(l)
  <2>1. CASE Relay(l, Head(inbox[l]).ue, Head(inbox[l]).to)
    <3>1. thread' = Waiting(l, Head(inbox[l]).ue, Head(inbox[l]).to)
      BY <2>1 DEF Relay
    <3>2. CASE k = l
      BY <1>2, <2>1, <3>1, <3>2, WaitingAt
    <3>3. CASE k # l
      BY <3>1, <3>3, WaitingAt DEF Continues
    <3> QED BY <3>2, <3>3
  <2>2. CASE thread' = thread
    BY <1>1, <2>2
  <2> QED BY <1>2, <2>1, <2>2 DEF Required
<1>3. CASE Take(l)
  <2>1. CASE k = l
    <3>1. thread[l] \in Waits
      BY <1>3, WaitingTask DEF Take, HandoverTypeOK
    <3>2. thread'[l] = [thread[l] EXCEPT !.at = "answering", !.got = slot[thread[l].via].reply]
      BY <1>3, <1>c DEF Take
    <3> QED BY <1>3, <2>1, <3>1, <3>2 DEF Waits, Takes
  <2>2. CASE k # l
    BY <1>1, <1>3, <1>c, <2>2 DEF Take
  <2> QED BY <2>1, <2>2
<1>4. CASE thread' = thread
  BY <1>1, <1>4
<1>5. CASE \E task : Goto(l, task) /\ task.at \notin {"waiting", "answering"}
  BY <1>1, <1>c, <1>5
<1>6. CASE TimeOut(l) \/ Refuse(l) \/ Command(l) \/ CallOff(l) \/ Repoint(l)
  <2>1. Goto(l, Reading) /\ Reading.at = "reading"
    BY <1>6 DEF TimeOut, Refuse, Command, CallOff, Repoint, Reading
  <2> QED BY <1>5, <2>1
<1>7. CASE Cancel(l)
  <2> DEFINE u == Head(inbox[l]).ue
             task == [Reading EXCEPT !.at = "callingOff", !.ue = u, !.to = target[u]]
  <2>1. Goto(l, task) /\ task.at = "callingOff"
    BY <1>7 DEF Cancel, Reading
  <2> HIDE DEF task
  <2> QED BY <1>5, <2>1
<1>8. CASE Notify(l)
  <2> DEFINE task == [Reading EXCEPT !.at = "repointing", !.ue = Head(inbox[l]).ue]
  <2>1. Goto(l, task) /\ task.at = "repointing"
    BY <1>8 DEF Notify, Reading
  <2> HIDE DEF task
  <2> QED BY <1>5, <2>1
<1>9. CASE Deliver(l) \/ Complete(l) \/ Close(l)
  BY <1>4, <1>9 DEF Deliver, Complete, Close
<1> QED BY <1>2, <1>3, <1>6, <1>7, <1>8, <1>9 DEF ThreadStep

\* Every HandoverRequired for the UE in the queue asks for this target.
Asks(s, u, to) == \A i \in DOMAIN s : Is(s[i], {"required"}, u) => s[i].to = to

\* The target asked for survives the reading of the queue.
LEMMA AsksQueue ==
    ASSUME NEW S, NEW s \in Seq(S), NEW u, NEW to
    PROVE  /\ \A m \in S : (Asks(s, u, to) /\ (Is(m, {"required"}, u) => m.to = to)) => Asks(Append(s, m), u, to)
           /\ (s # <<>> /\ Asks(s, u, to)) =>
                 Asks(Tail(s), u, to) /\ (Is(Head(s), {"required"}, u) => Head(s).to = to)
           /\ ~ In(s, {"required"}, u) => Asks(s, u, to)
<1>1. ASSUME NEW m \in S, Asks(s, u, to), Is(m, {"required"}, u) => m.to = to
      PROVE  Asks(Append(s, m), u, to)
  <2> DEFINE e == Append(s, m)
             n == Len(s)
  <2>1. /\ n \in Nat /\ DOMAIN s = 1 .. n /\ DOMAIN e = 1 .. (n + 1) /\ e[n + 1] = m
        /\ \A i \in 1 .. n : e[i] = s[i]
    BY AppendProperties, LenProperties
  <2> HIDE DEF e, n
  <2>2. \A i \in 1 .. (n + 1) : i \in 1 .. n \/ i = n + 1
    BY <2>1
  <2>3. Asks(e, u, to)
    BY <1>1, <2>1, <2>2 DEF Asks
  <2> QED BY <2>3 DEF e
<1>2. ASSUME s # <<>>, Asks(s, u, to)
      PROVE  Asks(Tail(s), u, to) /\ (Is(Head(s), {"required"}, u) => Head(s).to = to)
  <2> DEFINE e == Tail(s)
             n == Len(s)
  <2>1. /\ n \in Nat \ {0} /\ DOMAIN s = 1 .. n /\ DOMAIN e = 1 .. (n - 1) /\ s[1] = Head(s)
        /\ \A i \in 1 .. (n - 1) : e[i] = s[i + 1]
    BY <1>2, HeadTailProperties, EmptySeq, LenProperties
  <2> HIDE DEF e, n
  <2>2. 1 \in 1 .. n /\ \A i \in 1 .. (n - 1) : i + 1 \in 1 .. n
    BY <2>1
  <2>3. Asks(e, u, to) /\ (Is(s[1], {"required"}, u) => s[1].to = to)
    BY <1>2, <2>1, <2>2 DEF Asks
  <2> QED BY <2>1, <2>3 DEF e
<1>3. ~ In(s, {"required"}, u) => Asks(s, u, to)
  BY DEF In, Asks
<1> QED BY <1>1, <1>2, <1>3

\* A thread prepares what it has been asked for.
LEMMA ThreadNames ==
    ASSUME HandoverTypeOK, NEW l \in Link, ThreadStep(l), NEW k \in Link, NEW u, NEW to,
           Names(inbox[k], thread[k], u, to)
    PROVE  Names(inbox'[k], thread'[k], u, to)
<1>1. Asks(inbox[k], u, to) /\ (Serves(thread[k], {"waiting", "answering"}, u) => thread[k].to = to)
  BY DEF Names, Asks
<1>2. inbox[k] \in Seq(ToAmf)
  BY AtLink
<1>3. /\ Asks(inbox'[k], u, to)
      /\ k = l /\ inbox[l] # <<>> /\ Is(Head(inbox[l]), {"required"}, u) => Head(inbox[l]).to = to
  BY <1>1, <1>2, ThreadReads, AsksQueue
<1>4. ASSUME Serves(thread'[k], {"waiting", "answering"}, u) PROVE thread'[k].to = to
  <2>1. thread'[k].at \in {"waiting", "answering"} /\ thread'[k].ue = u
    BY <1>4 DEF Serves
  <2>2. CASE Continues(thread[k], thread'[k])
    BY <1>1, <2>1, <2>2 DEF Continues, Serves
  <2>3. CASE k = l /\ Take(l) /\ Takes(thread[l], thread'[l], slot[thread[l].via].reply)
    BY <1>1, <2>1, <2>3 DEF Takes, Serves
  <2>4. CASE /\ k = l /\ Required(l)
             /\ thread'[l].ue = Head(inbox[l]).ue /\ thread'[l].to = Head(inbox[l]).to
    <3>1. inbox[l] # <<>> /\ Is(Head(inbox[l]), {"required"}, u)
      BY <2>1, <2>4 DEF Required, Reads, Is
    <3> QED BY <1>3, <2>4, <3>1
  <2> QED BY <2>1, <2>2, <2>3, <2>4, WaitsFrom
<1> QED BY <1>3, <1>4 DEF Names, Asks

\* A thread calls off what it has read the cancel of.
LEMMA CallsFrom ==
    ASSUME HandoverTypeOK, NEW l \in Link, ThreadStep(l), NEW k \in Link, thread'[k].at = "callingOff"
    PROVE  \/ thread'[k] = thread[k]
           \/ k = l /\ Cancel(l) /\ thread'[l].ue = Head(inbox[l]).ue
                    /\ thread'[l].to = target[Head(inbox[l]).ue]
<1>c. \A task : Goto(l, task) => thread'[l] = task /\ \A j \in Link \ {l} : thread'[j] = thread[j]
  BY DEF Goto, HandoverTypeOK
<1>1. CASE \E task : Goto(l, task) /\ task.at # "callingOff"
  BY <1>c, <1>1
<1>2. CASE TimeOut(l) \/ Refuse(l) \/ Command(l) \/ CallOff(l) \/ Repoint(l)
  <2>1. Goto(l, Reading) /\ Reading.at = "reading"
    BY <1>2 DEF TimeOut, Refuse, Command, CallOff, Repoint, Reading
  <2> QED BY <1>1, <2>1
<1>3. CASE Cancel(l)
  <2> DEFINE u == Head(inbox[l]).ue
             task == [Reading EXCEPT !.at = "callingOff", !.ue = u, !.to = target[u]]
  <2>1. Goto(l, task) /\ task.ue = u /\ task.to = target[u]
    BY <1>3 DEF Cancel, Reading
  <2> HIDE DEF task
  <2> QED BY <1>3, <1>c, <2>1
<1>4. CASE Notify(l)
  <2> DEFINE task == [Reading EXCEPT !.at = "repointing", !.ue = Head(inbox[l]).ue]
  <2>1. Goto(l, task) /\ task.at = "repointing"
    BY <1>4 DEF Notify, Reading
  <2> HIDE DEF task
  <2> QED BY <1>1, <2>1
<1>5. CASE Deliver(l) \/ Complete(l) \/ Close(l)
  BY <1>5 DEF Deliver, Complete, Close
<1>6. CASE Required(l)
  <2>1. CASE Relay(l, Head(inbox[l]).ue, Head(inbox[l]).to)
    <3>1. thread' = Waiting(l, Head(inbox[l]).ue, Head(inbox[l]).to)
      BY <2>1 DEF Relay
    <3>2. k # l
      BY <3>1, WaitingAt
    <3>3. thread[k].at = "callingOff"
      BY <3>1, <3>2, WaitingAt
    <3> QED BY <1>6, <3>2, <3>3, ThreadBoxes
  <2> QED BY <1>6, <2>1 DEF Required
<1>7. CASE Take(l)
  <2>1. CASE k = l
    <3>1. thread[l] \in Waits
      BY <1>7, WaitingTask DEF Take, HandoverTypeOK
    <3>2. thread'[l] = [thread[l] EXCEPT !.at = "answering", !.got = slot[thread[l].via].reply]
      BY <1>7, <1>c DEF Take
    <3> QED BY <2>1, <3>1, <3>2 DEF Waits
  <2>2. CASE k # l
    BY <1>7, <1>c, <2>2 DEF Take
  <2> QED BY <2>1, <2>2
<1> QED BY <1>2, <1>3, <1>4, <1>5, <1>6, <1>7 DEF ThreadStep

\* An answer reaches a slot through the thread of its gNB.
LEMMA SlotFrom ==
    ASSUME HandoverTypeOK, NEW l \in Link, ThreadStep(l), NEW v \in Link, slot'[v].reply.kind = "accept"
    PROVE  \/ slot'[v].reply = slot[v].reply
           \/ /\ Deliver(l) /\ v = registered[l[1]]
              /\ inbox[l] # <<>> /\ Head(inbox[l]).kind = "accept"
<1>a. Nothing.kind = "nothing" /\ MovedOut.kind = "moved" /\ l[1] \in Gnb
  BY DEF Nothing, MovedOut, Link
<1>1. CASE slot' = slot
  BY <1>1
<1>2. CASE Required(l)
  <2>1. CASE slot' = [slot EXCEPT ![registered[Head(inbox[l]).to]] = [awaiting |-> TRUE, reply |-> Nothing]]
    BY <1>a, <2>1 DEF HandoverTypeOK
  <2> QED BY <1>2, <2>1 DEF Required, Relay
<1>3. CASE Deliver(l)
  <2>1. inbox[l] # <<>>
    BY <1>3 DEF Deliver, Reads
  <2> QED BY <1>3, <2>1 DEF Deliver, HandoverTypeOK
<1>4. CASE Take(l)
  <2>1. slot' = [slot EXCEPT ![thread[l].via] = [awaiting |-> FALSE, reply |-> MovedOut]]
    BY <1>4 DEF Take
  <2> QED BY <1>a, <2>1 DEF HandoverTypeOK
<1>5. CASE TimeOut(l)
  BY <1>5 DEF TimeOut, HandoverTypeOK
<1> QED BY <1>1, <1>2, <1>3, <1>4, <1>5 DEF ThreadStep, Refuse, Command, Cancel, CallOff, Notify,
             Repoint, Complete, Close

\* A thread calls off only what was cancelled.
LEMMA ThreadCancels ==
    ASSUME HandoverTypeOK, CancelsSent, NEW l \in Link, ThreadStep(l)
    PROVE  CancelsSent'
<1> SUFFICES ASSUME NEW k \in Link, NEW u \in Ue,
                    In(inbox'[k], {"cancel"}, u) \/ Serves(thread'[k], {"callingOff"}, u)
             PROVE  u \in cancelled
  BY ThreadLeaves DEF CancelsSent
<1>1. inbox[k] \in Seq(ToAmf)
  BY AtLink
<1>2. CASE In(inbox'[k], {"cancel"}, u)
  <2>1. In(inbox[k], {"cancel"}, u)
    BY <1>1, <1>2, ThreadReads, QueueTail
  <2> QED BY <2>1 DEF CancelsSent
<1>3. CASE Serves(thread'[k], {"callingOff"}, u)
  <2>1. thread'[k].at = "callingOff" /\ thread'[k].ue = u
    BY <1>3 DEF Serves
  <2>2. CASE thread'[k] = thread[k]
    BY <1>3, <2>2 DEF CancelsSent
  <2>3. CASE k = l /\ Cancel(l) /\ thread'[l].ue = Head(inbox[l]).ue
    <3>1. inbox[k] # <<>> /\ Is(Head(inbox[k]), {"cancel"}, u)
      BY <2>1, <2>3 DEF Cancel, Reads, Is
    <3>2. In(inbox[k], {"cancel"}, u)
      BY <1>1, <3>1, QueueTail
    <3> QED BY <3>2 DEF CancelsSent
  <2> QED BY <2>1, <2>2, <2>3, CallsFrom
<1> QED BY <1>2, <1>3

\* A thread prepares the handover that is wanted.
LEMMA ThreadAims ==
    ASSUME HandoverTypeOK, AimsRight, NEW l \in Link, ThreadStep(l)
    PROVE  AimsRight'
<1> SUFFICES ASSUME NEW u \in Ue, position[u] # None
             PROVE  Names(inbox'[LinkOf(position[u])], thread'[LinkOf(position[u])], u,
                          wanted[position[u]][u])
  BY ThreadLeaves DEF AimsRight, LinkOf
<1>1. LinkOf(position[u]) \in Link
  BY FirstLink DEF LinkOf, HandoverTypeOK
<1>2. Names(inbox[LinkOf(position[u])], thread[LinkOf(position[u])], u, wanted[position[u]][u])
  BY DEF AimsRight
<1> QED BY <1>1, <1>2, ThreadNames

\* What a thread leaves to be released, for a UE no gNB has cancelled a handover of.
LEMMA ThreadReleases ==
    ASSUME ReleaseInv, HandoverTypeOK', NEW l \in Link, ThreadStep(l)
    PROVE  ReleasesBehind'
<1> USE DEF ReleaseInv
<1>0. HandoverTypeOK /\ RegisteredIsOwn /\ WaitsAtTarget /\ WaitsUndisturbed
  BY DEF RelayInv
<1>1. /\ UNCHANGED <<current, position, wanted, cancelled>>
      /\ misled \subseteq misled'
      /\ Command(l) /\ thread[l].ue \notin misled' => thread[l].alone
  <2>1. UNCHANGED <<current, position, wanted, cancelled>>
    BY <1>0, ThreadLeaves
  <2>2. CASE Command(l)
    BY <2>1, <2>2 DEF Command
  <2>3. CASE ~ Command(l)
    BY <2>1, <2>3 DEF ThreadStep, Required, Deliver, Take, TimeOut, Refuse, Cancel, CallOff, Notify,
                      Repoint, Complete, Close, historyVars
  <2> QED BY <2>2, <2>3
<1>2. \A h \in Gnb : LinkOf(h) \in Link /\ LinkOf(h)' = LinkOf(h) /\ (Up(h)' => Up(h))
  <2>1. \A h \in Gnb : LinkOf(h) \in Link /\ LinkOf(h)' = LinkOf(h)
    BY <1>0, <1>1, FirstLink DEF LinkOf, HandoverTypeOK
  <2>2. \A k \in Link : phase'[k] = "up" => phase[k] = "up"
    BY <1>0, ThreadLeaves
  <2> QED BY <2>1, <2>2 DEF Up
<1> SUFFICES ASSUME NEW u \in Ue, position[u] # None, u \notin cancelled, u \notin misled'
             PROVE  Sound(u)'
  BY <1>1 DEF ReleasesBehind
<1> DEFINE g == position[u]
           k == LinkOf(g)
<1>3. g \in Gnb /\ k \in Link /\ Sound(u) /\ Served(u) /\ Line(inbox[k], outbox[k], thread[k], u)
  <2>1. g \in Gnb /\ k \in Link
    BY <1>0, <1>2 DEF HandoverTypeOK
  <2>2. Sound(u) /\ Served(u)
    BY <1>1 DEF ReleasesBehind, OrderInv, AllServed
  <2> QED BY <2>1, <2>2 DEF OrderInv, LinesInOrder
<1> HIDE DEF k
<1> DEFINE Clears(h) == phase'[LinkOf(h)] = "up" => ~ In(outbox'[LinkOf(h)], {"release"}, u)
           t == thread'[k]
<1> SUFFICES /\ Clears(g)
             /\ (In(outbox'[k], {"command"}, u) /\ wanted[g][u] # None) => Clears(wanted[g][u])
             /\ (Serves(t, {"answering"}, u) /\ t.alone /\ t.got.kind = "accept") => Clears(t.to)
             /\ (Serves(t, {"waiting"}, u) /\ t.alone) =>
                   /\ slot'[t.via].reply.kind = "accept" => Clears(t.to)
                   /\ \A j \in Link : (j[1] = t.to /\ In(inbox'[j], {"accept"}, u)) => Clears(t.to)
                   /\ phase'[LinkOf(t.to)] = "up" =>
                         Ahead(outbox'[LinkOf(t.to)], {"release"}, {"request"}, u)
  BY <1>1 DEF Sound, Clear, Unreleased, Up, LinkOf, k
<1>4. ~ (CallOff(l) /\ thread[l].ue = u)
  BY DEF CancelsSent, CallOff, Serves
<1>5. ASSUME NEW j \in Link
      PROVE  /\ In(outbox'[j], {"release"}, u) =>
                   \/ In(outbox[j], {"release"}, u)
                   \/ Notify(l) /\ Head(inbox[l]).ue = u /\ j = entry[u] /\ phase[j] = "up"
             /\ In(outbox'[j], {"command"}, u) =>
                   In(outbox[j], {"command"}, u) \/ (Command(l) /\ j = l /\ thread[l].ue = u)
             /\ Ahead(outbox[j], {"release"}, {"request"}, u) =>
                   \/ Ahead(outbox'[j], {"release"}, {"request"}, u)
                   \/ Notify(l) /\ Head(inbox[l]).ue = u
  BY <1>0, <1>4, ThreadSends
<1>6. CASE Notify(l) /\ Head(inbox[l]).ue = u
  <2>1. /\ inbox[l] # <<>> /\ Is(Head(inbox[l]), {"notify"}, u) /\ inbox[l] \in Seq(ToAmf)
        /\ t.at = "repointing" \/ k # l
    <3>1. Goto(l, [Reading EXCEPT !.at = "repointing", !.ue = u])
      BY <1>6 DEF Notify
    <3>2. thread'[l] = [Reading EXCEPT !.at = "repointing", !.ue = u]
      BY <1>0, <3>1 DEF Goto, HandoverTypeOK
    <3>3. thread'[l].at = "repointing"
      BY <3>2 DEF Reading
    <3> QED BY <1>0, <1>6, <3>3, AtLink DEF Notify, Reads, Is
  <2>2. In(inbox[l], {"notify"}, u)
    BY <2>1, QueueTail
  <2>3. l = k
    BY <1>3, <2>2 DEF Served, EnteringAt, Entering, k
  <2>4. entry[u] # k /\ ~ In(outbox[k], {"command"}, u)
    <3>1. entry[u] # k
      BY <1>3, <2>2, <2>3 DEF Served, k
    <3>2. ~ In(outbox[k], {"command"}, u)
      BY <1>3, <2>2, <2>3 DEF Line, In, Is
    <3> QED BY <3>1, <3>2
  <2>5. Clears(g)
    BY <1>2, <1>3, <1>5, <2>4 DEF Sound, Clear, Up, k
  <2>6. ~ In(outbox'[k], {"command"}, u)
    BY <1>3, <1>5, <1>6, <2>4 DEF Notify, Command, Reads
  <2> QED BY <2>1, <2>3, <2>5, <2>6 DEF Serves
<1>7. CASE ~ (Notify(l) /\ Head(inbox[l]).ue = u)
  <2>1. ASSUME NEW h \in Gnb, Clear(h, u) PROVE Clears(h)
    BY <1>2, <1>5, <1>7, <2>1 DEF Clear, Up
  <2>2. Clears(g)
    BY <1>3, <2>1 DEF Sound
  <2>a. wanted[g][u] # None => wanted[g][u] \in Gnb
    BY <1>0, <1>3 DEF HandoverTypeOK
  <2>3. ASSUME In(outbox'[k], {"command"}, u), wanted[g][u] # None PROVE Clears(wanted[g][u])
    <3>1. CASE In(outbox[k], {"command"}, u)
      BY <1>3, <2>1, <2>3, <2>a, <3>1 DEF Sound, k
    <3>2. CASE Command(l) /\ k = l /\ thread[l].ue = u
      <4>1. Serves(thread[k], {"answering"}, u) /\ thread[k].alone /\ thread[k].got.kind = "accept"
        BY <1>1, <3>2 DEF Command, Serves
      <4>2. Clear(thread[k].to, u)
        BY <1>3, <4>1 DEF Sound, k
      <4>3. thread[k].to = wanted[g][u]
        BY <4>1 DEF AimsRight, Names, Serves, k
      <4> QED BY <2>1, <2>3, <2>a, <4>2, <4>3
    <3> QED BY <1>3, <1>5, <2>3, <3>1, <3>2
  <2> DEFINE m == Head(inbox[l])
  <2>4. t.at \in {"waiting", "answering"} => t.to \in Gnb /\ t.via \in Link
    BY <1>3, TaskFields DEF HandoverTypeOK
  <2>5. t.at \in {"waiting", "answering"} =>
          \/ Continues(thread[k], t)
          \/ Takes(thread[k], t, slot[thread[k].via].reply)
          \/ /\ t.at = "waiting" /\ t.alone = Undisturbed(t.to) /\ t.via = registered[t.to]
             /\ slot' = [slot EXCEPT ![t.via] = [awaiting |-> TRUE, reply |-> Nothing]]
    <3>1. SUFFICES ASSUME t.at \in {"waiting", "answering"}
                   PROVE  \/ Continues(thread[k], t)
                          \/ Takes(thread[k], t, slot[thread[k].via].reply)
                          \/ /\ t.at = "waiting" /\ t.alone = Undisturbed(t.to)
                             /\ t.via = registered[t.to]
                             /\ slot' = [slot EXCEPT ![t.via] = [awaiting |-> TRUE, reply |-> Nothing]]
      OBVIOUS
    <3>2. \/ Continues(thread[k], t)
          \/ k = l /\ Takes(thread[l], t, slot[thread[l].via].reply)
          \/ /\ Relay(l, m.ue, m.to) /\ t.at = "waiting" /\ t.to = m.to
             /\ t.via = registered[m.to] /\ t.alone = Undisturbed(m.to)
      BY <1>0, <1>3, <3>1, WaitsFrom
    <3> QED BY <3>2 DEF Relay
  <2>6. ASSUME Serves(t, {"answering"}, u), t.alone, t.got.kind = "accept" PROVE Clears(t.to)
    <3>1. t.at = "answering" /\ t.ue = u
      BY <2>6 DEF Serves
    <3>2. CASE Continues(thread[k], t)
      <4>1. /\ Serves(thread[k], {"answering"}, u) /\ thread[k].alone /\ thread[k].got.kind = "accept"
            /\ thread[k].to = t.to
        BY <2>6, <3>1, <3>2 DEF Serves, Continues
      <4>2. Clear(thread[k].to, u)
        BY <1>3, <4>1 DEF Sound, k
      <4> QED BY <2>1, <2>4, <3>1, <4>1, <4>2
    <3>3. CASE Takes(thread[k], t, slot[thread[k].via].reply)
      <4>1. /\ Serves(thread[k], {"waiting"}, u) /\ thread[k].alone
            /\ slot[thread[k].via].reply.kind = "accept" /\ thread[k].to = t.to
        BY <2>6, <3>1, <3>3 DEF Serves, Takes
      <4>2. Clear(thread[k].to, u)
        BY <1>3, <4>1 DEF Sound, Unreleased, k
      <4> QED BY <2>1, <2>4, <3>1, <4>1, <4>2
    <3> QED BY <2>5, <3>1, <3>2, <3>3
  <2>7. ASSUME Serves(t, {"waiting"}, u), t.alone
        PROVE  /\ slot'[t.via].reply.kind = "accept" => Clears(t.to)
               /\ \A j \in Link : (j[1] = t.to /\ In(inbox'[j], {"accept"}, u)) => Clears(t.to)
               /\ phase'[LinkOf(t.to)] = "up" =>
                     Ahead(outbox'[LinkOf(t.to)], {"release"}, {"request"}, u)
    <3>1. t.at = "waiting" /\ t.ue = u /\ t.to \in Gnb /\ t.via \in Link
      BY <2>4, <2>7 DEF Serves
    <3>2. \A j \in Link : In(inbox'[j], {"accept"}, u) => In(inbox[j], {"accept"}, u)
      BY <1>0, AtLink, ThreadReads, QueueTail
    <3>3. Ahead(outbox[LinkOf(t.to)], {"release"}, {"request"}, u)
            => Ahead(outbox'[LinkOf(t.to)], {"release"}, {"request"}, u)
      BY <1>2, <1>5, <1>7, <3>1
    <3>4. CASE Continues(thread[k], t)
      <4>1. /\ thread[k].at = "waiting" /\ thread[k].ue = u /\ thread[k].to = t.to
            /\ thread[k].via = t.via /\ thread[k].alone
        BY <2>7, <3>1, <3>4 DEF Continues
      <4>2. Unreleased(thread[k], u)
        BY <1>3, <4>1 DEF Sound, Serves, k
      <4>3. \A j \in Link : (j[1] = t.to /\ In(inbox[j], {"accept"}, u)) => Clears(t.to)
        BY <2>1, <3>1, <4>1, <4>2 DEF Unreleased
      <4>4. ASSUME slot'[t.via].reply.kind = "accept" PROVE Clears(t.to)
        <5>1. CASE slot'[t.via].reply = slot[t.via].reply
          BY <2>1, <3>1, <4>1, <4>2, <4>4, <5>1 DEF Unreleased
        <5>2. CASE t.via = registered[l[1]] /\ inbox[l] # <<>> /\ m.kind = "accept"
          <6>1. l[1] \in Gnb /\ registered[l[1]] # NoLink /\ t.via[1] = t.to
            BY <1>0, <1>3, <3>1, <4>1, <5>2, HandoverAssumption DEF WaitsAtTarget, Link, NoLink
          <6>2. l[1] = t.to
            BY <1>0, <5>2, <6>1 DEF RegisteredIsOwn
          <6>3. OnlyFor(inbox, outbox, t.to, u)
            BY <1>0, <1>3, <4>1 DEF WaitsUndisturbed
          <6>4. 1 \in DOMAIN inbox[l] /\ inbox[l][1] = m
            BY <1>0, <5>2, AtLink, HeadTailProperties, EmptySeq, LenProperties
          <6>5. m.ue = u
            BY <5>2, <6>2, <6>3, <6>4 DEF OnlyFor
          <6>6. In(inbox[l], {"accept"}, u)
            BY <5>2, <6>4, <6>5 DEF In, Is
          <6> QED BY <4>3, <6>2, <6>6
        <5> QED BY <1>0, <3>1, <4>4, <5>1, <5>2, SlotFrom
      <4>5. phase'[LinkOf(t.to)] = "up" => Ahead(outbox[LinkOf(t.to)], {"release"}, {"request"}, u)
        BY <1>2, <3>1, <4>1, <4>2 DEF Unreleased, Up
      <4> QED BY <3>2, <3>3, <4>3, <4>4, <4>5
    <3>5. CASE /\ Undisturbed(t.to)
               /\ slot' = [slot EXCEPT ![t.via] = [awaiting |-> TRUE, reply |-> Nothing]]
      <4>1. slot'[t.via].reply.kind # "accept"
        BY <1>0, <3>1, <3>5 DEF Nothing, HandoverTypeOK
      <4>2. \A j \in Link : j[1] = t.to => ~ In(inbox[j], {"accept"}, u)
        BY <3>5 DEF Undisturbed, In, Is
      <4>3. Ahead(outbox[LinkOf(t.to)], {"release"}, {"request"}, u)
        <5>1. LinkOf(t.to) \in Link /\ LinkOf(t.to)[1] = t.to
          BY <1>2, <3>1 DEF LinkOf
        <5> QED BY <3>5, <5>1 DEF Undisturbed, Ahead, Is
      <4> QED BY <3>2, <3>3, <4>1, <4>2, <4>3
    <3>6. ~ Takes(thread[k], t, slot[thread[k].via].reply)
      BY <3>1 DEF Takes
    <3> QED BY <2>5, <2>7, <3>1, <3>4, <3>5, <3>6
  <2> QED BY <2>2, <2>3, <2>6, <2>7
<1> QED BY <1>6, <1>7

\* The gNBs read what the AMF has sent, in its order.
LEMMA GnbReads ==
    ASSUME HandoverTypeOK, NEW g \in Gnb, GnbStep(g), NEW k \in Link
    PROVE  /\ \A kinds, v : In(outbox'[k], kinds, v) => In(outbox[k], kinds, v)
           /\ \A first, then, v : Ahead(outbox[k], first, then, v) => Ahead(outbox'[k], first, then, v)
<1>a. outbox[k] \in Seq(ToGnb) /\ LinkOf(g) \in Link
  BY AtLink, FirstLink DEF LinkOf, HandoverTypeOK
<1>1. CASE outbox'[k] = outbox[k]
  BY <1>1
<1>2. CASE outbox[k] # <<>> /\ outbox'[k] = Tail(outbox[k])
  BY <1>a, <1>2, QueueTail
<1>3. CASE outbox'[k] = <<>>
  BY <1>3, QueueEmpty
<1>4. ASSUME NEW kind, NEW u, Hears(g, kind, u)
      PROVE  outbox'[k] = outbox[k] \/ (outbox[k] # <<>> /\ outbox'[k] = Tail(outbox[k]))
  <2>1. outbox[LinkOf(g)] # <<>> /\ outbox' = [outbox EXCEPT ![LinkOf(g)] = Tail(@)]
    BY <1>4 DEF Hears
  <2> QED BY <1>a, <2>1 DEF HandoverTypeOK
<1>5. CASE Crash(g) \/ Setup(g)
  BY <1>1, <1>3, <1>5 DEF Crash, Setup, HandoverTypeOK
<1>6. ASSUME NEW u \in Ue, \/ \E to \in Gnb : Ask(g, u, to)
                           \/ SendCancel(g, u)
      PROVE  outbox' = outbox
  BY <1>6 DEF Ask, SendCancel
<1>7. ASSUME NEW u \in Ue, Allocate(g, u) \/ Outcome(g, u) \/ Cancelled(g, u) \/ Release(g, u)
      PROVE  outbox'[k] = outbox[k] \/ (outbox[k] # <<>> /\ outbox'[k] = Tail(outbox[k]))
  BY <1>4, <1>7 DEF Allocate, Outcome, Cancelled, Release
<1> QED BY <1>1, <1>2, <1>5, <1>6, <1>7 DEF GnbStep

\* The target asked for stays the one wanted.
LEMMA NamesKept ==
    ASSUME HandoverTypeOK, AimsRight, NEW v \in Ue, position[v] # None, position'[v] = position[v],
           current'[position[v]] = current[position[v]], thread' = thread,
           LET k == LinkOf(position[v]) IN
           \/ ~ Preparing(inbox'[k], outbox'[k], thread'[k], v)
           \/ /\ wanted'[position[v]][v] = wanted[position[v]][v]
              /\ \A to : Asks(inbox[k], v, to) => Asks(inbox'[k], v, to)
    PROVE  LET k == <<position'[v], current'[position'[v]]>> IN
           Names(inbox'[k], thread'[k], v, wanted'[position'[v]][v])
<1> DEFINE g == position[v]
           k == LinkOf(g)
<1>1. <<position'[v], current'[position'[v]]>> = k
  BY DEF LinkOf
<1>2. Names(inbox[k], thread[k], v, wanted[g][v])
  BY DEF AimsRight
<1>3. \/ ~ Preparing(inbox'[k], outbox'[k], thread'[k], v)
      \/ /\ wanted'[g][v] = wanted[g][v]
         /\ \A to : Asks(inbox[k], v, to) => Asks(inbox'[k], v, to)
  OBVIOUS
<1> HIDE DEF k
<1>4. CASE ~ Preparing(inbox'[k], outbox'[k], thread'[k], v)
  BY <1>1, <1>4 DEF Preparing, Names, In
<1>5. CASE /\ wanted'[g][v] = wanted[g][v]
           /\ \A to : Asks(inbox[k], v, to) => Asks(inbox'[k], v, to)
  BY <1>1, <1>2, <1>5 DEF Names, Asks
<1> QED BY <1>3, <1>4, <1>5

\* A step of a gNB that changes neither where the UE is nor where it is sent.
LEMMA SoundKept ==
    ASSUME HandoverTypeOK, NEW g \in Gnb, GnbStep(g), NEW v \in Ue, Sound(v), UNCHANGED <<thread, slot>>,
           position[v] # None, position'[v] = position[v], current'[position[v]] = current[position[v]],
           \A h \in Gnb : /\ <<h, current'[h]>> \in Link
                          /\ phase'[<<h, current'[h]>>] = "up" =>
                                \/ outbox'[<<h, current'[h]>>] = <<>>
                                \/ current'[h] = current[h] /\ phase[LinkOf(h)] = "up",
           \/ ~ In(outbox'[LinkOf(position[v])], {"command"}, v)
           \/ wanted'[position[v]][v] = wanted[position[v]][v],
           \A j \in Link : In(inbox'[j], {"accept"}, v) =>
               \/ In(inbox[j], {"accept"}, v)
               \/ /\ j = LinkOf(j[1]) /\ Up(j[1])
                  /\ Ahead(outbox[j], {"release"}, {"request"}, v) => ~ In(outbox'[j], {"release"}, v)
    PROVE  Sound(v)'
<1> DEFINE p == position[v]
           k == LinkOf(p)
           t == thread[k]
           Clears(h) == phase'[<<h, current'[h]>>] = "up"
                            => ~ In(outbox'[<<h, current'[h]>>], {"release"}, v)
<1> SUFFICES /\ Clears(p)
             /\ (In(outbox'[k], {"command"}, v) /\ wanted'[p][v] # None) => Clears(wanted'[p][v])
             /\ (Serves(t, {"answering"}, v) /\ t.alone /\ t.got.kind = "accept") => Clears(t.to)
             /\ (Serves(t, {"waiting"}, v) /\ t.alone) =>
                   /\ slot[t.via].reply.kind = "accept" => Clears(t.to)
                   /\ \A j \in Link : (j[1] = t.to /\ In(inbox'[j], {"accept"}, v)) => Clears(t.to)
                   /\ phase'[<<t.to, current'[t.to]>>] = "up" =>
                         Ahead(outbox'[<<t.to, current'[t.to]>>], {"release"}, {"request"}, v)
  BY SMTT(30) DEF Sound, Clear, Unreleased, Up, LinkOf
<1>1. p \in Gnb /\ k \in Link
  BY FirstLink DEF LinkOf, HandoverTypeOK
<1>2. /\ Clear(p, v)
      /\ (In(outbox[k], {"command"}, v) /\ wanted[p][v] # None) => Clear(wanted[p][v], v)
      /\ (Serves(t, {"answering"}, v) /\ t.alone /\ t.got.kind = "accept") => Clear(t.to, v)
      /\ (Serves(t, {"waiting"}, v) /\ t.alone) => Unreleased(t, v)
  BY DEF Sound
<1>3. \/ ~ In(outbox'[k], {"command"}, v)
      \/ wanted'[p][v] = wanted[p][v]
  OBVIOUS
<1>4. (t.at \in {"waiting", "answering"} => t.to \in Gnb)
      /\ (wanted[p][v] # None => wanted[p][v] \in Gnb)
  BY <1>1, TaskFields DEF HandoverTypeOK
<1> HIDE DEF k, p, t
<1>5. ASSUME NEW h \in Gnb, Clear(h, v) PROVE Clears(h)
  <2>1. CASE outbox'[<<h, current'[h]>>] = <<>>
    BY <2>1, QueueEmpty
  <2>2. CASE current'[h] = current[h] /\ phase[LinkOf(h)] = "up"
    <3>1. <<h, current'[h]>> = LinkOf(h) /\ LinkOf(h) \in Link /\ ~ In(outbox[LinkOf(h)], {"release"}, v)
      BY <1>5, <2>2 DEF LinkOf, Clear, Up
    <3> QED BY <3>1, GnbReads
  <2> QED BY <2>1, <2>2
<1>6. Clears(p)
  BY <1>1, <1>2, <1>5
<1>7. ASSUME In(outbox'[k], {"command"}, v), wanted'[p][v] # None PROVE Clears(wanted'[p][v])
  <2>1. In(outbox[k], {"command"}, v)
    BY <1>1, <1>7, GnbReads
  <2> QED BY <1>2, <1>3, <1>4, <1>5, <1>7, <2>1
<1>8. ASSUME Serves(t, {"answering"}, v), t.alone, t.got.kind = "accept" PROVE Clears(t.to)
  <2>1. t.to \in Gnb /\ Clear(t.to, v)
    BY <1>2, <1>4, <1>8 DEF Serves
  <2> QED BY <1>5, <2>1
<1>9. ASSUME Serves(t, {"waiting"}, v), t.alone
      PROVE  /\ slot[t.via].reply.kind = "accept" => Clears(t.to)
             /\ \A j \in Link : (j[1] = t.to /\ In(inbox'[j], {"accept"}, v)) => Clears(t.to)
             /\ phase'[<<t.to, current'[t.to]>>] = "up" =>
                   Ahead(outbox'[<<t.to, current'[t.to]>>], {"release"}, {"request"}, v)
  <2>1. t.to \in Gnb /\ Unreleased(t, v)
    BY <1>2, <1>4, <1>9 DEF Serves
  <2>2. slot[t.via].reply.kind = "accept" => Clears(t.to)
    BY <1>5, <2>1 DEF Unreleased
  <2>3. ASSUME NEW j \in Link, j[1] = t.to, In(inbox'[j], {"accept"}, v) PROVE Clears(t.to)
    <3>1. CASE In(inbox[j], {"accept"}, v)
      BY <1>5, <2>1, <2>3, <3>1 DEF Unreleased
    <3>2. CASE /\ j = LinkOf(j[1]) /\ Up(j[1])
               /\ Ahead(outbox[j], {"release"}, {"request"}, v) => ~ In(outbox'[j], {"release"}, v)
      <4>1. ~ In(outbox'[j], {"release"}, v)
        BY <2>1, <2>3, <3>2 DEF Unreleased
      <4>2. CASE outbox'[<<t.to, current'[t.to]>>] = <<>>
        BY <4>2, QueueEmpty
      <4>3. CASE current'[t.to] = current[t.to]
        BY <2>3, <3>2, <4>1, <4>3 DEF LinkOf
      <4> QED BY <2>1, <4>2, <4>3
    <3> QED BY <2>3, <3>1, <3>2
  <2>4. ASSUME phase'[<<t.to, current'[t.to]>>] = "up"
        PROVE  Ahead(outbox'[<<t.to, current'[t.to]>>], {"release"}, {"request"}, v)
    <3>1. CASE outbox'[<<t.to, current'[t.to]>>] = <<>>
      BY <3>1, QueueEmpty
    <3>2. CASE current'[t.to] = current[t.to] /\ phase[LinkOf(t.to)] = "up"
      <4>1. /\ <<t.to, current'[t.to]>> = LinkOf(t.to) /\ LinkOf(t.to) \in Link
            /\ Ahead(outbox[LinkOf(t.to)], {"release"}, {"request"}, v)
        BY <2>1, <3>2 DEF LinkOf, Unreleased, Up
      <4> QED BY <4>1, GnbReads
    <3> QED BY <2>1, <2>4, <3>1, <3>2
  <2> QED BY <2>2, <2>3, <2>4
<1> QED BY <1>6, <1>7, <1>8, <1>9

\* A message of a gNB other than a new handover.
LEMMA TellsOnly ==
    ASSUME HandoverTypeOK, NEW g \in Gnb, NEW kind \in {"accept", "refuse", "complete", "cancel", "notify"},
           NEW u \in Ue,
           inbox' = ToTheAmf(g, kind, u, None), NEW k \in Link, NEW v
    PROVE  /\ In(inbox'[k], {"cancel"}, v) =>
                 In(inbox[k], {"cancel"}, v) \/ (kind = "cancel" /\ u = v)
           /\ \A to : Asks(inbox[k], v, to) => Asks(inbox'[k], v, to)
           /\ In(inbox'[k], {"accept"}, v) =>
                 In(inbox[k], {"accept"}, v) \/ (kind = "accept" /\ k = LinkOf(g) /\ u = v)
<1> DEFINE l == LinkOf(g)
           m == Message(kind, u, None)
<1>1. /\ l \in Link /\ inbox[l] \in Seq(ToAmf) /\ Told(inbox, inbox', l, m) /\ m \in ToAmf
  BY AmfMessages, TellsAt
<1>2. \A kinds : Is(m, kinds, v) <=> kind \in kinds /\ u = v
  BY IsMessage
<1> HIDE DEF l, m
<1>3. CASE k = l
  <2>1. inbox'[k] = Append(inbox[k], m) /\ \A kinds : In(inbox'[k], kinds, v) <=> In(inbox[k], kinds, v) \/ Is(m, kinds, v)
    BY <1>1, <1>3 DEF Told
  <2>2. \A to : Asks(inbox[k], v, to) => Asks(inbox'[k], v, to)
    BY <1>1, <1>2, <1>3, <2>1, AsksQueue
  <2> QED BY <1>2, <1>3, <2>1, <2>2 DEF l
<1>4. CASE k # l
  <2>1. inbox'[k] = inbox[k]
    BY <1>1, <1>4 DEF Told
  <2> QED BY <2>1
<1> QED BY <1>3, <1>4

\* The steps of a gNB that ask for nothing, cancel nothing and let no UE arrive.
LEMMA QuietReleases ==
    ASSUME ReleaseInv, HandoverTypeOK', NEW g \in Gnb, NEW u \in Ue, Awake(g), cancelled' = cancelled,
           \A k \in Link, v \in Ue : In(inbox'[k], {"cancel"}, v) => In(inbox[k], {"cancel"}, v),
           \A k \in Link, v \in Ue : \A to : Asks(inbox[k], v, to) => Asks(inbox'[k], v, to),
           \A k \in Link, v \in Ue : In(inbox'[k], {"accept"}, v) =>
               \/ In(inbox[k], {"accept"}, v)
               \/ /\ k = LinkOf(k[1]) /\ Up(k[1])
                  /\ Ahead(outbox[k], {"release"}, {"request"}, v) => ~ In(outbox'[k], {"release"}, v),
           wanted' \in {wanted, [wanted EXCEPT ![g][u] = None]},
           \A v \in Ue : position'[v] = position[v] \/ position'[v] = None,
           \/ wanted' = wanted
           \/ ~ Preparing(inbox'[LinkOf(g)], outbox'[LinkOf(g)], thread'[LinkOf(g)], u)
           \/ position[u] # g \/ position'[u] = None
    PROVE  CancelsSent' /\ AimsRight' /\ ReleasesBehind'
<1>0. /\ HandoverTypeOK /\ CancelsSent /\ AimsRight /\ ReleasesBehind /\ GnbStep(g)
      /\ UNCHANGED <<phase, current, thread, slot, misled>>
  BY GnbBoxes DEF ReleaseInv, RelayInv, GnbStep, Awake
<1>1. CancelsSent'
  BY <1>0 DEF CancelsSent
<1>2. ASSUME NEW v \in Ue, position'[v] # None
      PROVE  LET k == LinkOf(position[v]) IN
             /\ position'[v] = position[v] /\ position[v] # None
             /\ \/ ~ Preparing(inbox'[k], outbox'[k], thread'[k], v)
                \/ wanted'[position[v]][v] = wanted[position[v]][v]
  <2>1. position'[v] = position[v] /\ position[v] \in Gnb
    BY <1>0, <1>2 DEF HandoverTypeOK
  <2>2. CASE v = u /\ position[v] = g
    BY <1>2, <2>1, <2>2
  <2>3. CASE v # u \/ position[v] # g
    <3>1. wanted'[position[v]][v] = wanted[position[v]][v]
      BY <1>0, <2>1, <2>3 DEF HandoverTypeOK
    <3> QED BY <1>2, <2>1, <3>1
  <2> QED BY <2>2, <2>3
<1>3. \A h \in Gnb : LinkOf(h) \in Link
  BY <1>0, FirstLink DEF LinkOf, HandoverTypeOK
<1>4. AimsRight'
  <2> SUFFICES ASSUME NEW v \in Ue, position'[v] # None
               PROVE  LET k == <<position'[v], current'[position'[v]]>> IN
                      Names(inbox'[k], thread'[k], v, wanted'[position'[v]][v])
    BY DEF AimsRight, LinkOf
  <2>1. LinkOf(position[v]) \in Link
    BY <1>0, <1>2, <1>3 DEF HandoverTypeOK
  <2> QED BY <1>0, <1>2, <2>1, NamesKept
<1>5. ReleasesBehind'
  <2> SUFFICES ASSUME NEW v \in Ue, position'[v] # None, v \notin cancelled, v \notin misled
               PROVE  Sound(v)'
    BY <1>0 DEF ReleasesBehind
  <2>1. Sound(v)
    BY <1>0, <1>2 DEF ReleasesBehind
  <2>2. \/ ~ In(outbox'[LinkOf(position[v])], {"command"}, v)
        \/ wanted'[position[v]][v] = wanted[position[v]][v]
    BY <1>2 DEF Preparing, In, Is
  <2>3. \A h \in Gnb : <<h, current'[h]>> = LinkOf(h)
    BY <1>0 DEF LinkOf
  <2>4. \A h \in Gnb : /\ <<h, current'[h]>> \in Link
                       /\ phase'[<<h, current'[h]>>] = "up" =>
                             \/ outbox'[<<h, current'[h]>>] = <<>>
                             \/ current'[h] = current[h] /\ phase[LinkOf(h)] = "up"
    BY <1>0, <1>3, <2>3
  <2> QED BY <1>0, <1>2, <2>1, <2>2, <2>4, SoundKept
<1> QED BY <1>1, <1>4, <1>5

\* What a gNB adds to its queue keeps the target asked for.
LEMMA AsksAppend ==
    ASSUME NEW s \in Seq(ToAmf), NEW m \in ToAmf, NEW u, NEW to, Asks(s, u, to),
           Is(m, {"required"}, u) => m.to = to
    PROVE  Asks(Append(s, m), u, to)
  BY AsksQueue

\* What the AMF prepares is what the gNB has just asked for.
LEMMA AskReleases ==
    ASSUME ReleaseInv, HandoverTypeOK', NEW g \in Gnb, NEW u \in Ue, NEW to \in Gnb, Ask(g, u, to)
    PROVE  CancelsSent' /\ AimsRight' /\ ReleasesBehind'
<1> DEFINE l == LinkOf(g)
           m == Message("required", u, to)
<1>0. /\ OrderInv /\ HandoverTypeOK /\ CancelsSent /\ AimsRight /\ ReleasesBehind /\ GnbStep(g)
      /\ UNCHANGED <<phase, current, thread, slot, misled, cancelled, position, outbox>>
      /\ wanted' = [wanted EXCEPT ![g][u] = to] /\ position[u] = g
      /\ inbox' = ToTheAmf(g, "required", u, to) /\ m \in ToAmf
  BY AmfMessages DEF ReleaseInv, RelayInv, GnbStep, Ask, amfVars
<1>1. /\ l \in Link /\ inbox[l] \in Seq(ToAmf) /\ Told(inbox, inbox', l, m) /\ ~ PreparingAt(l, u)
  BY <1>0, TellsAt, AskKeeps
<1>2. /\ \A kinds, v : Is(m, kinds, v) <=> "required" \in kinds /\ u = v
      /\ m.to = to
  BY IsMessage DEF Message
<1> HIDE DEF l, m
<1>3. ASSUME NEW k \in Link, NEW v
      PROVE  /\ In(inbox'[k], {"cancel"}, v) => In(inbox[k], {"cancel"}, v)
             /\ In(inbox'[k], {"accept"}, v) => In(inbox[k], {"accept"}, v)
             /\ v # u => \A h : Asks(inbox[k], v, h) => Asks(inbox'[k], v, h)
  <2>1. CASE k = l
    <3>1. /\ inbox'[k] = Append(inbox[k], m)
          /\ \A kinds : In(inbox'[k], kinds, v) <=> In(inbox[k], kinds, v) \/ Is(m, kinds, v)
      BY <1>1, <2>1 DEF Told
    <3>2. v # u => \A h : Asks(inbox[k], v, h) => Asks(inbox'[k], v, h)
      <4> SUFFICES ASSUME v # u, NEW h, Asks(inbox[k], v, h) PROVE Asks(Append(inbox[k], m), v, h)
        BY <3>1
      <4>1. ~ Is(m, {"required"}, v)
        BY <1>2
      <4> QED BY <1>0, <1>1, <2>1, <4>1, AsksAppend
    <3> QED BY <1>2, <3>1, <3>2
  <2>2. CASE k # l
    <3>1. inbox'[k] = inbox[k]
      BY <1>1, <2>2 DEF Told
    <3> QED BY <3>1
  <2> QED BY <2>1, <2>2
<1>4. CancelsSent'
  BY <1>0, <1>3 DEF CancelsSent
<1>5. \A h \in Gnb, v \in Ue : v # u => wanted'[h][v] = wanted[h][v]
  BY <1>0 DEF HandoverTypeOK
<1>6. \A h \in Gnb : LinkOf(h) \in Link /\ <<h, current'[h]>> = LinkOf(h)
  BY <1>0, FirstLink DEF LinkOf, HandoverTypeOK
<1>7. AimsRight'
  <2> SUFFICES ASSUME NEW v \in Ue, position[v] # None
               PROVE  LET k == <<position'[v], current'[position'[v]]>> IN
                      Names(inbox'[k], thread'[k], v, wanted'[position'[v]][v])
    BY <1>0 DEF AimsRight, LinkOf
  <2>1. position[v] \in Gnb /\ LinkOf(position[v]) \in Link
    BY <1>0, <1>6 DEF HandoverTypeOK
  <2>2. CASE v = u
    <3>1. Asks(inbox[l], u, to) /\ (Is(m, {"required"}, u) => m.to = to)
      <4>1. ~ In(inbox[l], {"required"}, u)
        BY <1>1 DEF PreparingAt, Preparing
      <4> QED BY <1>1, <1>2, <4>1, AsksQueue
    <3>2. Asks(inbox'[l], u, to)
      <4>1. inbox'[l] = Append(inbox[l], m)
        BY <1>1 DEF Told
      <4> QED BY <1>0, <1>1, <3>1, <4>1, AsksAppend
    <3>3. ~ Serves(thread[l], {"waiting", "answering"}, u)
      BY <1>1 DEF PreparingAt, Preparing
    <3>4. <<position'[v], current'[position'[v]]>> = l /\ wanted'[position'[v]][v] = to /\ thread' = thread
      BY <1>0, <1>6, <2>2 DEF l, HandoverTypeOK
    <3>5. Names(inbox'[l], thread[l], u, to)
      BY <3>2, <3>3 DEF Names, Asks
    <3> QED BY <2>2, <3>4, <3>5
  <2>3. CASE v # u
    <3>1. /\ wanted'[position[v]][v] = wanted[position[v]][v]
          /\ \A h : Asks(inbox[LinkOf(position[v])], v, h) => Asks(inbox'[LinkOf(position[v])], v, h)
      BY <1>3, <1>5, <2>1, <2>3
    <3> QED BY <1>0, <2>1, <3>1, NamesKept
  <2> QED BY <2>2, <2>3
<1>8. ReleasesBehind'
  <2> SUFFICES ASSUME NEW v \in Ue, position[v] # None, v \notin cancelled, v \notin misled
               PROVE  Sound(v)'
    BY <1>0 DEF ReleasesBehind
  <2>1. Sound(v) /\ position[v] \in Gnb
    BY <1>0 DEF ReleasesBehind, HandoverTypeOK
  <2>2. \/ ~ In(outbox'[LinkOf(position[v])], {"command"}, v)
        \/ wanted'[position[v]][v] = wanted[position[v]][v]
    <3>1. ~ In(outbox[l], {"command"}, u)
      BY <1>1 DEF PreparingAt, Preparing, In, Is
    <3> QED BY <1>0, <1>5, <2>1, <3>1 DEF l
  <2>3. \A h \in Gnb : /\ <<h, current'[h]>> \in Link
                       /\ phase'[<<h, current'[h]>>] = "up" =>
                             \/ outbox'[<<h, current'[h]>>] = <<>>
                             \/ current'[h] = current[h] /\ phase[LinkOf(h)] = "up"
    BY <1>0, <1>6
  <2>4. \A j \in Link : In(inbox'[j], {"accept"}, v) => In(inbox[j], {"accept"}, v)
    BY <1>3
  <2> QED BY <1>0, <2>1, <2>2, <2>3, <2>4, SoundKept
<1> QED BY <1>4, <1>7, <1>8

\* A UE arrives at a gNB that is not told to release it.
LEMMA ArriveReleases ==
    ASSUME ReleaseInv, HandoverTypeOK', NEW g \in Gnb, NEW u \in Ue, Outcome(g, u),
           Hears(g, "command", u), Arrive(g, u), wanted[g][u] # None
    PROVE  CancelsSent' /\ AimsRight' /\ ReleasesBehind'
<1> DEFINE to == wanted[g][u]
           l == LinkOf(to)
           m == Message("notify", u, None)
<1>0. /\ OrderInv /\ HandoverTypeOK /\ CancelsSent /\ AimsRight /\ ReleasesBehind /\ GnbStep(g)
      /\ UNCHANGED <<phase, current, thread, slot, misled, cancelled, wanted>>
      /\ to \in Gnb /\ position' = [position EXCEPT ![u] = to] /\ position[u] = g /\ g # None
      /\ inbox' = ToTheAmf(to, "notify", u, None) /\ m \in ToAmf
  <2>1. OrderInv /\ HandoverTypeOK /\ CancelsSent /\ AimsRight /\ ReleasesBehind /\ GnbStep(g)
    BY DEF ReleaseInv, RelayInv, GnbStep
  <2>2. UNCHANGED <<phase, current, thread, slot, misled, cancelled>>
    BY DEF Outcome, amfVars, historyVars
  <2>3. wanted' = wanted
    <3>1. ~ Hears(g, "failure", u)
      BY DEF Hears, Message
    <3> QED BY <3>1 DEF Outcome
  <2>4. to \in Gnb /\ position[u] = g /\ g # None /\ m \in ToAmf
    BY <2>1, AmfMessages, HandoverAssumption DEF Arrive, HandoverTypeOK
  <2>5. position' = [position EXCEPT ![u] = to] /\ inbox' = ToTheAmf(to, "notify", u, None)
    BY DEF Arrive
  <2> QED BY <2>1, <2>2, <2>3, <2>4, <2>5
<1>1. /\ l \in Link /\ inbox[l] \in Seq(ToAmf) /\ Told(inbox, inbox', l, m)
  BY <1>0, TellsAt
<1>2. \A kinds, v : Is(m, kinds, v) <=> "notify" \in kinds /\ u = v
  BY IsMessage
<1>a. \A k \in Link : ~ Preparing(inbox'[k], outbox'[k], thread'[k], u)
  <2> HIDE DEF m
  <2> QED BY <1>0, ArriveKeeps
<1>b. /\ LinkOf(g) \in Link /\ In(outbox[LinkOf(g)], {"command"}, u)
  <2>1. /\ LinkOf(g) \in Link /\ outbox[LinkOf(g)] \in Seq(ToGnb) /\ outbox[LinkOf(g)] # <<>>
        /\ Head(outbox[LinkOf(g)]) = Message("command", u, None)
    BY <1>0, FirstLink, AtLink DEF Hears, LinkOf, HandoverTypeOK
  <2>2. Is(Head(outbox[LinkOf(g)]), {"command"}, u)
    BY <2>1, IsMessage
  <2> QED BY <2>1, <2>2, QueueTail
<1> HIDE DEF to, l, m
<1>3. ASSUME NEW k \in Link, NEW v
      PROVE  /\ In(inbox'[k], {"cancel"}, v) => In(inbox[k], {"cancel"}, v)
             /\ In(inbox'[k], {"accept"}, v) => In(inbox[k], {"accept"}, v)
             /\ \A h : Asks(inbox[k], v, h) => Asks(inbox'[k], v, h)
  BY <1>0, TellsOnly
<1>4. CancelsSent'
  BY <1>0, <1>3 DEF CancelsSent
<1>5. /\ \A h \in Gnb : LinkOf(h) \in Link /\ <<h, current'[h]>> = LinkOf(h)
      /\ position'[u] = to /\ \A v \in Ue \ {u} : position'[v] = position[v]
  BY <1>0, FirstLink DEF LinkOf, HandoverTypeOK
<1>6. AimsRight'
  <2> SUFFICES ASSUME NEW v \in Ue, position'[v] # None
               PROVE  LET k == <<position'[v], current'[position'[v]]>> IN
                      Names(inbox'[k], thread'[k], v, wanted'[position'[v]][v])
    BY DEF AimsRight, LinkOf
  <2>1. CASE v = u
    <3>1. ~ Preparing(inbox'[l], outbox'[l], thread'[l], u) /\ <<position'[v], current'[position'[v]]>> = l
      BY <1>0, <1>1, <1>5, <1>a, <2>1 DEF l
    <3> QED BY <2>1, <3>1 DEF Preparing, Names, In
  <2>2. CASE v # u
    <3>1. position[v] \in Gnb /\ position'[v] = position[v] /\ position[v] # None
      BY <1>0, <1>5, <2>2 DEF HandoverTypeOK
    <3>2. /\ wanted'[position[v]][v] = wanted[position[v]][v]
          /\ \A h : Asks(inbox[LinkOf(position[v])], v, h) => Asks(inbox'[LinkOf(position[v])], v, h)
      BY <1>0, <1>3, <1>5, <3>1
    <3> QED BY <1>0, <3>1, <3>2, NamesKept
  <2> QED BY <2>1, <2>2
<1>7. ReleasesBehind'
  <2> SUFFICES ASSUME NEW v \in Ue, position'[v] # None, v \notin cancelled, v \notin misled
               PROVE  Sound(v)'
    BY <1>0 DEF ReleasesBehind
  <2>1. CASE v = u
    <3>1. Clear(to, u)
      BY <1>0, <1>b, <2>1 DEF ReleasesBehind, Sound, to
    <3>2. ~ (phase'[l] = "up" /\ In(outbox'[l], {"release"}, u))
      BY <1>0, <1>1, <3>1, GnbReads DEF Clear, Up, l
    <3>3. /\ ~ In(outbox'[l], {"command"}, u) /\ ~ Serves(thread'[l], {"answering"}, u)
          /\ ~ Serves(thread'[l], {"waiting"}, u)
      BY <1>1, <1>a DEF Preparing, In, Is, Serves
    <3>4. <<position'[v], current'[position'[v]]>> = l
      BY <1>0, <1>5, <2>1 DEF l
    <3> QED BY <2>1, <3>2, <3>3, <3>4 DEF Sound, Clear, Up, LinkOf
  <2>2. CASE v # u
    <3>1. position[v] \in Gnb /\ position'[v] = position[v] /\ position[v] # None
      BY <1>0, <1>5, <2>2 DEF HandoverTypeOK
    <3>2. Sound(v) /\ wanted'[position[v]][v] = wanted[position[v]][v]
      BY <1>0, <3>1 DEF ReleasesBehind
    <3>3. \A h \in Gnb : /\ <<h, current'[h]>> \in Link
                         /\ phase'[<<h, current'[h]>>] = "up" =>
                               \/ outbox'[<<h, current'[h]>>] = <<>>
                               \/ current'[h] = current[h] /\ phase[LinkOf(h)] = "up"
      BY <1>0, <1>5
    <3>4. \A j \in Link : In(inbox'[j], {"accept"}, v) => In(inbox[j], {"accept"}, v)
      BY <1>3
    <3>5. current'[position[v]] = current[position[v]]
      BY <1>0
    <3> QED BY <1>0, <3>1, <3>2, <3>3, <3>4, <3>5, SoundKept
  <2> QED BY <2>1, <2>2
<1> QED BY <1>4, <1>6, <1>7

\* A cancel only adds to the UEs whose handover a gNB has cancelled.
LEMMA SendCancelReleases ==
    ASSUME ReleaseInv, HandoverTypeOK', NEW g \in Gnb, NEW u \in Ue, SendCancel(g, u)
    PROVE  CancelsSent' /\ AimsRight' /\ ReleasesBehind'
<1>0. /\ HandoverTypeOK /\ CancelsSent /\ AimsRight /\ ReleasesBehind /\ GnbStep(g)
      /\ UNCHANGED <<phase, current, thread, slot, misled, position, wanted, outbox>>
      /\ cancelled' = cancelled \union {u} /\ inbox' = ToTheAmf(g, "cancel", u, None)
  BY DEF ReleaseInv, RelayInv, GnbStep, SendCancel, amfVars
<1>1. \A h \in Gnb : LinkOf(h) \in Link /\ <<h, current'[h]>> = LinkOf(h)
  BY <1>0, FirstLink DEF LinkOf, HandoverTypeOK
<1>2. ASSUME NEW k \in Link, NEW v
      PROVE  /\ In(inbox'[k], {"cancel"}, v) => In(inbox[k], {"cancel"}, v) \/ u = v
             /\ \A to : Asks(inbox[k], v, to) => Asks(inbox'[k], v, to)
             /\ In(inbox'[k], {"accept"}, v) => In(inbox[k], {"accept"}, v)
  BY <1>0, TellsOnly
<1>3. CancelsSent'
  BY <1>0, <1>2 DEF CancelsSent
<1>4. AimsRight'
  <2> SUFFICES ASSUME NEW v \in Ue, position[v] # None
               PROVE  LET k == <<position'[v], current'[position'[v]]>> IN
                      Names(inbox'[k], thread'[k], v, wanted'[position'[v]][v])
    BY <1>0 DEF AimsRight, LinkOf
  <2>1. LinkOf(position[v]) \in Link
    BY <1>0, <1>1 DEF HandoverTypeOK
  <2>2. /\ wanted'[position[v]][v] = wanted[position[v]][v]
        /\ \A h : Asks(inbox[LinkOf(position[v])], v, h) => Asks(inbox'[LinkOf(position[v])], v, h)
    BY <1>0, <1>2, <2>1
  <2> QED BY <1>0, <2>2, NamesKept
<1>5. ReleasesBehind'
  <2> SUFFICES ASSUME NEW v \in Ue, position[v] # None, v \notin cancelled, v \notin misled
               PROVE  Sound(v)'
    BY <1>0 DEF ReleasesBehind
  <2>1. Sound(v) /\ position[v] \in Gnb /\ wanted'[position[v]][v] = wanted[position[v]][v]
    BY <1>0 DEF ReleasesBehind, HandoverTypeOK
  <2>2. \A h \in Gnb : /\ <<h, current'[h]>> \in Link
                       /\ phase'[<<h, current'[h]>>] = "up" =>
                             \/ outbox'[<<h, current'[h]>>] = <<>>
                             \/ current'[h] = current[h] /\ phase[LinkOf(h)] = "up"
    BY <1>0, <1>1
  <2>3. \A j \in Link : In(inbox'[j], {"accept"}, v) => In(inbox[j], {"accept"}, v)
    BY <1>2
  <2> QED BY <1>0, <2>1, <2>2, <2>3, SoundKept
<1> QED BY <1>3, <1>4, <1>5

\* A gNB that dies, or connects again, serves no UE and is told nothing.
LEMMA RestartReleases ==
    ASSUME ReleaseInv, HandoverTypeOK', NEW g \in Gnb, Crash(g) \/ Setup(g)
    PROVE  CancelsSent' /\ AimsRight' /\ ReleasesBehind'
<1>0. /\ OrderInv /\ HandoverTypeOK /\ CancelsSent /\ AimsRight /\ ReleasesBehind /\ GnbStep(g)
      /\ UNCHANGED <<inbox, thread, slot, misled, cancelled>>
  BY DEF ReleaseInv, RelayInv, GnbStep, Crash, Setup, amfVars, historyVars
<1>1. \A h \in Gnb : LinkOf(h) \in Link /\ (h # g => LinkOf(h) # LinkOf(g))
  BY <1>0, FirstLink DEF LinkOf, HandoverTypeOK
<1>2. ASSUME NEW h \in Gnb
      PROVE  /\ <<h, current'[h]>> \in Link
             /\ phase'[<<h, current'[h]>>] = "up" =>
                   \/ outbox'[<<h, current'[h]>>] = <<>>
                   \/ current'[h] = current[h] /\ phase[LinkOf(h)] = "up"
             /\ h # g => current'[h] = current[h] /\ wanted'[h] = wanted[h]
  <2>1. CASE Crash(g)
    <3>1. /\ current' = current /\ wanted' = [wanted EXCEPT ![g] = [u \in Ue |-> None]]
          /\ phase' = [phase EXCEPT ![LinkOf(g)] = "down"]
      BY <2>1 DEF Crash
    <3>2. <<h, current'[h]>> = LinkOf(h)
      BY <3>1 DEF LinkOf
    <3>3. phase'[LinkOf(h)] = "up" => phase[LinkOf(h)] = "up"
      BY <1>0, <1>1, <3>1 DEF HandoverTypeOK
    <3>4. h # g => wanted'[h] = wanted[h]
      BY <1>0, <3>1 DEF HandoverTypeOK
    <3> QED BY <1>1, <3>1, <3>2, <3>3, <3>4
  <2>2. CASE Setup(g)
    <3> DEFINE n == current[g] + 1
    <3>1. /\ current' = [current EXCEPT ![g] = n] /\ phase' = [phase EXCEPT ![<<g, n>>] = "up"]
          /\ UNCHANGED <<outbox, wanted>>
      BY <2>2 DEF Setup
    <3>2. n > current[g] /\ n \in 1 .. MaxLinks
      BY <1>0, <2>2, HandoverAssumption DEF Setup, HandoverTypeOK
    <3> HIDE DEF n
    <3>3. <<g, n>> \in Link /\ outbox[<<g, n>>] = <<>>
      <4>1. <<g, n>>[1] = g /\ <<g, n>>[2] = n /\ <<g, n>> \in Link
        BY <3>2, FirstLink
      <4> QED BY <1>0, <3>2, <4>1 DEF OrderInv, LinksInOrder
    <3>4. CASE h = g
      BY <1>0, <3>1, <3>3, <3>4 DEF HandoverTypeOK
    <3>5. CASE h # g
      <4>1. current'[h] = current[h]
        BY <1>0, <3>1, <3>5 DEF HandoverTypeOK
      <4>2. <<h, current'[h]>> = LinkOf(h) /\ LinkOf(h) # <<g, n>>
        BY <3>5, <4>1 DEF LinkOf
      <4>3. phase'[LinkOf(h)] = phase[LinkOf(h)]
        BY <1>0, <1>1, <3>1, <4>2 DEF HandoverTypeOK
      <4> QED BY <1>1, <3>1, <4>1, <4>2, <4>3
    <3> QED BY <3>4, <3>5
  <2> QED BY <2>1, <2>2
<1>3. ASSUME NEW v \in Ue, position'[v] # None
      PROVE  /\ position'[v] = position[v] /\ position[v] \in Gnb \ {g} /\ position[v] # None
             /\ current'[position[v]] = current[position[v]]
             /\ wanted'[position[v]][v] = wanted[position[v]][v]
             /\ LinkOf(position[v]) \in Link
  <2>1. position'[v] = position[v] /\ position[v] \in Gnb \ {g}
    <3>1. CASE Crash(g)
      BY <1>0, <1>3, <3>1 DEF Crash, HandoverTypeOK
    <3>2. CASE Setup(g)
      BY <1>0, <1>3, <3>2 DEF Setup, HandoverTypeOK, OrderInv, AllServed, Served
    <3> QED BY <3>1, <3>2
  <2> QED BY <1>1, <1>2, <1>3, <2>1
<1>4. CancelsSent'
  BY <1>0 DEF CancelsSent
<1>5. AimsRight'
  <2> SUFFICES ASSUME NEW v \in Ue, position'[v] # None
               PROVE  LET k == <<position'[v], current'[position'[v]]>> IN
                      Names(inbox'[k], thread'[k], v, wanted'[position'[v]][v])
    BY DEF AimsRight, LinkOf
  <2> QED BY <1>0, <1>3, NamesKept
<1>6. ReleasesBehind'
  <2> SUFFICES ASSUME NEW v \in Ue, position'[v] # None, v \notin cancelled, v \notin misled
               PROVE  Sound(v)'
    BY <1>0 DEF ReleasesBehind
  <2>1. Sound(v)
    BY <1>0, <1>3 DEF ReleasesBehind
  <2> QED BY <1>0, <1>2, <1>3, <2>1, SoundKept
<1> QED BY <1>4, <1>5, <1>6

\* The other steps of a gNB that stays up.
LEMMA AwakeReleases ==
    ASSUME ReleaseInv, HandoverTypeOK', NEW g \in Gnb, Awake(g)
    PROVE  CancelsSent' /\ AimsRight' /\ ReleasesBehind'
<1>0. HandoverTypeOK /\ OrderInv /\ LinesInOrder /\ UNCHANGED thread
  BY GnbBoxes DEF ReleaseInv, OrderInv
<1>1. PICK u \in Ue : \/ \E to \in Gnb : Ask(g, u, to)
                      \/ Allocate(g, u) \/ Outcome(g, u)
                      \/ SendCancel(g, u) \/ Cancelled(g, u) \/ Release(g, u)
  BY DEF Awake
<1> DEFINE Silent ==
               /\ \A k \in Link, v \in Ue : In(inbox'[k], {"cancel"}, v) => In(inbox[k], {"cancel"}, v)
               /\ \A k \in Link, v \in Ue : \A to : Asks(inbox[k], v, to) => Asks(inbox'[k], v, to)
           Accepts ==
               \A k \in Link, v \in Ue : In(inbox'[k], {"accept"}, v) =>
                   \/ In(inbox[k], {"accept"}, v)
                   \/ /\ k = LinkOf(k[1]) /\ Up(k[1])
                      /\ Ahead(outbox[k], {"release"}, {"request"}, v) => ~ In(outbox'[k], {"release"}, v)
<1>2. CASE \E to \in Gnb : Ask(g, u, to)
  BY <1>2, AskReleases
<1>3. CASE SendCancel(g, u)
  BY <1>3, SendCancelReleases
<1>4. CASE Allocate(g, u)
  <2>1. UNCHANGED <<wanted, position, cancelled>> /\ Hears(g, "request", u)
    BY <1>4 DEF Allocate, historyVars
  <2>2. PICK kind \in {"accept", "refuse"} : inbox' = ToTheAmf(g, kind, u, None)
    BY <1>4 DEF Allocate
  <2>3. Silent
    BY <1>0, <2>2, TellsOnly
  <2>4. /\ LinkOf(g) \in Link /\ LinkOf(g)[1] = g /\ Up(g)
        /\ Ahead(outbox[LinkOf(g)], {"release"}, {"request"}, u) => ~ In(outbox'[LinkOf(g)], {"release"}, u)
    <3> DEFINE k == LinkOf(g)
    <3>1. /\ k \in Link /\ phase[k] = "up" /\ outbox[k] # <<>> /\ outbox'[k] = Tail(outbox[k])
          /\ Head(outbox[k]) = Message("request", u, None)
      BY <1>0, <2>1, HearsKeeps
    <3>2. k[1] = g
      BY DEF LinkOf
    <3> HIDE DEF k
    <3>3. Is(Head(outbox[k]), {"request"}, u) /\ outbox[k] \in Seq(ToGnb)
      BY <1>0, <3>1, IsMessage, AtLink
    <3>4. Ahead(outbox[k], {"release"}, {"request"}, u) => ~ In(outbox'[k], {"release"}, u)
      BY <3>1, <3>3, QueueTail
    <3> QED BY <3>1, <3>2, <3>4 DEF k, Up
  <2>5. Accepts
    <3> SUFFICES ASSUME NEW k \in Link, NEW v \in Ue, In(inbox'[k], {"accept"}, v), ~ In(inbox[k], {"accept"}, v)
                 PROVE  /\ k = LinkOf(k[1]) /\ Up(k[1])
                        /\ Ahead(outbox[k], {"release"}, {"request"}, v) => ~ In(outbox'[k], {"release"}, v)
      OBVIOUS
    <3>1. k = LinkOf(g) /\ u = v
      BY <1>0, <2>2, TellsOnly
    <3> QED BY <2>4, <3>1
  <2> QED BY <2>1, <2>3, <2>5, QuietReleases
<1>5. ASSUME Silent, \A k \in Link, v \in Ue : In(inbox'[k], {"accept"}, v) => In(inbox[k], {"accept"}, v),
             cancelled' = cancelled,
             wanted' \in {wanted, [wanted EXCEPT ![g][u] = None]},
             \A v \in Ue : position'[v] = position[v] \/ position'[v] = None,
             \/ wanted' = wanted
             \/ ~ Preparing(inbox'[LinkOf(g)], outbox'[LinkOf(g)], thread'[LinkOf(g)], u)
             \/ position[u] # g \/ position'[u] = None
      PROVE  CancelsSent' /\ AimsRight' /\ ReleasesBehind'
  <2>1. Accepts
    BY <1>5
  <2> QED BY <1>5, <2>1, QuietReleases
<1>6. CASE Outcome(g, u)
  <2>1. cancelled' = cancelled
    BY <1>6 DEF Outcome, historyVars
  <2>2. CASE Hears(g, "command", u) /\ wanted[g][u] # None /\ Arrive(g, u)
    BY <1>6, <2>2, ArriveReleases
  <2>3. CASE UNCHANGED <<position, inbox, wanted>>
    BY <1>5, <2>1, <2>3
  <2>4. CASE /\ Hears(g, "failure", u) /\ UNCHANGED <<position, inbox>>
             /\ wanted' \in {wanted, [wanted EXCEPT ![g][u] = None]}
    <3>1. ~ Preparing(inbox[LinkOf(g)], outbox'[LinkOf(g)], thread[LinkOf(g)], u)
      BY <1>0, <2>4, HearsKeeps
    <3> QED BY <1>0, <1>5, <2>1, <2>4, <3>1
  <2> QED BY <1>6, <2>2, <2>3, <2>4 DEF Outcome
<1>7. CASE Cancelled(g, u)
  <2>1. /\ Hears(g, "cancelled", u) /\ UNCHANGED <<inbox, position, cancelled>>
        /\ wanted' = [wanted EXCEPT ![g][u] = None]
    BY <1>7 DEF Cancelled
  <2>2. ~ Preparing(inbox[LinkOf(g)], outbox'[LinkOf(g)], thread[LinkOf(g)], u)
    BY <1>0, <2>1, HearsKeeps
  <2> QED BY <1>0, <1>5, <2>1, <2>2
<1>8. CASE Release(g, u)
  <2>1. /\ wanted' = [wanted EXCEPT ![g][u] = None] /\ cancelled' = cancelled
        /\ inbox' = ToTheAmf(g, "complete", u, None)
        /\ \A v \in Ue : position'[v] = position[v] \/ position'[v] = None
        /\ position[u] # g \/ position'[u] = None
    BY <1>0, <1>8 DEF Release, HandoverTypeOK
  <2>2. Silent /\ \A k \in Link, v \in Ue : In(inbox'[k], {"accept"}, v) => In(inbox[k], {"accept"}, v)
    BY <1>0, <2>1, TellsOnly
  <2> QED BY <1>5, <2>1, <2>2
<1> QED BY <1>1, <1>2, <1>3, <1>4, <1>6, <1>7, <1>8

\* The one step that takes a UE from the gNB that serves it.
LEMMA ReleasedStep ==
    ASSUME ReleaseInv, NEW g \in Gnb, GnbStep(g)
    PROVE  ReleasedOnlyWhenCancelled'
<1>0. HandoverTypeOK /\ ReleasesBehind /\ ReleasedOnlyWhenCancelled
  BY DEF ReleaseInv, RelayInv
<1>1. cancelled \subseteq cancelled' /\ misled \subseteq misled'
  BY DEF GnbStep, Ask, Allocate, Outcome, SendCancel, Cancelled, Release, Crash, Setup, historyVars
<1>2. CASE released' = released
  BY <1>0, <1>1, <1>2 DEF ReleasedOnlyWhenCancelled
<1>3. ASSUME NEW u \in Ue, Release(g, u), released' = released \union {u}, position[u] = g
      PROVE  u \in cancelled \union misled
  <2> SUFFICES ASSUME u \notin cancelled \union misled PROVE FALSE
    OBVIOUS
  <2> DEFINE k == LinkOf(g)
  <2>1. /\ k \in Link /\ Up(g) /\ outbox[k] # <<>> /\ outbox[k] \in Seq(ToGnb)
        /\ Head(outbox[k]) = Message("release", u, None)
    BY <1>0, <1>3, AtLink, FirstLink DEF Release, Hears, LinkOf, HandoverTypeOK
  <2>2. g # None
    BY HandoverAssumption
  <2>3. ~ In(outbox[k], {"release"}, u)
    BY <1>0, <1>3, <2>1, <2>2 DEF ReleasesBehind, Sound, Clear
  <2> HIDE DEF k
  <2>4. Is(Head(outbox[k]), {"release"}, u)
    BY <2>1, IsMessage
  <2> QED BY <2>1, <2>3, <2>4, QueueTail
<1>4. CASE \E u \in Ue : Release(g, u) /\ released' = released \union {u} /\ position[u] = g
  BY <1>0, <1>1, <1>3, <1>4 DEF ReleasedOnlyWhenCancelled
<1> QED BY <1>2, <1>4 DEF GnbStep, Ask, Allocate, Outcome, SendCancel, Cancelled, Release, Crash, Setup,
               historyVars

\* The inductive invariant of the releases.
THEOREM ReleasesStayBehind == HandoverSpec => []ReleaseInv
<1>1. HandoverInit /\ OrderInv /\ RelayInv => ReleaseInv
  <2> SUFFICES ASSUME HandoverInit, OrderInv, RelayInv PROVE ReleaseInv
    OBVIOUS
  <2>1. /\ \A l \in Link : inbox[l] = <<>> /\ outbox[l] = <<>> /\ thread[l] = Reading
        /\ released = {}
    BY DEF HandoverInit
  <2>2. \A steps, u : "reading" \notin steps => ~ Serves(Reading, steps, u)
    BY DEF Serves, Reading
  <2>3. \A g \in Gnb : LinkOf(g) \in Link
    BY FirstLink DEF LinkOf, OrderInv, HandoverTypeOK
  <2>4. \A u \in Ue : position[u] \in Gnb
    BY HandoverAssumption DEF HandoverInit
  <2>5. CancelsSent /\ AimsRight
    BY <2>1, <2>2, <2>3, <2>4, QueueEmpty DEF CancelsSent, AimsRight, Names
  <2>6. ReleasesBehind
    BY <2>1, <2>2, <2>3, <2>4, QueueEmpty DEF ReleasesBehind, Sound, Clear
  <2> QED BY <2>1, <2>5, <2>6 DEF ReleaseInv, ReleasedOnlyWhenCancelled
<1>2. ReleaseInv /\ OrderInv' /\ RelayInv' /\ [HandoverNext]_handoverVars => ReleaseInv'
  <2> SUFFICES ASSUME ReleaseInv, OrderInv', RelayInv', [HandoverNext]_handoverVars PROVE ReleaseInv'
    OBVIOUS
  <2>0. HandoverTypeOK' /\ HandoverTypeOK
    BY DEF OrderInv, ReleaseInv
  <2>1. CASE UNCHANGED handoverVars
    <3>1. CancelsSent' /\ AimsRight' /\ ReleasedOnlyWhenCancelled'
      BY <2>1 DEF handoverVars, linkVars, amfVars, ranVars, historyVars, ReleaseInv, CancelsSent, AimsRight,
                  ReleasedOnlyWhenCancelled, Up, LinkOf
    <3>2. ReleasesBehind'
      BY <2>1, SMTT(30) DEF handoverVars, linkVars, amfVars, ranVars, historyVars, ReleaseInv, ReleasesBehind,
                            Sound, Unreleased, Clear, Up, LinkOf
    <3> QED BY <3>1, <3>2 DEF ReleaseInv
  <2>2. ASSUME NEW l \in Link, ThreadStep(l) PROVE ReleaseInv'
    <3>1. CancelsSent' /\ AimsRight' /\ ReleasesBehind'
      BY <2>0, <2>2, ThreadCancels, ThreadAims, ThreadReleases DEF ReleaseInv
    <3>2. ReleasedOnlyWhenCancelled'
      <4>1. UNCHANGED <<released, cancelled>>
        BY <2>0, <2>2, ThreadLeaves
      <4>2. misled \subseteq misled'
        BY <2>2 DEF ThreadStep, Required, Deliver, Take, TimeOut, Refuse, Command, Cancel, CallOff,
                    Notify, Repoint, Complete, Close, historyVars
      <4> QED BY <4>1, <4>2 DEF ReleaseInv, ReleasedOnlyWhenCancelled
    <3> QED BY <3>1, <3>2 DEF ReleaseInv
  <2>3. ASSUME NEW g \in Gnb, GnbStep(g) PROVE ReleaseInv'
    <3>1. Awake(g) \/ Crash(g) \/ Setup(g)
      BY <2>3 DEF GnbStep, Awake
    <3>2. CancelsSent' /\ AimsRight' /\ ReleasesBehind'
      BY <2>0, <3>1, AwakeReleases, RestartReleases
    <3> QED BY <2>3, <3>2, ReleasedStep DEF ReleaseInv
  <2> QED BY <2>1, <2>2, <2>3 DEF HandoverNext
<1> QED BY <1>1, <1>2, HandoversKeepOrder, RelaysKeepOrder, PTL DEF HandoverSpec

\* The AMF releases a UE at the gNB that serves it only when a source has sent
\* a HandoverCancel for it, or the answer of a disturbed relay sent it away.
THEOREM ReleasedOnlyWhenCancelledHolds == HandoverSpec => []ReleasedOnlyWhenCancelled
<1>1. ReleaseInv => ReleasedOnlyWhenCancelled
  BY DEF ReleaseInv
<1> QED BY <1>1, ReleasesStayBehind, PTL

-----------------------------------------------------------------------------
(* What a cancelled handover leaves at its target. *)

\* Every request for the UE has a release for it behind it.
Followed(s, u) ==
    \A i \in DOMAIN s : Is(s[i], {"request"}, u) => \E j \in DOMAIN s : j > i /\ Is(s[j], {"release"}, u)

\* Once it has read its messages, the gNB keeps no context for the UE.
Frees(held, out, u) == (u \in held => In(out, {"release"}, u)) /\ Followed(out, u)
Freed(g, u) == Up(g) => Frees(holds[g], outbox[LinkOf(g)], u)

\* A gNB that is gone keeps nothing, and one that is up is registered with its
\* newest association, unless the end of an older one has unregistered it.
Down == \A g \in Gnb : ~ Up(g) => holds[g] = {} /\ \A u \in Ue : wanted[g][u] = None
Listed == \A g \in Gnb : (Up(g) /\ g \notin unlisted) => registered[g] = LinkOf(g)

\* A UE is prepared for one handover at a time, the last that was asked for;
\* it has not been relayed yet when its HandoverRequired is unread.
OneRelay == \A k, l \in Link : \A u \in Ue : (PreparingAt(k, u) /\ PreparingAt(l, u)) => k = l
AskedLast ==
    \A l \in Link, u \in Ue : PreparingAt(l, u) =>
        /\ relayed[u].by = l[1] /\ ~ relayed[u].calledOff
        /\ wanted[l[1]][u] # None => l = LinkOf(l[1])
        /\ In(inbox[l], {"required"}, u) => relayed[u].to = None
TargetKept == \A u \in Ue : relayed[u].to # None => target[u] = relayed[u].to

\* The cancel of this gNB is for the last relay of the UE.
Ends(g, u) == Up(g) /\ wanted[g][u] # None /\ relayed[u].by = g /\ relayed[u].to # None

\* Such a cancel is called off at the target of the relay, which is to free
\* the UE before the gNB is told that its handover is cancelled.
CalledOffFreed ==
    \A u \in Ue : relayed[u].to # None =>
        /\ (relayed[u].calledOff /\ relayed[u].to \notin unlisted) => Freed(relayed[u].to, u)
        /\ \A g \in Gnb : Ends(g, u) =>
              /\ Serves(thread[LinkOf(g)], {"callingOff"}, u) => thread[LinkOf(g)].to = relayed[u].to
              /\ (In(outbox[LinkOf(g)], {"cancelled"}, u) /\ relayed[u].to \notin unlisted)
                     => Freed(relayed[u].to, u)

FreeInv ==
    /\ OrderInv /\ Down /\ Listed /\ OneRelay /\ AskedLast /\ TargetKept /\ CalledOffFreed

\* A release for the UE may be added behind its requests, and reading the
\* queue keeps it there.
LEMMA FollowedQueue ==
    ASSUME NEW S, NEW s \in Seq(S), NEW u
    PROVE  /\ \A m \in S : (Followed(s, u) /\ ~ Is(m, {"request"}, u)) => Followed(Append(s, m), u)
           /\ \A m \in S : Is(m, {"release"}, u) => Followed(Append(s, m), u)
           /\ (s # <<>> /\ Followed(s, u)) =>
                 /\ Followed(Tail(s), u)
                 /\ Is(Head(s), {"request"}, u) => In(Tail(s), {"release"}, u)
           /\ Followed(<<>>, u)
<1>1. ASSUME NEW m \in S
      PROVE  /\ (Followed(s, u) /\ ~ Is(m, {"request"}, u)) => Followed(Append(s, m), u)
             /\ Is(m, {"release"}, u) => Followed(Append(s, m), u)
  <2> DEFINE e == Append(s, m)
             n == Len(s)
  <2>1. /\ n \in Nat /\ DOMAIN s = 1 .. n /\ DOMAIN e = 1 .. (n + 1) /\ e[n + 1] = m
        /\ \A i \in 1 .. n : e[i] = s[i]
    BY AppendProperties, LenProperties
  <2> HIDE DEF e, n
  <2>2. /\ n + 1 \in 1 .. (n + 1) /\ \A i \in 1 .. n : i \in 1 .. (n + 1) /\ n + 1 > i
        /\ \A i \in 1 .. (n + 1) : i \in 1 .. n \/ i = n + 1
    BY <2>1
  <2>3. (Followed(s, u) /\ ~ Is(m, {"request"}, u)) => Followed(e, u)
    <3> SUFFICES ASSUME Followed(s, u), ~ Is(m, {"request"}, u), NEW i \in 1 .. (n + 1), Is(e[i], {"request"}, u)
                 PROVE  \E j \in 1 .. (n + 1) : j > i /\ Is(e[j], {"release"}, u)
      BY <2>1 DEF Followed
    <3>1. i \in 1 .. n /\ Is(s[i], {"request"}, u)
      BY <2>1, <2>2
    <3>2. PICK j \in 1 .. n : j > i /\ Is(s[j], {"release"}, u)
      BY <2>1, <3>1 DEF Followed
    <3> QED BY <2>1, <2>2, <3>2
  <2>4. Is(m, {"release"}, u) => Followed(e, u)
    <3> SUFFICES ASSUME Is(m, {"release"}, u), NEW i \in 1 .. (n + 1), Is(e[i], {"request"}, u)
                 PROVE  \E j \in 1 .. (n + 1) : j > i /\ Is(e[j], {"release"}, u)
      BY <2>1 DEF Followed
    <3>1. i # n + 1
      BY <2>1 DEF Is
    <3> QED BY <2>1, <2>2, <3>1
  <2> QED BY <2>3, <2>4 DEF e
<1>2. ASSUME s # <<>>, Followed(s, u)
      PROVE  Followed(Tail(s), u) /\ (Is(Head(s), {"request"}, u) => In(Tail(s), {"release"}, u))
  <2> DEFINE e == Tail(s)
             n == Len(s)
  <2>1. /\ n \in Nat \ {0} /\ DOMAIN s = 1 .. n /\ DOMAIN e = 1 .. (n - 1) /\ s[1] = Head(s)
        /\ \A i \in 1 .. (n - 1) : e[i] = s[i + 1]
    BY <1>2, HeadTailProperties, EmptySeq, LenProperties
  <2> HIDE DEF e, n
  <2>2. ASSUME NEW i \in 1 .. n, Is(s[i], {"request"}, u)
        PROVE  \E j \in 1 .. (n - 1) : j > i - 1 /\ Is(e[j], {"release"}, u)
    <3>1. PICK j \in 1 .. n : j > i /\ Is(s[j], {"release"}, u)
      BY <1>2, <2>1, <2>2 DEF Followed
    <3>2. j - 1 \in 1 .. (n - 1) /\ (j - 1) + 1 = j /\ j - 1 > i - 1
      BY <2>1, <3>1
    <3>3. Is(e[j - 1], {"release"}, u)
      BY <2>1, <3>1, <3>2
    <3> QED BY <3>2, <3>3
  <2>3. Followed(e, u)
    <3> SUFFICES ASSUME NEW i \in 1 .. (n - 1), Is(e[i], {"request"}, u)
                 PROVE  \E j \in 1 .. (n - 1) : j > i /\ Is(e[j], {"release"}, u)
      BY <2>1 DEF Followed
    <3>1. i + 1 \in 1 .. n /\ Is(s[i + 1], {"request"}, u) /\ (i + 1) - 1 = i
      BY <2>1
    <3>2. \E j \in 1 .. (n - 1) : j > (i + 1) - 1 /\ Is(e[j], {"release"}, u)
      BY <2>2, <3>1
    <3> QED BY <3>1, <3>2
  <2>4. Is(Head(s), {"request"}, u) => In(e, {"release"}, u)
    <3> SUFFICES ASSUME Is(s[1], {"request"}, u) PROVE In(e, {"release"}, u)
      BY <2>1
    <3>1. 1 \in 1 .. n
      BY <2>1
    <3> QED BY <2>1, <2>2, <3>1 DEF In
  <2> QED BY <2>3, <2>4 DEF e
<1>3. Followed(<<>>, u)
  BY DEF Followed
<1> QED BY <1>1, <1>2, <1>3

\* What is sent to a gNB, but a request for the UE, leaves the UE freed.
LEMMA SentFrees ==
    ASSUME NEW box \in LinkedGnb, NEW x, NEW v \in Ue, NEW k \in Link, NEW held, NEW u,
           NEW kind \in {"request", "command", "failure", "cancelled", "release"},
           Frees(held, box[k], u), kind # "request" \/ v # u
    PROVE  Frees(held, Sent(box, x, kind, v)[k], u)
<1> DEFINE m == Message(kind, v, None)
           e == Sent(box, x, kind, v)[k]
<1>1. m \in ToGnb /\ box[k] \in Seq(ToGnb) /\ (e = box[k] \/ e = Append(box[k], m))
  BY SentAt
<1>2. ~ Is(m, {"request"}, u)
  BY IsMessage
<1> HIDE DEF m, e
<1>3. CASE e = Append(box[k], m)
  <2>1. Followed(e, u)
    BY <1>1, <1>2, <1>3, FollowedQueue DEF Frees
  <2>2. In(box[k], {"release"}, u) => In(e, {"release"}, u)
    BY <1>1, <1>3, QueueAppend
  <2> QED BY <2>1, <2>2 DEF Frees, e
<1>4. CASE e = box[k]
  BY <1>4 DEF e
<1> QED BY <1>1, <1>3, <1>4

\* A release for the UE frees it.
LEMMA ReleaseFrees ==
    ASSUME NEW box \in LinkedGnb, NEW u \in Ue, NEW k \in Link, NEW held, phase[k] = "up"
    PROVE  Frees(held, Sent(box, k, "release", u)[k], u)
<1> DEFINE m == Message("release", u, None)
           e == Sent(box, k, "release", u)[k]
<1>1. m \in ToGnb /\ box[k] \in Seq(ToGnb) /\ e = Append(box[k], m)
  BY SentAt
<1>2. Is(m, {"release"}, u)
  BY IsMessage
<1> HIDE DEF m, e
<1>3. Followed(e, u)
  BY <1>1, <1>2, FollowedQueue
<1>4. In(e, {"release"}, u)
  BY <1>1, <1>2, QueueAppend
<1> QED BY <1>3, <1>4 DEF Frees, e

\* Whether a gNB frees a UE depends on its queue only, while a thread steps.
LEMMA FreedThrough ==
    ASSUME HandoverTypeOK, NEW l \in Link, ThreadStep(l), NEW g \in Gnb, NEW u,
           Freed(g, u), Frees(holds[g], outbox[LinkOf(g)], u) => Frees(holds[g], outbox'[LinkOf(g)], u)
    PROVE  Freed(g, u)'
<1>1. UNCHANGED <<current, holds>> /\ \A k \in Link : phase'[k] = "up" => phase[k] = "up"
  BY ThreadLeaves
<1>2. LinkOf(g) \in Link /\ LinkOf(g)' = LinkOf(g)
  BY <1>1, FirstLink DEF LinkOf, HandoverTypeOK
<1> QED BY <1>1, <1>2 DEF Freed, Up

\* Only a new relay of the UE puts a context for it in prospect.
LEMMA ThreadFrees ==
    ASSUME HandoverTypeOK, NEW l \in Link, ThreadStep(l), NEW g \in Gnb, NEW u \in Ue, Freed(g, u),
           ~ (Required(l) /\ Head(inbox[l]).ue = u /\ Relay(l, u, Head(inbox[l]).to))
    PROVE  Freed(g, u)'
<1> DEFINE k == LinkOf(g)
           h == holds[g]
<1> SUFFICES ASSUME Frees(h, outbox[k], u) PROVE Frees(h, outbox'[k], u)
  BY FreedThrough
<1>a. /\ outbox \in LinkedGnb /\ k \in Link
      /\ thread[l].at # "reading" => thread[l].ue \in Ue
      /\ inbox[l] # <<>> => Head(inbox[l]).ue \in Ue
  BY TaskFields, AtLink, FirstLink DEF LinkOf, HandoverTypeOK
<1> HIDE DEF k, h
<1>1. CASE outbox' = outbox
  BY <1>1
<1>2. ASSUME NEW x, NEW v \in Ue, NEW kind \in {"request", "command", "failure", "cancelled", "release"},
             outbox' = Sent(outbox, x, kind, v), kind # "request" \/ v # u
      PROVE  Frees(h, outbox'[k], u)
  BY <1>2, <1>a, SentFrees
<1>3. CASE Required(l)
  <2> DEFINE v == Head(inbox[l]).ue
  <2>1. v \in Ue
    BY <1>3, <1>a DEF Required, Reads
  <2>2. CASE outbox' = Sent(outbox, l, "failure", v)
    BY <1>2, <2>1, <2>2
  <2>3. CASE Relay(l, v, Head(inbox[l]).to)
    <3>1. v # u /\ outbox' = Sent(outbox, registered[Head(inbox[l]).to], "request", v)
      BY <1>3, <2>3 DEF Relay
    <3> QED BY <1>2, <2>1, <3>1
  <2> QED BY <1>3, <2>2, <2>3 DEF Required
<1>4. CASE TimeOut(l) \/ Refuse(l) \/ Command(l)
  <2>1. \E kind \in {"command", "failure"} : outbox' = Sent(outbox, l, kind, thread[l].ue)
    BY <1>4 DEF TimeOut, Refuse, Command
  <2>2. thread[l].ue \in Ue
    BY <1>4, <1>a DEF TimeOut, Refuse, Command
  <2> QED BY <1>2, <2>1, <2>2
<1>5. CASE Notify(l)
  <2>1. /\ Head(inbox[l]).ue \in Ue
        /\ outbox' = Sent(outbox, entry[Head(inbox[l]).ue], "release", Head(inbox[l]).ue)
    BY <1>5, <1>a DEF Notify, Reads
  <2> QED BY <1>2, <2>1
<1>6. CASE CallOff(l)
  <2> DEFINE v == thread[l].ue
             told == IF thread[l].to = None THEN outbox ELSE Sent(outbox, registered[thread[l].to], "release", v)
  <2>1. v \in Ue /\ outbox' = Sent(told, l, "cancelled", v)
    BY <1>6, <1>a DEF CallOff
  <2>2. told \in LinkedGnb
    BY <1>a, <2>1, SentTyped
  <2>3. Frees(h, told[k], u)
    BY <1>a, <2>1, SentFrees
  <2> HIDE DEF told
  <2> QED BY <1>a, <2>1, <2>2, <2>3, SentFrees
<1> QED BY <1>1, <1>3, <1>4, <1>5, <1>6
        DEF ThreadStep, Deliver, Take, Cancel, Repoint, Complete, Close, linkVars

\* Calling off a handover frees the UE at its target, where that is registered.
LEMMA CallOffFrees ==
    ASSUME HandoverTypeOK, Listed, NEW l \in Link, CallOff(l), NEW g \in Gnb, NEW u \in Ue,
           thread[l].to = g, thread[l].ue = u, g \notin unlisted
    PROVE  Freed(g, u)'
<1> DEFINE k == LinkOf(g)
           told == Sent(outbox, registered[g], "release", u)
<1>1. outbox \in LinkedGnb /\ k \in Link /\ g # None
  BY AtLink, FirstLink, HandoverAssumption DEF LinkOf, HandoverTypeOK
<1>2. outbox' = Sent(told, l, "cancelled", u) /\ UNCHANGED <<phase, current, holds>>
  BY <1>1 DEF CallOff, ranVars
<1>3. told \in LinkedGnb
  BY <1>1, SentTyped
<1> SUFFICES ASSUME phase[k] = "up" PROVE Frees(holds[g], outbox'[k], u)
  BY <1>2 DEF Freed, Up, LinkOf
<1>4. registered[g] = k
  BY DEF Listed, Up
<1> HIDE DEF k
<1>5. Frees(holds[g], told[k], u)
  BY <1>1, <1>4, ReleaseFrees
<1> HIDE DEF told
<1> QED BY <1>1, <1>2, <1>3, <1>5, SentFrees

\* A gNB keeps a context for a UE from the request it reads to the release.
LEMMA HeardFrees ==
    ASSUME NEW out \in Seq(ToGnb), out # <<>>, NEW kind, NEW v, Head(out) = Message(kind, v, None), NEW u,
           NEW held, NEW next, Frees(held, out, u),
           (u \in next => u \in held) \/ (kind = "request" /\ v = u),
           ~ (kind = "release" /\ v = u /\ u \in next)
    PROVE  Frees(next, Tail(out), u)
<1>1. /\ Is(Head(out), {"request"}, u) <=> kind = "request" /\ v = u
      /\ Is(Head(out), {"release"}, u) <=> kind = "release" /\ v = u
  BY IsMessage
<1>2. /\ Followed(out, u) /\ (u \in held => In(out, {"release"}, u))
      /\ In(out, {"release"}, u) <=> Is(Head(out), {"release"}, u) \/ In(Tail(out), {"release"}, u)
  BY QueueTail DEF Frees
<1>3. /\ Followed(Tail(out), u)
      /\ Is(Head(out), {"request"}, u) => In(Tail(out), {"release"}, u)
  BY <1>2, FollowedQueue
<1> QED BY <1>1, <1>2, <1>3 DEF Frees

\* Only a request makes a gNB keep a context.
LEMMA AwakeFrees ==
    ASSUME HandoverTypeOK, NEW g \in Gnb, Awake(g), NEW h \in Gnb, NEW u \in Ue, Freed(h, u)
    PROVE  Freed(h, u)'
<1> DEFINE k == LinkOf(h)
<1>0. UNCHANGED <<phase, current>>
  BY GnbBoxes
<1>1. k \in Link /\ outbox[k] \in Seq(ToGnb) /\ (h # g => k # LinkOf(g))
  BY AtLink, FirstLink DEF LinkOf, HandoverTypeOK
<1> SUFFICES ASSUME Frees(holds[h], outbox[k], u) PROVE Frees(holds'[h], outbox'[k], u)
  BY <1>0 DEF Freed, Up, LinkOf
<1>2. CASE UNCHANGED <<outbox, holds>>
  BY <1>2
<1>3. ASSUME NEW kind, NEW v \in Ue, Hears(g, kind, v),
             \A x \in Gnb \ {g} : holds'[x] = holds[x],
             (u \in holds'[g] => u \in holds[g]) \/ (kind = "request" /\ v = u),
             ~ (kind = "release" /\ v = u /\ u \in holds'[g])
      PROVE  Frees(holds'[h], outbox'[k], u)
  <2>1. CASE h = g
    <3>1. outbox[k] # <<>> /\ Head(outbox[k]) = Message(kind, v, None) /\ outbox'[k] = Tail(outbox[k])
      BY <1>1, <1>3, <2>1 DEF Hears, HandoverTypeOK
    <3> DEFINE out == outbox[k]
               held == holds[g]
               next == holds'[g]
    <3>2. /\ out \in Seq(ToGnb) /\ out # <<>> /\ Head(out) = Message(kind, v, None)
          /\ Frees(held, out, u) /\ outbox'[k] = Tail(out) /\ holds'[h] = next
          /\ (u \in next => u \in held) \/ (kind = "request" /\ v = u)
          /\ ~ (kind = "release" /\ v = u /\ u \in next)
      BY <1>1, <1>3, <2>1, <3>1
    <3> HIDE DEF k, out, held, next
    <3>3. Frees(next, Tail(out), u)
      BY <3>2, HeardFrees
    <3> QED BY <3>2, <3>3
  <2>2. CASE h # g
    <3>1. outbox'[k] = outbox[k]
      BY <1>1, <1>3, <2>2 DEF Hears, HandoverTypeOK
    <3> QED BY <1>3, <2>2, <3>1
  <2> QED BY <2>1, <2>2
<1> HIDE DEF k
<1>4. ASSUME NEW v \in Ue, Allocate(g, v) PROVE Frees(holds'[h], outbox'[k], u)
  <2>1. holds' = holds \/ holds' = [holds EXCEPT ![g] = @ \union {v}]
    BY <1>4 DEF Allocate
  <2>2. (\A x \in Gnb \ {g} : holds'[x] = holds[x]) /\ ((u \in holds'[g] => u \in holds[g]) \/ v = u)
    BY <2>1 DEF HandoverTypeOK
  <2>3. Hears(g, "request", v)
    BY <1>4 DEF Allocate
  <2> QED BY <1>3, <2>2, <2>3
<1>5. ASSUME NEW v \in Ue, Outcome(g, v) \/ Cancelled(g, v) PROVE Frees(holds'[h], outbox'[k], u)
  <2>1. PICK kind \in {"command", "failure", "cancelled"} : Hears(g, kind, v)
    BY <1>5 DEF Outcome, Cancelled
  <2>2. holds' = holds
    BY <1>5 DEF Outcome, Cancelled
  <2> QED BY <1>3, <2>1, <2>2
<1>6. ASSUME NEW v \in Ue, Release(g, v) PROVE Frees(holds'[h], outbox'[k], u)
  <2>1. Hears(g, "release", v) /\ holds' = [holds EXCEPT ![g] = @ \ {v}]
    BY <1>6 DEF Release
  <2>2. /\ \A x \in Gnb \ {g} : holds'[x] = holds[x]
        /\ (u \in holds'[g] => u \in holds[g]) /\ ~ (v = u /\ u \in holds'[g])
    BY <2>1 DEF HandoverTypeOK
  <2> QED BY <1>3, <2>1, <2>2
<1> QED BY <1>2, <1>4, <1>5, <1>6 DEF Awake, Ask, SendCancel

\* A gNB that dies, or connects again, keeps nothing and is told nothing.
LEMMA RestartFrees ==
    ASSUME HandoverTypeOK, LinksInOrder, Down, NEW g \in Gnb, Crash(g) \/ Setup(g), NEW h \in Gnb, NEW u \in Ue,
           Freed(h, u)
    PROVE  Freed(h, u)'
<1>1. LinkOf(h) \in Link /\ (h # g => LinkOf(h) # LinkOf(g))
  BY FirstLink DEF LinkOf, HandoverTypeOK
<1>2. CASE Crash(g)
  <2>1. /\ current' = current /\ phase' = [phase EXCEPT ![LinkOf(g)] = "down"]
        /\ outbox' = [outbox EXCEPT ![LinkOf(g)] = <<>>] /\ holds' = [holds EXCEPT ![g] = {}]
    BY <1>2 DEF Crash
  <2>2. <<h, current'[h]>> = LinkOf(h)
    BY <2>1 DEF LinkOf
  <2>3. CASE h = g
    <3>1. phase'[LinkOf(h)] # "up"
      BY <1>1, <2>1, <2>3 DEF HandoverTypeOK
    <3> QED BY <2>2, <3>1 DEF Freed, Up, LinkOf
  <2>4. CASE h # g
    <3>1. phase'[LinkOf(h)] = phase[LinkOf(h)] /\ outbox'[LinkOf(h)] = outbox[LinkOf(h)]
      BY <1>1, <2>1, <2>4 DEF HandoverTypeOK
    <3>2. holds'[h] = holds[h]
      BY <2>1, <2>4 DEF HandoverTypeOK
    <3> QED BY <2>1, <3>1, <3>2 DEF Freed, Up, LinkOf
  <2> QED BY <2>3, <2>4
<1>3. CASE Setup(g)
  <2> DEFINE n == current[g] + 1
  <2>1. /\ current' = [current EXCEPT ![g] = n] /\ phase' = [phase EXCEPT ![<<g, n>>] = "up"]
        /\ UNCHANGED <<outbox, holds>> /\ ~ Up(g)
    BY <1>3 DEF Setup
  <2>2. n > current[g] /\ n \in 1 .. MaxLinks
    BY <1>3, HandoverAssumption DEF Setup, HandoverTypeOK
  <2> HIDE DEF n
  <2>3. <<g, n>> \in Link /\ outbox[<<g, n>>] = <<>>
    <3>1. <<g, n>>[1] = g /\ <<g, n>>[2] = n /\ <<g, n>> \in Link
      BY <2>2, FirstLink
    <3> QED BY <2>2, <3>1 DEF LinksInOrder
  <2>4. CASE h = g
    <3>1. <<h, current'[h]>> = <<g, n>> /\ holds'[h] = {} /\ outbox'[<<g, n>>] = <<>>
      BY <2>1, <2>3, <2>4 DEF Down, HandoverTypeOK
    <3>2. Frees({}, <<>>, u)
      BY DEF Frees, Followed
    <3> QED BY <3>1, <3>2 DEF Freed, LinkOf
  <2>5. CASE h # g
    <3>1. current'[h] = current[h]
      BY <2>1, <2>5 DEF HandoverTypeOK
    <3>2. <<h, current'[h]>> = LinkOf(h) /\ LinkOf(h) # <<g, n>>
      BY <2>5, <3>1 DEF LinkOf
    <3>3. phase'[LinkOf(h)] = phase[LinkOf(h)]
      BY <1>1, <2>1, <3>2 DEF HandoverTypeOK
    <3> QED BY <2>1, <3>1, <3>2, <3>3 DEF Freed, Up, LinkOf
  <2> QED BY <2>4, <2>5
<1> QED BY <1>2, <1>3

\* The thread relays a new handover of the UE.
RelaysNow(l, u) == Required(l) /\ Head(inbox[l]).ue = u /\ Relay(l, u, Head(inbox[l]).to)

\* A relay changes what is remembered of one UE, which is being prepared.
LEMMA ThreadRelays ==
    ASSUME HandoverTypeOK, NEW l \in Link, ThreadStep(l), NEW u \in Ue
    PROVE  /\ relayed'[u].by = relayed[u].by /\ relayed'[u].calledOff = relayed[u].calledOff
           /\ RelaysNow(l, u) => /\ relayed'[u].to = target'[u]
                                 /\ thread'[l].at = "waiting" /\ thread'[l].ue = u
           /\ ~ RelaysNow(l, u) => relayed'[u].to = relayed[u].to
           /\ RelaysNow(l, u) \/ target'[u] # target[u] => In(inbox[l], {"required"}, u)
<1>a. relayed[u] \in Relayed
  BY DEF HandoverTypeOK, Relayed
<1>1. CASE UNCHANGED <<relayed, target>> /\ ~ Required(l)
  BY <1>1 DEF RelaysNow
<1>2. CASE Required(l)
  <2> DEFINE v == Head(inbox[l]).ue
             to == Head(inbox[l]).to
  <2>1. v \in Ue /\ inbox[l] # <<>> /\ inbox[l] \in Seq(ToAmf) /\ Head(inbox[l]).kind = "required"
    BY <1>2, AtLink DEF Required, Reads
  <2>2. In(inbox[l], {"required"}, v)
    <3>1. Is(Head(inbox[l]), {"required"}, v)
      BY <2>1 DEF Is
    <3> HIDE DEF v
    <3> QED BY <2>1, <3>1, QueueTail
  <2>3. \/ target' = [target EXCEPT ![v] = to] /\ (Relay(l, v, to) \/ relayed' = relayed)
        \/ UNCHANGED <<relayed, target>>
    BY <1>2 DEF Required
  <2>4. CASE v # u
    <3>1. ~ RelaysNow(l, u)
      BY <2>4 DEF RelaysNow
    <3>2. relayed' = relayed \/ relayed' = [relayed EXCEPT ![v].to = to]
      BY <1>2 DEF Required, Relay
    <3>3. relayed'[u] = relayed[u]
      BY <2>4, <3>2 DEF HandoverTypeOK
    <3>4. target'[u] = target[u]
      BY <2>1, <2>3, <2>4 DEF HandoverTypeOK
    <3> QED BY <3>1, <3>3, <3>4
  <2>5. CASE v = u
    <3>1. CASE RelaysNow(l, u)
      <4>1. relayed' = [relayed EXCEPT ![u].to = to] /\ thread' = Waiting(l, u, to)
        BY <3>1 DEF RelaysNow, Relay
      <4>2. target' = [target EXCEPT ![u] = to]
        <5>1. \/ target' = [target EXCEPT ![u] = to]
              \/ UNCHANGED thread
          BY <1>2, <2>5 DEF Required
        <5>2. thread[l].at = "reading" /\ thread'[l].at = "waiting"
          BY <1>2, <4>1, WaitingAt DEF Required, Reads
        <5> QED BY <5>1, <5>2
      <4>3. relayed'[u] = [relayed[u] EXCEPT !.to = to] /\ target'[u] = to
        BY <4>1, <4>2 DEF HandoverTypeOK
      <4>4. relayed'[u].by = relayed[u].by /\ relayed'[u].calledOff = relayed[u].calledOff /\ relayed'[u].to = to
        BY <1>a, <4>3 DEF Relayed
      <4>5. thread'[l].at = "waiting" /\ thread'[l].ue = u
        BY <4>1, WaitingAt
      <4> QED BY <2>2, <2>5, <3>1, <4>3, <4>4, <4>5
    <3>2. CASE ~ RelaysNow(l, u)
      <4>1. relayed' = relayed
        BY <1>2, <2>5, <3>2 DEF Required, RelaysNow
      <4> QED BY <2>2, <2>5, <3>2, <4>1
    <3> QED BY <3>1, <3>2
  <2> QED BY <2>4, <2>5
<1> QED BY <1>1, <1>2 DEF ThreadStep, Required, Deliver, Take, TimeOut, Refuse, Command, Cancel, CallOff,
               Notify, Repoint, Complete, Close, historyVars, Reads, Goto

\* What a thread leaves of the gNBs, and of who is prepared for what.
LEMMA ThreadKnows ==
    ASSUME FreeInv, NEW l \in Link, ThreadStep(l)
    PROVE  /\ HandoverTypeOK /\ UNCHANGED <<current, holds, position, wanted>>
           /\ \A g \in Gnb : /\ LinkOf(g) \in Link /\ <<g, current'[g]>> = LinkOf(g)
                             /\ phase'[LinkOf(g)] = "up" <=> Up(g)
           /\ \A k \in Link, u \in Ue : KeepsAt(k, u)
           /\ unlisted \subseteq unlisted'
           /\ Down' /\ Listed' /\ OneRelay'
<1> USE DEF FreeInv, OrderInv
<1>1. UNCHANGED <<current, holds, position, wanted>>
  BY ThreadLeaves
<1>2. \A g \in Gnb : LinkOf(g) \in Link /\ <<g, current'[g]>> = LinkOf(g)
  BY <1>1, FirstLink DEF LinkOf, HandoverTypeOK
<1>3. \A k \in Link : phase'[k] = "up" <=> phase[k] = "up"
  BY ThreadLeaves
<1>4. \A k \in Link, u \in Ue : KeepsAt(k, u)
  BY ThreadKeeps
<1>5. Down'
  BY <1>1, <1>2, <1>3 DEF Down, Up, LinkOf
<1>6. OneRelay'
  BY <1>4 DEF OneRelay, KeepsAt, Keeps, PreparingAt
<1>7. CASE Close(l)
  <2>1. /\ registered' = [registered EXCEPT ![l[1]] = NoLink] /\ phase[l] = "down"
        /\ unlisted' = IF registered[l[1]] \in {l, NoLink} THEN unlisted ELSE unlisted \union {l[1]}
    BY <1>7 DEF Close
  <2>2. Listed'
    <3> SUFFICES ASSUME NEW g \in Gnb, phase[LinkOf(g)] = "up", g \notin unlisted' PROVE registered'[g] = LinkOf(g)
      BY <1>2, <1>3 DEF Listed, Up, LinkOf
    <3>1. registered[g] = LinkOf(g)
      BY <2>1 DEF Listed, Up
    <3>2. g # l[1]
      <4> SUFFICES ASSUME g = l[1] PROVE FALSE
        OBVIOUS
      <4>1. LinkOf(g) \in {l, NoLink}
        BY <2>1, <3>1
      <4>2. LinkOf(g) # NoLink
        BY HandoverAssumption DEF LinkOf, NoLink
      <4> QED BY <2>1, <4>1, <4>2
    <3> QED BY <2>1, <3>1, <3>2 DEF HandoverTypeOK
  <2> QED BY <1>1, <1>2, <1>3, <1>4, <1>5, <1>6, <2>1, <2>2 DEF Up
<1>8. CASE ~ Close(l)
  <2>1. UNCHANGED <<registered, unlisted>>
    BY <1>8 DEF ThreadStep, Required, Deliver, Take, TimeOut, Refuse, Command, Cancel, CallOff,
                Notify, Repoint, Complete, historyVars
  <2>2. Listed'
    BY <1>2, <1>3, <2>1 DEF Listed, Up, LinkOf
  <2> QED BY <1>1, <1>2, <1>3, <1>4, <1>5, <1>6, <2>1, <2>2 DEF Up
<1> QED BY <1>7, <1>8

\* A relay is for the last handover that was asked for.
LEMMA ThreadAsked ==
    ASSUME FreeInv, NEW l \in Link, ThreadStep(l)
    PROVE  AskedLast' /\ TargetKept'
<1> USE DEF FreeInv
<1>0. HandoverTypeOK /\ LinesInOrder
  BY DEF OrderInv
<1>1. AskedLast'
  <2> SUFFICES ASSUME NEW k \in Link, NEW u \in Ue, PreparingAt(k, u)'
               PROVE  /\ relayed'[u].by = k[1] /\ ~ relayed'[u].calledOff
                      /\ wanted'[k[1]][u] # None => k = <<k[1], current'[k[1]]>>
                      /\ In(inbox'[k], {"required"}, u) => relayed'[u].to = None
    BY DEF AskedLast, LinkOf
  <2>1. PreparingAt(k, u) /\ (In(inbox'[k], {"required"}, u) => In(inbox[k], {"required"}, u))
    BY ThreadKnows DEF KeepsAt, Keeps, PreparingAt
  <2>2. k[1] \in Gnb
    BY DEF Link
  <2>3. /\ relayed[u].by = k[1] /\ ~ relayed[u].calledOff
        /\ wanted[k[1]][u] # None => k = LinkOf(k[1])
        /\ In(inbox[k], {"required"}, u) => relayed[u].to = None
    BY <2>1 DEF AskedLast
  <2>4. relayed'[u].by = relayed[u].by /\ relayed'[u].calledOff = relayed[u].calledOff
    BY <1>0, ThreadRelays
  <2>5. wanted' = wanted /\ <<k[1], current'[k[1]]>> = LinkOf(k[1])
    BY <2>2, ThreadKnows
  <2>6. ASSUME In(inbox'[k], {"required"}, u) PROVE relayed'[u].to = None
    <3>1. ~ RelaysNow(l, u)
      <4> SUFFICES ASSUME RelaysNow(l, u) PROVE FALSE
        OBVIOUS
      <4>1. In(inbox[l], {"required"}, u)
        BY <1>0, ThreadRelays
      <4>2. PreparingAt(l, u)
        BY <4>1 DEF PreparingAt, Preparing
      <4>3. k = l
        BY <2>1, <4>2 DEF OneRelay
      <4>4. /\ inbox[l] # <<>> /\ inbox[l] \in Seq(ToAmf) /\ Is(Head(inbox[l]), {"required"}, u)
            /\ inbox'[l] = Tail(inbox[l])
        BY <1>0, AtLink DEF RelaysNow, Required, Reads, Is
      <4>5. Line(inbox[l], outbox[l], thread[l], u)
        BY <1>0 DEF LinesInOrder
      <4>6. ~ In(Tail(inbox[l]), {"required"}, u)
        BY <4>4, <4>5, LineRead
      <4> QED BY <2>6, <4>3, <4>4, <4>6
    <3>2. relayed'[u].to = relayed[u].to
      BY <1>0, <3>1, ThreadRelays
    <3> QED BY <2>1, <2>3, <2>6, <3>2
  <2> QED BY <2>3, <2>4, <2>5, <2>6
<1>2. TargetKept'
  <2> SUFFICES ASSUME NEW u \in Ue, relayed'[u].to # None PROVE target'[u] = relayed'[u].to
    BY DEF TargetKept
  <2>1. CASE RelaysNow(l, u)
    BY <1>0, <2>1, ThreadRelays
  <2>2. CASE ~ RelaysNow(l, u)
    <3>1. relayed'[u].to = relayed[u].to /\ (target'[u] # target[u] => In(inbox[l], {"required"}, u))
      BY <1>0, <2>2, ThreadRelays
    <3>2. In(inbox[l], {"required"}, u) => relayed[u].to = None
      BY DEF AskedLast, PreparingAt, Preparing
    <3> QED BY <3>1, <3>2 DEF TargetKept
  <2> QED BY <2>1, <2>2
<1> QED BY <1>1, <1>2

\* A cancelled handover is called off at its target before it is acknowledged.
LEMMA ThreadCallsOff ==
    ASSUME FreeInv, NEW l \in Link, ThreadStep(l)
    PROVE  CalledOffFreed'
<1> USE DEF FreeInv
<1>0. HandoverTypeOK /\ LinesInOrder
  BY DEF OrderInv
<1>1. /\ UNCHANGED <<current, wanted>> /\ unlisted \subseteq unlisted'
      /\ \A g \in Gnb : /\ LinkOf(g) \in Link /\ <<g, current'[g]>> = LinkOf(g)
                        /\ phase'[LinkOf(g)] = "up" <=> Up(g)
      /\ \A k \in Link, u \in Ue : KeepsAt(k, u)
  BY ThreadKnows
<1> DEFINE FreedNext(h, u) ==
               phase'[<<h, current'[h]>>] = "up" => Frees(holds'[h], outbox'[<<h, current'[h]>>], u)
<1>a. \A h, u : Freed(h, u)' <=> FreedNext(h, u)
  BY DEF Freed, Up, LinkOf
<1> SUFFICES ASSUME NEW u \in Ue, relayed'[u].to # None
             PROVE  /\ (relayed'[u].calledOff /\ relayed'[u].to \notin unlisted') => FreedNext(relayed'[u].to, u)
                    /\ \A g \in Gnb : Ends(g, u)' =>
                          /\ Serves(thread'[LinkOf(g)], {"callingOff"}, u)
                                 => thread'[LinkOf(g)].to = relayed'[u].to
                          /\ (In(outbox'[LinkOf(g)], {"cancelled"}, u) /\ relayed'[u].to \notin unlisted')
                                 => FreedNext(relayed'[u].to, u)
  BY <1>1 DEF CalledOffFreed, LinkOf, Freed, Up
<1> HIDE DEF FreedNext
<1>2. relayed'[u].by = relayed[u].by /\ relayed'[u].calledOff = relayed[u].calledOff
  BY <1>0, ThreadRelays
<1>3. ASSUME NEW g \in Gnb, Ends(g, u)'
      PROVE  Up(g) /\ wanted[g][u] # None /\ relayed[u].by = g
  <2>1. /\ phase'[<<g, current'[g]>>] = "up" /\ wanted'[g][u] # None /\ relayed'[u].by = g
    BY <1>3 DEF Ends, Up, LinkOf
  <2> QED BY <1>1, <1>2, <2>1
<1>4. CASE RelaysNow(l, u)
  <2>1. PreparingAt(l, u) /\ thread'[l].at = "waiting" /\ thread'[l].ue = u
    BY <1>0, <1>4, ThreadRelays DEF PreparingAt, Preparing
  <2>2. ~ relayed[u].calledOff /\ relayed[u].by = l[1] /\ (wanted[l[1]][u] # None => l = LinkOf(l[1]))
    BY <2>1 DEF AskedLast
  <2>3. ~ Serves(thread'[l], {"callingOff"}, u) /\ ~ In(outbox'[l], {"cancelled"}, u)
    <3>1. Line(inbox'[l], outbox'[l], thread'[l], u)
      BY <1>1 DEF KeepsAt, Keeps
    <3> QED BY <2>1, <3>1 DEF Line, Serves
  <2> QED BY <1>2, <1>3, <2>2, <2>3
<1>5. CASE ~ RelaysNow(l, u)
  <2> DEFINE to == relayed[u].to
  <2>1. relayed'[u].to = to /\ to \in Gnb /\ to # None
    <3>1. relayed'[u].to = to /\ to \in Gnb \union {None}
      BY <1>0, <1>5, ThreadRelays DEF HandoverTypeOK
    <3> QED BY <3>1
  <2>2. /\ (relayed[u].calledOff /\ to \notin unlisted) => Freed(to, u)
        /\ \A g \in Gnb : Ends(g, u) =>
              /\ Serves(thread[LinkOf(g)], {"callingOff"}, u) => thread[LinkOf(g)].to = to
              /\ (In(outbox[LinkOf(g)], {"cancelled"}, u) /\ to \notin unlisted) => Freed(to, u)
    BY <2>1 DEF CalledOffFreed
  <2> HIDE DEF to
  <2>3. ASSUME NEW h \in Gnb, h = to, Freed(h, u) PROVE FreedNext(h, u)
    BY <1>0, <1>5, <1>a, <2>3, ThreadFrees DEF RelaysNow
  <2>4. ASSUME NEW h \in Gnb, h = to, relayed[u].calledOff, to \notin unlisted PROVE FreedNext(h, u)
    BY <2>2, <2>3, <2>4
  <2>5. ASSUME NEW g \in Gnb, Ends(g, u)', Serves(thread'[LinkOf(g)], {"callingOff"}, u)
        PROVE  thread'[LinkOf(g)].to = to
    <3>1. Ends(g, u) /\ LinkOf(g) \in Link
      BY <1>1, <1>3, <2>1, <2>5 DEF Ends, to
    <3> DEFINE k == LinkOf(g)
    <3>2. thread'[k].at = "callingOff" /\ thread'[k].ue = u
      BY <2>5 DEF Serves
    <3>3. \/ thread'[k] = thread[k]
          \/ k = l /\ thread'[l].ue = Head(inbox[l]).ue /\ thread'[l].to = target[Head(inbox[l]).ue]
      BY <1>0, <3>1, <3>2, CallsFrom
    <3>4. target[u] = to
      BY <2>1 DEF TargetKept, to
    <3> QED BY <2>2, <2>5, <3>1, <3>2, <3>3, <3>4
  <2>6. ASSUME NEW g \in Gnb, Ends(g, u)', In(outbox'[LinkOf(g)], {"cancelled"}, u), to \notin unlisted,
               NEW h \in Gnb, h = to
        PROVE  FreedNext(h, u)
    <3>1. Ends(g, u) /\ LinkOf(g) \in Link
      BY <1>1, <1>3, <2>1, <2>6 DEF Ends, to
    <3>2. CASE In(outbox[LinkOf(g)], {"cancelled"}, u)
      BY <2>2, <2>3, <2>6, <3>1, <3>2
    <3>3. CASE CallOff(l) /\ LinkOf(g) = l /\ thread[l].ue = u
      <4>1. thread[l].to = to
        BY <2>2, <3>1, <3>3 DEF CallOff, Serves
      <4> QED BY <1>0, <2>6, <3>3, <4>1, <1>a, CallOffFrees
    <3> QED BY <1>0, <2>6, <3>1, <3>2, <3>3, ThreadSends
  <2> QED BY <1>1, <1>2, <2>1, <2>4, <2>5, <2>6
<1> QED BY <1>4, <1>5

\* Only an Ask for the UE prepares it.
LEMMA GnbPrepares ==
    ASSUME OrderInv, NEW g \in Gnb, GnbStep(g), NEW k \in Link, NEW v \in Ue,
           \A to \in Gnb : ~ Ask(g, v, to)
    PROVE  /\ Preparing(inbox'[k], outbox'[k], thread'[k], v) => PreparingAt(k, v)
           /\ In(inbox'[k], {"required"}, v) => In(inbox[k], {"required"}, v)
<1>0. HandoverTypeOK /\ LinesInOrder
  BY DEF OrderInv
<1>1. CASE KeepsAt(k, v)
  BY <1>1 DEF KeepsAt, Keeps, PreparingAt
<1>2. CASE Crash(g) \/ Setup(g)
  <2>1. v \in Ue /\ KeepsAt(k, v)
    BY <1>0, <1>2, GnbKeeps
  <2> QED BY <1>1, <2>1
<1>3. ASSUME NEW u \in Ue, NEW to \in Gnb, Ask(g, u, to) PROVE KeepsAt(k, v)
  <2>1. v # u
    BY <1>3
  <2> QED BY <1>3, <2>1, AskKeeps
<1>4. ASSUME NEW u \in Ue, Allocate(g, u) \/ Cancelled(g, u) \/ Release(g, u) PROVE KeepsAt(k, v)
  BY <1>0, <1>4, GnbKeeps
<1>5. ASSUME NEW u \in Ue, SendCancel(g, u)
      PROVE  /\ Preparing(inbox'[k], outbox'[k], thread'[k], v) => PreparingAt(k, v)
             /\ In(inbox'[k], {"required"}, v) => In(inbox[k], {"required"}, v)
  BY <1>5, SendCancelKeeps
<1>6. ASSUME NEW u \in Ue, Outcome(g, u)
      PROVE  /\ Preparing(inbox'[k], outbox'[k], thread'[k], v) => PreparingAt(k, v)
             /\ In(inbox'[k], {"required"}, v) => In(inbox[k], {"required"}, v)
  <2>1. CASE inbox' = inbox
    <3>1. KeepsAt(k, v)
      BY <1>0, <1>6, <2>1, GnbKeeps
    <3> QED BY <1>1, <3>1
  <2>2. CASE Hears(g, "command", u) /\ wanted[g][u] # None /\ Arrive(g, u)
    <3> DEFINE to == wanted[g][u]
    <3>1. to \in Gnb
      <4>1. to \in Gnb \union {None}
        BY <1>0 DEF HandoverTypeOK
      <4> QED BY <2>2, <4>1
    <3>2. thread' = thread
      BY <1>6 DEF Outcome, amfVars
    <3> QED BY <2>2, <3>1, <3>2, ArriveKeeps
  <2> QED BY <1>6, <2>1, <2>2 DEF Outcome
<1> QED BY <1>1, <1>2, <1>3, <1>4, <1>5, <1>6 DEF GnbStep

\* A gNB that stays up changes nothing that is another's.
LEMMA AwakeLocal ==
    ASSUME HandoverTypeOK, NEW g \in Gnb, Awake(g)
    PROVE  Up(g) /\ \A h \in Gnb \ {g} : holds'[h] = holds[h] /\ wanted'[h] = wanted[h]
<1>1. PICK u \in Ue : \/ \E to \in Gnb : Ask(g, u, to)
                      \/ Allocate(g, u) \/ Outcome(g, u)
                      \/ SendCancel(g, u) \/ Cancelled(g, u) \/ Release(g, u)
  BY DEF Awake
<1>2. Up(g)
  BY <1>1 DEF Ask, Allocate, Outcome, SendCancel, Cancelled, Release, Hears
<1>3. \/ holds' = holds
      \/ \E x : holds' = [holds EXCEPT ![g] = x]
  BY <1>1 DEF Ask, Allocate, Outcome, SendCancel, Cancelled, Release
<1>4. \/ wanted' = wanted
      \/ \E x : wanted' = [wanted EXCEPT ![g] = x]
  BY <1>1 DEF Ask, Allocate, Outcome, SendCancel, Cancelled, Release
<1>5. \A h \in Gnb \ {g} : holds'[h] = holds[h]
  BY <1>3 DEF HandoverTypeOK
<1>6. \A h \in Gnb \ {g} : wanted'[h] = wanted[h]
  BY <1>4 DEF HandoverTypeOK
<1> QED BY <1>2, <1>5, <1>6

\* No gNB asks for the UE to be handed over.
Forgets(v) == \A h \in Gnb : wanted'[h][v] # None => wanted'[h][v] = wanted[h][v]

\* A gNB asks for a new handover of the UE, has its cancel acknowledged, or
\* changes nothing of what is remembered of it.
LEMMA AwakeRelays ==
    ASSUME HandoverTypeOK, NEW g \in Gnb, Awake(g), NEW v \in Ue
    PROVE  \/ \E to \in Gnb : Ask(g, v, to) /\ relayed'[v] = NotRelayed(g)
           \/ Forgets(v) /\ relayed'[v] = relayed[v]
           \/ /\ Forgets(v) /\ Cancelled(g, v)
              /\ relayed'[v].by = relayed[v].by /\ relayed'[v].to = relayed[v].to
              /\ relayed'[v].calledOff => relayed[v].calledOff \/ CalledOff(g, v)
<1>1. PICK u \in Ue : \/ \E to \in Gnb : Ask(g, u, to)
                      \/ Allocate(g, u) \/ Outcome(g, u)
                      \/ SendCancel(g, u) \/ Cancelled(g, u) \/ Release(g, u)
  BY DEF Awake
<1>2. ASSUME NEW to \in Gnb, Ask(g, u, to)
      PROVE  \/ \E x \in Gnb : Ask(g, v, x) /\ relayed'[v] = NotRelayed(g)
             \/ Forgets(v) /\ relayed'[v] = relayed[v]
  <2>1. relayed' = [relayed EXCEPT ![u] = NotRelayed(g)] /\ wanted' = [wanted EXCEPT ![g][u] = to]
    BY <1>2 DEF Ask
  <2>2. CASE v = u
    BY <1>2, <2>1, <2>2 DEF HandoverTypeOK
  <2>3. CASE v # u
    <3>1. relayed'[v] = relayed[v]
      BY <2>1, <2>3 DEF HandoverTypeOK
    <3>2. \A h \in Gnb : wanted'[h][v] = wanted[h][v]
      BY <2>1, <2>3 DEF HandoverTypeOK
    <3> QED BY <3>1, <3>2 DEF Forgets
  <2> QED BY <2>2, <2>3
<1>3. CASE \/ Allocate(g, u) \/ Outcome(g, u) \/ SendCancel(g, u) \/ Cancelled(g, u) \/ Release(g, u)
  <2>1. wanted' = wanted \/ wanted' = [wanted EXCEPT ![g][u] = None]
    BY <1>3 DEF Allocate, Outcome, SendCancel, Cancelled, Release
  <2>2. ASSUME NEW h \in Gnb PROVE wanted'[h][v] = wanted[h][v] \/ wanted'[h][v] = None
    <3>1. wanted \in [Gnb -> [Ue -> Gnb \union {None}]]
      BY DEF HandoverTypeOK
    <3>2. CASE wanted' = wanted
      BY <3>2
    <3>3. CASE wanted' = [wanted EXCEPT ![g][u] = None]
      <4>1. wanted'[h] = IF h = g THEN [wanted[h] EXCEPT ![u] = None] ELSE wanted[h]
        BY <3>1, <3>3
      <4>2. wanted[h] \in [Ue -> Gnb \union {None}]
        BY <3>1
      <4> QED BY <4>1, <4>2
    <3> QED BY <2>1, <3>2, <3>3
  <2>3. Forgets(v)
    BY <2>2 DEF Forgets
  <2>4. CASE Cancelled(g, u)
    <3>1. relayed' = [relayed EXCEPT ![u].calledOff = @ \/ CalledOff(g, u)]
      BY <2>4 DEF Cancelled
    <3>2. CASE v = u
      <4>1. relayed[v] \in Relayed
        BY DEF HandoverTypeOK, Relayed
      <4>2. relayed'[v] = [relayed[v] EXCEPT !.calledOff = @ \/ CalledOff(g, v)]
        BY <3>1, <3>2 DEF HandoverTypeOK
      <4>3. relayed'[v].by = relayed[v].by /\ relayed'[v].to = relayed[v].to
        BY <4>1, <4>2 DEF Relayed
      <4>4. relayed'[v].calledOff = (relayed[v].calledOff \/ CalledOff(g, v))
        BY <4>1, <4>2 DEF Relayed
      <4> QED BY <2>3, <2>4, <3>2, <4>3, <4>4
    <3>3. CASE v # u
      BY <2>3, <3>1, <3>3 DEF HandoverTypeOK
    <3> QED BY <3>2, <3>3
  <2>5. CASE Allocate(g, u) \/ Outcome(g, u) \/ SendCancel(g, u) \/ Release(g, u)
    BY <2>3, <2>5 DEF Allocate, Outcome, SendCancel, Release, historyVars
  <2> QED BY <1>3, <2>4, <2>5
<1> QED BY <1>1, <1>2, <1>3

\* Otherwise the last relay of the UE is remembered, and only the answer to the
\* cancel of its source ends it.
LEMMA AwakeRemembers ==
    ASSUME HandoverTypeOK, NEW g \in Gnb, Awake(g), NEW u \in Ue, \A to \in Gnb : ~ Ask(g, u, to)
    PROVE  /\ Forgets(u) /\ relayed'[u].by = relayed[u].by /\ relayed'[u].to = relayed[u].to
           /\ relayed'[u].calledOff => relayed[u].calledOff \/ (Cancelled(g, u) /\ CalledOff(g, u))
  BY AwakeRelays

\* A new handover is asked for on the newest association of its source only.
LEMMA AskPrepares ==
    ASSUME OrderInv, NEW g \in Gnb, NEW u \in Ue, NEW to \in Gnb, Ask(g, u, to)
    PROVE  /\ \A k \in Link : Preparing(inbox'[k], outbox'[k], thread'[k], u) => k = LinkOf(g)
           /\ relayed'[u] = NotRelayed(g)
<1>1. \A k \in Link : k # LinkOf(g) => KeepsAt(k, u) /\ ~ PreparingAt(k, u)
  BY AskKeeps
<1>2. relayed' = [relayed EXCEPT ![u] = NotRelayed(g)]
  BY DEF Ask
<1>3. relayed'[u] = NotRelayed(g)
  BY <1>2 DEF OrderInv, HandoverTypeOK
<1> QED BY <1>1, <1>3 DEF KeepsAt, Keeps, PreparingAt

\* The answer to a cancel finds nothing of its handover under way.
LEMMA CancelledEnds ==
    ASSUME OrderInv, NEW g \in Gnb, NEW u \in Ue, Cancelled(g, u)
    PROVE  /\ LinkOf(g) \in Link /\ In(outbox[LinkOf(g)], {"cancelled"}, u) /\ Up(g)
           /\ ~ Preparing(inbox'[LinkOf(g)], outbox'[LinkOf(g)], thread'[LinkOf(g)], u)
<1>0. HandoverTypeOK /\ LinesInOrder
  BY DEF OrderInv
<1>1. Hears(g, "cancelled", u) /\ UNCHANGED <<inbox, thread>>
  BY DEF Cancelled, amfVars
<1> DEFINE l == LinkOf(g)
<1>2. /\ l \in Link /\ phase[l] = "up" /\ outbox[l] # <<>> /\ Head(outbox[l]) = Message("cancelled", u, None)
      /\ ~ Preparing(inbox[l], outbox'[l], thread[l], u)
  BY <1>0, <1>1, HearsKeeps
<1>3. outbox[l] \in Seq(ToGnb) /\ Up(g)
  BY <1>0, <1>2, AtLink DEF Up
<1> HIDE DEF l
<1>4. Is(Head(outbox[l]), {"cancelled"}, u)
  BY <1>2, IsMessage
<1>5. In(outbox[l], {"cancelled"}, u)
  BY <1>2, <1>3, <1>4, QueueTail
<1> QED BY <1>1, <1>2, <1>3, <1>5 DEF l

\* A gNB that stays up keeps what is known of the gNBs, and one relay per UE.
LEMMA AwakeKnows ==
    ASSUME FreeInv, NEW g \in Gnb, Awake(g)
    PROVE  Down' /\ Listed' /\ OneRelay' /\ TargetKept'
<1> USE DEF FreeInv
<1>0. OrderInv /\ HandoverTypeOK /\ GnbStep(g)
  BY DEF OrderInv, Awake, GnbStep
<1>1. UNCHANGED <<phase, current, thread, registered, target, unlisted>>
  BY <1>0, GnbBoxes
<1>2. Up(g) /\ \A h \in Gnb \ {g} : holds'[h] = holds[h] /\ wanted'[h] = wanted[h]
  BY <1>0, AwakeLocal
<1>3. Down'
  BY <1>1, <1>2 DEF Down, Up, LinkOf
<1>4. Listed'
  BY <1>1 DEF Listed, Up, LinkOf
<1>5. ASSUME NEW u \in Ue, NEW k \in Link, NEW l \in Link,
             Preparing(inbox'[k], outbox'[k], thread'[k], u), Preparing(inbox'[l], outbox'[l], thread'[l], u)
      PROVE  k = l
  <2>1. CASE \E to \in Gnb : Ask(g, u, to)
    BY <1>0, <1>5, <2>1, AskPrepares
  <2>2. CASE \A to \in Gnb : ~ Ask(g, u, to)
    <3>1. PreparingAt(k, u)
      BY <1>0, <1>5, <2>2, GnbPrepares
    <3>2. PreparingAt(l, u)
      BY <1>0, <1>5, <2>2, GnbPrepares
    <3> QED BY <3>1, <3>2 DEF OneRelay
  <2> QED BY <2>1, <2>2
<1>6. OneRelay'
  BY <1>5 DEF OneRelay, PreparingAt
<1>7. ASSUME NEW u \in Ue, relayed'[u].to # None PROVE target'[u] = relayed'[u].to
  <2>1. ASSUME NEW to \in Gnb, Ask(g, u, to) PROVE FALSE
    <3>1. relayed'[u] = NotRelayed(g)
      BY <1>0, <2>1, AskPrepares
    <3> QED BY <1>7, <3>1 DEF NotRelayed
  <2>2. relayed'[u].to = relayed[u].to
    BY <1>0, <2>1, AwakeRemembers
  <2> QED BY <1>1, <1>7, <2>2 DEF TargetKept
<1>8. TargetKept'
  BY <1>7 DEF TargetKept
<1> QED BY <1>3, <1>4, <1>6, <1>8

\* It asks for a handover where no earlier one of the UE is under way, and has
\* the last one called off when that is not.
LEMMA AwakeAsked ==
    ASSUME FreeInv, NEW g \in Gnb, Awake(g)
    PROVE  AskedLast'
<1> USE DEF FreeInv
<1>0. OrderInv /\ HandoverTypeOK /\ GnbStep(g)
  BY DEF OrderInv, Awake, GnbStep
<1>1. current' = current
  BY <1>0, GnbBoxes
<1> SUFFICES ASSUME NEW l \in Link, NEW u \in Ue, Preparing(inbox'[l], outbox'[l], thread'[l], u)
             PROVE  /\ relayed'[u].by = l[1] /\ ~ relayed'[u].calledOff
                    /\ wanted'[l[1]][u] # None => l = LinkOf(l[1])
                    /\ In(inbox'[l], {"required"}, u) => relayed'[u].to = None
  BY <1>1 DEF AskedLast, PreparingAt, LinkOf
<1>2. CASE \E to \in Gnb : Ask(g, u, to)
  <2>1. l = LinkOf(g) /\ relayed'[u] = NotRelayed(g)
    BY <1>0, <1>2, AskPrepares
  <2>2. l[1] = g /\ LinkOf(l[1]) = l
    BY <2>1 DEF LinkOf
  <2> QED BY <2>1, <2>2 DEF NotRelayed
<1>3. CASE \A to \in Gnb : ~ Ask(g, u, to)
  <2>1. PreparingAt(l, u) /\ (In(inbox'[l], {"required"}, u) => In(inbox[l], {"required"}, u))
    BY <1>0, <1>3, GnbPrepares
  <2>2. /\ relayed[u].by = l[1] /\ ~ relayed[u].calledOff
        /\ wanted[l[1]][u] # None => l = LinkOf(l[1])
        /\ In(inbox[l], {"required"}, u) => relayed[u].to = None
    BY <2>1 DEF AskedLast
  <2>3. /\ Forgets(u) /\ relayed'[u].by = relayed[u].by /\ relayed'[u].to = relayed[u].to
        /\ relayed'[u].calledOff => relayed[u].calledOff \/ (Cancelled(g, u) /\ CalledOff(g, u))
    BY <1>0, <1>3, AwakeRemembers
  <2>4. ~ (Cancelled(g, u) /\ CalledOff(g, u))
    <3> SUFFICES ASSUME Cancelled(g, u), CalledOff(g, u) PROVE FALSE
      OBVIOUS
    <3>1. l = LinkOf(g)
      BY <2>2 DEF CalledOff
    <3> QED BY <1>0, <3>1, CancelledEnds
  <2>5. l[1] \in Gnb
    BY DEF Link
  <2>6. wanted'[l[1]][u] # None => wanted[l[1]][u] # None
    BY <2>3, <2>5 DEF Forgets
  <2> QED BY <2>1, <2>2, <2>3, <2>4, <2>6
<1> QED BY <1>2, <1>3

\* A gNB that stays up hears of the cancel of its handover when the target is
\* to free the UE.
LEMMA AwakeCallsOff ==
    ASSUME FreeInv, NEW g \in Gnb, Awake(g)
    PROVE  CalledOffFreed'
<1> USE DEF FreeInv
<1>0. OrderInv /\ HandoverTypeOK /\ GnbStep(g)
  BY DEF OrderInv, Awake, GnbStep
<1>1. UNCHANGED <<phase, current, thread, unlisted>> /\ \A h \in Gnb : LinkOf(h) \in Link
  BY <1>0, GnbBoxes, FirstLink DEF LinkOf, HandoverTypeOK
<1> DEFINE FreedNext(h, u) ==
               phase'[<<h, current'[h]>>] = "up" => Frees(holds'[h], outbox'[<<h, current'[h]>>], u)
<1>a. \A h, u : Freed(h, u)' <=> FreedNext(h, u)
  BY DEF Freed, Up, LinkOf
<1> SUFFICES ASSUME NEW u \in Ue, relayed'[u].to # None
             PROVE  /\ (relayed'[u].calledOff /\ relayed'[u].to \notin unlisted') => FreedNext(relayed'[u].to, u)
                    /\ \A h \in Gnb : Ends(h, u)' =>
                          /\ Serves(thread'[LinkOf(h)], {"callingOff"}, u)
                                 => thread'[LinkOf(h)].to = relayed'[u].to
                          /\ (In(outbox'[LinkOf(h)], {"cancelled"}, u) /\ relayed'[u].to \notin unlisted')
                                 => FreedNext(relayed'[u].to, u)
  BY <1>1 DEF CalledOffFreed, LinkOf, Freed, Up
<1> HIDE DEF FreedNext
<1>2. ASSUME NEW to \in Gnb, Ask(g, u, to) PROVE FALSE
  <2>1. relayed'[u] = NotRelayed(g)
    BY <1>0, <1>2, AskPrepares
  <2> QED BY <2>1 DEF NotRelayed
<1>3. /\ Forgets(u) /\ relayed'[u].by = relayed[u].by /\ relayed'[u].to = relayed[u].to
      /\ relayed'[u].calledOff => relayed[u].calledOff \/ (Cancelled(g, u) /\ CalledOff(g, u))
  BY <1>0, <1>2, AwakeRemembers
<1> DEFINE to == relayed[u].to
<1>4. relayed'[u].to = to /\ to # None /\ to \in Gnb
  <2>1. to \in Gnb \union {None}
    BY <1>0 DEF HandoverTypeOK
  <2> QED BY <1>3, <2>1
<1>5. /\ (relayed[u].calledOff /\ to \notin unlisted) => Freed(to, u)
      /\ \A h \in Gnb : Ends(h, u) =>
            /\ Serves(thread[LinkOf(h)], {"callingOff"}, u) => thread[LinkOf(h)].to = to
            /\ (In(outbox[LinkOf(h)], {"cancelled"}, u) /\ to \notin unlisted) => Freed(to, u)
  BY <1>4 DEF CalledOffFreed
<1> HIDE DEF to
<1>6. ASSUME NEW h \in Gnb, h = to, Freed(h, u) PROVE FreedNext(h, u)
  BY <1>0, <1>a, <1>6, AwakeFrees
<1>7. ASSUME relayed'[u].calledOff, to \notin unlisted PROVE FreedNext(to, u)
  <2>1. CASE relayed[u].calledOff
    BY <1>4, <1>5, <1>6, <1>7, <2>1
  <2>2. CASE Cancelled(g, u) /\ CalledOff(g, u)
    <3>1. In(outbox[LinkOf(g)], {"cancelled"}, u) /\ Up(g)
      BY <1>0, <2>2, CancelledEnds
    <3>2. Ends(g, u)
      BY <1>4, <2>2, <3>1 DEF Ends, CalledOff, to
    <3> QED BY <1>4, <1>5, <1>6, <1>7, <3>1, <3>2
  <2> QED BY <1>3, <1>7, <2>1, <2>2
<1>8. ASSUME NEW h \in Gnb, Ends(h, u)' PROVE Ends(h, u)
  <2>1. phase'[<<h, current'[h]>>] = "up" /\ wanted'[h][u] # None /\ relayed'[u].by = h
    BY <1>8 DEF Ends, Up, LinkOf
  <2>2. Up(h) /\ wanted[h][u] # None
    BY <1>1, <1>3, <2>1 DEF Forgets, Up, LinkOf
  <2> QED BY <1>3, <1>4, <2>1, <2>2 DEF Ends, to
<1>9. ASSUME NEW h \in Gnb, Ends(h, u)', In(outbox'[LinkOf(h)], {"cancelled"}, u), to \notin unlisted
      PROVE  FreedNext(to, u)
  <2>1. In(outbox[LinkOf(h)], {"cancelled"}, u)
    BY <1>0, <1>1, <1>9, GnbReads
  <2>2. Freed(to, u)
    BY <1>5, <1>8, <1>9, <2>1
  <2> QED BY <1>4, <1>6, <2>2
<1>10. ASSUME NEW h \in Gnb, Ends(h, u)', Serves(thread'[LinkOf(h)], {"callingOff"}, u)
       PROVE  thread'[LinkOf(h)].to = to
  BY <1>1, <1>5, <1>8, <1>10
<1> QED BY <1>1, <1>4, <1>7, <1>9, <1>10

\* What a gNB that dies, or connects again, leaves of the others; it wants no
\* handover itself.
LEMMA RestartLocal ==
    ASSUME FreeInv, NEW g \in Gnb, Crash(g) \/ Setup(g)
    PROVE  /\ UNCHANGED <<inbox, thread, target, unlisted, relayed>>
           /\ \A u \in Ue : wanted'[g][u] = None
           /\ \A h \in Gnb \ {g} : /\ current'[h] = current[h] /\ phase'[LinkOf(h)] = phase[LinkOf(h)]
                                   /\ holds'[h] = holds[h] /\ wanted'[h] = wanted[h]
                                   /\ registered'[h] = registered[h]
           /\ phase'[<<g, current'[g]>>] = "up" => registered'[g] = <<g, current'[g]>>
           /\ holds'[g] = {}
<1>0. HandoverTypeOK /\ Down
  BY DEF FreeInv, OrderInv
<1>1. UNCHANGED <<inbox, thread, target, unlisted, relayed>>
  BY DEF Crash, Setup, amfVars, historyVars
<1>2. \A h \in Gnb : LinkOf(h) \in Link /\ (h # g => LinkOf(h) # LinkOf(g))
  BY <1>0, FirstLink DEF LinkOf, HandoverTypeOK
<1>3. CASE Crash(g)
  <2>1. /\ phase' = [phase EXCEPT ![LinkOf(g)] = "down"] /\ UNCHANGED <<current, registered>>
        /\ holds' = [holds EXCEPT ![g] = {}] /\ wanted' = [wanted EXCEPT ![g] = [u \in Ue |-> None]]
    BY <1>3 DEF Crash, amfVars
  <2>2. /\ holds'[g] = {} /\ wanted'[g] = [u \in Ue |-> None]
        /\ \A h \in Gnb \ {g} : holds'[h] = holds[h] /\ wanted'[h] = wanted[h]
    BY <1>0, <2>1 DEF HandoverTypeOK
  <2>3. /\ phase'[LinkOf(g)] = "down"
        /\ \A h \in Gnb \ {g} : phase'[LinkOf(h)] = phase[LinkOf(h)]
    BY <1>0, <1>2, <2>1 DEF HandoverTypeOK
  <2>4. <<g, current'[g]>> = LinkOf(g)
    BY <2>1 DEF LinkOf
  <2> QED BY <1>1, <2>1, <2>2, <2>3, <2>4
<1>4. CASE Setup(g)
  <2> DEFINE n == current[g] + 1
  <2>1. /\ current' = [current EXCEPT ![g] = n] /\ phase' = [phase EXCEPT ![<<g, n>>] = "up"]
        /\ registered' = [registered EXCEPT ![g] = <<g, n>>]
        /\ UNCHANGED <<holds, wanted>> /\ ~ Up(g)
    BY <1>4 DEF Setup
  <2> HIDE DEF n
  <2>2. /\ current'[g] = n /\ registered'[g] = <<g, n>>
        /\ \A h \in Gnb \ {g} : current'[h] = current[h] /\ registered'[h] = registered[h]
    BY <1>0, <2>1 DEF HandoverTypeOK
  <2>3. holds'[g] = {} /\ \A u \in Ue : wanted'[g][u] = None
    BY <1>0, <2>1 DEF Down
  <2>4. \A h \in Gnb \ {g} : LinkOf(h) # <<g, n>>
    BY DEF LinkOf
  <2>5. \A h \in Gnb \ {g} : phase'[LinkOf(h)] = phase[LinkOf(h)]
    BY <1>0, <1>2, <2>1, <2>4 DEF HandoverTypeOK
  <2> QED BY <1>1, <2>1, <2>2, <2>3, <2>5
<1> QED BY <1>3, <1>4

\* A gNB that dies, or connects again, ends the handovers it asked for, and
\* keeps none of the others'.
LEMMA RestartAsked ==
    ASSUME FreeInv, NEW g \in Gnb, Crash(g) \/ Setup(g)
    PROVE  Down' /\ Listed' /\ OneRelay' /\ AskedLast' /\ TargetKept'
<1> USE DEF FreeInv
<1>0. OrderInv /\ HandoverTypeOK /\ LinesInOrder /\ LinksInOrder /\ GnbStep(g)
  BY DEF OrderInv, GnbStep
<1>1. /\ UNCHANGED <<inbox, thread, target, unlisted, relayed>>
      /\ \A u \in Ue : wanted'[g][u] = None
      /\ \A h \in Gnb \ {g} : /\ current'[h] = current[h] /\ phase'[LinkOf(h)] = phase[LinkOf(h)]
                              /\ holds'[h] = holds[h] /\ wanted'[h] = wanted[h]
                              /\ registered'[h] = registered[h]
      /\ phase'[<<g, current'[g]>>] = "up" => registered'[g] = <<g, current'[g]>>
      /\ holds'[g] = {}
  BY RestartLocal
<1>2. \A h \in Gnb \ {g} : /\ LinkOf(h) \in Link /\ <<h, current'[h]>> = LinkOf(h)
                           /\ phase'[<<h, current'[h]>>] = "up" <=> Up(h)
  BY <1>0, <1>1, FirstLink DEF LinkOf, Up, HandoverTypeOK
<1>3. \A k \in Link, u \in Ue : KeepsAt(k, u)
  BY <1>0, GnbKeeps
<1>4. Down'
  <2>1. ASSUME NEW h \in Gnb, phase'[<<h, current'[h]>>] # "up"
        PROVE  holds'[h] = {} /\ \A u \in Ue : wanted'[h][u] = None
    <3>1. CASE h = g
      BY <1>1, <3>1
    <3>2. CASE h # g
      BY <1>1, <1>2, <2>1, <3>2 DEF Down
    <3> QED BY <3>1, <3>2
  <2> QED BY <2>1 DEF Down, Up, LinkOf
<1>5. Listed'
  <2>1. ASSUME NEW h \in Gnb, phase'[<<h, current'[h]>>] = "up", h \notin unlisted
        PROVE  registered'[h] = <<h, current'[h]>>
    <3>1. CASE h = g
      BY <1>1, <2>1, <3>1
    <3>2. CASE h # g
      BY <1>1, <1>2, <2>1, <3>2 DEF Listed
    <3> QED BY <3>1, <3>2
  <2> QED BY <1>1, <2>1 DEF Listed, Up, LinkOf
<1>6. OneRelay'
  BY <1>3 DEF OneRelay, KeepsAt, Keeps, PreparingAt
<1>7. AskedLast'
  <2> SUFFICES ASSUME NEW l \in Link, NEW u \in Ue, Preparing(inbox'[l], outbox'[l], thread'[l], u)
               PROVE  /\ relayed'[u].by = l[1] /\ ~ relayed'[u].calledOff
                      /\ wanted'[l[1]][u] # None => l = <<l[1], current'[l[1]]>>
                      /\ In(inbox'[l], {"required"}, u) => relayed'[u].to = None
    BY DEF AskedLast, PreparingAt, LinkOf
  <2>1. PreparingAt(l, u)
    BY <1>3 DEF KeepsAt, Keeps, PreparingAt
  <2>2. /\ relayed[u].by = l[1] /\ ~ relayed[u].calledOff
        /\ wanted[l[1]][u] # None => l = LinkOf(l[1])
        /\ In(inbox[l], {"required"}, u) => relayed[u].to = None
    BY <2>1 DEF AskedLast
  <2>3. ASSUME wanted'[l[1]][u] # None PROVE l = <<l[1], current'[l[1]]>>
    <3>1. l[1] \in Gnb \ {g}
      BY <1>1, <2>3 DEF Link
    <3> QED BY <1>1, <1>2, <2>2, <2>3, <3>1
  <2> QED BY <1>1, <2>2, <2>3
<1>8. TargetKept'
  BY <1>1 DEF TargetKept
<1> QED BY <1>4, <1>5, <1>6, <1>7, <1>8

\* The cancels of the others stay called off at their targets.
LEMMA RestartCallsOff ==
    ASSUME FreeInv, NEW g \in Gnb, Crash(g) \/ Setup(g)
    PROVE  CalledOffFreed'
<1> USE DEF FreeInv
<1>0. OrderInv /\ HandoverTypeOK /\ LinesInOrder /\ LinksInOrder /\ GnbStep(g)
  BY DEF OrderInv, GnbStep
<1>1. /\ UNCHANGED <<inbox, thread, target, unlisted, relayed>>
      /\ \A u \in Ue : wanted'[g][u] = None
      /\ \A h \in Gnb \ {g} : /\ current'[h] = current[h] /\ phase'[LinkOf(h)] = phase[LinkOf(h)]
                              /\ holds'[h] = holds[h] /\ wanted'[h] = wanted[h]
                              /\ registered'[h] = registered[h]
      /\ phase'[<<g, current'[g]>>] = "up" => registered'[g] = <<g, current'[g]>>
      /\ holds'[g] = {}
  BY RestartLocal
<1>2. \A h \in Gnb \ {g} : /\ LinkOf(h) \in Link /\ <<h, current'[h]>> = LinkOf(h)
                           /\ phase'[<<h, current'[h]>>] = "up" <=> Up(h)
  BY <1>0, <1>1, FirstLink DEF LinkOf, Up, HandoverTypeOK
<1> DEFINE FreedNext(h, u) ==
               phase'[<<h, current'[h]>>] = "up" => Frees(holds'[h], outbox'[<<h, current'[h]>>], u)
<1>a. \A h, u : Freed(h, u)' <=> FreedNext(h, u)
  BY DEF Freed, Up, LinkOf
<1>3. ASSUME NEW u \in Ue, NEW h \in Gnb, Ends(h, u)' PROVE h # g /\ <<h, current'[h]>> = LinkOf(h)
  <2>1. wanted'[h][u] # None
    BY <1>3 DEF Ends
  <2>2. h # g
    BY <1>1, <2>1
  <2> QED BY <1>2, <2>2
<1> SUFFICES ASSUME NEW u \in Ue, relayed'[u].to # None
             PROVE  /\ (relayed'[u].calledOff /\ relayed'[u].to \notin unlisted') => FreedNext(relayed'[u].to, u)
                    /\ \A h \in Gnb : Ends(h, u)' =>
                          /\ Serves(thread'[LinkOf(h)], {"callingOff"}, u)
                                 => thread'[LinkOf(h)].to = relayed'[u].to
                          /\ (In(outbox'[LinkOf(h)], {"cancelled"}, u) /\ relayed'[u].to \notin unlisted')
                                 => FreedNext(relayed'[u].to, u)
  BY <1>3, ZenonT(60) DEF CalledOffFreed, LinkOf, Freed, Up
<1> HIDE DEF FreedNext
<1> DEFINE to == relayed[u].to
<1>4. relayed'[u].to = to /\ to # None /\ to \in Gnb
  <2>1. to \in Gnb \union {None}
    BY <1>0 DEF HandoverTypeOK
  <2> QED BY <1>1, <2>1
<1>5. /\ (relayed[u].calledOff /\ to \notin unlisted) => Freed(to, u)
      /\ \A h \in Gnb : Ends(h, u) =>
            /\ Serves(thread[LinkOf(h)], {"callingOff"}, u) => thread[LinkOf(h)].to = to
            /\ (In(outbox[LinkOf(h)], {"cancelled"}, u) /\ to \notin unlisted) => Freed(to, u)
  BY <1>4 DEF CalledOffFreed
<1> HIDE DEF to
<1>6. ASSUME NEW h \in Gnb, h = to, Freed(h, u) PROVE FreedNext(h, u)
  BY <1>0, <1>a, <1>6, RestartFrees
<1>7. ASSUME NEW h \in Gnb, Ends(h, u)' PROVE Ends(h, u) /\ LinkOf(h) \in Link
  <2>1. phase'[<<h, current'[h]>>] = "up" /\ wanted'[h][u] # None /\ relayed'[u].by = h
    BY <1>7 DEF Ends, Up, LinkOf
  <2>2. h # g
    BY <1>3, <1>7
  <2>3. Up(h) /\ wanted[h][u] # None /\ relayed[u].by = h
    BY <1>1, <1>2, <2>1, <2>2
  <2> QED BY <1>2, <1>4, <2>2, <2>3 DEF Ends, to
<1>8. ASSUME NEW h \in Gnb, Ends(h, u)', In(outbox'[LinkOf(h)], {"cancelled"}, u), to \notin unlisted
      PROVE  FreedNext(to, u)
  <2>1. Ends(h, u) /\ LinkOf(h) \in Link
    BY <1>7, <1>8
  <2>2. In(outbox[LinkOf(h)], {"cancelled"}, u)
    BY <1>0, <1>8, <2>1, GnbReads
  <2> QED BY <1>4, <1>5, <1>6, <1>8, <2>1, <2>2
<1>9. ASSUME NEW h \in Gnb, Ends(h, u)', Serves(thread'[LinkOf(h)], {"callingOff"}, u)
      PROVE  thread'[LinkOf(h)].to = to
  <2>1. Ends(h, u)
    BY <1>7, <1>9
  <2> QED BY <1>1, <1>5, <1>9, <2>1
<1>10. (relayed[u].calledOff /\ to \notin unlisted) => FreedNext(to, u)
  BY <1>4, <1>5, <1>6
<1> QED BY <1>1, <1>4, <1>8, <1>9, <1>10

\* The inductive invariant of cancelled handovers.
THEOREM HandoversFreeTargets == HandoverSpec => []FreeInv
<1>1. HandoverInit /\ OrderInv => FreeInv
  <2> SUFFICES ASSUME HandoverInit, OrderInv PROVE FreeInv
    OBVIOUS
  <2>1. /\ \A l \in Link : inbox[l] = <<>> /\ outbox[l] = <<>> /\ thread[l] = Reading
        /\ \A g \in Gnb : current[g] = 1 /\ LinkOf(g) = <<g, 1>> /\ LinkOf(g) \in Link /\ registered[g] = <<g, 1>>
        /\ \A u \in Ue : relayed[u] = NotRelayed(None)
    <3>1. \A g \in Gnb : current[g] = 1 /\ LinkOf(g) = <<g, 1>>
      BY DEF HandoverInit, LinkOf
    <3>2. \A g \in Gnb : LinkOf(g) \in Link
      BY <3>1, FirstLink
    <3> QED BY <3>1, <3>2 DEF HandoverInit
  <2>2. \A g \in Gnb : Up(g)
    <3>1. \A l \in Link : phase[l] = IF l[2] = 1 THEN "up" ELSE "unused"
      BY DEF HandoverInit
    <3> QED BY <2>1, <3>1 DEF Up
  <2>3. \A l \in Link, u \in Ue : ~ PreparingAt(l, u)
    <3>1. \A steps, u : "reading" \notin steps => ~ Serves(Reading, steps, u)
      BY DEF Serves, Reading
    <3> QED BY <2>1, <3>1, QueueEmpty DEF PreparingAt, Preparing
  <2>4. \A u \in Ue : relayed[u].to = None
    BY <2>1 DEF NotRelayed
  <2> QED BY <2>1, <2>2, <2>3, <2>4 DEF FreeInv, Down, Listed, OneRelay, AskedLast, TargetKept, CalledOffFreed
<1>2. FreeInv /\ OrderInv' /\ [HandoverNext]_handoverVars => FreeInv'
  <2> SUFFICES ASSUME FreeInv, OrderInv', [HandoverNext]_handoverVars PROVE FreeInv'
    OBVIOUS
  <2>1. CASE UNCHANGED handoverVars
    <3>1. Down' /\ Listed' /\ OneRelay' /\ AskedLast' /\ TargetKept'
      BY <2>1 DEF handoverVars, linkVars, amfVars, ranVars, historyVars, FreeInv, Down, Listed, OneRelay,
                  AskedLast, TargetKept, PreparingAt, Up, LinkOf
    <3>2. CalledOffFreed'
      BY <2>1 DEF handoverVars, linkVars, amfVars, ranVars, historyVars, FreeInv, CalledOffFreed, Ends,
                  Freed, Up, LinkOf
    <3> QED BY <3>1, <3>2 DEF FreeInv
  <2>2. ASSUME NEW l \in Link, ThreadStep(l) PROVE FreeInv'
    BY <2>2, ThreadKnows, ThreadAsked, ThreadCallsOff DEF FreeInv
  <2>3. ASSUME NEW g \in Gnb, GnbStep(g) PROVE FreeInv'
    <3>1. CASE Awake(g)
      BY <3>1, AwakeKnows, AwakeAsked, AwakeCallsOff DEF FreeInv
    <3>2. CASE Crash(g) \/ Setup(g)
      BY <3>2, RestartAsked, RestartCallsOff DEF FreeInv
    <3> QED BY <2>3, <3>1, <3>2 DEF GnbStep, Awake
  <2> QED BY <2>1, <2>2, <2>3 DEF HandoverNext
<1> QED BY <1>1, <1>2, HandoversKeepOrder, PTL DEF HandoverSpec

\* A source whose HandoverCancel is acknowledged leaves nothing reserved at a
\* registered target once that has read its messages.
THEOREM CancelFreesTargetHolds == HandoverSpec => []CancelFreesTarget
<1>1. FreeInv => CancelFreesTarget
  <2> SUFFICES ASSUME FreeInv, NEW u \in Ue, NEW to, to = relayed[u].to,
                      relayed[u].calledOff, to # None, to \notin unlisted, u \in holds[to]
               PROVE  Message("release", u, None) \in Range(outbox[LinkOf(to)])
    BY DEF CancelFreesTarget
  <2>1. HandoverTypeOK /\ to \in Gnb
    BY DEF FreeInv, OrderInv, HandoverTypeOK
  <2>2. Up(to) /\ Freed(to, u)
    BY <2>1 DEF FreeInv, CalledOffFreed, Down
  <2> DEFINE out == outbox[LinkOf(to)]
  <2>3. out \in Seq(ToGnb)
    BY <2>1, AtLink, FirstLink DEF LinkOf, HandoverTypeOK
  <2>4. In(out, {"release"}, u)
    BY <2>2 DEF Freed, Frees
  <2> HIDE DEF out
  <2>5. PICK i \in DOMAIN out : Is(out[i], {"release"}, u)
    BY <2>4 DEF In
  <2>6. out[i] \in ToGnb
    BY <2>3, <2>5, LenProperties, ElementOfSeq
  <2>7. out[i] = Message("release", u, None)
    <3>1. out[i].to = None /\ out[i] = [kind |-> out[i].kind, ue |-> out[i].ue, to |-> out[i].to]
      BY <2>6 DEF ToGnb
    <3> QED BY <2>5, <3>1 DEF Is, Message
  <2> QED BY <2>5, <2>7 DEF Range, out
<1> QED BY <1>1, HandoversFreeTargets, PTL
=============================================================================
