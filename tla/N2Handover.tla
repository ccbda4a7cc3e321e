------------------------------ MODULE N2Handover ------------------------------
(***************************************************************************)
(* The N2 handover of the AMF: one thread per gNB association, the         *)
(* registry of associations with its single reply slot per gNB, the        *)
(* registry that says which association reaches a UE, and the downlink and *)
(* handover state the SMF keeps per PDU session.                           *)
(*                                                                         *)
(* The gNBs are the environment: they ask for a handover, answer or refuse *)
(* one, let the UE arrive, cancel, release, crash and set up again.  A     *)
(* message that lacks a mandatory IE or names an unknown UE is answered or *)
(* dropped with no change of state, and is left out.                       *)
(***************************************************************************)
EXTENDS Integers, Sequences, SequencesExt, FiniteSetsExt

CONSTANTS
    Gnb, Ue, Session,
    Home,         \* the gNB each UE registered through
    Crashing,     \* bound of the model: the gNBs that crash
    MaxLinks,     \* bound of the model: associations per gNB
    MaxHandovers, \* bound of the model: handovers asked for
    MaxMishaps,   \* bound of the model: gNB crashes and failed UpdateSMContext requests
    MaxParties,   \* bound of the model: UEs handed over, and mishaps
    None

ASSUME HandoverAssumption ==
    /\ Home \in [Ue -> Gnb]
    /\ \A u, v \in Ue : Home[u] = Home[v] => u = v
    /\ None \notin Gnb \union Ue /\ Crashing \subseteq Gnb
    /\ MaxLinks \in Nat \ {0}
    /\ MaxHandovers \in Nat /\ MaxMishaps \in Nat /\ MaxParties \in Nat

\* An association is a gNB and the number of its SCTP connection.
Link == Gnb \X (1 .. MaxLinks)
NoLink == <<None, 0>>

\* What the slot of a GnbAssociation holds: nothing, an answer of the
\* target, or the empty vector a waiter left when it moved the answer out.
Answers == [kind : {"accept", "refuse"}, ue : Ue]
Nothing == [kind |-> "nothing", ue |-> None]
MovedOut == [kind |-> "moved", ue |-> None]
Replies == Answers \union {Nothing, MovedOut}

Message(kind, u, to) == [kind |-> kind, ue |-> u, to |-> to]
ToAmf == [kind : {"required"}, ue : Ue, to : Gnb] \union
         [kind : {"cancel", "notify", "complete", "accept", "refuse"}, ue : Ue, to : {None}]
ToGnb == [kind : {"request", "command", "failure", "cancelled", "release"},
          ue : Ue, to : {None}]

\* What the thread of an association is at.
Reading == [at |-> "reading", ue |-> None, to |-> None, via |-> NoLink,
            got |-> Nothing, alone |-> FALSE]
Task ==
    {Reading} \union
    [at : {"waiting"}, ue : Ue, to : Gnb, via : Link, got : {Nothing}, alone : BOOLEAN] \union
    [at : {"answering"}, ue : Ue, to : Gnb, via : Link, got : Replies \ {Nothing},
     alone : BOOLEAN] \union
    [at : {"callingOff", "repointing"}, ue : Ue, to : Gnb \union {None},
     via : {NoLink}, got : {Nothing}, alone : {FALSE}]

NotRelayed(g) == [by |-> g, to |-> None, calledOff |-> FALSE]

VARIABLES
    phase,      \* per association: "unused", "up", "down" (peer gone) or "closed"
    inbox,      \* per association: messages the AMF has not read
    outbox,     \* per association: messages the gNB has not read
    thread,     \* per association: the step of the handler
    supi,       \* per association: auth_state.supi
    registered, \* GnbAssociationRegistry: the association of a gNB
    slot,       \* per association: awaiting_reply and reply_bytes
    target,     \* handoverTargetGnbId in the context of a UE
    entry,      \* NgapUeRegistry: the association that reaches a UE
    downlink,   \* per UE and session: the tunnel the UPF sends to
    hoState,    \* hoState in the SM contexts of a UE
    current,    \* per gNB: the number of its newest association
    holds,      \* per gNB: UEs it keeps a context for
    position,   \* the gNB that serves a UE
    wanted,     \* per gNB and UE: the target of a handover the gNB asked for
    cancelling, \* per gNB: UEs whose handover it has cancelled, no answer yet
    handovers,
    moving,     \* UEs a handover was asked for
    mishaps,
    released,   \* history: UEs released at the gNB that served them
    cancelled,  \* history: UEs a HandoverCancel was sent for
    relayed,    \* history: which gNB asked for the last handover of a UE, where it
                \* was relayed to, and whether its cancel has been acknowledged
    misled,     \* history: UEs sent away by the answer of a disturbed relay
    unlisted    \* history: gNBs unregistered by the end of an older association

linkVars == <<phase, inbox, outbox>>
amfVars == <<thread, supi, registered, slot, target, entry>>
smfVars == <<downlink, hoState>>
ranVars == <<current, holds, position, wanted, cancelling, handovers, moving>>
historyVars == <<released, cancelled, relayed, misled, unlisted>>
handoverVars == <<linkVars, amfVars, smfVars, ranVars, mishaps, historyVars>>

HandoverInit ==
    /\ phase = [l \in Link |-> IF l[2] = 1 THEN "up" ELSE "unused"]
    /\ inbox = [l \in Link |-> <<>>]
    /\ outbox = [l \in Link |-> <<>>]
    /\ thread = [l \in Link |-> Reading]
    /\ supi = [l \in Link |->
                 IF \E u \in Ue : l = <<Home[u], 1>> THEN CHOOSE u \in Ue : Home[u] = l[1]
                                                     ELSE None]
    /\ registered = [g \in Gnb |-> <<g, 1>>]
    /\ slot = [l \in Link |-> [awaiting |-> FALSE, reply |-> Nothing]]
    /\ target = [u \in Ue |-> None]
    /\ entry = [u \in Ue |-> <<Home[u], 1>>]
    /\ downlink = [u \in Ue |-> [s \in Session |-> [gnb |-> Home[u], ue |-> u]]]
    /\ hoState = [u \in Ue |-> "NONE"]
    /\ current = [g \in Gnb |-> 1]
    /\ holds = [g \in Gnb |-> {u \in Ue : Home[u] = g}]
    /\ position = Home
    /\ wanted = [g \in Gnb |-> [u \in Ue |-> None]]
    /\ cancelling = [g \in Gnb |-> {}]
    /\ handovers = 0
    /\ moving = {}
    /\ mishaps = 0
    /\ released = {}
    /\ cancelled = {}
    /\ relayed = [u \in Ue |-> NotRelayed(None)]
    /\ misled = {}
    /\ unlisted = {}

-----------------------------------------------------------------------------
(* The threads of the AMF. *)

\* A socket whose peer is gone, or whose association has returned, delivers
\* nothing.
Sent(box, l, kind, u) ==
    IF l \in Link /\ phase[l] = "up"
    THEN [box EXCEPT ![l] = Append(@, Message(kind, u, None))]
    ELSE box

Reads(l, kind) ==
    /\ phase[l] \in {"up", "down"}
    /\ thread[l].at = "reading"
    /\ inbox[l] # <<>>
    /\ Head(inbox[l]).kind = kind

Consumed(l) == [inbox EXCEPT ![l] = Tail(@)]

Goto(l, task) == thread' = [thread EXCEPT ![l] = task]

Smf == UNCHANGED mishaps
Mishap ==
    /\ mishaps < MaxMishaps
    /\ Cardinality(moving) + mishaps < MaxParties
    /\ mishaps' = mishaps + 1

\* Nothing else of the target's can reach the slot: no other relay waits, and
\* no earlier request or its answer is under way.
Undisturbed(g) ==
    /\ \A l \in Link : ~ (thread[l].at = "waiting" /\ thread[l].to = g)
    /\ \A l \in Link : l[1] = g =>
          /\ \A i \in DOMAIN outbox[l] : outbox[l][i].kind # "request"
          /\ \A i \in DOMAIN inbox[l] : inbox[l][i].kind \notin {"accept", "refuse"}

\* The thread waits; it disturbs the wait for an earlier request to the target.
Waiting(l, u, to) ==
    [k \in Link |->
        CASE k = l -> [at |-> "waiting", ue |-> u, to |-> to, via |-> registered[to],
                       got |-> Nothing, alone |-> Undisturbed(to)]
          [] k # l /\ thread[k].at = "waiting" /\ thread[k].to = to ->
                [thread[k] EXCEPT !.alone = FALSE]
          [] OTHER -> thread[k]]

\* A mutant of Relay: the slot is not emptied first.
RelayUnclean(l, u, to) ==
    LET via == registered[to] IN
    /\ slot' = [slot EXCEPT ![via].awaiting = TRUE]
    /\ outbox' = Sent(outbox, via, "request", u)
    /\ thread' = Waiting(l, u, to)
    /\ relayed' = [relayed EXCEPT ![u].to = to]

\* send_and_await_reply up to the wait: the request goes to the association
\* registered now, and a wait for an earlier one shares its slot.
Relay(l, u, to) ==
    LET via == registered[to] IN
    /\ slot' = [slot EXCEPT ![via] = [awaiting |-> TRUE, reply |-> Nothing]]
    /\ outbox' = Sent(outbox, via, "request", u)
    /\ thread' = Waiting(l, u, to)
    /\ relayed' = [relayed EXCEPT ![u].to = to]

\* handle_handover_required: the SMF gives the transfer of at least one
\* session, and the target is remembered before it is asked.
Required(l) ==
    /\ Reads(l, "required")
    /\ inbox' = Consumed(l)
    /\ LET m == Head(inbox[l]) IN
       \/ /\ Smf
          /\ target' = [target EXCEPT ![m.ue] = m.to]
          /\ \/ registered[m.to] # NoLink /\ Relay(l, m.ue, m.to)
             \/ /\ registered[m.to] = NoLink
                /\ outbox' = Sent(outbox, l, "failure", m.ue)
                /\ UNCHANGED <<thread, slot, relayed>>
       \/ /\ Mishap
          /\ outbox' = Sent(outbox, l, "failure", m.ue)
          /\ UNCHANGED <<thread, slot, target, relayed>>
    /\ UNCHANGED <<phase, supi, registered, entry, downlink, hoState, ranVars,
                   released, cancelled, misled, unlisted>>

\* deliver_reply_if_pending, on the thread of the target's association.
Deliver(l) ==
    /\ \E kind \in {"accept", "refuse"} : Reads(l, kind)
    /\ inbox' = Consumed(l)
    /\ LET m == Head(inbox[l])
           found == registered[l[1]]
       IN slot' = IF found # NoLink /\ slot[found].awaiting
                  THEN [slot EXCEPT ![found].reply = [kind |-> m.kind, ue |-> m.ue]]
                  ELSE slot
    /\ UNCHANGED <<phase, outbox, thread, supi, registered, target, entry,
                   smfVars, ranVars, mishaps, historyVars>>

\* The end of the wait, with an answer.
Take(l) ==
    /\ thread[l].at = "waiting"
    /\ slot[thread[l].via].reply # Nothing
    /\ slot' = [slot EXCEPT ![thread[l].via] = [awaiting |-> FALSE, reply |-> MovedOut]]
    /\ Goto(l, [thread[l] EXCEPT !.at = "answering", !.got = slot[thread[l].via].reply])
    /\ UNCHANGED <<linkVars, supi, registered, target, entry, smfVars, ranVars, mishaps, historyVars>>

\* A mutant of TimeOut: the target of a failed preparation is forgotten.
TimeOutForgets(l) ==
    /\ thread[l].at = "waiting"
    /\ slot[thread[l].via].reply = Nothing
    /\ slot' = [slot EXCEPT ![thread[l].via].awaiting = FALSE]
    /\ outbox' = Sent(outbox, l, "failure", thread[l].ue)
    /\ target' = [target EXCEPT ![thread[l].ue] = None]
    /\ Goto(l, Reading)
    /\ UNCHANGED <<phase, inbox, supi, registered, entry, smfVars, ranVars, mishaps, historyVars>>

\* The end of the wait after ten seconds without one.
TimeOut(l) ==
    /\ thread[l].at = "waiting"
    /\ slot[thread[l].via].reply = Nothing
    /\ slot' = [slot EXCEPT ![thread[l].via].awaiting = FALSE]
    /\ outbox' = Sent(outbox, l, "failure", thread[l].ue)
    /\ Goto(l, Reading)
    /\ UNCHANGED <<phase, inbox, supi, registered, target, entry, smfVars, ranVars, mishaps, historyVars>>

\* A HandoverFailure, or bytes that do not decode.
Refuse(l) ==
    /\ thread[l].at = "answering"
    /\ thread[l].got.kind # "accept"
    /\ outbox' = Sent(outbox, l, "failure", thread[l].ue)
    /\ Goto(l, Reading)
    /\ UNCHANGED <<phase, inbox, supi, registered, slot, target, entry,
                   smfVars, ranVars, mishaps, historyVars>>

\* A HandoverRequestAcknowledge: the SMF moves the downlink of each admitted
\* session to the tunnel in the answer, and the HandoverCommand lists the
\* sessions it confirmed.
Moved(u, moved, tunnel) ==
    [downlink EXCEPT ![u] = [s \in Session |-> IF s \in moved THEN tunnel ELSE @[s]]]

Command(l) ==
    /\ thread[l].at = "answering"
    /\ thread[l].got.kind = "accept"
    /\ LET u == thread[l].ue IN
       \E moved \in SUBSET Session :
          /\ downlink' = Moved(u, moved, [gnb |-> thread[l].to, ue |-> thread[l].got.ue])
          /\ outbox' = Sent(outbox, l, "command", u)
          /\ misled' = IF thread[l].alone THEN misled ELSE misled \union {u}
    /\ Goto(l, Reading)
    /\ UNCHANGED <<phase, inbox, supi, registered, slot, target, entry, hoState, mishaps,
                   ranVars, released, cancelled, relayed, unlisted>>

\* UpdateSMContext with hoState; a request that fails is logged.
Reported(u, state) ==
    \/ Smf /\ hoState' = [hoState EXCEPT ![u] = state]
    \/ Mishap /\ UNCHANGED hoState

\* handle_handover_cancel: the context of the UE is read before the SMF is told.
Cancel(l) ==
    /\ Reads(l, "cancel")
    /\ inbox' = Consumed(l)
    /\ LET u == Head(inbox[l]).ue IN
       /\ Reported(u, "CANCELLED")
       /\ Goto(l, [Reading EXCEPT !.at = "callingOff", !.ue = u, !.to = target[u]])
    /\ UNCHANGED <<phase, outbox, supi, registered, slot, target, entry, downlink,
                   ranVars, historyVars>>

CallOff(l) ==
    /\ thread[l].at = "callingOff"
    /\ LET u == thread[l].ue
           to == thread[l].to
           told == IF to = None THEN outbox ELSE Sent(outbox, registered[to], "release", u)
       IN outbox' = Sent(told, l, "cancelled", u)
    /\ Goto(l, Reading)
    /\ UNCHANGED <<phase, inbox, supi, registered, slot, target, entry,
                   smfVars, ranVars, mishaps, historyVars>>

\* A mutant of Notify: the entry is re-pointed before the release.
NotifyRepointed(l) ==
    /\ Reads(l, "notify")
    /\ inbox' = Consumed(l)
    /\ LET u == Head(inbox[l]).ue IN
       /\ Reported(u, "COMPLETED")
       /\ entry' = [entry EXCEPT ![u] = l]
       /\ outbox' = Sent(outbox, entry'[u], "release", u)
       /\ Goto(l, [Reading EXCEPT !.at = "repointing", !.ue = u])
    /\ UNCHANGED <<phase, supi, registered, slot, target, downlink, ranVars, historyVars>>

\* handle_handover_notify, on the thread of the target's association: the SMF
\* is told, then the source, which the entry still leads to, is released.
Notify(l) ==
    /\ Reads(l, "notify")
    /\ inbox' = Consumed(l)
    /\ LET u == Head(inbox[l]).ue IN
       /\ Reported(u, "COMPLETED")
       /\ outbox' = Sent(outbox, entry[u], "release", u)
       /\ Goto(l, [Reading EXCEPT !.at = "repointing", !.ue = u])
    /\ UNCHANGED <<phase, supi, registered, slot, target, entry, downlink,
                   ranVars, historyVars>>

\* A mutant of Repoint: only a UE without an entry gets one.
RepointMissing(l) ==
    /\ thread[l].at = "repointing"
    /\ entry' = IF entry[thread[l].ue] = NoLink THEN [entry EXCEPT ![thread[l].ue] = l] ELSE entry
    /\ Goto(l, Reading)
    /\ UNCHANGED <<linkVars, supi, registered, slot, target, smfVars, ranVars, mishaps, historyVars>>

\* register_ue: the entry now leads to the target.
Repoint(l) ==
    /\ thread[l].at = "repointing"
    /\ entry' = [entry EXCEPT ![thread[l].ue] = l]
    /\ Goto(l, Reading)
    /\ UNCHANGED <<linkVars, supi, registered, slot, target, smfVars, ranVars, mishaps, historyVars>>

\* unregister_ue of the UE this association registered, whatever the entry is.
Forgotten(l) ==
    IF supi[l] = None THEN entry ELSE [entry EXCEPT ![supi[l]] = NoLink]

\* handle_ue_context_release_complete.
Complete(l) ==
    /\ Reads(l, "complete")
    /\ inbox' = Consumed(l)
    /\ entry' = Forgotten(l)
    /\ supi' = [supi EXCEPT ![l] = None]
    /\ UNCHANGED <<phase, outbox, thread, registered, slot, target,
                   smfVars, ranVars, mishaps, historyVars>>

\* handle_association once receive() returns nothing.
Close(l) ==
    /\ phase[l] = "down"
    /\ thread[l].at = "reading"
    /\ inbox[l] = <<>>
    /\ phase' = [phase EXCEPT ![l] = "closed"]
    /\ entry' = Forgotten(l)
    /\ registered' = [registered EXCEPT ![l[1]] = NoLink]
    /\ unlisted' = IF registered[l[1]] \in {l, NoLink} THEN unlisted
                                                       ELSE unlisted \union {l[1]}
    /\ UNCHANGED <<inbox, outbox, thread, supi, slot, target, smfVars, ranVars, mishaps,
                   released, cancelled, relayed, misled>>

-----------------------------------------------------------------------------
(* The gNBs. *)

LinkOf(g) == <<g, current[g]>>
Up(g) == phase[LinkOf(g)] = "up"
ToTheAmf(g, kind, u, to) == [inbox EXCEPT ![LinkOf(g)] = Append(@, Message(kind, u, to))]
Hears(g, kind, u) ==
    /\ Up(g)
    /\ outbox[LinkOf(g)] # <<>>
    /\ Head(outbox[LinkOf(g)]) = Message(kind, u, None)
    /\ outbox' = [outbox EXCEPT ![LinkOf(g)] = Tail(@)]

\* An acknowledgement echoes the NGAP ids, so one of an earlier context of the
\* UE is not taken for this one: the gNB asks again once nothing is outstanding.
Ask(g, u, to) ==
    /\ handovers < MaxHandovers
    /\ Cardinality(moving \union {u}) + mishaps <= MaxParties
    /\ position[u] = g /\ to # g /\ Up(g)
    /\ wanted[g][u] = None /\ u \notin cancelling[g]
    /\ handovers' = handovers + 1
    /\ moving' = moving \union {u}
    /\ wanted' = [wanted EXCEPT ![g][u] = to]
    /\ inbox' = ToTheAmf(g, "required", u, to)
    /\ relayed' = [relayed EXCEPT ![u] = NotRelayed(g)]
    /\ UNCHANGED <<phase, outbox, amfVars, smfVars, current, holds, position,
                   cancelling, mishaps, released, cancelled, misled, unlisted>>

Allocate(g, u) ==
    /\ Hears(g, "request", u)
    /\ \/ /\ holds' = [holds EXCEPT ![g] = @ \union {u}]
          /\ inbox' = ToTheAmf(g, "accept", u, None)
       \/ /\ inbox' = ToTheAmf(g, "refuse", u, None)
          /\ UNCHANGED holds
    /\ UNCHANGED <<phase, amfVars, smfVars, current, position, wanted,
                   cancelling, handovers, moving, mishaps, historyVars>>

\* The UE reaches the target it was sent to, if that holds a context for it.
Arrive(g, u) ==
    LET to == wanted[g][u] IN
    /\ position[u] = g /\ Up(to) /\ u \in holds[to]
    /\ position' = [position EXCEPT ![u] = to]
    /\ inbox' = ToTheAmf(to, "notify", u, None)

\* The outcome of the preparation; a gNB without a handover of its own, or
\* one that is cancelling it, ignores a HandoverCommand.
Outcome(g, u) ==
    /\ \/ /\ Hears(g, "command", u)
          /\ \/ wanted[g][u] # None /\ u \notin cancelling[g] /\ Arrive(g, u)
             \/ UNCHANGED <<position, inbox>>
          /\ UNCHANGED wanted
       \/ /\ Hears(g, "failure", u)
          /\ wanted' = IF u \in cancelling[g] THEN wanted
                       ELSE [wanted EXCEPT ![g][u] = None]
          /\ UNCHANGED <<position, inbox>>
    /\ UNCHANGED <<phase, amfVars, smfVars, current, holds, cancelling,
                   handovers, moving, mishaps, historyVars>>

\* The source gives up before it has been told to release the UE.
SendCancel(g, u) ==
    /\ Up(g)
    /\ wanted[g][u] # None /\ u \in holds[g] \ cancelling[g]
    /\ cancelling' = [cancelling EXCEPT ![g] = @ \union {u}]
    /\ cancelled' = cancelled \union {u}
    /\ inbox' = ToTheAmf(g, "cancel", u, None)
    /\ UNCHANGED <<phase, outbox, amfVars, smfVars, current, holds, position, wanted,
                   handovers, moving, mishaps, released, relayed, misled, unlisted>>

\* The handover in question is the one the gNB wants, unless the UE has been
\* released since, or handed over again by another gNB.
CalledOff(g, u) == wanted[g][u] # None /\ relayed[u].by = g

Cancelled(g, u) ==
    /\ Hears(g, "cancelled", u)
    /\ relayed' = [relayed EXCEPT ![u].calledOff = @ \/ CalledOff(g, u)]
    /\ wanted' = [wanted EXCEPT ![g][u] = None]
    /\ cancelling' = [cancelling EXCEPT ![g] = @ \ {u}]
    /\ UNCHANGED <<phase, inbox, amfVars, smfVars, current, holds, position, handovers, moving,
                   mishaps, released, cancelled, misled, unlisted>>

\* UEContextReleaseCommand: the gNB drops the context and confirms.
Release(g, u) ==
    /\ Hears(g, "release", u)
    /\ wanted' = [wanted EXCEPT ![g][u] = None]
    /\ holds' = [holds EXCEPT ![g] = @ \ {u}]
    /\ inbox' = ToTheAmf(g, "complete", u, None)
    /\ IF position[u] = g
       THEN position' = [position EXCEPT ![u] = None] /\ released' = released \union {u}
       ELSE UNCHANGED <<position, released>>
    /\ UNCHANGED <<phase, amfVars, smfVars, current, cancelling, handovers, moving, mishaps,
                   cancelled, relayed, misled, unlisted>>

\* A gNB dies with its contexts; messages the AMF has not read stay.
Crash(g) ==
    /\ g \in Crashing /\ Up(g)
    /\ Mishap
    /\ phase' = [phase EXCEPT ![LinkOf(g)] = "down"]
    /\ outbox' = [outbox EXCEPT ![LinkOf(g)] = <<>>]
    /\ holds' = [holds EXCEPT ![g] = {}]
    /\ position' = [u \in Ue |-> IF position[u] = g THEN None ELSE position[u]]
    /\ wanted' = [wanted EXCEPT ![g] = [u \in Ue |-> None]]
    /\ cancelling' = [cancelling EXCEPT ![g] = {}]
    /\ UNCHANGED <<inbox, amfVars, smfVars, current, handovers, moving, historyVars>>

\* The gNB connects again and its NGSetupRequest replaces the registration;
\* the thread of the old association may not have noticed yet.
Setup(g) ==
    /\ ~ Up(g)
    /\ current[g] < MaxLinks
    /\ current' = [current EXCEPT ![g] = @ + 1]
    /\ phase' = [phase EXCEPT ![<<g, current[g] + 1>>] = "up"]
    /\ registered' = [registered EXCEPT ![g] = <<g, current[g] + 1>>]
    /\ UNCHANGED <<inbox, outbox, thread, supi, slot, target, entry, smfVars, holds, position,
                   wanted, cancelling, handovers, moving, mishaps, historyVars>>

-----------------------------------------------------------------------------
ThreadStep(l) ==
    \/ Required(l) \/ Deliver(l) \/ Take(l) \/ TimeOut(l)
    \/ Refuse(l) \/ Command(l)
    \/ Cancel(l) \/ CallOff(l)
    \/ Notify(l) \/ Repoint(l)
    \/ Complete(l) \/ Close(l)

GnbStep(g) ==
    \/ \E u \in Ue :
          \/ \E to \in Gnb : Ask(g, u, to)
          \/ Allocate(g, u) \/ Outcome(g, u)
          \/ SendCancel(g, u) \/ Cancelled(g, u) \/ Release(g, u)
    \/ Crash(g) \/ Setup(g)

HandoverNext == (\E l \in Link : ThreadStep(l)) \/ (\E g \in Gnb : GnbStep(g))

HandoverSpec == HandoverInit /\ [][HandoverNext]_handoverVars

-----------------------------------------------------------------------------
\* The values each variable of the AMF, the SMF and the gNBs ranges over.
HandoverTypeOK ==
    /\ phase \in [Link -> {"unused", "up", "down", "closed"}]
    /\ inbox \in [Link -> Seq(ToAmf)] /\ outbox \in [Link -> Seq(ToGnb)]
    /\ thread \in [Link -> Task]
    /\ supi \in [Link -> Ue \union {None}]
    /\ registered \in [Gnb -> Link \union {NoLink}]
    /\ slot \in [Link -> [awaiting : BOOLEAN, reply : Replies]]
    /\ target \in [Ue -> Gnb \union {None}]
    /\ entry \in [Ue -> Link \union {NoLink}]
    /\ downlink \in [Ue -> [Session -> [gnb : Gnb, ue : Ue]]]
    /\ hoState \in [Ue -> {"NONE", "COMPLETED", "CANCELLED"}]
    /\ current \in [Gnb -> 1 .. MaxLinks]
    /\ holds \in [Gnb -> SUBSET Ue]
    /\ position \in [Ue -> Gnb \union {None}]
    /\ wanted \in [Gnb -> [Ue -> Gnb \union {None}]]
    /\ cancelling \in [Gnb -> SUBSET Ue]
    /\ handovers \in 0 .. MaxHandovers /\ moving \subseteq Ue /\ mishaps \in 0 .. MaxMishaps
    /\ released \subseteq Ue /\ cancelled \subseteq Ue
    /\ relayed \in [Ue -> [by : Gnb \union {None}, to : Gnb \union {None}, calledOff : BOOLEAN]]
    /\ misled \subseteq Ue
    /\ unlisted \subseteq Gnb

\* A relay that no other relay to the target disturbs ends with the target's
\* answer for its own UE: never with another UE's, a late one or what an
\* earlier waiter left in the slot (send_and_await_reply).
RepliesReachTheirRelay ==
    \A l \in Link :
        (thread[l].at = "answering" /\ thread[l].alone)
            => thread[l].got \in [kind : {"accept", "refuse"}, ue : {thread[l].ue}]

\* The arrival of a UE is still to be handled.
Arriving(u) ==
    \E l \in Link :
        /\ l[1] = position[u]
        /\ \/ \E i \in DOMAIN inbox[l] : inbox[l][i] = Message("notify", u, None)
           \/ thread[l].ue = u /\ thread[l].at = "repointing"

\* Once a HandoverNotify is handled no entry of the NgapUeRegistry leads to a
\* gNB the UE has left, however the handler, the release of the source and
\* further handovers interleave (handle_handover_notify).
EntryLeadsToUe ==
    \A u \in Ue :
        (entry[u] # NoLink /\ position[u] # None /\ ~ Arriving(u))
            => entry[u][1] = position[u]

\* The AMF releases a UE at the gNB that serves it only when a source has sent
\* a HandoverCancel for it, or when it was sent away by the answer of a relay
\* that shared the slot of its target with others (handle_handover_notify
\* releases through an entry that is re-pointed afterwards,
\* handle_handover_cancel through a target that is never cleared).
ReleasedOnlyWhenCancelled == released \subseteq cancelled \union misled

\* A source whose HandoverCancel is acknowledged leaves nothing reserved at
\* the target once the target has read its messages, also when the relay timed
\* out and the target answered afterwards; except where the end of an older
\* association has unregistered the target (handle_handover_cancel).
CancelFreesTarget ==
    \A u \in Ue :
        LET to == relayed[u].to IN
        (relayed[u].calledOff /\ to # None /\ to \notin unlisted)
            => \/ u \notin holds[to]
               \/ Message("release", u, None) \in Range(outbox[LinkOf(to)])

\* As the SMF's handler of hoState CANCELLED says, a cancelled handover leaves
\* nothing to undo in the UPF: the downlink of a UE that was not handed over
\* leads to the gNB that serves it.
CancelledKeepsDownlink ==
    \A u \in Ue :
        (hoState[u] = "CANCELLED" /\ relayed[u].calledOff /\ position[u] # None)
            => \A s \in Session : downlink[u][s].gnb = position[u]
=============================================================================
