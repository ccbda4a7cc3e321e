------------------------- MODULE DiameterServerProofs -------------------------
(***************************************************************************)
(* The registry of Gy sessions always leads to a connection that has the   *)
(* session, for any number of connections, Session-Ids and callers.        *)
(***************************************************************************)
EXTENDS DiameterServer, TLAPS

\* The request a thread works on belongs to an open connection, names a Session-Id,
\* and until it is settled that Session-Id stands for the request's session.
RequestsInOrder ==
    \A c \in Connection :
        /\ at[c].step # "idle" => phase[c] = "open" /\ at[c].sid \in Session
        /\ at[c].step \in {"register", "charge", "settle"} =>
              at[c].ref # 0 /\ held["gy"][c][at[c].sid] = at[c].ref

\* A caller under way has a connection and a call number.
ErrandsInOrder ==
    \A t \in Caller :
        caller[t].step # "idle" => caller[t].conn \in Connection /\ caller[t].call \in Calls

\* A registered Session-Id is one its connection will clean up.
RegisteredIsNoted ==
    \A s \in Session : registry[s] # None => s \in mine[registry[s]]

DiameterInv ==
    DiameterTypeOK /\ RequestsInOrder /\ ErrandsInOrder /\ RegisteredIsNoted /\ RegistryLeadsToSession

\* The records that threads and callers are given are tasks and errands.
LEMMA TaskTyped ==
    ASSUME NEW step \in {"idle", "register", "charge", "settle", "deregister"},
           NEW s \in Session \union {None}, NEW r \in 0 .. MaxRefs
    PROVE  [step |-> step, sid |-> s, ref |-> r] \in Task
  BY DEF Task

\* The idle thread and the idle caller are among them.
LEMMA IdleTyped == Idle \in Task /\ NoCall \in Errand
<1>1. 0 \in 0 .. MaxRefs /\ 0 \in 0 .. MaxCalls
  BY DiameterAssumption
<1> QED BY <1>1 DEF Idle, NoCall, Task, Errand

\* Strand puts sessions out of reach, and nothing else.
LEMMA StrandTyped ==
    ASSUME DiameterTypeOK, RequestsInOrder, NEW gone \in SUBSET Connection, Strand(gone)
    PROVE  stranded' \in [App -> SUBSET Refs] /\ cut' \subseteq Refs
<1>1. \A a \in App, c \in Connection : Holds(a, c) \subseteq Refs
  <2> SUFFICES ASSUME NEW a \in App, NEW c \in Connection, NEW s \in Session, held[a][c][s] # 0
               PROVE  held[a][c][s] \in Refs
    BY DEF Holds
  <2>1. held[a][c][s] \in 0 .. MaxRefs
    BY DEF DiameterTypeOK
  <2> QED BY <2>1, DiameterAssumption DEF Refs
<1>2. {at[c].ref : c \in {x \in gone : at[x].step = "settle"}} \subseteq Refs
  <2> SUFFICES ASSUME NEW c \in gone, at[c].step = "settle" PROVE at[c].ref \in Refs
    OBVIOUS
  <2>1. at[c] \in Task
    BY DEF DiameterTypeOK
  <2>2. at[c].ref \in 0 .. MaxRefs
    BY <2>1 DEF Task
  <2> QED BY <2>2, DiameterAssumption DEF RequestsInOrder, Refs
<1> QED BY <1>1, <1>2 DEF Strand, DiameterTypeOK

\* Each step keeps the types of the variables it assigns.
LEMMA DiameterTypeStep ==
    ASSUME DiameterTypeOK, RequestsInOrder, ErrandsInOrder, [DiameterNext]_diameterVars
    PROVE  DiameterTypeOK'
<1>1. CASE UNCHANGED diameterVars
  BY <1>1 DEF diameterVars, connectionVars, storeVars, reauthVars, historyVars, DiameterTypeOK
<1>2. ASSUME NEW c \in Connection, Accept(c) PROVE DiameterTypeOK'
  BY <1>2 DEF Accept, storeVars, reauthVars, historyVars, DiameterTypeOK
<1>3. ASSUME NEW c \in Connection, NEW a \in App, NEW s \in Session, Initial(a, c, s)
      PROVE DiameterTypeOK'
  <2>1. Fresh \in Refs /\ Fresh \in 0 .. MaxRefs /\ created' = Fresh
    BY <1>3, DiameterAssumption DEF Initial, Establish, Fresh, Refs, DiameterTypeOK
  <2>2. stored' \in [App -> SUBSET Refs]
    BY <1>3, <2>1 DEF Initial, Establish, DiameterTypeOK
  <2>3. held' \in [App -> [Connection -> [Session -> 0 .. MaxRefs]]]
    BY <1>3, <2>1 DEF Initial, Establish, DiameterTypeOK
  <2>4. stranded' \in [App -> SUBSET Refs]
    <3>1. held[a][c][s] \in 0 .. MaxRefs
      BY DEF DiameterTypeOK
    <3>2. {held[a][c][s]} \ {0} \subseteq Refs
      BY <3>1, DiameterAssumption DEF Refs
    <3> QED BY <1>3, <3>2 DEF Initial, Establish, DiameterTypeOK
  <2>5. at' \in [Connection -> Task]
    <3>1. [step |-> "register", sid |-> s, ref |-> Fresh] \in Task
      BY <2>1, TaskTyped
    <3>2. at \in [Connection -> Task]
      BY DEF DiameterTypeOK
    <3> QED BY <1>3, <3>1, <3>2 DEF Initial, Goto
  <2> QED BY <1>3, <2>1, <2>2, <2>3, <2>4, <2>5 DEF Initial, reauthVars, DiameterTypeOK
<1>4. ASSUME NEW c \in Connection, Register(c) PROVE DiameterTypeOK'
  <2>1. at[c] \in Task /\ at[c].sid \in Session
    BY <1>4 DEF Register, RequestsInOrder, DiameterTypeOK
  <2>2. [step |-> "charge", sid |-> at[c].sid, ref |-> at[c].ref] \in Task
    BY <2>1, TaskTyped DEF Task
  <2> QED BY <1>4, <2>1, <2>2 DEF Register, Goto, storeVars, reauthVars, historyVars, DiameterTypeOK
<1>5. ASSUME NEW c \in Connection, NEW s \in Session, Update(c, s) PROVE DiameterTypeOK'
  <2>1. held["gy"][c][s] \in 0 .. MaxRefs
    BY DEF DiameterTypeOK, App
  <2>2. [step |-> "charge", sid |-> s, ref |-> held["gy"][c][s]] \in Task
    BY <2>1, TaskTyped
  <2> QED BY <1>5, <2>2 DEF Update, Goto, storeVars, reauthVars, historyVars, DiameterTypeOK
<1>6. ASSUME NEW c \in Connection, Charge(c) PROVE DiameterTypeOK'
  BY <1>6, IdleTyped DEF Charge, storeVars, reauthVars, historyVars, DiameterTypeOK
<1>7. ASSUME NEW c \in Connection, NEW s \in Session, Terminate(c, s) PROVE DiameterTypeOK'
  <2>1. held["gy"][c][s] \in 0 .. MaxRefs
    BY DEF DiameterTypeOK, App
  <2>2. [step |-> "settle", sid |-> s, ref |-> held["gy"][c][s]] \in Task
    BY <2>1, TaskTyped
  <2>3. stored' \in [App -> SUBSET Refs]
    BY <1>7 DEF Terminate, DiameterTypeOK
  <2> QED BY <1>7, <2>2, <2>3 DEF Terminate, Goto, reauthVars, historyVars, DiameterTypeOK
<1>8. ASSUME NEW c \in Connection, Settle(c) PROVE DiameterTypeOK'
  <2>1. at[c] \in Task /\ at[c].sid \in Session /\ at[c].ref # 0
    BY <1>8 DEF Settle, RequestsInOrder, DiameterTypeOK
  <2>2. at[c].ref \in Refs /\ at[c].ref \in 0 .. MaxRefs
    BY <2>1, DiameterAssumption DEF Task, Refs
  <2>3. held' \in [App -> [Connection -> [Session -> 0 .. MaxRefs]]]
    <3>1. "gy" \in App /\ 0 \in 0 .. MaxRefs
      BY DiameterAssumption DEF App
    <3> QED BY <1>8, <2>1, <3>1 DEF Settle, DiameterTypeOK
  <2>4. settles' \in [Refs -> Nat]
    BY <1>8, <2>2 DEF Settle, DiameterTypeOK
  <2>5. [step |-> "deregister", sid |-> at[c].sid, ref |-> at[c].ref] \in Task
    BY <2>1, <2>2, TaskTyped
  <2> QED BY <1>8, <2>3, <2>4, <2>5 DEF Settle, Goto, reauthVars, historyVars, DiameterTypeOK
<1>9. ASSUME NEW c \in Connection, Deregister(c) PROVE DiameterTypeOK'
  <2>1. registry' \in [Session -> Connection \union {None}]
    BY <1>9 DEF Deregister, DiameterTypeOK
  <2> QED BY <1>9, <2>1, IdleTyped DEF Deregister, storeVars, reauthVars, historyVars, DiameterTypeOK
<1>10. ASSUME NEW c \in Connection, NEW a \in App, NEW s \in Session, Finish(a, c, s)
       PROVE DiameterTypeOK'
  <2>1. held' \in [App -> [Connection -> [Session -> 0 .. MaxRefs]]]
    BY <1>10, DiameterAssumption DEF Finish, DiameterTypeOK
  <2>2. stored' \in [App -> SUBSET Refs]
    BY <1>10 DEF Finish, DiameterTypeOK
  <2> QED BY <1>10, <2>1, <2>2 DEF Finish, reauthVars, historyVars, DiameterTypeOK
<1>11. ASSUME NEW c \in Connection, Event(c) PROVE DiameterTypeOK'
  <2>1. created' \in 0 .. MaxRefs
    BY <1>11, DiameterAssumption DEF Event, Refs
  <2> QED BY <1>11, <2>1 DEF Event, connectionVars, reauthVars, historyVars, DiameterTypeOK
<1>12. ASSUME NEW c \in Connection, ReceiveRaa(c) PROVE DiameterTypeOK'
  <2>1. PICK n \in unanswered[c] : /\ unanswered' = [unanswered EXCEPT ![c] = @ \ {n}]
                                   /\ pending' = [pending EXCEPT ![c] = n]
    BY <1>12 DEF ReceiveRaa
  <2>2. n \in 0 .. MaxCalls
    BY DiameterAssumption DEF DiameterTypeOK, Calls
  <2>3. pending' \in [Connection -> 0 .. MaxCalls] /\ unanswered' \in [Connection -> SUBSET Calls]
    BY <2>1, <2>2 DEF DiameterTypeOK
  <2> QED BY <1>12, <2>3 DEF ReceiveRaa, connectionVars, storeVars, historyVars, DiameterTypeOK
<1>13. ASSUME NEW c \in Connection, Leave(c) PROVE DiameterTypeOK'
  <2>1. stranded' \in [App -> SUBSET Refs] /\ cut' \subseteq Refs
    BY <1>13, StrandTyped DEF Leave
  <2>2. held' \in [App -> [Connection -> [Session -> 0 .. MaxRefs]]]
    BY <1>13, DiameterAssumption DEF Leave, DiameterTypeOK
  <2> QED BY <1>13, <2>1, <2>2, IdleTyped DEF Leave, storeVars, reauthVars, DiameterTypeOK
<1>14. ASSUME NEW c \in Connection, Cleanup(c) PROVE DiameterTypeOK'
  BY <1>14 DEF Cleanup, storeVars, reauthVars, historyVars, DiameterTypeOK
<1>15. ASSUME NEW t \in Caller, NEW s \in Session, Lookup(t, s) PROVE DiameterTypeOK'
  <2>1. calls' \in 0 .. MaxCalls /\ calls' = calls + 1 /\ 0 \in 0 .. MaxCalls
    BY <1>15, DiameterAssumption DEF Lookup, DiameterTypeOK
  <2>2. [step |-> "reset", conn |-> registry[s], call |-> calls + 1, result |-> 0] \in Errand
    BY <2>1 DEF Errand, DiameterTypeOK
  <2> QED BY <1>15, <2>1, <2>2 DEF Lookup, connectionVars, storeVars, historyVars, DiameterTypeOK
<1>16. ASSUME NEW t \in Caller, CallerStep(t) PROVE DiameterTypeOK'
  <2>1. caller[t] \in Errand /\ caller \in [Caller -> Errand]
    BY DEF DiameterTypeOK
  <2>2. \A step \in {"idle", "reset", "write", "wait", "done"} :
            At(t, step) => caller' \in [Caller -> Errand]
    BY <2>1 DEF At, Errand
  <2>3. CASE Reset(t)
    <3>1. 0 \in 0 .. MaxCalls /\ caller[t].conn \in Connection
      BY <2>3, DiameterAssumption DEF Reset, ErrandsInOrder
    <3>2. pending' \in [Connection -> 0 .. MaxCalls]
      BY <2>3, <3>1 DEF Reset, DiameterTypeOK
    <3> QED BY <2>2, <2>3, <3>2 DEF Reset, connectionVars, storeVars, historyVars, DiameterTypeOK
  <2>4. CASE Write(t)
    <3>1. caller' \in [Caller -> Errand]
      BY <2>2, <2>4 DEF Write
    <3>2. unanswered' \in [Connection -> SUBSET Calls]
      <4>1. caller[t].call \in Calls /\ unanswered \in [Connection -> SUBSET Calls]
        BY <2>4 DEF Write, ErrandsInOrder, DiameterTypeOK
      <4> QED BY <2>4, <4>1 DEF Write
    <3> QED BY <2>4, <3>1, <3>2 DEF Write, connectionVars, storeVars, historyVars, DiameterTypeOK
  <2>5. CASE Wait(t)
    <3>1. pending[caller[t].conn] \in 0 .. MaxCalls
      BY <2>5 DEF Wait, ErrandsInOrder, DiameterTypeOK
    <3>2. caller' \in [Caller -> Errand]
      BY <2>1, <2>5, <3>1 DEF Wait, Errand
    <3> QED BY <2>5, <3>2 DEF Wait, connectionVars, storeVars, historyVars, DiameterTypeOK
  <2>6. CASE Return(t)
    BY <2>6, IdleTyped DEF Return, connectionVars, storeVars, historyVars, DiameterTypeOK
  <2> QED BY <1>16, <2>3, <2>4, <2>5, <2>6 DEF CallerStep
<1>17. CASE Die
  <2>1. stranded' \in [App -> SUBSET Refs] /\ cut' \subseteq Refs
    BY <1>17, StrandTyped DEF Die
  <2>2. held' \in [App -> [Connection -> [Session -> 0 .. MaxRefs]]]
    BY <1>17, DiameterAssumption DEF Die
  <2>3. crashes' \in 0 .. MaxCrashes /\ pending' \in [Connection -> 0 .. MaxCalls]
    BY <1>17, DiameterAssumption DEF Die, DiameterTypeOK
  <2> QED BY <1>17, <2>1, <2>2, <2>3, IdleTyped DEF Die, storeVars, DiameterTypeOK
<1> QED BY <1>1, <1>2, <1>3, <1>4, <1>5, <1>6, <1>7, <1>8, <1>9, <1>10, <1>11, <1>12, <1>13,
           <1>14, <1>15, <1>16, <1>17 DEF DiameterNext, ConnectionStep, Request

-----------------------------------------------------------------------------
\* The threads' and the callers' places stay in order.
LEMMA OrderStep ==
    ASSUME DiameterTypeOK, RequestsInOrder, ErrandsInOrder, [DiameterNext]_diameterVars
    PROVE  RequestsInOrder' /\ ErrandsInOrder'
<1>1. ASSUME UNCHANGED <<phase, at, held>> PROVE RequestsInOrder'
  BY <1>1 DEF RequestsInOrder
<1>2. ASSUME UNCHANGED caller PROVE ErrandsInOrder'
  BY <1>2 DEF ErrandsInOrder
<1>3. CASE UNCHANGED diameterVars
  BY <1>1, <1>2, <1>3 DEF diameterVars, connectionVars, reauthVars
<1>4. ASSUME NEW c \in Connection, Accept(c) PROVE RequestsInOrder' /\ ErrandsInOrder'
  BY <1>2, <1>4 DEF Accept, RequestsInOrder, reauthVars, DiameterTypeOK
<1>5. ASSUME NEW c \in Connection, NEW a \in App, NEW s \in Session, Initial(a, c, s)
      PROVE RequestsInOrder' /\ ErrandsInOrder'
  <2>1. Fresh # 0
    BY <1>5 DEF Initial, Establish, Refs
  <2>2. held' = [held EXCEPT ![a][c][s] = Fresh] /\ held \in [App -> [Connection -> [Session -> 0 .. MaxRefs]]]
    BY <1>5 DEF Initial, Establish, DiameterTypeOK
  <2>3. \A d \in Connection \ {c} : held'["gy"][d] = held["gy"][d]
    BY <2>2 DEF App
  <2>4. RequestsInOrder'
    <3>1. CASE a = "gy"
      <4>1. held'["gy"][c][s] = Fresh
        BY <2>2, <3>1 DEF App
      <4>2. at' = [at EXCEPT ![c] = [step |-> "register", sid |-> s, ref |-> Fresh]]
        BY <1>5, <3>1 DEF Initial, Goto
      <4>3. Fresh # 0 /\ phase[c] = "open" /\ phase' = phase
        BY <1>5, <2>1 DEF Initial, Reading, DiameterTypeOK
      <4>4. at \in [Connection -> Task]
        BY DEF DiameterTypeOK
      <4>5. at'[c] = [step |-> "register", sid |-> s, ref |-> Fresh]
        BY <4>2, <4>4
      <4>6. \A d \in Connection \ {c} : at'[d] = at[d] /\ held'["gy"][d] = held["gy"][d]
        BY <2>3, <4>2, <4>4
      <4> QED BY <4>1, <4>3, <4>5, <4>6 DEF RequestsInOrder
    <3>2. CASE a # "gy"
      <4>1. held'["gy"] = held["gy"]
        BY <2>2, <3>2 DEF App
      <4> QED BY <1>5, <3>2, <4>1 DEF Initial, RequestsInOrder
    <3> QED BY <3>1, <3>2
  <2> QED BY <1>2, <1>5, <2>4 DEF Initial, reauthVars
<1>6. ASSUME NEW c \in Connection, Register(c) PROVE RequestsInOrder' /\ ErrandsInOrder'
  BY <1>2, <1>6 DEF Register, Goto, RequestsInOrder, reauthVars, DiameterTypeOK
<1>7. ASSUME NEW c \in Connection, NEW s \in Session, Update(c, s)
      PROVE RequestsInOrder' /\ ErrandsInOrder'
  BY <1>2, <1>7 DEF Update, Reading, Goto, RequestsInOrder, reauthVars, DiameterTypeOK
<1>8. ASSUME NEW c \in Connection, Charge(c) PROVE RequestsInOrder' /\ ErrandsInOrder'
  BY <1>2, <1>8 DEF Charge, Idle, RequestsInOrder, reauthVars, DiameterTypeOK
<1>9. ASSUME NEW c \in Connection, NEW s \in Session, Terminate(c, s)
      PROVE RequestsInOrder' /\ ErrandsInOrder'
  BY <1>2, <1>9 DEF Terminate, Reading, Goto, RequestsInOrder, reauthVars, DiameterTypeOK
<1>10. ASSUME NEW c \in Connection, Settle(c) PROVE RequestsInOrder' /\ ErrandsInOrder'
  <2>1. \A d \in Connection \ {c} : held'["gy"][d] = held["gy"][d]
    BY <1>10 DEF Settle, App, DiameterTypeOK
  <2> QED BY <1>2, <1>10, <2>1 DEF Settle, Goto, RequestsInOrder, reauthVars, DiameterTypeOK
<1>11. ASSUME NEW c \in Connection, Deregister(c) PROVE RequestsInOrder' /\ ErrandsInOrder'
  BY <1>2, <1>11 DEF Deregister, Idle, RequestsInOrder, reauthVars, DiameterTypeOK
<1>12. ASSUME NEW c \in Connection, NEW a \in App, NEW s \in Session, Finish(a, c, s)
       PROVE RequestsInOrder' /\ ErrandsInOrder'
  <2>1. held'["gy"] = held["gy"]
    BY <1>12 DEF Finish, App, DiameterTypeOK
  <2> QED BY <1>2, <1>12, <2>1 DEF Finish, RequestsInOrder, reauthVars
<1>13. ASSUME NEW c \in Connection, Event(c) \/ ReceiveRaa(c)
       PROVE RequestsInOrder' /\ ErrandsInOrder'
  BY <1>1, <1>2, <1>13 DEF Event, ReceiveRaa, connectionVars, reauthVars
<1>14. ASSUME NEW c \in Connection, Leave(c) PROVE RequestsInOrder' /\ ErrandsInOrder'
  <2>1. \A d \in Connection \ {c} : held'["gy"][d] = held["gy"][d]
    BY <1>14 DEF Leave, App, DiameterTypeOK
  <2>2. at'[c] = Idle /\ \A d \in Connection \ {c} : at'[d] = at[d] /\ phase'[d] = phase[d]
    BY <1>14 DEF Leave, DiameterTypeOK
  <2>3. RequestsInOrder'
    BY <2>1, <2>2 DEF Idle, RequestsInOrder
  <2> QED BY <1>2, <1>14, <2>3 DEF Leave, reauthVars
<1>15. ASSUME NEW c \in Connection, Cleanup(c) PROVE RequestsInOrder' /\ ErrandsInOrder'
  BY <1>2, <1>15 DEF Cleanup, RequestsInOrder, reauthVars, DiameterTypeOK
<1>16. ASSUME NEW t \in Caller, NEW s \in Session, Lookup(t, s)
       PROVE RequestsInOrder' /\ ErrandsInOrder'
  <2>1. registry[s] \in Connection /\ calls + 1 \in Calls
    BY <1>16, DiameterAssumption DEF Lookup, Calls, DiameterTypeOK
  <2> QED BY <1>1, <1>16, <2>1 DEF Lookup, connectionVars, ErrandsInOrder, DiameterTypeOK
<1>17. ASSUME NEW t \in Caller, CallerStep(t) PROVE RequestsInOrder' /\ ErrandsInOrder'
  <2>1. caller \in [Caller -> Errand]
    BY DEF DiameterTypeOK
  <2>2. RequestsInOrder'
    BY <1>1, <1>17 DEF CallerStep, Reset, Write, Wait, Return, connectionVars
  <2>3. ErrandsInOrder'
    BY <1>17, <2>1 DEF CallerStep, Reset, Write, Wait, Return, At, NoCall, Errand, ErrandsInOrder
  <2> QED BY <2>2, <2>3
<1>18. CASE Die
  BY <1>18 DEF Die, Idle, NoCall, RequestsInOrder, ErrandsInOrder
<1> QED BY <1>3, <1>4, <1>5, <1>6, <1>7, <1>8, <1>9, <1>10, <1>11, <1>12, <1>13, <1>14, <1>15,
           <1>16, <1>17, <1>18 DEF DiameterNext, ConnectionStep, Request

-----------------------------------------------------------------------------
\* A step that leaves the registry and its connections alone.
LEMMA RegistryUntouched ==
    ASSUME RegisteredIsNoted, RegistryLeadsToSession, UNCHANGED <<phase, at, held, mine, registry>>
    PROVE  RegisteredIsNoted' /\ RegistryLeadsToSession'
  BY DEF RegisteredIsNoted, RegistryLeadsToSession

\* Each step keeps the registry leading to sessions.
LEMMA RegistryStep ==
    ASSUME DiameterInv, [DiameterNext]_diameterVars
    PROVE  RegisteredIsNoted' /\ RegistryLeadsToSession'
<1> DEFINE Good == RegisteredIsNoted' /\ RegistryLeadsToSession'
<1> USE DEF DiameterInv
<1>0. /\ phase \in [Connection -> {"new", "open", "closing", "closed"}]
      /\ at \in [Connection -> Task]
      /\ held \in [App -> [Connection -> [Session -> 0 .. MaxRefs]]]
      /\ mine \in [Connection -> SUBSET Session]
      /\ registry \in [Session -> Connection \union {None}]
      /\ "gy" \in App
  BY DEF DiameterTypeOK, App
<1>1. CASE UNCHANGED diameterVars
  BY <1>1, RegistryUntouched DEF diameterVars, connectionVars
<1>2. ASSUME NEW c \in Connection, Accept(c) PROVE Good
  BY <1>0, <1>2 DEF Accept, RegisteredIsNoted, RegistryLeadsToSession
<1>3. ASSUME NEW c \in Connection, NEW a \in App, NEW s \in Session, Initial(a, c, s) PROVE Good
  <2>1. \A d \in Connection, x \in Session : held["gy"][d][x] # 0 => held'["gy"][d][x] # 0
    <3>1. Fresh # 0 /\ held' = [held EXCEPT ![a][c][s] = Fresh]
      BY <1>3 DEF Initial, Establish, Refs
    <3> QED BY <1>0, <3>1
  <2>2. \A d \in Connection : at[d].step = "deregister" => at'[d] = at[d]
    BY <1>0, <1>3 DEF Initial, Reading, Idle, Goto
  <2> QED BY <1>0, <1>3, <2>1, <2>2 DEF Initial, RegisteredIsNoted, RegistryLeadsToSession
<1>4. ASSUME NEW c \in Connection, Register(c) PROVE Good
  <2>1. phase[c] = "open" /\ at[c].sid \in Session /\ held["gy"][c][at[c].sid] # 0
    BY <1>4 DEF Register, RequestsInOrder
  <2>2. registry' = [registry EXCEPT ![at[c].sid] = c] /\ mine' = [mine EXCEPT ![c] = @ \union {at[c].sid}]
    BY <1>4 DEF Register
  <2>3. \A d \in Connection : at[d].step = "deregister" => at'[d] = at[d]
    BY <1>0, <1>4 DEF Register, Goto
  <2>4. RegisteredIsNoted'
    BY <1>0, <2>1, <2>2 DEF RegisteredIsNoted
  <2>5. RegistryLeadsToSession'
    BY <1>0, <1>4, <2>1, <2>2, <2>3 DEF Register, RegistryLeadsToSession
  <2> QED BY <2>4, <2>5
<1>5. ASSUME NEW c \in Connection, NEW s \in Session, Update(c, s) \/ Terminate(c, s) PROVE Good
  <2>1. \A d \in Connection : at[d].step = "deregister" => at'[d] = at[d]
    BY <1>0, <1>5 DEF Update, Terminate, Reading, Idle, Goto
  <2>2. UNCHANGED <<phase, held, mine, registry>>
    BY <1>5 DEF Update, Terminate
  <2> QED BY <1>0, <2>1, <2>2 DEF RegisteredIsNoted, RegistryLeadsToSession
<1>6. ASSUME NEW c \in Connection, Charge(c) PROVE Good
  <2>1. \A d \in Connection : at[d].step = "deregister" => at'[d] = at[d]
    BY <1>0, <1>6 DEF Charge
  <2> QED BY <1>6, <2>1 DEF Charge, RegisteredIsNoted, RegistryLeadsToSession
<1>7. ASSUME NEW c \in Connection, Settle(c) PROVE Good
  <2>1. at[c].sid \in Session
    BY <1>7 DEF Settle, RequestsInOrder
  <2>2. at'[c].step = "deregister" /\ at'[c].sid = at[c].sid
    BY <1>0, <1>7 DEF Settle, Goto
  <2>3. \A d \in Connection \ {c} : at'[d] = at[d] /\ held'["gy"][d] = held["gy"][d]
    BY <1>0, <1>7 DEF Settle, Goto
  <2>4. \A x \in Session \ {at[c].sid} : held'["gy"][c][x] = held["gy"][c][x]
    BY <1>0, <1>7 DEF Settle
  <2>5. at[c].step # "deregister"
    BY <1>7 DEF Settle
  <2> QED BY <1>0, <1>7, <2>1, <2>2, <2>3, <2>4, <2>5
        DEF Settle, RegisteredIsNoted, RegistryLeadsToSession
<1>8. ASSUME NEW c \in Connection, Deregister(c) PROVE Good
  <2>1. registry' = [registry EXCEPT ![at[c].sid] = None] /\ at[c].sid \in Session
    BY <1>8 DEF Deregister, RequestsInOrder
  <2>2. \A d \in Connection \ {c} : at'[d] = at[d]
    BY <1>0, <1>8 DEF Deregister
  <2>3. \A x \in Session : registry'[x] # None => registry'[x] = registry[x] /\ x # at[c].sid
    BY <1>0, <2>1
  <2>4. UNCHANGED <<phase, held, mine>>
    BY <1>8 DEF Deregister
  <2>5. RegisteredIsNoted'
    BY <2>3, <2>4 DEF RegisteredIsNoted
  <2>6. RegistryLeadsToSession'
    <3> SUFFICES ASSUME NEW x \in Session, registry'[x] # None
                 PROVE  /\ phase'[registry'[x]] \in {"open", "closing"}
                        /\ phase'[registry'[x]] = "open" =>
                              \/ held'["gy"][registry'[x]][x] # 0
                              \/ at'[registry'[x]].step = "deregister" /\ at'[registry'[x]].sid = x
      BY DEF RegistryLeadsToSession
    <3>1. registry'[x] = registry[x] /\ x # at[c].sid /\ registry[x] \in Connection
      BY <1>0, <2>3
    <3>2. at[registry[x]].sid = x => at'[registry[x]] = at[registry[x]]
      BY <2>2, <3>1
    <3> QED BY <2>4, <3>1, <3>2 DEF RegistryLeadsToSession
  <2> QED BY <2>5, <2>6
<1>9. ASSUME NEW c \in Connection, NEW a \in App, NEW s \in Session, Finish(a, c, s) PROVE Good
  <2>1. held'["gy"] = held["gy"]
    BY <1>0, <1>9 DEF Finish
  <2> QED BY <1>9, <2>1 DEF Finish, RegisteredIsNoted, RegistryLeadsToSession
<1>10. ASSUME NEW c \in Connection, Event(c) \/ ReceiveRaa(c) PROVE Good
  BY <1>10, RegistryUntouched DEF Event, ReceiveRaa, connectionVars
<1>11. ASSUME NEW c \in Connection, Leave(c) PROVE Good
  <2>1. phase'[c] = "closing"
    BY <1>0, <1>11 DEF Leave
  <2>2. \A d \in Connection \ {c} : /\ phase'[d] = phase[d] /\ at'[d] = at[d]
                                    /\ held'["gy"][d] = held["gy"][d]
    BY <1>0, <1>11 DEF Leave
  <2> QED BY <1>0, <1>11, <2>1, <2>2 DEF Leave, RegisteredIsNoted, RegistryLeadsToSession
<1>12. ASSUME NEW c \in Connection, Cleanup(c) PROVE Good
  <2>1. \A x \in Session : registry'[x] # None => registry'[x] = registry[x] /\ registry[x] # c
    BY <1>0, <1>12 DEF Cleanup, RegisteredIsNoted
  <2>2. \A d \in Connection \ {c} : phase'[d] = phase[d]
    BY <1>0, <1>12 DEF Cleanup
  <2>3. RegisteredIsNoted'
    BY <1>0, <1>12, <2>1 DEF Cleanup, RegisteredIsNoted
  <2>4. \A x \in Session : registry'[x] # None =>
            registry'[x] = registry[x] /\ registry[x] \in Connection \ {c}
    BY <1>0, <2>1
  <2>5. UNCHANGED <<at, held>>
    BY <1>12 DEF Cleanup
  <2>6. RegistryLeadsToSession'
    BY <2>2, <2>4, <2>5 DEF RegistryLeadsToSession
  <2> QED BY <2>3, <2>6
<1>13. ASSUME NEW t \in Caller, NEW s \in Session, Lookup(t, s) PROVE Good
  BY <1>13, RegistryUntouched DEF Lookup, connectionVars
<1>14. ASSUME NEW t \in Caller, CallerStep(t) PROVE Good
  BY <1>14, RegistryUntouched DEF CallerStep, Reset, Write, Wait, Return, connectionVars
<1>15. CASE Die
  BY <1>15 DEF Die, RegisteredIsNoted, RegistryLeadsToSession
<1> QED BY <1>1, <1>2, <1>3, <1>4, <1>5, <1>6, <1>7, <1>8, <1>9, <1>10, <1>11, <1>12, <1>13,
           <1>14, <1>15 DEF DiameterNext, ConnectionStep, Request

\* The inductive invariant of the Diameter server.
THEOREM DiameterKeepsOrder == DiameterSpec => []DiameterInv
<1>1. DiameterInit => DiameterInv
  <2> SUFFICES ASSUME DiameterInit PROVE DiameterInv
    OBVIOUS
  <2>1. 0 \in 0 .. MaxRefs /\ 0 \in 0 .. MaxCalls /\ 0 \in 0 .. MaxCrashes
    BY DiameterAssumption
  <2>2. DiameterTypeOK
    BY <2>1, IdleTyped DEF DiameterInit, DiameterTypeOK
  <2>3. RequestsInOrder /\ ErrandsInOrder /\ RegisteredIsNoted /\ RegistryLeadsToSession
    BY DEF DiameterInit, Idle, NoCall, RequestsInOrder, ErrandsInOrder, RegisteredIsNoted,
           RegistryLeadsToSession
  <2> QED BY <2>2, <2>3 DEF DiameterInv
<1>2. DiameterInv /\ [DiameterNext]_diameterVars => DiameterInv'
  BY DiameterTypeStep, OrderStep, RegistryStep DEF DiameterInv
<1> QED BY <1>1, <1>2, PTL DEF DiameterSpec

\* Types, for any number of connections, Session-Ids, callers and sessions.
THEOREM DiameterTypeCorrect == DiameterSpec => []DiameterTypeOK
<1>1. DiameterInv => DiameterTypeOK
  BY DEF DiameterInv
<1> QED BY <1>1, DiameterKeepsOrder, PTL

\* Whoever looks a session up finds a connection that exists and has the session.
THEOREM RegistryLeadsToSessionHolds == DiameterSpec => []RegistryLeadsToSession
<1>1. DiameterInv => RegistryLeadsToSession
  BY DEF DiameterInv
<1> QED BY <1>1, DiameterKeepsOrder, PTL

-----------------------------------------------------------------------------
(***************************************************************************)
(* The sessions of the stores: what holds of each session reference r.     *)
(***************************************************************************)
\* The map of some connection has session r.
Reaches(a, r) == \E c \in Connection, s \in Session : held[a][c][s] = r

\* The thread of some connection is settling session r.
Ending(a, r) == a = "gy" /\ \E c \in Connection : at[c].step = "settle" /\ at[c].ref = r

\* No two entries of the maps stand for one session.
HeldOnce ==
    \A a \in App, c, d \in Connection, s, x \in Session :
        held[a][c][s] # 0 /\ held[a][c][s] = held[a][d][x] => c = d /\ s = x

\* Nothing refers to a session that is still to be created.
FreshUnknown ==
    \A r \in Refs : r > created =>
        /\ \A a \in App : ~Reaches(a, r) /\ r \notin stored[a] \union stranded[a]
        /\ r \notin cut /\ settles[r] = 0

\* StoredIsReachable, one session at a time.
Accounted ==
    \A a \in App, r \in Refs :
        /\ r \in stored[a] <=> (Reaches(a, r) /\ ~Ending(a, r)) \/ r \in stranded[a]
        /\ r \in stranded[a] => ~Reaches(a, r)

\* A session that was finalized, or whose end was cut short, is out of the maps.
SettledIsGone ==
    \A r \in Refs :
        /\ settles[r] > 0 => settles[r] = 1 /\ r \notin stranded["gy"] \union cut
        /\ settles[r] > 0 \/ r \in cut => ~Reaches("gy", r)

\* Only a connection that serves has anything in its maps.
OnlyOpenHold ==
    \A c \in Connection : phase[c] # "open" => \A a \in App, s \in Session : held[a][c][s] = 0

StoreInv == HeldOnce /\ FreshUnknown /\ Accounted /\ SettledIsGone /\ OnlyOpenHold

\* The sessions in the maps, and with them those being settled, are session references.
LEMMA HeldTyped ==
    ASSUME DiameterTypeOK
    PROVE  /\ held \in [App -> [Connection -> [Session -> 0 .. MaxRefs]]]
           /\ at \in [Connection -> Task]
           /\ stored \in [App -> SUBSET Refs] /\ stranded \in [App -> SUBSET Refs]
           /\ settles \in [Refs -> Nat] /\ cut \subseteq Refs /\ created \in Nat
           /\ "gy" \in App
           /\ \A a \in App, c \in Connection, s \in Session :
                 held[a][c][s] # 0 => held[a][c][s] \in Refs
<1>1. /\ held \in [App -> [Connection -> [Session -> 0 .. MaxRefs]]]
      /\ at \in [Connection -> Task]
      /\ stored \in [App -> SUBSET Refs] /\ stranded \in [App -> SUBSET Refs]
      /\ settles \in [Refs -> Nat] /\ cut \subseteq Refs /\ created \in 0 .. MaxRefs
  BY DEF DiameterTypeOK
<1>2. \A a \in App, c \in Connection, s \in Session : held[a][c][s] \in 0 .. MaxRefs
  BY <1>1
<1>3. created \in Nat /\ "gy" \in App /\ \A n \in 0 .. MaxRefs : n # 0 => n \in Refs
  BY <1>1, DiameterAssumption DEF App, Refs
<1> QED BY <1>1, <1>2, <1>3

\* The session that an entry stands for is being settled by the entry's own thread.
LEMMA EndingIsOwn ==
    ASSUME RequestsInOrder, HeldOnce, NEW a \in App, NEW c \in Connection, NEW s \in Session,
           held[a][c][s] # 0, Ending(a, held[a][c][s])
    PROVE  a = "gy" /\ at[c].step = "settle" /\ at[c].ref = held[a][c][s] /\ at[c].sid = s
<1>1. PICK d \in Connection : at[d].step = "settle" /\ at[d].ref = held[a][c][s]
  BY DEF Ending
<1>2. at[d].sid \in Session /\ held["gy"][d][at[d].sid] = held["gy"][c][s] /\ a = "gy"
  BY <1>1 DEF RequestsInOrder, Ending
<1>3. d = c /\ at[d].sid = s
  BY <1>2 DEF HeldOnce, App
<1> QED BY <1>1, <1>2, <1>3

\* A step that changes no map, no store and no thread that settles.
LEMMA StoreUntouched ==
    ASSUME StoreInv, created \in Nat, created' \in {created, created + 1},
           UNCHANGED <<held, stored, settles, stranded, cut>>,
           \A c \in Connection : /\ phase'[c] # "open" => phase[c] # "open"
                                 /\ \/ at'[c] = at[c]
                                    \/ at[c].step # "settle" /\ at'[c].step # "settle"
    PROVE  StoreInv'
<1>1. \A a \in App, r \in Refs : Reaches(a, r)' <=> Reaches(a, r)
  BY DEF Reaches
<1>2. \A a \in App, r \in Refs : Ending(a, r)' <=> Ending(a, r)
  BY DEF Ending
<1>3. HeldOnce'
  BY DEF StoreInv, HeldOnce
<1>4. FreshUnknown'
  <2>1. \A r \in Refs : r > created' => r > created
    BY DEF Refs
  <2> QED BY <1>1, <2>1 DEF StoreInv, FreshUnknown
<1>5. Accounted'
  BY <1>1, <1>2 DEF StoreInv, Accounted
<1>6. SettledIsGone'
  BY <1>1 DEF StoreInv, SettledIsGone, App
<1>7. OnlyOpenHold'
  BY DEF StoreInv, OnlyOpenHold
<1> QED BY <1>3, <1>4, <1>5, <1>6, <1>7 DEF StoreInv

\* A new session is known to its entry alone, and the one it displaces is out of reach.
LEMMA StoreInitial ==
    ASSUME DiameterTypeOK, RequestsInOrder, StoreInv,
           NEW c \in Connection, NEW a \in App, NEW s \in Session, Initial(a, c, s)
    PROVE  StoreInv'
<1> DEFINE old == held[a][c][s]
<1>0. /\ Fresh \in Refs /\ Fresh = created + 1 /\ created' = Fresh
      /\ held' = [held EXCEPT ![a][c][s] = Fresh]
      /\ stored' = [stored EXCEPT ![a] = @ \union {Fresh}]
      /\ stranded' = [stranded EXCEPT ![a] = @ \union ({old} \ {0})]
      /\ UNCHANGED <<settles, cut>> /\ at[c] = Idle
      /\ at' = [at EXCEPT ![c] = at'[c]] /\ at'[c].step # "settle"
  BY HeldTyped DEF Initial, Establish, Reading, Fresh, Goto, Idle
<1>1. HeldOnce /\ FreshUnknown /\ Accounted /\ SettledIsGone
  BY DEF StoreInv
<1>2. /\ ~Reaches(a, Fresh) /\ Fresh \notin stored[a] \union stranded[a] /\ Fresh \notin cut
      /\ settles[Fresh] = 0 /\ Fresh # 0
  BY <1>0, <1>1, HeldTyped DEF FreshUnknown, Refs
<1>3. /\ held'[a][c][s] = Fresh
      /\ \A d \in Connection, x \in Session :
            ~(d = c /\ x = s) => held'[a][d][x] = held[a][d][x]
      /\ \A b \in App \ {a} : held'[b] = held[b]
  BY <1>0, HeldTyped
<1>4. \A b \in App, r \in Refs : Reaches(b, r)' <=>
          IF b = a THEN r = Fresh \/ (Reaches(a, r) /\ r # old) ELSE Reaches(b, r)
  <2>1. ASSUME NEW b \in App \ {a}, NEW r \in Refs PROVE Reaches(b, r)' <=> Reaches(b, r)
    BY <1>3 DEF Reaches
  <2>2. ASSUME NEW r \in Refs PROVE Reaches(a, r)' <=> r = Fresh \/ (Reaches(a, r) /\ r # old)
    <3>1. ASSUME Reaches(a, r)' PROVE r = Fresh \/ (Reaches(a, r) /\ r # old)
      <4>1. PICK d \in Connection, x \in Session : held'[a][d][x] = r
        BY <3>1 DEF Reaches
      <4>2. CASE d = c /\ x = s
        BY <1>3, <4>1, <4>2
      <4>3. CASE ~(d = c /\ x = s)
        <5>1. held[a][d][x] = r /\ r # 0
          BY <1>3, <4>1, <4>3 DEF Refs
        <5>2. r # old
          BY <1>1, <4>3, <5>1 DEF HeldOnce
        <5> QED BY <5>1, <5>2 DEF Reaches
      <4> QED BY <4>2, <4>3
    <3>2. ASSUME r = Fresh PROVE Reaches(a, r)'
      BY <1>3, <3>2 DEF Reaches
    <3>3. ASSUME Reaches(a, r), r # old PROVE Reaches(a, r)'
      <4>1. PICK d \in Connection, x \in Session : held[a][d][x] = r
        BY <3>3 DEF Reaches
      <4>2. held'[a][d][x] = r
        BY <1>3, <3>3, <4>1
      <4> QED BY <4>2 DEF Reaches
    <3> QED BY <3>1, <3>2, <3>3
  <2> QED BY <2>1, <2>2
<1>5. \A b \in App, r \in Refs : Ending(b, r)' <=> Ending(b, r)
  <2>1. \A d \in Connection : at'[d] = at[d] \/ (at[d].step # "settle" /\ at'[d].step # "settle")
    BY <1>0, HeldTyped DEF Idle
  <2> QED BY <2>1 DEF Ending
<1>6. ~Ending(a, old) \/ old = 0
  BY <1>0, <1>1, EndingIsOwn DEF Idle
<1>7. ~Ending(a, Fresh)
  <2> SUFFICES ASSUME Ending(a, Fresh) PROVE FALSE
    OBVIOUS
  <2>1. PICK d \in Connection : at[d].step = "settle" /\ at[d].ref = Fresh /\ a = "gy"
    BY DEF Ending
  <2> QED BY <1>2, <2>1 DEF RequestsInOrder, Reaches
<1>8. HeldOnce'
  <2> SUFFICES ASSUME NEW b \in App, NEW d \in Connection, NEW e \in Connection,
                      NEW x \in Session, NEW y \in Session,
                      held'[b][d][x] # 0, held'[b][d][x] = held'[b][e][y]
               PROVE  d = e /\ x = y
    BY DEF HeldOnce
  <2>1. CASE b # a
    BY <1>1, <1>3, <2>1 DEF HeldOnce
  <2>2. CASE b = a
    <3>1. \A f \in Connection, z \in Session : held[a][f][z] # Fresh
      BY <1>2 DEF Reaches
    <3>2. CASE d = c /\ x = s
      BY <1>3, <2>2, <3>1, <3>2
    <3>3. CASE e = c /\ y = s
      BY <1>3, <2>2, <3>1, <3>3
    <3>4. CASE ~(d = c /\ x = s) /\ ~(e = c /\ y = s)
      BY <1>1, <1>3, <2>2, <3>4 DEF HeldOnce
    <3> QED BY <3>2, <3>3, <3>4
  <2> QED BY <2>1, <2>2
<1>9. FreshUnknown'
  <2> SUFFICES ASSUME NEW r \in Refs, r > created'
               PROVE  /\ \A b \in App : ~Reaches(b, r)' /\ r \notin stored'[b] \union stranded'[b]
                      /\ r \notin cut' /\ settles'[r] = 0
    BY DEF FreshUnknown
  <2>1. r > created /\ r # Fresh
    BY <1>0, HeldTyped DEF Refs
  <2>2. /\ \A b \in App : ~Reaches(b, r) /\ r \notin stored[b] \union stranded[b]
        /\ r \notin cut /\ settles[r] = 0
    BY <1>1, <2>1 DEF FreshUnknown
  <2>3. r # old
    BY <2>2 DEF Reaches
  <2> QED BY <1>0, <1>4, <2>1, <2>2, <2>3, HeldTyped
<1>10. Accounted'
  <2> SUFFICES ASSUME NEW b \in App, NEW r \in Refs
               PROVE  /\ r \in stored'[b] <=> (Reaches(b, r)' /\ ~Ending(b, r)') \/ r \in stranded'[b]
                      /\ r \in stranded'[b] => ~Reaches(b, r)'
    BY DEF Accounted
  <2>1. /\ r \in stored[b] <=> (Reaches(b, r) /\ ~Ending(b, r)) \/ r \in stranded[b]
        /\ r \in stranded[b] => ~Reaches(b, r)
    BY <1>1 DEF Accounted
  <2>2. CASE b # a
    BY <1>0, <1>4, <1>5, <2>1, <2>2, HeldTyped
  <2>3. CASE b = a
    <3>1. r \in stored'[b] <=> r \in stored[a] \/ r = Fresh
      BY <1>0, <2>3, HeldTyped
    <3>2. r \in stranded'[b] <=> r \in stranded[a] \/ r = old
      BY <1>0, <2>3, HeldTyped DEF Refs
    <3>3. r = old => Reaches(a, r) /\ r # Fresh /\ ~Ending(a, r)
      BY <1>2, <1>6 DEF Reaches, Refs
    <3> QED BY <1>2, <1>4, <1>5, <1>7, <2>1, <2>3, <3>1, <3>2, <3>3
  <2> QED BY <2>2, <2>3
<1>11. SettledIsGone'
  <2> SUFFICES ASSUME NEW r \in Refs
               PROVE  /\ settles[r] > 0 => settles[r] = 1 /\ r \notin stranded'["gy"] \union cut
                      /\ settles[r] > 0 \/ r \in cut => ~Reaches("gy", r)'
    BY <1>0 DEF SettledIsGone
  <2>1. /\ settles[r] > 0 => settles[r] = 1 /\ r \notin stranded["gy"] \union cut
        /\ settles[r] > 0 \/ r \in cut => ~Reaches("gy", r)
    BY <1>1 DEF SettledIsGone
  <2>2. settles[r] > 0 \/ r \in cut => r # Fresh
    BY <1>2
  <2>3. settles[r] > 0 => r \notin stranded'["gy"]
    <3>1. a = "gy" /\ r = old => Reaches("gy", r)
      BY DEF Reaches
    <3> QED BY <1>0, <2>1, <3>1, HeldTyped
  <2>4. settles[r] > 0 \/ r \in cut => ~Reaches("gy", r)'
    BY <1>4, <2>1, <2>2, HeldTyped
  <2> QED BY <2>1, <2>3, <2>4
<1>12. OnlyOpenHold'
  <2>1. phase' = phase /\ phase[c] = "open"
    BY DEF Initial, Reading
  <2> QED BY <1>3, <2>1 DEF StoreInv, OnlyOpenHold
<1> QED BY <1>8, <1>9, <1>10, <1>11, <1>12 DEF StoreInv

\* An entry goes from a map, and its session out of reach of it.
LEMMA EntryGone ==
    ASSUME DiameterTypeOK, HeldOnce, OnlyOpenHold, phase' = phase,
           NEW c \in Connection, NEW a \in App, NEW s \in Session,
           held' = [held EXCEPT ![a][c][s] = 0]
    PROVE  /\ HeldOnce' /\ OnlyOpenHold'
           /\ \A b \in App, r \in Refs :
                 Reaches(b, r)' <=> Reaches(b, r) /\ ~(b = a /\ r = held[a][c][s])
<1>1. /\ held'[a][c][s] = 0
      /\ \A b \in App, d \in Connection, x \in Session :
            ~(b = a /\ d = c /\ x = s) => held'[b][d][x] = held[b][d][x]
  BY HeldTyped
<1>2. HeldOnce'
  BY <1>1 DEF HeldOnce
<1>3. OnlyOpenHold'
  BY <1>1 DEF OnlyOpenHold
<1>4. ASSUME NEW b \in App, NEW r \in Refs, Reaches(b, r)'
      PROVE  Reaches(b, r) /\ ~(b = a /\ r = held[a][c][s])
  <2>1. PICK d \in Connection, x \in Session : held'[b][d][x] = r
    BY <1>4 DEF Reaches
  <2>2. r # 0 /\ held[b][d][x] = r /\ ~(b = a /\ d = c /\ x = s)
    BY <1>1, <2>1 DEF Refs
  <2> QED BY <2>2 DEF HeldOnce, Reaches
<1>5. ASSUME NEW b \in App, NEW r \in Refs, Reaches(b, r), ~(b = a /\ r = held[a][c][s])
      PROVE  Reaches(b, r)'
  <2>1. PICK d \in Connection, x \in Session : held[b][d][x] = r
    BY <1>5 DEF Reaches
  <2>2. held'[b][d][x] = r
    BY <1>1, <1>5, <2>1
  <2> QED BY <2>2 DEF Reaches
<1> QED BY <1>2, <1>3, <1>4, <1>5

\* The session released by CCR-Termination leaves the store and is being settled.
LEMMA StoreTerminate ==
    ASSUME DiameterTypeOK, RequestsInOrder, StoreInv,
           NEW c \in Connection, NEW s \in Session, Terminate(c, s)
    PROVE  StoreInv'
<1> DEFINE ref == held["gy"][c][s]
<1>0. /\ ref \in Refs /\ stored' = [stored EXCEPT !["gy"] = @ \ {ref}]
      /\ at[c] = Idle /\ at' = [at EXCEPT ![c] = [step |-> "settle", sid |-> s, ref |-> ref]]
      /\ UNCHANGED <<phase, held, created, settles, stranded, cut>>
  BY HeldTyped DEF Terminate, Reading, Goto, historyVars
<1>1. HeldOnce /\ FreshUnknown /\ Accounted /\ SettledIsGone /\ OnlyOpenHold
  BY DEF StoreInv
<1>2. \A a \in App, r \in Refs : Reaches(a, r)' <=> Reaches(a, r)
  BY <1>0 DEF Reaches
<1>3. \A a \in App, r \in Refs : Ending(a, r)' <=> Ending(a, r) \/ (a = "gy" /\ r = ref)
  <2>1. /\ at'[c].step = "settle" /\ at'[c].ref = ref /\ at[c].step # "settle"
        /\ \A d \in Connection \ {c} : at'[d] = at[d]
    BY <1>0, HeldTyped DEF Idle
  <2> QED BY <2>1 DEF Ending
<1>4. Reaches("gy", ref) /\ ref \notin stranded["gy"]
  <2>1. Reaches("gy", ref)
    BY DEF Reaches
  <2> QED BY <1>0, <1>1, <2>1, HeldTyped DEF Accounted
<1>5. \A a \in App, r \in Refs : r \in stored'[a] <=> r \in stored[a] /\ ~(a = "gy" /\ r = ref)
  BY <1>0, HeldTyped
<1>6. HeldOnce' /\ OnlyOpenHold'
  BY <1>0, <1>1 DEF HeldOnce, OnlyOpenHold
<1>7. FreshUnknown'
  BY <1>0, <1>1, <1>2, <1>5 DEF FreshUnknown
<1>8. Accounted'
  BY <1>0, <1>1, <1>2, <1>3, <1>4, <1>5 DEF Accounted
<1>9. SettledIsGone'
  BY <1>0, <1>1, <1>2, HeldTyped DEF SettledIsGone
<1> QED BY <1>6, <1>7, <1>8, <1>9 DEF StoreInv

\* The session being settled is finalized for the first time and leaves the map.
LEMMA StoreSettle ==
    ASSUME DiameterTypeOK, RequestsInOrder, StoreInv, NEW c \in Connection, Settle(c)
    PROVE  StoreInv'
<1> DEFINE s == at[c].sid
           ref == held["gy"][c][s]
<1>0. /\ s \in Session /\ ref \in Refs /\ at[c].ref = ref /\ at[c].step = "settle"
      /\ settles' = [settles EXCEPT ![ref] = @ + 1]
      /\ held' = [held EXCEPT !["gy"][c][s] = 0]
      /\ at' = [at EXCEPT ![c] = [step |-> "deregister", sid |-> s, ref |-> ref]]
      /\ UNCHANGED <<phase, stored, created, stranded, cut>>
  BY HeldTyped DEF Settle, Goto, historyVars, RequestsInOrder
<1>1. HeldOnce /\ FreshUnknown /\ Accounted /\ SettledIsGone /\ OnlyOpenHold
  BY DEF StoreInv
<1>2. /\ HeldOnce' /\ OnlyOpenHold'
      /\ \A a \in App, r \in Refs : Reaches(a, r)' <=> Reaches(a, r) /\ ~(a = "gy" /\ r = ref)
  BY <1>0, <1>1, EntryGone, HeldTyped
<1>3. \A a \in App, r \in Refs : Ending(a, r)' <=> Ending(a, r) /\ ~(a = "gy" /\ r = ref)
  <2>1. /\ at'[c].step = "deregister"
        /\ \A d \in Connection \ {c} : at'[d] = at[d]
    BY <1>0, HeldTyped
  <2>2. \A d \in Connection : at[d].step = "settle" /\ at[d].ref = ref => d = c
    <3> SUFFICES ASSUME NEW d \in Connection, at[d].step = "settle", at[d].ref = ref
                 PROVE  d = c
      OBVIOUS
    <3>1. at[d].sid \in Session /\ held["gy"][d][at[d].sid] = ref /\ ref # 0
      BY DEF RequestsInOrder
    <3> QED BY <1>0, <1>1, <3>1, HeldTyped DEF HeldOnce
  <2> QED BY <1>0, <2>1, <2>2 DEF Ending
<1>4. Reaches("gy", ref) /\ Ending("gy", ref)
  BY <1>0 DEF Reaches, Ending
<1>5. ref <= created /\ settles[ref] = 0 /\ ref \notin stranded["gy"] \union cut
  <2>1. ref <= created
    <3>1. ref \in Nat /\ created \in Nat /\ "gy" \in App
      BY <1>0, HeldTyped DEF Refs
    <3>2. ~(ref > created)
      BY <1>0, <1>1, <1>4, <3>1 DEF FreshUnknown
    <3> QED BY <3>1, <3>2
  <2>2. ref \notin stranded["gy"]
    BY <1>0, <1>1, <1>4, HeldTyped DEF Accounted
  <2>3. settles[ref] = 0 /\ ref \notin cut
    <3>1. settles[ref] \in Nat
      BY <1>0, HeldTyped
    <3>2. ~(settles[ref] > 0 \/ ref \in cut)
      BY <1>0, <1>1, <1>4 DEF SettledIsGone
    <3> QED BY <3>1, <3>2
  <2> QED BY <2>1, <2>2, <2>3
<1>6. settles'[ref] = 1 /\ \A r \in Refs \ {ref} : settles'[r] = settles[r]
  BY <1>0, <1>5, HeldTyped
<1>7. FreshUnknown'
  <2>1. \A r \in Refs : r > created => r # ref
    BY <1>5, HeldTyped DEF Refs
  <2> QED BY <1>0, <1>1, <1>2, <1>6, <2>1 DEF FreshUnknown
<1>8. Accounted'
  BY <1>0, <1>1, <1>2, <1>3, <1>4 DEF Accounted
<1>9. SettledIsGone'
  <2> SUFFICES ASSUME NEW r \in Refs
               PROVE  /\ settles'[r] > 0 => settles'[r] = 1 /\ r \notin stranded["gy"] \union cut
                      /\ settles'[r] > 0 \/ r \in cut => ~Reaches("gy", r)'
    BY <1>0 DEF SettledIsGone
  <2>1. CASE r = ref
    BY <1>2, <1>5, <1>6, <2>1, HeldTyped
  <2>2. CASE r # ref
    BY <1>1, <1>2, <1>6, <2>2, HeldTyped DEF SettledIsGone
  <2> QED BY <2>1, <2>2
<1> QED BY <1>2, <1>7, <1>8, <1>9 DEF StoreInv

\* What ACR Stop and STR release leaves the store and the map together.
LEMMA StoreFinish ==
    ASSUME DiameterTypeOK, StoreInv, NEW c \in Connection, NEW a \in App, NEW s \in Session,
           Finish(a, c, s)
    PROVE  StoreInv'
<1> DEFINE ref == held[a][c][s]
<1>0. /\ a # "gy" /\ ref \in Refs
      /\ stored' = [stored EXCEPT ![a] = @ \ {ref}]
      /\ held' = [held EXCEPT ![a][c][s] = 0]
      /\ UNCHANGED <<phase, at, created, settles, stranded, cut>>
  BY HeldTyped DEF Finish, historyVars
<1>1. HeldOnce /\ FreshUnknown /\ Accounted /\ SettledIsGone /\ OnlyOpenHold
  BY DEF StoreInv
<1>2. /\ HeldOnce' /\ OnlyOpenHold'
      /\ \A b \in App, r \in Refs : Reaches(b, r)' <=> Reaches(b, r) /\ ~(b = a /\ r = ref)
  BY <1>0, <1>1, EntryGone
<1>3. \A b \in App, r \in Refs : Ending(b, r)' <=> Ending(b, r)
  BY <1>0 DEF Ending
<1>4. Reaches(a, ref) /\ ref \notin stranded[a]
  <2>1. Reaches(a, ref)
    BY DEF Reaches
  <2> QED BY <1>0, <1>1, <2>1 DEF Accounted
<1>5. \A b \in App, r \in Refs : r \in stored'[b] <=> r \in stored[b] /\ ~(b = a /\ r = ref)
  BY <1>0, HeldTyped
<1>6. FreshUnknown'
  BY <1>0, <1>1, <1>2, <1>5 DEF FreshUnknown
<1>7. Accounted'
  BY <1>0, <1>1, <1>2, <1>3, <1>4, <1>5 DEF Accounted
<1>8. SettledIsGone'
  BY <1>0, <1>1, <1>2, HeldTyped DEF SettledIsGone
<1> QED BY <1>2, <1>6, <1>7, <1>8 DEF StoreInv

\* What goes with connections: their entries are out of reach, or their end is cut short.
LEMMA StoreStrand ==
    ASSUME DiameterTypeOK, RequestsInOrder, StoreInv, NEW gone \in SUBSET Connection,
           Strand(gone), UNCHANGED <<stored, created, settles>>,
           \A a \in App, c \in Connection, s \in Session :
               held'[a][c][s] = IF c \in gone THEN 0 ELSE held[a][c][s],
           \A c \in Connection : \/ c \notin gone /\ at'[c] = at[c]
                                 \/ at'[c].step # "settle" /\ (c \in gone \/ at[c].step # "settle"),
           \A c \in Connection \ gone : phase'[c] = phase[c]
    PROVE  StoreInv'
<1> DEFINE Takes(a, r) == \E c \in gone, s \in Session : held[a][c][s] = r
           Cuts(r) == \E c \in gone : at[c].step = "settle" /\ at[c].ref = r
<1>1. HeldOnce /\ FreshUnknown /\ Accounted /\ SettledIsGone /\ OnlyOpenHold
  BY DEF StoreInv
<1>2. ASSUME NEW a \in App, NEW r \in Refs
      PROVE  Reaches(a, r)' <=> Reaches(a, r) /\ ~Takes(a, r)
  <2>1. ASSUME Reaches(a, r)' PROVE Reaches(a, r) /\ ~Takes(a, r)
    <3>1. PICK c \in Connection, s \in Session : held'[a][c][s] = r
      BY <2>1 DEF Reaches
    <3>2. c \notin gone /\ held[a][c][s] = r /\ r # 0
      BY <3>1 DEF Refs
    <3> QED BY <1>1, <3>2 DEF HeldOnce, Reaches
  <2>2. ASSUME Reaches(a, r), ~Takes(a, r) PROVE Reaches(a, r)'
    <3>1. PICK c \in Connection, s \in Session : held[a][c][s] = r
      BY <2>2 DEF Reaches
    <3>2. held'[a][c][s] = r
      BY <2>2, <3>1
    <3> QED BY <3>2 DEF Reaches
  <2> QED BY <2>1, <2>2
<1>3. ASSUME NEW r \in Refs, Cuts(r) PROVE Takes("gy", r)
  BY <1>3 DEF RequestsInOrder
<1>4. ASSUME NEW a \in App, NEW r \in Refs, Takes(a, r)
      PROVE  Ending(a, r) <=> a = "gy" /\ Cuts(r)
  <2>1. PICK c \in gone, s \in Session : held[a][c][s] = r
    BY <1>4
  <2>2. Ending(a, r) => a = "gy" /\ Cuts(r)
    <3>1. held[a][c][s] # 0
      BY <2>1 DEF Refs
    <3> QED BY <1>1, <2>1, <3>1, EndingIsOwn
  <2>3. a = "gy" /\ Cuts(r) => Ending(a, r)
    BY DEF Ending
  <2> QED BY <2>2, <2>3
<1>5. ASSUME NEW a \in App, NEW r \in Refs
      PROVE  Ending(a, r)' <=> Ending(a, r) /\ ~Takes(a, r)
  <2>1. ASSUME Ending(a, r)' PROVE Ending(a, r) /\ ~Takes(a, r)
    <3>1. PICK c \in Connection : at'[c].step = "settle" /\ at'[c].ref = r /\ a = "gy"
      BY <2>1 DEF Ending
    <3>2. c \notin gone /\ at[c].step = "settle" /\ at[c].ref = r
      BY <3>1
    <3>3. at[c].sid \in Session /\ held["gy"][c][at[c].sid] = r /\ r # 0
      BY <3>2 DEF RequestsInOrder
    <3>4. Ending(a, r)
      BY <3>1, <3>2 DEF Ending
    <3>5. ASSUME NEW d \in gone, NEW s \in Session, held["gy"][d][s] = r PROVE FALSE
      <4>1. d = c
        BY <1>1, <3>3, <3>5, HeldTyped DEF HeldOnce
      <4> QED BY <3>2, <4>1
    <3> QED BY <3>1, <3>4, <3>5
  <2>2. ASSUME Ending(a, r), ~Takes(a, r) PROVE Ending(a, r)'
    <3>1. PICK c \in Connection : at[c].step = "settle" /\ at[c].ref = r /\ a = "gy"
      BY <2>2 DEF Ending
    <3>2. c \notin gone
      BY <1>3, <2>2, <3>1
    <3> QED BY <3>1, <3>2 DEF Ending
  <2> QED BY <2>1, <2>2
<1>6. ASSUME NEW a \in App, NEW r \in Refs
      PROVE  r \in stranded'[a] <=> r \in stranded[a] \/ (Takes(a, r) /\ ~(a = "gy" /\ Cuts(r)))
  <2>1. r \in UNION {Holds(a, c) : c \in gone} <=> Takes(a, r)
    BY DEF Holds, Refs
  <2>2. r \in {at[c].ref : c \in {x \in gone : at[x].step = "settle"}} <=> Cuts(r)
    OBVIOUS
  <2> QED BY <2>1, <2>2 DEF Strand
<1>7. ASSUME NEW r \in Refs PROVE r \in cut' <=> r \in cut \/ Cuts(r)
  BY DEF Strand
<1>8. ASSUME NEW a \in App, NEW r \in Refs, Takes(a, r) PROVE Reaches(a, r)
  BY <1>8 DEF Reaches
<1> HIDE DEF Takes, Cuts
<1>9. HeldOnce'
  <2> SUFFICES ASSUME NEW a \in App, NEW c \in Connection, NEW d \in Connection,
                      NEW s \in Session, NEW x \in Session,
                      held'[a][c][s] # 0, held'[a][c][s] = held'[a][d][x]
               PROVE  c = d /\ s = x
    BY DEF HeldOnce
  <2>1. held[a][c][s] # 0 /\ held[a][c][s] = held[a][d][x]
    OBVIOUS
  <2> QED BY <1>1, <2>1 DEF HeldOnce
<1>10. FreshUnknown'
  <2> SUFFICES ASSUME NEW r \in Refs, r > created
               PROVE  /\ \A a \in App : ~Reaches(a, r)' /\ r \notin stored[a] \union stranded'[a]
                      /\ r \notin cut' /\ settles[r] = 0
    BY DEF FreshUnknown
  <2>1. /\ \A a \in App : ~Reaches(a, r) /\ r \notin stored[a] \union stranded[a]
        /\ r \notin cut /\ settles[r] = 0
    BY <1>1 DEF FreshUnknown
  <2>2. \A a \in App : ~Takes(a, r)
    BY <1>8, <2>1
  <2>3. ~Cuts(r)
    BY <1>3, <2>2, HeldTyped
  <2> QED BY <1>2, <1>6, <1>7, <2>1, <2>2, <2>3
<1>11. Accounted'
  <2> SUFFICES ASSUME NEW a \in App, NEW r \in Refs
               PROVE  /\ r \in stored[a] <=> (Reaches(a, r)' /\ ~Ending(a, r)') \/ r \in stranded'[a]
                      /\ r \in stranded'[a] => ~Reaches(a, r)'
    BY DEF Accounted
  <2>1. /\ r \in stored[a] <=> (Reaches(a, r) /\ ~Ending(a, r)) \/ r \in stranded[a]
        /\ r \in stranded[a] => ~Reaches(a, r)
    BY <1>1 DEF Accounted
  <2>2. CASE Takes(a, r)
    BY <1>2, <1>4, <1>6, <1>8, <2>1, <2>2
  <2>3. CASE ~Takes(a, r)
    BY <1>2, <1>5, <1>6, <2>1, <2>3
  <2> QED BY <2>2, <2>3
<1>12. SettledIsGone'
  <2> SUFFICES ASSUME NEW r \in Refs
               PROVE  /\ settles[r] > 0 => settles[r] = 1 /\ r \notin stranded'["gy"] \union cut'
                      /\ settles[r] > 0 \/ r \in cut' => ~Reaches("gy", r)'
    BY DEF SettledIsGone
  <2>1. /\ settles[r] > 0 => settles[r] = 1 /\ r \notin stranded["gy"] \union cut
        /\ settles[r] > 0 \/ r \in cut => ~Reaches("gy", r)
    BY <1>1 DEF SettledIsGone
  <2> QED BY <1>2, <1>3, <1>6, <1>7, <1>8, <2>1, HeldTyped
<1>13. OnlyOpenHold'
  <2> SUFFICES ASSUME NEW c \in Connection, phase'[c] # "open", NEW a \in App, NEW s \in Session
               PROVE  held'[a][c][s] = 0
    BY DEF OnlyOpenHold
  <2>1. CASE c \in gone
    BY <2>1
  <2>2. CASE c \notin gone
    BY <1>1, <2>2 DEF OnlyOpenHold
  <2> QED BY <2>1, <2>2
<1> QED BY <1>9, <1>10, <1>11, <1>12, <1>13 DEF StoreInv

\* Each step keeps account of the sessions.
LEMMA StoreStep ==
    ASSUME DiameterTypeOK, RequestsInOrder, StoreInv, [DiameterNext]_diameterVars
    PROVE  StoreInv'
<1>0. created \in Nat /\ at \in [Connection -> Task] /\ phase \in [Connection -> {"new", "open", "closing", "closed"}]
  BY HeldTyped DEF DiameterTypeOK
<1>1. ASSUME UNCHANGED <<connectionVars, storeVars, historyVars>> PROVE StoreInv'
  BY <1>0, <1>1, StoreUntouched DEF connectionVars, storeVars, historyVars
<1>2. CASE UNCHANGED diameterVars
  BY <1>1, <1>2 DEF diameterVars
<1>3. ASSUME NEW c \in Connection, Accept(c) PROVE StoreInv'
  <2>1. \A d \in Connection : phase'[d] # "open" => phase[d] # "open"
    BY <1>0, <1>3 DEF Accept
  <2> QED BY <1>0, <1>3, <2>1, StoreUntouched DEF Accept, storeVars, historyVars
<1>4. ASSUME NEW c \in Connection,
             Register(c) \/ (\E s \in Session : Update(c, s)) \/ Charge(c) \/ Deregister(c)
      PROVE  StoreInv'
  <2>1. \A d \in Connection :
            at'[d] = at[d] \/ (at[d].step # "settle" /\ at'[d].step # "settle")
    BY <1>0, <1>4 DEF Register, Update, Charge, Deregister, Reading, Goto, Idle
  <2>2. UNCHANGED <<phase, held, storeVars, historyVars>>
    BY <1>4 DEF Register, Update, Charge, Deregister
  <2> QED BY <1>0, <2>1, <2>2, StoreUntouched DEF storeVars, historyVars
<1>5. ASSUME NEW c \in Connection, NEW a \in App, NEW s \in Session,
             Initial(a, c, s) \/ Finish(a, c, s)
      PROVE  StoreInv'
  BY <1>5, StoreInitial, StoreFinish
<1>6. ASSUME NEW c \in Connection, NEW s \in Session, Terminate(c, s) PROVE StoreInv'
  BY <1>6, StoreTerminate
<1>7. ASSUME NEW c \in Connection, Settle(c) PROVE StoreInv'
  BY <1>7, StoreSettle
<1>8. ASSUME NEW c \in Connection, Event(c) PROVE StoreInv'
  BY <1>0, <1>8, StoreUntouched DEF Event, connectionVars, Fresh, historyVars
<1>9. ASSUME NEW c \in Connection, ReceiveRaa(c) PROVE StoreInv'
  BY <1>1, <1>9 DEF ReceiveRaa
<1>10. ASSUME NEW c \in Connection, Leave(c) PROVE StoreInv'
  <2>1. \A a \in App, d \in Connection, s \in Session :
            held'[a][d][s] = IF d \in {c} THEN 0 ELSE held[a][d][s]
    BY <1>10, HeldTyped DEF Leave
  <2>2. \A d \in Connection : \/ d \notin {c} /\ at'[d] = at[d]
                              \/ at'[d].step # "settle" /\ d \in {c}
    BY <1>0, <1>10 DEF Leave, Idle
  <2>3. Strand({c}) /\ UNCHANGED <<stored, created, settles>> /\ {c} \in SUBSET Connection
    BY <1>10 DEF Leave, storeVars
  <2>4. \A d \in Connection \ {c} : phase'[d] = phase[d]
    BY <1>0, <1>10 DEF Leave
  <2> QED BY <2>1, <2>2, <2>3, <2>4, StoreStrand
<1>11. ASSUME NEW c \in Connection, Cleanup(c) PROVE StoreInv'
  <2>1. \A d \in Connection : phase'[d] # "open" => phase[d] # "open"
    BY <1>0, <1>11 DEF Cleanup
  <2> QED BY <1>0, <1>11, <2>1, StoreUntouched DEF Cleanup, storeVars, historyVars
<1>12. ASSUME NEW t \in Caller, (\E s \in Session : Lookup(t, s)) \/ CallerStep(t) PROVE StoreInv'
  BY <1>1, <1>12 DEF Lookup, CallerStep, Reset, Write, Wait, Return
<1>13. CASE Die
  <2> DEFINE gone == {c \in Connection : phase[c] # "new"}
  <2>1. \A a \in App, c \in Connection, s \in Session :
            held'[a][c][s] = IF c \in gone THEN 0 ELSE held[a][c][s]
    BY <1>13 DEF Die, StoreInv, OnlyOpenHold
  <2>2. \A c \in Connection : at'[c].step # "settle" /\ (c \in gone \/ at[c].step # "settle")
    <3>1. \A c \in Connection : at'[c].step = "idle"
      BY <1>13 DEF Die, Idle
    <3> QED BY <3>1 DEF RequestsInOrder
  <2>3. Strand(gone) /\ UNCHANGED <<stored, created, settles>> /\ gone \in SUBSET Connection
    BY <1>13 DEF Die, storeVars
  <2>4. \A c \in Connection \ gone : phase'[c] = phase[c]
    BY <1>13 DEF Die
  <2> QED BY <2>1, <2>2, <2>3, <2>4, StoreStrand
<1> QED BY <1>2, <1>3, <1>4, <1>5, <1>6, <1>7, <1>8, <1>9, <1>10, <1>11, <1>12, <1>13
        DEF DiameterNext, ConnectionStep, Request

\* The sessions stay accounted for.
THEOREM DiameterKeepsAccount == DiameterSpec => []StoreInv
<1>1. DiameterInit => StoreInv
  <2> SUFFICES ASSUME DiameterInit PROVE StoreInv
    OBVIOUS
  <2>1. \A a \in App, c \in Connection, s \in Session : held[a][c][s] = 0
    BY DEF DiameterInit
  <2>2. \A a \in App, r \in Refs : ~Reaches(a, r)
    BY <2>1 DEF Reaches, Refs
  <2>3. "gy" \in App
    BY DEF App
  <2> QED BY <2>1, <2>2, <2>3
          DEF DiameterInit, StoreInv, HeldOnce, FreshUnknown, Accounted, SettledIsGone, OnlyOpenHold
<1>2. DiameterTypeOK /\ RequestsInOrder /\ StoreInv /\ [DiameterNext]_diameterVars => StoreInv'
  BY StoreStep
<1>3. DiameterInv => DiameterTypeOK /\ RequestsInOrder
  BY DEF DiameterInv
<1> QED BY <1>1, <1>2, <1>3, DiameterKeepsOrder, PTL DEF DiameterSpec

\* No ended session stays in a store, no map refers to a session that is gone, and a
\* session no connection can reach is one that was put out of reach.
THEOREM StoredIsReachableHolds == DiameterSpec => []StoredIsReachable
<1>1. DiameterTypeOK /\ RequestsInOrder /\ StoreInv => StoredIsReachable
  <2> SUFFICES ASSUME DiameterTypeOK, RequestsInOrder, StoreInv, NEW a \in App
               PROVE  LET reachable == UNION {Holds(a, c) : c \in Connection}
                          ending == IF a = "gy"
                                    THEN {at[c].ref : c \in {x \in Connection : at[x].step = "settle"}}
                                    ELSE {}
                      IN  /\ stored[a] = (reachable \ ending) \union stranded[a]
                          /\ ending \subseteq reachable
                          /\ stranded[a] \intersect reachable = {}
    BY DEF StoredIsReachable
  <2> DEFINE reachable == UNION {Holds(a, c) : c \in Connection}
             ending == IF a = "gy"
                       THEN {at[c].ref : c \in {x \in Connection : at[x].step = "settle"}}
                       ELSE {}
  <2>1. \A r : r \in reachable <=> r \in Refs /\ Reaches(a, r)
    <3>1. \A r : r \in reachable <=> r # 0 /\ Reaches(a, r)
      BY DEF Holds, Reaches
    <3>2. \A r : r # 0 /\ Reaches(a, r) => r \in Refs
      BY HeldTyped DEF Reaches
    <3>3. 0 \notin Refs
      BY DEF Refs
    <3> QED BY <3>1, <3>2, <3>3
  <2>2. \A r : r \in ending <=> Ending(a, r)
    BY DEF Ending
  <2>3. \A r : Ending(a, r) => r \in Refs /\ Reaches(a, r)
    <3> SUFFICES ASSUME NEW c \in Connection, at[c].step = "settle", a = "gy"
                 PROVE  at[c].ref \in Refs /\ Reaches(a, at[c].ref)
      BY DEF Ending
    <3>1. at[c].sid \in Session /\ held["gy"][c][at[c].sid] = at[c].ref /\ at[c].ref # 0
      BY DEF RequestsInOrder
    <3> QED BY <3>1, HeldTyped DEF Reaches
  <2>4. \A r \in Refs : /\ r \in stored[a] <=> (Reaches(a, r) /\ ~Ending(a, r)) \/ r \in stranded[a]
                        /\ r \in stranded[a] => ~Reaches(a, r)
    BY DEF StoreInv, Accounted
  <2>5. stored[a] \subseteq Refs /\ stranded[a] \subseteq Refs
    BY HeldTyped
  <2> HIDE DEF reachable, ending
  <2>6. stored[a] = (reachable \ ending) \union stranded[a]
    BY <2>1, <2>2, <2>4, <2>5
  <2>7. ending \subseteq reachable /\ stranded[a] \intersect reachable = {}
    BY <2>1, <2>2, <2>3, <2>4
  <2> QED BY <2>6, <2>7 DEF reachable, ending
<1>2. DiameterInv => DiameterTypeOK /\ RequestsInOrder
  BY DEF DiameterInv
<1> QED BY <1>1, <1>2, DiameterKeepsOrder, DiameterKeepsAccount, PTL

\* A Gy session is finalized at most once, after its release, and never when its
\* termination was cut short.
THEOREM FinalizedOnceHolds == DiameterSpec => []FinalizedOnce
<1>1. DiameterTypeOK /\ StoreInv => FinalizedOnce
  <2> SUFFICES ASSUME DiameterTypeOK, StoreInv, NEW r \in Refs, settles[r] > 0
               PROVE  settles[r] = 1 /\ r \notin stored["gy"] \union cut
    BY DEF FinalizedOnce
  <2>1. settles[r] = 1 /\ r \notin stranded["gy"] \union cut /\ ~Reaches("gy", r)
    BY DEF StoreInv, SettledIsGone
  <2>2. r \notin stored["gy"]
    BY <2>1, HeldTyped DEF StoreInv, Accounted
  <2> QED BY <2>1, <2>2
<1>2. DiameterInv => DiameterTypeOK
  BY DEF DiameterInv
<1> QED BY <1>1, <1>2, DiameterKeepsOrder, DiameterKeepsAccount, PTL
=============================================================================
