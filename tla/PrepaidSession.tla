--------------------------- MODULE PrepaidSession ---------------------------
(***************************************************************************)
(* What prepaid charging promises a subscriber about one session, whatever *)
(* fails underneath: money is authorised piece by piece, the session is    *)
(* closed at most once and for good, it is charged only when closed, once, *)
(* and never more than what was authorised.  It promises nothing about     *)
(* money that stays authorised and is never charged.                       *)
(***************************************************************************)
EXTENDS Integers

CONSTANT Session

VARIABLES
    opened,     \* sessions that exist
    closed,     \* those that were released
    authorised, \* money set aside for each
    charged     \* money taken for each

promiseVars == <<opened, closed, authorised, charged>>

Init ==
    /\ opened = {}
    /\ closed = {}
    /\ authorised = [s \in Session |-> 0]
    /\ charged = [s \in Session |-> 0]

Open(s) ==
    /\ s \notin opened
    /\ opened' = opened \union {s}
    /\ UNCHANGED <<closed, authorised, charged>>

\* An authorisation that was on its way when the session closed may still land.
Authorise(s) ==
    /\ s \in opened
    /\ authorised'[s] >= authorised[s]
    /\ authorised' = [authorised EXCEPT ![s] = authorised'[s]]
    /\ UNCHANGED <<opened, closed, charged>>

Close(s) ==
    /\ s \in opened \ closed
    /\ closed' = closed \union {s}
    /\ UNCHANGED <<opened, authorised, charged>>

Charge(s) ==
    /\ s \in closed
    /\ charged[s] = 0
    /\ charged'[s] \in 1 .. authorised[s]
    /\ charged' = [charged EXCEPT ![s] = charged'[s]]
    /\ UNCHANGED <<opened, closed, authorised>>

Next == \E s \in Session : Open(s) \/ Authorise(s) \/ Close(s) \/ Charge(s)

Spec == Init /\ [][Next]_promiseVars
=============================================================================
