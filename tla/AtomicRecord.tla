---------------------------- MODULE AtomicRecord ----------------------------
(***************************************************************************)
(* What the UDSF promises of a record (src/nfs/udsf/src/store.hpp: "every  *)
(* write is an optimistic transaction ... retry on a lost race"): each     *)
(* write that takes effect takes effect at once, on the record as it is at *)
(* that moment, under the conditions that its request states.              *)
(***************************************************************************)
EXTENDS RecordRequests

VARIABLES
  record,    \* the record with its blocks
  commits,   \* how many writes took effect; the next one's version less one
  held       \* the condition that the latest one was made under

Init == record = NoRecord /\ commits = 0 /\ held = NoCondition

Serve(r) ==
  /\ Verdict(r, record) # "Abort"
  /\ record' = After(r, record, commits + 1)
  /\ commits' = commits + 1
  /\ held' = r.cond

Next == \E r \in RequestsAfter(commits) : Serve(r)

Spec == Init /\ [][Next]_<<record, commits, held>>
=============================================================================
