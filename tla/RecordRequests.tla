--------------------------- MODULE RecordRequests ---------------------------
(***************************************************************************)
(* What a write request to one UDSF record decides and produces once it    *)
(* has read the record: the lambdas that src/nfs/udsf/src/dr_routes.cpp    *)
(* and worker.cpp hand to Store::modify_record.  They are pure.            *)
(*                                                                         *)
(* A version stands for the random validator that a write generates: the   *)
(* number of the commit that wrote it, 0 where nothing is stored.          *)
(***************************************************************************)
EXTENDS Integers

CONSTANTS
  Tags,     \* the values of the one indexed tag of a record's meta
  Blocks,   \* block identifiers
  NoTag     \* the tag of a record that does not exist

ASSUME TagsAssumption == NoTag \notin Tags

\* The header of the request: none, If-None-Match: *, or If-Match of a version.
NoCondition == 0
IfAbsent == -1

\* A stored record with its blocks, as one value.
Records == [etag: Nat, tag: Tags \cup {NoTag}, blocks: [Blocks -> Nat]]
NoBlocks == [b \in Blocks |-> 0]
NoRecord == [etag |-> 0, tag |-> NoTag, blocks |-> NoBlocks]

Operations == {"PutRecord", "PatchRecord", "DeleteRecord", "PatchMeta",
               "PutBlock", "DeleteBlock"}
SetsTag == {"PutRecord", "PatchRecord", "PatchMeta"}

\* A validator that a request can name was given out with one of n commits.  The bulk
\* deletion and the sweep of an expired record are DeleteRecord without a condition.
RequestsAfter(n) ==
  {r \in [op: Operations, tag: Tags \cup {NoTag}, block: Blocks, cond: {IfAbsent} \cup 0..n] :
     r.tag = NoTag <=> r.op \notin SetsTag}

\* Conditions::write_passes for the validator of what the request addresses.
WritePasses(cond, etag) ==
  /\ cond = IfAbsent => etag = 0
  /\ cond > 0 => etag = cond

(***************************************************************************)
(* The verdict.  A PATCH of a record here replaces the tag and removes a   *)
(* block, which cannot be applied to a record without that block: 422.     *)
(***************************************************************************)
Verdict(r, before) ==
  CASE r.op = "PutRecord" ->
         IF WritePasses(r.cond, before.etag) THEN "Write" ELSE "Abort"
    [] r.op = "PatchRecord" ->
         IF /\ before.etag # 0
            /\ WritePasses(r.cond, before.etag)
            /\ before.blocks[r.block] # 0 THEN "Write" ELSE "Abort"
    [] r.op = "PatchMeta" ->
         IF before.etag # 0 /\ WritePasses(r.cond, before.etag)
           THEN "Write" ELSE "Abort"
    [] r.op = "PutBlock" ->
         IF before.etag # 0 /\ WritePasses(r.cond, before.blocks[r.block])
           THEN "Write" ELSE "Abort"
    [] r.op = "DeleteBlock" ->
         IF /\ before.etag # 0
            /\ before.blocks[r.block] # 0
            /\ WritePasses(r.cond, before.blocks[r.block])
           THEN "Write" ELSE "Abort"
    [] r.op = "DeleteRecord" ->
         IF before.etag # 0 /\ WritePasses(r.cond, before.etag)
           THEN "Delete" ELSE "Abort"

\* The blocks after a write: the one that the request carries gets the new version.
BlocksAfter(r, before, version) ==
  CASE r.op = "PutRecord" -> [NoBlocks EXCEPT ![r.block] = version]
    [] r.op = "PutBlock" -> [before.blocks EXCEPT ![r.block] = version]
    [] r.op \in {"PatchRecord", "DeleteBlock"} -> [before.blocks EXCEPT ![r.block] = 0]
    [] OTHER -> before.blocks

TagAfter(r, before) == IF r.op \in SetsTag THEN r.tag ELSE before.tag

\* The record that a request leaves when it finds `before` and commits as `version`.
After(r, before, version) ==
  IF Verdict(r, before) = "Delete"
    THEN NoRecord
    ELSE [etag |-> version,
          tag |-> TagAfter(r, before),
          blocks |-> BlocksAfter(r, before, version)]

\* What a subscriber is told about the change.
ChangeKind(r, before) ==
  IF before.etag = 0 THEN "CREATED"
  ELSE IF Verdict(r, before) = "Delete" THEN "DELETED" ELSE "UPDATED"
=============================================================================
