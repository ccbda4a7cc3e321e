---- MODULE MCUdsfStore ----
(* UdsfStore on two handlers, each of which can lose a race to the other. *)
EXTENDS UdsfStore, TLC

\* Handlers and the values of a tag are interchangeable.
Symmetry == Permutations(Handlers) \cup Permutations(Tags)
====
