---- MODULE MCUdsfExpiry ----
(* UdsfExpiry with two replicas, which race for the same schedule. *)
EXTENDS UdsfExpiry
====
