---- MODULE MCWriteback ----
(* A patch of NFiles files in the run w, and a second run r beside it.       *)
EXTENDS Writeback
====
