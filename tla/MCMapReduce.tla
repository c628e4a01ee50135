---- MODULE MCMapReduce ----
(* Three workers, of which w1 has a limit of RPCs (worker.go:144). *)
EXTENDS MapReduce
CONSTANTS w1, w2, w3, Limit
MCRPCs == [w \in Workers |-> IF w = w1 THEN Limit ELSE -1]
====
