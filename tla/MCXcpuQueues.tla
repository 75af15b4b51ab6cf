---------------------------- MODULE MCXcpuQueues ----------------------------
(* Values for the constants of XcpuQueues. *)
EXTENDS XcpuQueues

SameSize == [x \in Sides |-> 3]
\* In the proportion of the repository, where the slave's ring is the larger one.
OwnSizes == [x \in Sides |-> IF x = "master" THEN 2 ELSE 3]
OneService == {"cmd"}
SmallQueues == [q \in Dirs \X Services |-> IF q[2] = "file" THEN 3 ELSE 2]
=============================================================================
