---------------------------- MODULE MCMemSystem ----------------------------
(* Packets are named by their requestor (a or b), their address (1 to 3) and  *)
(* whether they are read or written back.  In the first workload two          *)
(* requestors contend for a memory, in the second two memories contend for    *)
(* the way back to a requestor.                                               *)
EXTENDS MemSystem

MCSource == [p \in Packets |-> IF p \in {"a1", "a2", "aw1"} THEN "a" ELSE "b"]
MCAddr == [p \in Packets |-> CASE p \in {"a1", "aw1"} -> 1 [] p = "a2" -> 2 [] p = "b3" -> 3]
MCFindPort == [x \in 1..3 |-> IF x = 2 THEN "n" ELSE "m"]
MCWorkloads == {{"a1", "aw1", "b3"}, {"a1", "aw1", "a2"}}
=============================================================================
