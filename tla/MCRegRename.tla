---------------------------- MODULE MCRegRename ----------------------------
EXTENDS RegRename, TLC

CONSTANTS t1, t2, a, b, m, p1, p2, p3, p4, p5

(* One thread with two registers, or two threads with one register each. *)
MCInitMap == [r \in Regs |->
  IF Cardinality(Threads) = 1 THEN (IF r[2] = a THEN p1 ELSE p2)
                              ELSE (IF r[1] = t1 THEN p1 ELSE p2)]

(* An update in place, a move, and a two-destination instruction that also   *)
(* writes a misc register.                                                   *)
MCShapes ==
  {[srcs |-> {a}, dests |-> {a}, misc |-> {}],
   [srcs |-> {a}, dests |-> {b}, misc |-> {}],
   [srcs |-> {b}, dests |-> {a, b}, misc |-> {m}]}

MCSymmetry == Permutations(PhysRegs \ {p1, p2})
=============================================================================
