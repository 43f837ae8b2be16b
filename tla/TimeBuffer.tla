----------------------------- MODULE TimeBuffer -----------------------------
(***************************************************************************)
(* TimeBuffer<T> (cpu/timebuf.hh): the clocked wires between the stages of *)
(* the O3 pipeline.  Slot 0 is the cycle being simulated, slot d what was  *)
(* written d cycles ago; a stage writes slot 0 and reads slot delay.       *)
(***************************************************************************)
EXTENDS Naturals

(* The constructor: every slot holds a default element. *)
NewBuffer(past, empty) == [i \in 0 .. past |-> empty]

(* advance(): every element ages by one cycle, the oldest is destroyed and  *)
(* the slot of the new cycle holds a default element.                       *)
Advance(tb, empty) ==
  [i \in DOMAIN tb |-> IF i = 0 THEN empty ELSE tb[i - 1]]

(* access(0) through a writing wire. *)
Write(tb, x) == [tb EXCEPT ![0] = x]
=============================================================================
