------------------------------ MODULE MCLSQUnit ------------------------------
(* Instances of LSQUnit: two bytes, accesses of one or both. *)
EXTENDS LSQUnit

Ld(bytes) == [op |-> "load", bytes |-> bytes]
St(bytes) == [op |-> "store", bytes |-> bytes]
Br == [op |-> "branch", bytes |-> {}]

\* Two overlapping stores and the loads that read them; two late stores with
\* a violating load each; a store between two loads; loads that stall on one
\* store; a branch before a store and a load, and between two stores.
MCPrograms ==
    {<<St({1, 2}), St({1}), Ld({1, 2}), Ld({1})>>,
     <<St({1}), St({2}), Ld({1}), Ld({2})>>,
     <<St({1}), Ld({1, 2}), St({2}), Ld({2})>>,
     <<St({1}), Ld({1, 2}), Ld({1, 2}), Ld({1})>>,
     <<Br, St({1}), Ld({1})>>,
     <<St({1}), Br, St({1}), Ld({1})>>}

\* Every program of three instructions.
AllPrograms ==
    [1..3 -> {Ld({1}), Ld({1, 2}), St({1}), St({2}), St({1, 2}), Br}]

BothPrograms == MCPrograms \cup AllPrograms
=============================================================================
