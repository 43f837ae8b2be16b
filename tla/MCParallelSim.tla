--------------------------- MODULE MCParallelSim ---------------------------
(* Two threads, a quantum of two ticks and two quanta; the priorities are   *)
(* those of sim/eventq.hh: Sim_Exit_Pri, Progress_Event_Pri of the sync     *)
(* event, Stat_Event_Pri, CPU_Tick_Pri.                                     *)
EXTENDS ParallelSim

MCPri == [e \in Events |-> CASE e \in Exits -> 100 [] e = "sync" -> 95
                             [] e = "stat" -> 90 [] OTHER -> 50]
=============================================================================
