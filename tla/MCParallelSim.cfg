CONSTANTS NumQueues = 2
          Quantum = 2
          Globals = {"exit", "interrupt"}
          Exits = {"exit", "interrupt"}
          Remote = "remote"
          Pri <- MCPri
          MaxTick = 4
SPECIFICATION Spec
INVARIANTS NoPastEvents
PROPERTIES GlobalEventsHappen
CHECK_DEADLOCK FALSE
