CONSTANTS NumQueues = 2
          Quantum = 2
          Globals = {"stat"}
          Exits = {}
          Remote = "remote"
          Pri <- MCPri
          MaxTick = 4
SPECIFICATION Spec
PROPERTIES GlobalEventsHappen
CHECK_DEADLOCK FALSE
