CONSTANTS Cpus = {"a", "b"}
          Mems = {"m", "n"}
          Packets = {"a1", "aw1", "a2", "b3"}
          Workloads <- MCWorkloads
          Source <- MCSource
          Addr <- MCAddr
          FindPort <- MCFindPort
          Posted = {"aw1"}
SPECIFICATION Spec
INVARIANTS RetryOwed DrainSound
PROPERTIES RequestsEnd DrainEnds
