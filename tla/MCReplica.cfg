\* Two PIDs for five processes.
CONSTANTS
  Pids <- MCPids
  MaxProcs = 5
SPECIFICATION Spec
CHECK_DEADLOCK FALSE
INVARIANT
  ReplicaIsKnown
