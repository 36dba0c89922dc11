\* Two threads; a child that is not the first; three names for connections.
CONSTANTS
  NThreads = 2
  ThreadLimit = 3
  ChildNum = 1
  ConnectTries = 3
  Objects = {o1, o2, o3}
SPECIFICATION Spec
INVARIANT InstanceIsConnected
CHECK_DEADLOCK FALSE
