\* Two threads; a child that is not the first; three names for connections.
CONSTANTS
  NThreads = 2
  ThreadLimit = 3
  ChildNum = 1
  ConnectTries = 3
  Objects = {o1, o2, o3}
SPECIFICATION Spec
INVARIANTS
  TypeOK
  FirstConnectionLasts
  InstancesArePrivate
  ConnectionOutlivesNdb
  OneRestartPerChild
PROPERTIES
  EveryRequestEnds
  StaleChildIsReplaced
CHECK_DEADLOCK FALSE
