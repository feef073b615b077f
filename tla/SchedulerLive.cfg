\* Liveness: one pool thread shared by the polls of two packages.
SPECIFICATION FairSpec
CONSTANTS
  svc = svc
  pkgA = pkgA
  pkgB = pkgB
  agent1 = agent1
  agent2 = agent2
  disp1 = disp1
  disp2 = disp2
  Services = {svc}
  ServiceOf <- MCServiceOf
  ServiceName <- MCServiceName
  Agents = {agent1, agent2}
  NULL_DISPATCHER = NULL_DISPATCHER
  NoDispatcher = NoDispatcher
  NoTask = NoTask
  NotLookedUp = NotLookedUp
  Ids = {pkgA, pkgB}
  AgentLists <- MCOneList
  Dispatchers = {disp1, disp2}
  Workers = {w1}
  MaxCalls = 2
INVARIANT DispatcherTable
PROPERTY PollsReachDispatcher
