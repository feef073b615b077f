\* Two pool threads, so that runs overlap with replacements; three calls for one list.
SPECIFICATION Spec
CONSTANTS
  svc = svc
  pkgA = pkgA
  pkgB = pkgB
  agent1 = agent1
  agent2 = agent2
  disp1 = disp1
  disp2 = disp2
  Services = {svc}
  ServiceOf <- MCServiceOf
  ServiceName <- MCServiceName
  Agents = {agent1, agent2}
  NULL_DISPATCHER = NULL_DISPATCHER
  NoDispatcher = NoDispatcher
  NoTask = NoTask
  NotLookedUp = NotLookedUp
  Ids = {pkgA}
  AgentLists <- MCAgentLists
  Dispatchers = {disp1}
  Workers = {w1, w2}
  MaxCalls = 3
INVARIANTS TypeOK OneGeneration NoOrphan AllOrNothing
PROPERTY ImplementsPollTable
