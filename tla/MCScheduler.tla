----------------------------- MODULE MCScheduler -----------------------------
(* Scheduler on small instances. *)
EXTENDS Scheduler

CONSTANTS pkgA, pkgB, svc, agent1, agent2, disp1, disp2

MCServiceOf == [i \in Ids |-> svc]
MCServiceName == [d \in Dispatchers |-> svc]

(* No agent, one agent, two agents, and a list that names an agent twice.  *)
MCAgentLists == {<<>>, <<agent1>>, <<agent1, agent2>>, <<agent2, agent2>>}

(* For liveness: one list of two agents, for a new package or to replace    *)
(* the polls of an old one.                                                *)
MCOneList == {<<agent2, agent1>>}
=============================================================================
