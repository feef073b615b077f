------------------------------ MODULE PollTable ------------------------------
(***************************************************************************)
(* What SchedulerService.schedule(PackageAgentList) promises, without the  *)
(* executor: a table of the polls that are alive.  A poll enters the table *)
(* only next to polls of the same list, and a poll that has left the table *)
(* never comes back.                                                       *)
(***************************************************************************)
VARIABLES live,    \* the polls that are alive: records with the id of the list
                   \* they belong to and the number of the call that brought it
          retired  \* the polls that were stopped, by a newer list or an error

TableVars == <<live, retired>>

TableInit == live = {} /\ retired = {}

(* A poll starts: every living poll of the same id is of the same list.    *)
Admit(p) ==
    /\ p \notin live \cup retired
    /\ \A q \in live : q.id = p.id => q.call = p.call
    /\ live' = live \cup {p}
    /\ UNCHANGED retired

(* A poll stops for ever. *)
Retire(p) ==
    /\ p \in live
    /\ live' = live \ {p}
    /\ retired' = retired \cup {p}

TableNext ==
    \/ \E p \in live' : Admit(p)
    \/ \E p \in live : Retire(p)

TableSpec == TableInit /\ [][TableNext]_TableVars
=============================================================================
