--------------------------- MODULE PerShareDaemon ---------------------------
(***************************************************************************)
(* The share daemon with one session group per share                       *)
(* (connector/daemon/pershare.go): every share that is on gets a Manager   *)
(* of its own, and a share that was turned off and on again must wait for  *)
(* its old group to finish.                                                *)
(*                                                                         *)
(* A group is known by an identity of its own, because two groups of one   *)
(* resource can exist at once.  Of its Manager only the runner's session   *)
(* and the bounded stop at the end of Run are left (manager.go); what it   *)
(* does with its routes is in ShareDaemon.                                 *)
(***************************************************************************)
EXTENDS Naturals, FiniteSets

CONSTANTS Resources,
          Groups       \* bound: the identities of the groups ever started

VARIABLES
    on,        \* the resources whose row is on
    trigger,
    recheck,   \* scheduleReconcile's timer is running
    loop,      \* where Run is
    place,     \* which of the manager's tables holds each group
    share,     \* the resource of each group
    manager,   \* where the group's Manager.Run is
    session    \* the groups whose runner holds a live session

vars == <<on, trigger, recheck, loop, place, share, manager, session>>

TypeOK ==
    /\ on \subseteq Resources
    /\ trigger \in BOOLEAN /\ recheck \in BOOLEAN
    /\ loop \in {"idle", "stopping", "exiting", "exited"}
    /\ place \in [Groups -> {"unused", "groups", "stopped", "retiring",
                             "forgotten"}]
    /\ share \in [Groups -> Resources]
    /\ manager \in [Groups -> {"running", "cancelled", "stopping", "done"}]
    /\ session \in SUBSET Groups

Init ==
    /\ on \in SUBSET Resources
    /\ trigger = TRUE
    /\ recheck = FALSE
    /\ loop = "idle"
    /\ place = [g \in Groups |-> "unused"]
    /\ share \in [Groups -> Resources]
    /\ manager = [g \in Groups |-> "running"]
    /\ session = {}

In(where) == {g \in Groups : place[g] = where}
Held(where) == {share[g] : g \in In(where)}

\* A lifecycle command writes the row and reloads the daemon.
Turn(r) ==
    /\ loop # "exited"
    /\ on' = IF r \in on THEN on \ {r} ELSE on \cup {r}
    /\ trigger' = TRUE
    /\ UNCHANGED <<recheck, loop, place, share, manager, session>>

-----------------------------------------------------------------------------
(* PerShareManager.                                                        *)

\* pruneRetiredLocked.
Finished == {g \in In("retiring") : manager[g] = "done"}
Removed == {g \in In("groups") : share[g] \notin on}
StillRetiring == {share[g] : g \in In("retiring") \ Finished}
Wanted == on \ Held("groups")

Cancelled(removed) ==
    [g \in Groups |-> IF g \in removed /\ manager[g] = "running"
                          THEN "cancelled" ELSE manager[g]]

\* One pass under m.mu, with the cancellations stopGroups begins with.
Reconcile ==
    /\ loop = "idle"
    /\ trigger
    /\ \E new \in SUBSET In("unused") :
           /\ {share[g] : g \in new} = Wanted \ StillRetiring
           /\ Cardinality(new) = Cardinality(Wanted \ StillRetiring)
           /\ place' = [g \in Groups |->
                           CASE g \in new -> "groups"
                             [] g \in Removed -> "stopped"
                             [] g \in Finished -> "forgotten"
                             [] OTHER -> place[g]]
    /\ manager' = Cancelled(Removed)
    /\ recheck' = (recheck \/ Wanted \cap StillRetiring # {})
    /\ loop' = IF Removed = {} THEN "idle" ELSE "stopping"
    /\ trigger' = FALSE
    /\ UNCHANGED <<on, share, session>>

\* stopGroups waits for one group after another.
GroupStopped(g) ==
    /\ loop \in {"stopping", "exiting"}
    /\ g \in In("stopped")
    /\ manager[g] = "done"
    /\ place' = [place EXCEPT ![g] = "forgotten"]
    /\ UNCHANGED <<on, trigger, recheck, loop, share, manager, session>>

\* The shared deadline has passed: this group goes on by itself.
GroupOutlivesStop(g) ==
    /\ loop \in {"stopping", "exiting"}
    /\ g \in In("stopped")
    /\ place' = [place EXCEPT ![g] = "retiring"]
    /\ UNCHANGED <<on, trigger, recheck, loop, share, manager, session>>

StopGroupsReturns ==
    /\ loop \in {"stopping", "exiting"}
    /\ In("stopped") = {}
    /\ loop' = IF loop = "stopping" THEN "idle" ELSE "exited"
    /\ UNCHANGED <<on, trigger, recheck, place, share, manager, session>>

RecheckDue ==
    /\ recheck
    /\ recheck' = FALSE
    /\ trigger' = TRUE
    /\ UNCHANGED <<on, loop, place, share, manager, session>>

\* Run's context ends: stopAllGroups.
Exit ==
    /\ loop = "idle"
    /\ place' = [g \in Groups |->
                    IF g \in In("groups") THEN "stopped" ELSE place[g]]
    /\ manager' = Cancelled(In("groups"))
    /\ loop' = "exiting"
    /\ UNCHANGED <<on, trigger, recheck, share, session>>

-----------------------------------------------------------------------------
(* The Manager of one group.                                               *)

RunnerStarts(g) ==
    /\ place[g] # "unused"
    /\ manager[g] = "running"
    /\ session' = session \cup {g}
    /\ UNCHANGED <<on, trigger, recheck, loop, place, share, manager>>

\* The runner retires its session, at its own pace once it is cancelled.
RunnerEnds(g) ==
    /\ g \in session
    /\ session' = session \ {g}
    /\ UNCHANGED <<on, trigger, recheck, loop, place, share, manager>>

\* Run leaves its loop; the deferred stopRunner begins.
RunStops(g) ==
    /\ manager[g] = "cancelled"
    /\ manager' = [manager EXCEPT ![g] = "stopping"]
    /\ UNCHANGED <<on, trigger, recheck, loop, place, share, session>>

\* stopRunner returns when the runner is gone, or when runnerStopTimeout has
\* passed; either way Run returns and the group is done.
RunReturns(g) ==
    /\ manager[g] = "stopping"
    /\ g \notin session
    /\ manager' = [manager EXCEPT ![g] = "done"]
    /\ UNCHANGED <<on, trigger, recheck, loop, place, share, session>>

RunStopTimesOut(g) ==
    /\ manager[g] = "stopping"
    /\ g \in session
    /\ manager' = [manager EXCEPT ![g] = "done"]
    /\ UNCHANGED <<on, trigger, recheck, loop, place, share, session>>

Next ==
    \/ \E r \in Resources : Turn(r)
    \/ Reconcile \/ StopGroupsReturns \/ RecheckDue \/ Exit
    \/ \E g \in Groups :
           \/ GroupStopped(g) \/ GroupOutlivesStop(g)
           \/ RunnerStarts(g) \/ RunnerEnds(g)
           \/ RunStops(g) \/ RunReturns(g) \/ RunStopTimesOut(g)

Spec == Init /\ [][Next]_vars

\* pershare.go, the comment on retiring: a resource is not re-admitted until
\* its prior group has finished, so two live sessions are never signed for
\* one resource.
OneSessionPerResource ==
    \A g, h \in session : share[g] = share[h] => g = h
=============================================================================
