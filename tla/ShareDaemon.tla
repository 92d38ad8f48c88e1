----------------------------- MODULE ShareDaemon -----------------------------
(***************************************************************************)
(* The share daemon in single-group mode (connector/daemon/manager.go):    *)
(* one reconcile loop, the session group it drives, the callbacks and the  *)
(* exit of that group, the backoff timers, and the goroutines that persist *)
(* a permanent denial.  A section under m.mu is one step; between two of   *)
(* them everything else may move.                                          *)
(*                                                                         *)
(* The session group is qurl-connector's SessionGroupRunner, seen through  *)
(* the GroupRunner interface.  Time is not counted: an instant in the      *)
(* future is a flag, and a timer that was started is a member of timers    *)
(* until it fires.                                                         *)
(***************************************************************************)
EXTENDS LocalShares

VARIABLES
    daemon,        \* the process is up
    trigger,       \* the channel of capacity one
    loop,          \* where Run and Reconcile are, and what they hold
    tracked,       \* the applied definition of each resource
    withheld,      \* resources whose retryAt lies in the future
    groupBackoff,  \* groupRetryAt lies in the future
    timers,        \* scheduled retries that have not fired
    diagnostics,
    persisting,    \* epochs being turned off after a permanent denial
    session,       \* the runner and its routes; none when m.runner is nil
    stopRequested

\* A timer of the group or of a push is not one of a resource.
ASSUME TimerAssumption == "group" \notin Resources /\ "push" \notin Resources

managerVars == <<trigger, loop, tracked, withheld, groupBackoff, timers,
                 diagnostics, persisting>>
runnerVars == <<session, stopRequested>>
daemonVars == <<daemon, managerVars, runnerVars>>

Untracked == [epoch |-> 0, target |-> "none"]
NoRoute == [target |-> "none", epoch |-> 0]

Idle == [pc |-> "idle", snap |-> [r \in Resources |-> NoRow], restart |-> {},
         routes |-> {}]

NoSession == [state |-> "none", why |-> "none",
              routes |-> [r \in Resources |-> NoRoute]]

\* A route's epoch is the platform's when it was registered; 0 until then.
Routes == [target : Targets \cup {"none"}, epoch : Epochs]

DaemonOK ==
    /\ daemon \in BOOLEAN
    /\ trigger \in BOOLEAN
    /\ loop \in [pc : {"idle", "listed", "record", "start", "eligible",
                       "push", "restart", "stop"},
                 snap : [Resources -> Row \cup {NoRow}],
                 restart : SUBSET Resources, routes : SUBSET Resources]
    /\ tracked \in [Resources -> [epoch : Epochs,
                                  target : Targets \cup {"none"}]]
    /\ withheld \in SUBSET Resources
    /\ groupBackoff \in BOOLEAN
    /\ timers \in SUBSET (Resources \cup {"group", "push"})
    /\ diagnostics \in [Resources -> {"none", "starting", "retrying",
                                      "serving", "failed"}]
    /\ persisting \in [Resources -> Epochs]
    /\ session \in [state : {"none", "live", "exited"},
                    why : {"none", "empty", "stopped", "error", "gone"},
                    routes : [Resources -> Routes]]
    /\ stopRequested \in BOOLEAN

Empty ==
    /\ trigger = FALSE
    /\ loop = Idle
    /\ tracked = [r \in Resources |-> Untracked]
    /\ withheld = {}
    /\ groupBackoff = FALSE
    /\ timers = {}
    /\ diagnostics = [r \in Resources |-> "none"]
    /\ persisting = [r \in Resources |-> 0]
    /\ session = NoSession
    /\ stopRequested = FALSE

DaemonInit == daemon = FALSE /\ Empty

Tracks(r) == tracked[r] # Untracked
Desired == {r \in Resources : loop.snap[r] # NoRow}
LoopAt(pc) == daemon /\ loop.pc = pc
Live == session.state = "live"
Grouped == {r \in Resources : session.routes[r] # NoRoute}

-----------------------------------------------------------------------------
(* The process.                                                            *)

\* Run reconciles once before it waits for a trigger.
DaemonStarts ==
    /\ ~daemon
    /\ daemon' = TRUE
    /\ trigger' = TRUE
    /\ UNCHANGED <<loop, tracked, withheld, groupBackoff, timers, diagnostics,
                   persisting, runnerVars>>

\* Everything but the registry is process memory.
DaemonDies ==
    /\ daemon
    /\ daemon' = FALSE
    /\ trigger' = FALSE
    /\ loop' = Idle
    /\ tracked' = [r \in Resources |-> Untracked]
    /\ withheld' = {}
    /\ groupBackoff' = FALSE
    /\ timers' = {}
    /\ diagnostics' = [r \in Resources |-> "none"]
    /\ persisting' = [r \in Resources |-> 0]
    /\ session' = NoSession
    /\ stopRequested' = FALSE

\* POST /reload.
Reload ==
    /\ daemon
    /\ trigger' = TRUE
    /\ UNCHANGED <<daemon, loop, tracked, withheld, groupBackoff, timers,
                   diagnostics, persisting, runnerVars>>

-----------------------------------------------------------------------------
(* Reconcile.                                                              *)

\* Mutant: rows that are off are listed too.
ListsAll ==
    /\ LoopAt("idle")
    /\ trigger
    /\ trigger' = FALSE
    /\ loop' = [Idle EXCEPT !.pc = "listed", !.snap = rows]
    /\ UNCHANGED <<daemon, tracked, withheld, groupBackoff, timers,
                   diagnostics, persisting, runnerVars>>

List ==
    /\ LoopAt("idle")
    /\ trigger
    /\ trigger' = FALSE
    /\ loop' = [Idle EXCEPT
                   !.pc = "listed",
                   !.snap = [r \in Resources |->
                                IF rows[r].on THEN rows[r] ELSE NoRow]]
    /\ UNCHANGED <<daemon, tracked, withheld, groupBackoff, timers,
                   diagnostics, persisting, runnerVars>>

Prune ==
    /\ tracked' = [r \in Resources |->
                      IF r \in Desired THEN tracked[r] ELSE Untracked]
    /\ withheld' = withheld \cap Desired
    /\ diagnostics' = [r \in Resources |->
                          IF r \notin Desired /\ Tracks(r) THEN "none"
                                                           ELSE diagnostics[r]]

PruneUndesired ==
    /\ LoopAt("listed")
    /\ Prune
    /\ \/ /\ Desired = {} /\ session.state # "none"
          /\ stopRequested' = TRUE
          /\ loop' = [loop EXCEPT !.pc = "stop"]
       \/ /\ Desired = {} /\ session.state = "none"
          /\ loop' = Idle
          /\ UNCHANGED stopRequested
       \/ /\ Desired # {}
          /\ loop' = [loop EXCEPT !.pc = IF session.state = "none"
                                             THEN "start" ELSE "record"]
          /\ UNCHANGED stopRequested
    /\ UNCHANGED <<daemon, trigger, groupBackoff, timers, persisting, session>>

Moved(r) == Tracks(r) /\ tracked[r].target # loop.snap[r].target

\* Mutant: a newer epoch is recorded like any other change.
ToRestartNever == {}

\* Same origin, newer epoch: the commit waits for RestartRoute.
ToRestart == {r \in Desired : /\ Tracks(r) /\ ~Moved(r)
                              /\ loop.snap[r].epoch > tracked[r].epoch}

Definition(r) == [epoch |-> loop.snap[r].epoch, target |-> loop.snap[r].target]

\* A move clears the retired origin's backoff and diagnostic.
Record(commit) ==
    /\ tracked' = [r \in Resources |->
                      IF r \in commit THEN Definition(r) ELSE tracked[r]]
    /\ diagnostics' = [r \in Resources |->
                          IF \/ r \in Desired /\ ~Tracks(r)
                             \/ /\ r \in Desired /\ Moved(r)
                                /\ r \in withheld \/ ~groupBackoff
                              THEN "starting" ELSE diagnostics[r]]

RecordDesired ==
    /\ LoopAt("record")
    /\ Record(Desired \ ToRestart)
    /\ withheld' = withheld \ {r \in Desired : Moved(r)}
    /\ loop' = IF session.state = "none"
                   THEN Idle
                   ELSE [loop EXCEPT !.pc = "eligible", !.restart = ToRestart]
    /\ UNCHANGED <<daemon, trigger, groupBackoff, timers, persisting,
                   runnerVars>>

\* The due time of the earliest withheld route gets a timer.
ScheduleNextDue(held) ==
    IF held = {} THEN UNCHANGED timers
    ELSE \E r \in held : timers' = timers \cup {r}

EligibleRoutes ==
    /\ LoopAt("eligible")
    /\ ScheduleNextDue(Desired \cap withheld)
    /\ IF Desired \subseteq withheld
           THEN /\ stopRequested' = (session.state # "none")
                /\ loop' = [loop EXCEPT !.pc = "stop"]
           ELSE /\ loop' = [loop EXCEPT !.pc = "push",
                                        !.routes = Desired \ withheld,
                                        !.restart = @ \ withheld]
                /\ UNCHANGED stopRequested
    /\ UNCHANGED <<daemon, trigger, tracked, withheld, groupBackoff,
                   diagnostics, persisting, session>>

\* SetRoutes keeps a route whose definition is unchanged.
Pushed(routes) ==
    [r \in Resources |->
        IF r \notin routes THEN NoRoute
        ELSE IF session.routes[r].target = loop.snap[r].target
                 THEN session.routes[r]
                 ELSE [target |-> loop.snap[r].target, epoch |-> 0]]

AfterPush == IF loop.restart = {} THEN Idle
                                  ELSE [loop EXCEPT !.pc = "restart"]

PushRoutes ==
    /\ LoopAt("push")
    /\ session' = IF Live THEN [session EXCEPT !.routes = Pushed(loop.routes)]
                          ELSE session
    /\ loop' = AfterPush
    /\ UNCHANGED <<daemon, trigger, tracked, withheld, groupBackoff, timers,
                   diagnostics, persisting, stopRequested>>

\* Mutant: nothing schedules the next attempt.
PushFailsQuietly ==
    /\ LoopAt("push")
    /\ loop' = AfterPush
    /\ UNCHANGED <<daemon, trigger, tracked, withheld, groupBackoff, timers,
                   diagnostics, persisting, runnerVars>>

\* A failed push schedules a reconcile of its own.
PushFails ==
    /\ LoopAt("push")
    /\ timers' = timers \cup {"push"}
    /\ loop' = AfterPush
    /\ UNCHANGED <<daemon, trigger, tracked, withheld, groupBackoff,
                   diagnostics, persisting, runnerVars>>

AfterRestartOf(r) ==
    IF loop.restart = {r} THEN Idle
    ELSE [loop EXCEPT !.restart = @ \ {r}]

\* RestartRoute gives the route a fresh registration, then commitRestart.
RestartRoute(r) ==
    /\ LoopAt("restart")
    /\ r \in loop.restart
    /\ session' = IF Live /\ session.routes[r] # NoRoute
                      THEN [session EXCEPT !.routes[r].epoch = 0] ELSE session
    /\ tracked' = [tracked EXCEPT ![r] = Definition(r)]
    /\ loop' = AfterRestartOf(r)
    /\ UNCHANGED <<daemon, trigger, withheld, groupBackoff, timers,
                   diagnostics, persisting, stopRequested>>

\* The tracked epoch stays behind; a wedged push gives up on the rest.
RestartFails(r) ==
    /\ LoopAt("restart")
    /\ r \in loop.restart
    /\ timers' = timers \cup {"push"}
    /\ loop' \in {AfterRestartOf(r), Idle}
    /\ UNCHANGED <<daemon, trigger, tracked, withheld, groupBackoff,
                   diagnostics, persisting, runnerVars>>

\* startGroup up to the factory: a fresh group subsumes every restart.
Starting ==
    /\ LoopAt("start")
    /\ Record(Desired)
    /\ withheld' = withheld \ {r \in Desired : Moved(r)}
    /\ loop' = Idle

StartWaits ==
    /\ Starting
    /\ groupBackoff
    /\ timers' = timers \cup {"group"}
    /\ UNCHANGED <<daemon, trigger, groupBackoff, persisting, runnerVars>>

StartWithholds ==
    /\ Starting
    /\ ~groupBackoff
    /\ Desired \subseteq withheld'
    /\ ScheduleNextDue(Desired)
    /\ UNCHANGED <<daemon, trigger, groupBackoff, persisting, runnerVars>>

LaunchRunner ==
    /\ Starting
    /\ ~groupBackoff
    /\ ~(Desired \subseteq withheld')
    /\ ScheduleNextDue(Desired \cap withheld')
    /\ session' = [state |-> "live", why |-> "none",
                   routes |-> [r \in Resources |->
                       IF r \in Desired \ withheld'
                           THEN [target |-> loop.snap[r].target, epoch |-> 0]
                           ELSE NoRoute]]
    /\ stopRequested' = FALSE
    /\ UNCHANGED <<daemon, trigger, groupBackoff, persisting>>

\* markTrackedRetryingLocked leaves a refused route's diagnostic alone.
MarkRetrying(down) ==
    diagnostics' = [r \in Resources |->
                       IF r \in down \ withheld THEN "retrying"
                                                ELSE diagnostics[r]]

\* The factory fails, and recordGroupFailure backs the group off.
StartFails ==
    /\ LoopAt("start")
    /\ ~groupBackoff
    /\ ~(Desired \subseteq withheld \ {r \in Desired : Moved(r)})
    /\ tracked' = [r \in Resources |->
                      IF r \in Desired THEN Definition(r) ELSE tracked[r]]
    /\ withheld' = withheld \ {r \in Desired : Moved(r)}
    /\ diagnostics' = [r \in Resources |->
                          IF r \in Desired \ withheld' THEN "retrying"
                                                       ELSE diagnostics[r]]
    /\ groupBackoff' = TRUE
    /\ timers' = timers \cup {"group"}
    /\ loop' = Idle
    /\ UNCHANGED <<daemon, trigger, persisting, runnerVars>>

\* stopRunner waits for the runner; finishRunner has run when it returns.
RunnerStopped ==
    /\ LoopAt("stop")
    /\ session.state = "none"
    /\ loop' = Idle
    /\ UNCHANGED <<daemon, trigger, tracked, withheld, groupBackoff, timers,
                   diagnostics, persisting, runnerVars>>

-----------------------------------------------------------------------------
(* The session group and what it reports.                                  *)

SessionStops ==
    /\ Live
    /\ stopRequested
    /\ session' = [NoSession EXCEPT !.state = "exited", !.why = "stopped"]
    /\ UNCHANGED <<daemon, managerVars, stopRequested>>

SessionFails(why) ==
    /\ Live
    /\ session' = [NoSession EXCEPT !.state = "exited", !.why = why]
    /\ UNCHANGED <<daemon, managerVars, stopRequested>>

\* A pending route registers at the platform's epoch: onRouteServing.
RouteServes(r, epoch) ==
    /\ Live
    /\ session.routes[r] # NoRoute
    /\ session.routes[r].epoch = 0
    /\ session' = [session EXCEPT !.routes[r].epoch = epoch]
    /\ IF Tracks(r)
           THEN /\ withheld' = withheld \ {r}
                /\ groupBackoff' = FALSE
                /\ diagnostics' = [diagnostics EXCEPT ![r] = "serving"]
           ELSE UNCHANGED <<withheld, groupBackoff, diagnostics>>
    /\ UNCHANGED <<daemon, trigger, loop, tracked, timers, persisting,
                   stopRequested>>

\* The platform refuses a registration: the group withdraws the route, and
\* ends when it was the last; onRouteFailed holds it back.
RouteRefused(r) ==
    /\ Live
    /\ session.routes[r] # NoRoute
    /\ session' = IF Grouped = {r}
                      THEN [NoSession EXCEPT !.state = "exited", !.why = "empty"]
                      ELSE [session EXCEPT !.routes[r] = NoRoute]
    /\ IF Tracks(r)
           THEN /\ withheld' = withheld \cup {r}
                /\ timers' = timers \cup {r}
                /\ diagnostics' = [diagnostics EXCEPT ![r] = "retrying"]
           ELSE UNCHANGED <<withheld, timers, diagnostics>>
    /\ UNCHANGED <<daemon, trigger, loop, tracked, groupBackoff, persisting,
                   stopRequested>>

TrackedResources == {r \in Resources : Tracks(r)}

\* finishRunner, for an exit that was asked for or that emptied the group.
FinishBenign ==
    /\ session.state = "exited"
    /\ session.why \in {"empty", "stopped"} \/ stopRequested
    /\ session' = NoSession
    /\ stopRequested' = FALSE
    /\ groupBackoff' = FALSE
    /\ trigger' = TRUE
    /\ UNCHANGED <<daemon, loop, tracked, withheld, timers, diagnostics,
                   persisting>>

FinishFailed ==
    /\ session.state = "exited"
    /\ session.why = "error"
    /\ ~stopRequested
    /\ session' = NoSession
    /\ groupBackoff' = TRUE
    /\ timers' = timers \cup {"group"}
    /\ MarkRetrying(TrackedResources)
    /\ UNCHANGED <<daemon, trigger, loop, tracked, withheld, persisting,
                   stopRequested>>

\* The Connector's own resource is unknown to the platform: every tracked
\* row is to be turned off, except those whose persist is already running.
FinishGone ==
    /\ session.state = "exited"
    /\ session.why = "gone"
    /\ ~stopRequested
    /\ session' = NoSession
    /\ groupBackoff' = TRUE
    /\ timers' = timers \cup {"group"}
    /\ diagnostics' = [r \in Resources |->
                          IF Tracks(r) THEN "failed" ELSE diagnostics[r]]
    /\ persisting' = [r \in Resources |->
                         IF Tracks(r) /\ persisting[r] = 0
                             THEN tracked[r].epoch ELSE persisting[r]]
    /\ UNCHANGED <<daemon, trigger, loop, tracked, withheld, stopRequested>>

\* One attempt that lands, or finds the row deleted.
PersistResourceGone(r) ==
    /\ persisting[r] # 0
    /\ \/ DisableAtCurrentEpoch(r, persisting[r])
       \/ ~Present(r) /\ UNCHANGED rows
    /\ persisting' = [persisting EXCEPT ![r] = 0]
    /\ trigger' = TRUE
    /\ UNCHANGED <<daemon, loop, tracked, withheld, groupBackoff, timers,
                   diagnostics, runnerVars>>

-----------------------------------------------------------------------------
(* Timers of scheduleGroupRetry.                                           *)

RetryDue(r) ==
    /\ r \in withheld \cup timers
    /\ withheld' = withheld \ {r}
    /\ timers' = timers \ {r}
    /\ trigger' = (trigger \/ r \in timers)
    /\ UNCHANGED <<daemon, loop, tracked, groupBackoff, diagnostics,
                   persisting, runnerVars>>

GroupRetryDue ==
    /\ groupBackoff \/ "group" \in timers
    /\ groupBackoff' = FALSE
    /\ timers' = timers \ {"group"}
    /\ trigger' = (trigger \/ "group" \in timers)
    /\ UNCHANGED <<daemon, loop, tracked, withheld, diagnostics, persisting,
                   runnerVars>>

PushRetryDue ==
    /\ "push" \in timers
    /\ timers' = timers \ {"push"}
    /\ trigger' = TRUE
    /\ UNCHANGED <<daemon, loop, tracked, withheld, groupBackoff, diagnostics,
                   persisting, runnerVars>>

-----------------------------------------------------------------------------

\* The loop's own steps: no environment needed.
Reconciles ==
    \/ List \/ PruneUndesired \/ RecordDesired \/ EligibleRoutes
    \/ PushRoutes \/ \E r \in Resources : RestartRoute(r)
    \/ StartWaits \/ StartWithholds \/ LaunchRunner \/ RunnerStopped

TimersFire ==
    \/ GroupRetryDue \/ PushRetryDue \/ \E r \in Resources : RetryDue(r)

SessionEnds == SessionStops \/ FinishBenign \/ FinishFailed \/ FinishGone

DaemonFault ==
    \/ PushFails \/ StartFails \/ \E r \in Resources : RestartFails(r)
    \/ SessionFails("error") \/ SessionFails("gone") \/ DaemonDies
=============================================================================
