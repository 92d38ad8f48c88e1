----------------------------- MODULE ShareSystem -----------------------------
(***************************************************************************)
(* Local sharing on one machine, put together: the platform, the commands  *)
(* (ShareCommands) and the daemon (ShareDaemon) over one registry          *)
(* (LocalShares).  The commands reach the daemon by Ensure and reload      *)
(* alone; the session group reaches the platform by registering routes.    *)
(*                                                                         *)
(* A scenario says which commands an instance may run and how many things  *)
(* may go wrong in it.                                                     *)
(***************************************************************************)
EXTENDS ShareCommands, ShareDaemon

CONSTANT Scenarios   \* bound: records [jobs, published, faults]

ASSUME ShareAssumption ==
    /\ Resources # {} /\ Targets # {}
    /\ MaxEpoch >= 1
    /\ \A s \in Scenarios : s.faults \in Nat

VARIABLES
    scenario,
    faults,      \* faults the instance may still see
    installed,   \* the service manager restarts the daemon
    reauth       \* a headless start between its read and its write

systemVars == <<scenario, faults, installed, reauth>>
vars == <<rows, commandVars, daemonVars, systemVars>>

NoReauth == [pc |-> "idle", res |-> CHOOSE r \in Resources : TRUE,
             local |-> NoRow, reply |-> NoReply]

TypeOK ==
    /\ RowsOK
    /\ CommandsOK
    /\ DaemonOK
    /\ scenario \in Scenarios
    /\ faults \in 0 .. scenario.faults
    /\ installed \in BOOLEAN
    /\ reauth \in [pc : {"idle", "cloud", "write"}, res : Resources,
                   local : Row \cup {NoRow}, reply : Reply]

\* The published resources have been served before, at epoch one.
Init ==
    /\ scenario \in Scenarios
    /\ faults = scenario.faults
    /\ rows = [r \in Resources |->
                  IF r \in scenario.published
                      THEN [on |-> TRUE, epoch |-> 1,
                            target |-> CHOOSE t \in Targets : TRUE]
                      ELSE NoRow]
    /\ cloud = [r \in Resources |->
                   [active |-> TRUE, on |-> r \in scenario.published,
                    epoch |-> IF r \in scenario.published THEN 1 ELSE 0]]
    /\ authorized = [r \in Resources |->
                        IF r \in scenario.published THEN {1} ELSE {}]
    /\ cmd = [c \in Commands |-> Fresh]
    /\ DaemonInit
    /\ installed = (scenario.published # {})
    /\ reauth = NoReauth

Fault == faults > 0 /\ faults' = faults - 1

-----------------------------------------------------------------------------
(* The commands.                                                           *)

Commanded(c) ==
    /\ \/ CommandBegins(c) /\ <<cmd'[c].kind, cmd'[c].res>> \in scenario.jobs[c]
       \/ CommandStep(c)
    /\ UNCHANGED <<daemonVars, systemVars>>

CommandFails(c) ==
    /\ CommandFault(c)
    /\ Fault
    /\ UNCHANGED <<daemonVars, scenario, installed, reauth>>

\* A live daemon is told to reconcile, an absent one is installed.
Ensure(c) ==
    /\ Ensured(c)
    /\ Reload \/ (DaemonStarts /\ reauth.pc = "idle")
    /\ installed' = TRUE
    /\ UNCHANGED <<scenario, faults, reauth>>

\* A reload never starts a daemon.
ReloadIfRunning(c) ==
    /\ Reloaded(c)
    /\ Reload \/ (~daemon /\ UNCHANGED daemonVars)
    /\ UNCHANGED systemVars

\* Mutant: the daemon lease is not taken.
RetargetLocalUnleased(t) ==
    /\ Fault
    /\ RetargetStopped(t)
    /\ UNCHANGED <<commandVars, daemonVars, scenario, installed, reauth>>

\* daemon retarget-local, which holds the daemon lease.
RetargetLocal(t) ==
    /\ ~daemon
    /\ Fault
    /\ RetargetStopped(t)
    /\ UNCHANGED <<commandVars, daemonVars, scenario, installed, reauth>>

-----------------------------------------------------------------------------
(* A headless start: the row was turned off by a denial, and the platform  *)
(* is asked whether it is still on.                                        *)

HeadlessGets(r) ==
    /\ ~daemon
    /\ reauth.pc = "idle"
    /\ Present(r) /\ ~rows[r].on
    /\ Fault
    /\ reauth' = [NoReauth EXCEPT !.pc = "cloud", !.res = r, !.local = rows[r]]
    /\ UNCHANGED <<rows, commandVars, daemonVars, scenario, installed>>

HeadlessReads ==
    /\ reauth.pc = "cloud"
    /\ reauth' = IF cloud[reauth.res].active
                     THEN [reauth EXCEPT !.pc = "write",
                                         !.reply = Answer(reauth.res)]
                     ELSE NoReauth
    /\ UNCHANGED <<rows, commandVars, daemonVars, scenario, faults, installed>>

\* Mutant: a share the platform turned off comes back on.
HeadlessStoresOn(r, local, reply) ==
    \/ /\ reply.epoch = local.epoch
       /\ EnableAtCurrentEpoch(r, reply.epoch)
    \/ /\ reply.epoch > local.epoch
       /\ SetDesired(r, reply.on, reply.epoch)

HeadlessStores(r, local, reply) ==
    \/ /\ reply.epoch = local.epoch /\ reply.on
       /\ EnableAtCurrentEpoch(r, reply.epoch)
    \/ /\ reply.epoch > local.epoch
       /\ SetDesired(r, reply.on, reply.epoch)

HeadlessKeeps(r, local, reply) ==
    /\ reply.on /\ reply.epoch = local.epoch => ~AtCurrentEpoch(r, reply.epoch)
    /\ reply.epoch > local.epoch =>
           ~SetDesiredAccepts(r, reply.on, reply.epoch)
    /\ UNCHANGED rows

HeadlessWrites ==
    /\ reauth.pc = "write"
    /\ \/ HeadlessStores(reauth.res, reauth.local, reauth.reply)
       \/ HeadlessKeeps(reauth.res, reauth.local, reauth.reply)
    /\ reauth' = NoReauth
    /\ UNCHANGED <<commandVars, daemonVars, scenario, faults, installed>>

-----------------------------------------------------------------------------
(* The daemon and its session.                                             *)

Daemon(A) == A /\ UNCHANGED <<rows, commandVars, systemVars>>

Serves(r) ==
    /\ cloud[r].active /\ cloud[r].on
    /\ Daemon(RouteServes(r, cloud[r].epoch))

Registered(r) == session.routes[r].epoch # 0

\* What is off, revoked or fenced is refused; anything else by a fault.
Refuses(r) ==
    /\ RouteRefused(r)
    /\ \/ /\ \/ ~cloud[r].on
             \/ Registered(r) /\ session.routes[r].epoch # cloud[r].epoch
          /\ UNCHANGED faults
       \/ ~Registered(r) /\ cloud[r].on /\ Fault
    /\ UNCHANGED <<rows, commandVars, scenario, installed, reauth>>

Persists(r) ==
    /\ PersistResourceGone(r)
    /\ UNCHANGED <<commandVars, systemVars>>

DaemonFails ==
    /\ DaemonFault
    /\ Fault
    /\ UNCHANGED <<rows, commandVars, scenario, installed, reauth>>

ServiceManagerRestarts ==
    Daemon(installed /\ reauth.pc = "idle" /\ DaemonStarts)

Next ==
    \/ \E c \in Commands : \/ Commanded(c) \/ CommandFails(c)
                           \/ Ensure(c) \/ ReloadIfRunning(c)
    \/ \E t \in Targets : RetargetLocal(t)
    \/ \E r \in Resources : \/ HeadlessGets(r) \/ Serves(r) \/ Refuses(r)
                            \/ Persists(r)
    \/ HeadlessReads \/ HeadlessWrites
    \/ Daemon(Reconciles) \/ Daemon(TimersFire) \/ Daemon(SessionEnds)
    \/ DaemonFails
    \/ ServiceManagerRestarts

\* The goroutines run, the timers fire, the platform answers a registration
\* it accepts, and the service manager restarts its job.
Fairness ==
    /\ WF_vars(Daemon(Reconciles))
    /\ WF_vars(Daemon(SessionEnds))
    /\ WF_vars(Daemon(GroupRetryDue))
    /\ WF_vars(Daemon(PushRetryDue))
    /\ \A r \in Resources : WF_vars(Daemon(RetryDue(r))) /\ WF_vars(Serves(r))
    /\ WF_vars(ServiceManagerRestarts)

Spec == Init /\ [][Next]_vars /\ Fairness

-----------------------------------------------------------------------------
(* Safety.                                                                 *)

\* A local row is never ahead of the platform, and one that is on carries an
\* epoch at which the platform was on: no answer, however late, and no
\* compensation brings back an epoch nobody authorized.
RowFollowsCloud ==
    \A r \in Resources :
        /\ rows[r].epoch <= cloud[r].epoch
        /\ rows[r].on => rows[r].epoch \in authorized[r]

\* shares.go: no session that was admitted for one origin keeps serving
\* another; an origin changes with a newer epoch or while no daemon runs.
TargetFence ==
    [][\A r \in Resources :
          /\ Present(r) /\ rows'[r] # NoRow
          /\ rows'[r].epoch <= rows[r].epoch
          => /\ rows'[r].epoch = rows[r].epoch
             /\ rows'[r].target = rows[r].target \/ ~daemon]_vars

\* manager.go: whatever a reconcile leaves undone has a retry on its way.
\* With the loop idle and nothing scheduled, every tracked route is in a
\* live group with its own origin, and a group has a tracked route.
Settled ==
    /\ daemon /\ loop.pc = "idle" /\ ~trigger /\ timers = {}
    /\ session.state # "exited"
    /\ \A r \in Resources : persisting[r] = 0

NothingForgotten ==
    /\ Settled =>
           /\ \A r \in Resources :
                  Tracks(r) => Live /\ session.routes[r].target = tracked[r].target
           /\ Live => \E r \in Resources : Tracks(r)
    /\ withheld \subseteq timers \cap TrackedResources
    /\ groupBackoff => "group" \in timers

\* Every step of the whole system that writes the registry is one of its
\* operations.
ImplementsRegistry == [][RegistryNext]_rows

-----------------------------------------------------------------------------
(* Liveness.                                                               *)

OnAt(r, e) ==
    /\ rows[r].on /\ rows[r].epoch = e
    /\ cloud[r].active /\ cloud[r].on /\ cloud[r].epoch = e

ServedAt(r, e) ==
    Live /\ session.routes[r] = [target |-> rows[r].target, epoch |-> e]

\* Once a command's Ensure has returned, its share is served at its epoch
\* and from its origin, unless the row or the platform moves on.
Waited(r, e) ==
    \E c \in Commands :
        At(c, "wait") /\ Res(c) = r /\ cmd[c].sharing.epoch = e

EnsuredIsServed ==
    \A r \in Resources, e \in Epochs \ {0} :
        Waited(r, e) /\ OnAt(r, e) ~> ServedAt(r, e) \/ ~OnAt(r, e)

\* Once the daemon has been told, a stopped or deleted share leaves the
\* group, whatever reconcile, push or runner it was in the middle of.
WithdrawnWhenTold ==
    \A r \in Resources :
        daemon /\ trigger /\ ~rows[r].on ~> r \notin Grouped \/ rows[r].on
=============================================================================
