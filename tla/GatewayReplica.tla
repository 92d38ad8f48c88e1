--------------------------- MODULE GatewayReplica ---------------------------
(***************************************************************************)
(* One process of the hot-standby gateway tier, from the inside: the       *)
(* leader (gateway-leader.js), the connection watchdog                     *)
(* (gateway-connection-watchdog.js), the WebSocket mirror of the shim      *)
(* (gateway-ws-shim.js) and the signal handlers (index.js,                 *)
(* gateway-shutdown-helpers.js).  They share one event loop and interleave *)
(* at every await.                                                         *)
(*                                                                         *)
(* The lock table, the other replicas and Discord are the environment.     *)
(* GatewayLock has the lock with its versions and clocks; here a version   *)
(* is only compared with the row's, so the cursor fits the row or is       *)
(* behind it, and a lease is live or has run out.                          *)
(***************************************************************************)
EXTENDS Naturals, Sequences

CONSTANTS
    MaxAttempts,      \* connect attempts before the watchdog gives up
    MaxRecovery,      \* watchdog ticks an automatic reconnect may last
    MaxDisturbances   \* bound: failures, closes, lapses and hand-overs

ASSUME BoundAssumption ==
    /\ MaxAttempts \in Nat \ {0}
    /\ MaxRecovery \in Nat \ {0}
    /\ MaxDisturbances \in Nat

VARIABLES
    \* the leader
    held,        \* heldLock
    cursor,      \* currentVersion: null, or compared with the row's version
    closed,      \* pushHandoff has begun
    chain,       \* works runSerialized has queued; the first is running
    stage,       \* the await the running work is at
    phase,       \* what has become of its lock call
    connecting,  \* an inbound handoff's connect() is outstanding
    \* the watchdog
    wd,          \* the await its step is at; sleep between steps
    attempts,
    recovery,    \* ticks since recoveryStartedAt; 0 is null
    stopping,
    \* the shim and @discordjs/ws
    ws,          \* wsConnected and wsRecovering
    pending,     \* connect() calls that have not settled, by their caller
    \* the process
    shutdown,
    signal,
    \* the environment
    row,         \* whose name the lock row is in
    live,        \* its lease has not run out
    offer,       \* POST /control/yours on its way to this replica
    disturbances

leader == <<held, cursor, closed, chain, stage, phase, connecting>>
watchdog == <<wd, attempts, recovery, stopping>>
discord == <<ws, pending>>
process == <<shutdown, signal>>
lock == <<row, live, offer>>
vars == <<leader, watchdog, discord, process, lock, disturbances>>

Works == {"tick", "handoff", "push", "release"}
LockCalls == {"acquire", "renew", "transfer", "release"}

\* A caller that timed out leaves its connect() running.
Callers == {"handoff", "watchdog", "leftHandoff", "leftWatchdog"}

Exits == {"exit graceful", "exit push", "exit watchdog", "exit forced"}

TypeOK ==
    /\ held \in BOOLEAN
    /\ cursor \in {"null", "fits", "behind"}
    /\ closed \in BOOLEAN
    /\ chain \in Seq(Works) /\ Len(chain) <= 4
    /\ stage \in LockCalls \cup {"wait", "beat", "peers", "post", "connect"}
    /\ phase \in {"none", "sent", "ok", "late", "ccf"}
    /\ connecting \in BOOLEAN
    /\ wd \in {"sleep", "read", "connect", "release", "leave"}
    /\ attempts \in 0 .. MaxAttempts
    /\ recovery \in 0 .. MaxRecovery
    /\ stopping \in BOOLEAN
    /\ ws \in {"idle", "connected", "recovering"}
    /\ pending \in [Callers -> Nat]
    /\ shutdown \in {"no", "closing", "watchdog", "leader", "push"} \cup Exits
    /\ signal \in {"none", "SIGTERM", "SIGINT"}
    /\ row \in {"none", "self", "peer"}
    /\ live \in BOOLEAN
    /\ offer \in {"none", "current", "stale"}
    /\ disturbances \in 0 .. MaxDisturbances

Init ==
    /\ held = FALSE /\ cursor = "null" /\ closed = FALSE
    /\ chain = <<>> /\ stage = "wait" /\ phase = "none" /\ connecting = FALSE
    /\ wd = "sleep" /\ attempts = 0 /\ recovery = 0 /\ stopping = FALSE
    /\ ws = "idle" /\ pending = [c \in Callers |-> 0]
    /\ shutdown = "no" /\ signal = "none"
    /\ row = "none" /\ live = FALSE /\ offer = "none"
    /\ disturbances = 0

Up == shutdown \notin Exits

\* A work whose turn has come begins in a microtask, before anything else.
Event == Up /\ (chain = <<>> \/ stage # "wait")

Disturb ==
    /\ disturbances < MaxDisturbances
    /\ disturbances' = disturbances + 1

-----------------------------------------------------------------------------
(* The leader's serial chain.                                              *)

Queued(work) == \E k \in DOMAIN chain : chain[k] = work

Running(work, at) ==
    Up /\ chain # <<>> /\ Head(chain) = work /\ stage = at

\* The running work is over, and the next one in the chain begins.
Done ==
    /\ chain' = Tail(chain)
    /\ stage' = "wait"
    /\ phase' = "none"

Await(at) ==
    /\ stage' = at
    /\ phase' = IF at \in LockCalls THEN "sent" ELSE "none"
    /\ UNCHANGED chain

\* loop(): one tick at a time, until running is cleared.
QueueTick ==
    /\ Event
    /\ shutdown \in {"no", "closing", "watchdog"}
    /\ ~Queued("tick")
    /\ chain' = Append(chain, "tick")
    /\ UNCHANGED <<held, cursor, closed, stage, phase, connecting, watchdog,
                   discord, process, lock, disturbances>>

\* step() up to the heartbeat write and the peer list.
TickBegins ==
    /\ Running("tick", "wait")
    /\ IF closed THEN Done ELSE Await("beat")
    /\ UNCHANGED <<held, cursor, closed, connecting, watchdog, discord,
                   process, lock, disturbances>>

TickCallsLock ==
    /\ Running("tick", "beat")
    /\ \/ held /\ cursor # "null" /\ Await("renew") /\ UNCHANGED held
       \/ held /\ cursor = "null" /\ Done /\ held' = FALSE
       \/ ~held /\ Await("acquire") /\ UNCHANGED held
    /\ UNCHANGED <<cursor, closed, connecting, watchdog, discord, process,
                   lock, disturbances>>

\* The cursor after a call that DynamoDB confirmed; late if the row has
\* moved since.
Confirmed == IF phase = "ok" THEN "fits" ELSE "behind"

AcquireReturns ==
    /\ Running("tick", "acquire")
    /\ \/ phase \in {"ok", "late"} /\ held' = TRUE /\ cursor' = Confirmed
       \/ phase = "ccf" /\ UNCHANGED <<held, cursor>>
    /\ Done
    /\ UNCHANGED <<closed, connecting, watchdog, discord, process, lock,
                   disturbances>>

\* Mutant: a renew that lost its CAS leaves heldLock and the cursor.
RenewReturnsDeaf ==
    /\ Running("tick", "renew")
    /\ \/ phase \in {"ok", "late"} /\ cursor' = Confirmed
       \/ phase = "ccf" /\ UNCHANGED cursor
    /\ Done
    /\ UNCHANGED <<held, closed, connecting, watchdog, discord, process, lock,
                   disturbances>>

RenewReturns ==
    /\ Running("tick", "renew")
    /\ \/ phase \in {"ok", "late"} /\ cursor' = Confirmed /\ UNCHANGED held
       \/ phase = "ccf" /\ cursor' = "null" /\ held' = FALSE
    /\ Done
    /\ UNCHANGED <<closed, connecting, watchdog, discord, process, lock,
                   disturbances>>

\* A transport error leaves heldLock and the cursor as they were.
TickThrows ==
    /\ Running("tick", "acquire") \/ Running("tick", "renew")
    /\ Disturb
    /\ Done
    /\ UNCHANGED <<held, cursor, closed, connecting, watchdog, discord,
                   process, lock>>

-----------------------------------------------------------------------------
(* Inbound handoff.                                                        *)

\* The control-channel server accepts the POST, or answers 4xx, or the
\* leader is closed already.  The graceful path drains the HTTP server and
\* the publisher before it closes this one.
HandoffArrives ==
    /\ Event
    /\ shutdown \in {"no", "closing", "push"}
    /\ offer # "none"
    /\ ~Queued("handoff")
    /\ \/ /\ ~closed
          /\ chain' = Append(chain, "handoff")
          /\ UNCHANGED offer
       \/ offer' = "none" /\ UNCHANGED chain
    /\ UNCHANGED <<held, cursor, closed, stage, phase, connecting, watchdog,
                   discord, process, row, live, disturbances>>

HandoffRefused ==
    /\ Running("handoff", "wait")
    /\ closed \/ (held /\ ws # "idle")
    /\ Done
    /\ offer' = "none"
    /\ UNCHANGED <<held, cursor, closed, connecting, watchdog, discord,
                   process, row, live, disturbances>>

\* Mutant: the queued handoff does not look at closed again.
HandoffAdoptsLate ==
    /\ Running("handoff", "wait")
    /\ ~(held /\ ws # "idle")
    /\ cursor' \in IF offer = "current" THEN {"fits"} ELSE {"fits", "behind"}
    /\ held' = TRUE
    /\ offer' = "none"
    /\ IF ws = "recovering"
       THEN /\ Done
            /\ UNCHANGED <<connecting, pending>>
       ELSE /\ Await("connect")
            /\ connecting' = TRUE
            /\ pending' = [pending EXCEPT !["handoff"] = @ + 1]
    /\ UNCHANGED <<closed, watchdog, ws, process, row, live, disturbances>>

\* Adopt, flag, connect; a recovery under way is left to finish.
HandoffAdopts ==
    /\ Running("handoff", "wait")
    /\ ~closed
    /\ ~(held /\ ws # "idle")
    /\ cursor' \in IF offer = "current" THEN {"fits"} ELSE {"fits", "behind"}
    /\ held' = TRUE
    /\ offer' = "none"
    /\ IF ws = "recovering"
       THEN /\ Done
            /\ UNCHANGED <<connecting, pending>>
       ELSE /\ Await("connect")
            /\ connecting' = TRUE
            /\ pending' = [pending EXCEPT !["handoff"] = @ + 1]
    /\ UNCHANGED <<closed, watchdog, ws, process, row, live, disturbances>>

\* Mutant: no timer ends the handoff.
HandoffTimesOutNever == FALSE

\* inboundConnectTimeoutMs: the work ends, its connect() does not.
HandoffTimesOut ==
    /\ Running("handoff", "connect")
    /\ Done
    /\ pending' = [pending EXCEPT !["handoff"] = @ - 1,
                                  !["leftHandoff"] = @ + 1]
    /\ UNCHANGED <<held, cursor, closed, connecting, watchdog, ws, process,
                   lock, disturbances>>

-----------------------------------------------------------------------------
(* pushHandoff and releaseLockForImmediateExit.                            *)

PushBegins ==
    /\ Running("push", "wait")
    /\ IF held THEN Await("peers") ELSE Done
    /\ UNCHANGED <<held, cursor, closed, connecting, watchdog, discord,
                   process, lock, disturbances>>

\* releaseLock with no cursor returns at once.
ReleaseOrDone == IF cursor = "null" THEN Done ELSE Await("release")

\* Mutant: with nobody to hand over to the lock is not released.
PushFindsPeerOrGivesUp ==
    /\ Running("push", "peers")
    /\ \/ Done /\ UNCHANGED held
       \/ cursor # "null" /\ Await("transfer") /\ UNCHANGED held
       \/ cursor = "null" /\ Done /\ held' = FALSE
    /\ UNCHANGED <<cursor, closed, connecting, watchdog, discord, process,
                   lock, disturbances>>

\* listFreshPeers fails or finds nobody, or its freshest peer is chosen.
PushFindsPeer ==
    /\ Running("push", "peers")
    /\ \/ ReleaseOrDone /\ UNCHANGED held
       \/ cursor # "null" /\ Await("transfer") /\ UNCHANGED held
       \/ cursor = "null" /\ Done /\ held' = FALSE
    /\ UNCHANGED <<cursor, closed, connecting, watchdog, discord, process,
                   lock, disturbances>>

TransferReturns ==
    /\ Running("push", "transfer")
    /\ held' = FALSE
    /\ \/ phase \in {"ok", "late"} /\ Await("post") /\ cursor' = "null"
       \/ phase = "ccf" /\ Done /\ UNCHANGED cursor
    /\ UNCHANGED <<closed, connecting, watchdog, discord, process, lock,
                   disturbances>>

TransferThrows ==
    /\ Running("push", "transfer")
    /\ Disturb
    /\ ReleaseOrDone
    /\ UNCHANGED <<held, cursor, closed, connecting, watchdog, discord,
                   process, lock>>

\* The peer acknowledges, refuses, or 200 ms pass.
PostReturns ==
    /\ Running("push", "post")
    /\ Done
    /\ UNCHANGED <<held, cursor, closed, connecting, watchdog, discord,
                   process, lock, disturbances>>

\* Mutant: the watchdog's release does not clear heldLock first.
ReleaseBeginsHeld ==
    /\ Running("release", "wait")
    /\ IF closed THEN Done ELSE ReleaseOrDone
    /\ UNCHANGED <<held, cursor, closed, connecting, watchdog, discord,
                   process, lock, disturbances>>

ReleaseBegins ==
    /\ Running("release", "wait")
    /\ IF closed
       THEN Done /\ UNCHANGED held
       ELSE ReleaseOrDone /\ held' = FALSE
    /\ UNCHANGED <<cursor, closed, connecting, watchdog, discord, process,
                   lock, disturbances>>

ReleaseReturns ==
    /\ Running("push", "release") \/ Running("release", "release")
    /\ \/ phase \in {"ok", "late", "ccf"} /\ UNCHANGED disturbances
       \/ phase \in {"sent", "ok"} /\ Disturb   \* it throws, and is swallowed
    /\ cursor' = "null"
    /\ Done
    /\ UNCHANGED <<held, closed, connecting, watchdog, discord, process, lock>>

-----------------------------------------------------------------------------
(* The lock table evaluates the outstanding call (GatewayLock).            *)

Condition ==
    \/ stage = "acquire" /\ (row = "none" \/ ~live)
    \/ stage \in {"renew", "transfer"} /\ row = "self" /\ cursor = "fits"
    \/ stage = "release" /\ row = "self"

Stale(o) == IF o = "none" THEN "none" ELSE "stale"

LockApplies ==
    /\ Event
    /\ phase = "sent"
    /\ IF Condition
       THEN /\ phase' = "ok"
            /\ row' = CASE stage = "transfer" -> "peer"
                        [] stage = "release" -> "none"
                        [] OTHER -> "self"
            /\ live' = (stage # "release")
            /\ cursor' = IF cursor = "null" THEN "null" ELSE "behind"
            /\ offer' = Stale(offer)
       ELSE phase' = "ccf" /\ UNCHANGED <<row, live, cursor, offer>>
    /\ UNCHANGED <<held, closed, chain, stage, connecting, watchdog, discord,
                   process, disturbances>>

\* The response is lost and the SDK repeats the write.
SdkRetry ==
    /\ Event
    /\ phase \in {"ok", "late"}
    /\ Disturb
    /\ phase' = "sent"
    /\ UNCHANGED <<held, cursor, closed, chain, stage, connecting, watchdog,
                   discord, process, lock>>

-----------------------------------------------------------------------------
(* The connection watchdog.                                                *)

At(await) == Event /\ wd = await

WatchdogIdle == At("sleep") /\ ~stopping

StepConnected ==
    /\ WatchdogIdle
    /\ ws = "connected"
    /\ attempts' = 0 /\ recovery' = 0
    /\ wd' = IF held THEN "sleep" ELSE "read"
    /\ UNCHANGED <<leader, stopping, discord, process, lock, disturbances>>

\* exitAfterExhaustion: the release queues behind whatever the leader does,
\* unless the leader is closed.
Leave(release) ==
    IF release /\ ~closed
    THEN /\ wd' = "release"
         /\ chain' = Append(chain, "release")
    ELSE /\ wd' = "leave"
         /\ UNCHANGED chain

\* Mutant: the watchdog that gives up restarts the recovery clock.
StepRecoveringAnew ==
    /\ WatchdogIdle
    /\ ws = "recovering"
    /\ attempts' = 0
    /\ IF recovery = MaxRecovery
       THEN Leave(held) /\ recovery' = 0
       ELSE recovery' = recovery + 1 /\ UNCHANGED <<wd, chain>>
    /\ UNCHANGED <<held, cursor, closed, stage, phase, connecting, stopping,
                   discord, process, lock, disturbances>>

\* Mutant: the recovery clock is never compared with its bound.
StepRecoveringForever ==
    /\ WatchdogIdle
    /\ ws = "recovering"
    /\ attempts' = 0
    /\ recovery' = IF recovery = MaxRecovery THEN recovery ELSE recovery + 1
    /\ UNCHANGED <<wd, chain>>
    /\ UNCHANGED <<held, cursor, closed, stage, phase, connecting, stopping,
                   discord, process, lock, disturbances>>

StepRecovering ==
    /\ WatchdogIdle
    /\ ws = "recovering"
    /\ attempts' = 0
    /\ IF recovery = MaxRecovery
       THEN Leave(held) /\ UNCHANGED recovery
       ELSE recovery' = recovery + 1 /\ UNCHANGED <<wd, chain>>
    /\ UNCHANGED <<held, cursor, closed, stage, phase, connecting, stopping,
                   discord, process, lock, disturbances>>

StepIdle ==
    /\ WatchdogIdle
    /\ ws = "idle"
    /\ recovery' = 0
    /\ IF held /\ ~connecting
       THEN /\ attempts' = attempts + 1
            /\ wd' = "connect"
            /\ pending' = [pending EXCEPT !["watchdog"] = @ + 1]
       ELSE /\ attempts' = 0
            /\ UNCHANGED <<wd, pending>>
    /\ UNCHANGED <<leader, stopping, ws, process, lock, disturbances>>

\* Mutant: an expired peer row counts as live and a live one does not.
ReadReturnsInverted ==
    /\ At("read")
    /\ wd' = IF ~stopping /\ row = "peer" /\ ~live THEN "leave" ELSE "sleep"
    /\ UNCHANGED <<leader, attempts, recovery, stopping, discord, process,
                   lock, disturbances>>

\* readCurrentHolder answers; only a peer's live lease makes it leave.
ReadReturns ==
    /\ At("read")
    /\ wd' = IF ~stopping /\ row = "peer" /\ live THEN "leave" ELSE "sleep"
    /\ UNCHANGED <<leader, attempts, recovery, stopping, discord, process,
                   lock, disturbances>>

\* It throws, any number of times: the next tick reads again.
ReadThrows ==
    /\ At("read")
    /\ wd' = "sleep"
    /\ UNCHANGED <<leader, attempts, recovery, stopping, discord, process,
                   lock, disturbances>>

\* Mutant: one attempt too many.
ConnectFailedOnceMore ==
    IF ~stopping /\ attempts > MaxAttempts
    THEN Leave(TRUE)
    ELSE wd' = "sleep" /\ UNCHANGED chain

\* The awaited connect() failed.
ConnectFailed ==
    IF ~stopping /\ attempts = MaxAttempts
    THEN Leave(TRUE)
    ELSE wd' = "sleep" /\ UNCHANGED chain

\* connectCeilingMs: the step ends, its connect() does not.
ConnectCeiling ==
    /\ At("connect")
    /\ pending["watchdog"] > 0
    /\ ConnectFailed
    /\ pending' = [pending EXCEPT !["watchdog"] = @ - 1,
                                  !["leftWatchdog"] = @ + 1]
    /\ UNCHANGED <<held, cursor, closed, stage, phase, connecting, attempts,
                   recovery, stopping, ws, process, lock, disturbances>>

\* The release has run, or releaseLockCeilingMs is over.
ReleaseAwaited(ceiling) ==
    /\ At("release")
    /\ ceiling \/ ~Queued("release")
    /\ wd' = "leave"
    /\ UNCHANGED <<leader, attempts, recovery, stopping, discord, process,
                   lock, disturbances>>

\* deleteOwnRow has returned.
WatchdogExits ==
    /\ At("leave")
    /\ shutdown' = "exit watchdog"
    /\ UNCHANGED <<leader, watchdog, discord, signal, lock, disturbances>>

-----------------------------------------------------------------------------
(* @discordjs/ws and the shim's mirror of it.                              *)

Settle(caller, ok) ==
    /\ Event
    /\ pending[caller] > 0
    /\ pending' = [pending EXCEPT ![caller] = @ - 1]
    /\ ws' = IF ok THEN "connected" ELSE ws

HandoffConnectSettles(ok) ==
    /\ Settle("handoff", ok)
    /\ connecting' = FALSE
    /\ Done
    /\ UNCHANGED <<held, cursor, closed, watchdog, process, lock,
                   disturbances>>

WatchdogConnectSettles(ok) ==
    /\ Settle("watchdog", ok)
    /\ IF ok
       THEN attempts' = 0 /\ wd' = "sleep" /\ UNCHANGED chain
       ELSE ConnectFailed /\ UNCHANGED attempts
    /\ UNCHANGED <<held, cursor, closed, stage, phase, connecting, recovery,
                   stopping, process, lock, disturbances>>

\* Mutant: only a handoff still waiting clears connecting.
LeftConnectSettlesFlagged(caller, ok) ==
    /\ Settle(caller, ok)
    /\ UNCHANGED <<leader, watchdog, process, lock, disturbances>>

LeftConnectSettles(caller, ok) ==
    /\ Settle(caller, ok)
    /\ connecting' = IF caller = "leftHandoff" THEN FALSE ELSE connecting
    /\ UNCHANGED <<held, cursor, closed, chain, stage, phase, watchdog,
                   process, lock, disturbances>>

\* Closed: a terminal code leaves the shard idle, any other one starts the
\* library's own reconnect.
ShardCloses ==
    /\ Event
    /\ ws # "idle" \/ \E c \in Callers : pending[c] > 0
    /\ Disturb
    /\ ws' \in {"idle", "recovering"}
    /\ UNCHANGED <<leader, watchdog, pending, process, lock>>

ShardRecovers ==
    /\ Event
    /\ ws = "recovering"
    /\ ws' = "connected"
    /\ UNCHANGED <<leader, watchdog, pending, process, lock, disturbances>>

-----------------------------------------------------------------------------
(* Signals and the two ways to shut down.                                  *)

SignalArrives(s) ==
    /\ Event
    /\ shutdown = "no"
    /\ signal' = s
    /\ IF s = "SIGTERM" /\ held
       THEN /\ shutdown' = "push"
            /\ stopping' = TRUE
            /\ closed' = TRUE
            /\ chain' = Append(chain, "push")
       ELSE /\ shutdown' = "closing"
            /\ UNCHANGED <<stopping, closed, chain>>
    /\ UNCHANGED <<held, cursor, stage, phase, connecting, wd, attempts,
                   recovery, discord, lock, disturbances>>

PushExits ==
    /\ Event
    /\ shutdown = "push"
    /\ ~Queued("push")
    /\ shutdown' = "exit push"
    /\ UNCHANGED <<leader, watchdog, discord, signal, lock, disturbances>>

\* The control server is closed once its requests are answered.
StopWatchdog ==
    /\ Event
    /\ shutdown = "closing"
    /\ ~Queued("handoff")
    /\ shutdown' = "watchdog"
    /\ stopping' = TRUE
    /\ UNCHANGED <<leader, wd, attempts, recovery, discord, signal, lock,
                   disturbances>>

StopLeader ==
    /\ shutdown = "watchdog"
    /\ wd = "sleep"
    /\ shutdown' = "leader"
    /\ UNCHANGED <<leader, watchdog, discord, signal, lock, disturbances>>

GracefulExits ==
    /\ shutdown = "leader"
    /\ ~Queued("tick")
    /\ shutdown' = "exit graceful"
    /\ UNCHANGED <<leader, watchdog, discord, signal, lock, disturbances>>

\* The 10 s or 12 s hard-exit timer.
ForcedExit ==
    /\ shutdown \in {"closing", "watchdog", "leader", "push"}
    /\ shutdown' = "exit forced"
    /\ UNCHANGED <<leader, watchdog, discord, signal, lock, disturbances>>

-----------------------------------------------------------------------------
(* The other replicas, as their own lock calls change the row.             *)

LeaseLapses ==
    /\ Up
    /\ live
    /\ live' = FALSE
    /\ IF row = "self" /\ (held \/ phase # "none")
       THEN Disturb
       ELSE UNCHANGED disturbances
    /\ UNCHANGED <<leader, watchdog, discord, process, row, offer>>

Moved == IF phase = "ok" THEN "late" ELSE phase

PeerAcquires ==
    /\ Up
    /\ row = "none" \/ ~live
    /\ row' = "peer" /\ live' = TRUE
    /\ phase' = Moved
    /\ offer' = Stale(offer)
    /\ UNCHANGED <<held, cursor, closed, chain, stage, connecting, watchdog,
                   discord, process, disturbances>>

PeerReleases ==
    /\ Up
    /\ row = "peer"
    /\ row' = "none" /\ live' = FALSE
    /\ UNCHANGED <<leader, watchdog, discord, process, offer, disturbances>>

\* A peer's SIGTERM hands the lock over; its POST may be lost.  A cursor of
\* an earlier tenancy may by chance be the row's version.
PeerTransfers ==
    /\ Up
    /\ row = "peer"
    /\ Disturb
    /\ row' = "self" /\ live' = TRUE
    /\ cursor' \in IF cursor = "null" THEN {"null"} ELSE {"fits", "behind"}
    /\ offer' \in IF offer = "none" THEN {"none", "current"} ELSE {"stale"}
    /\ UNCHANGED <<held, closed, chain, stage, phase, connecting, watchdog,
                   discord, process>>

-----------------------------------------------------------------------------

Leader ==
    \/ QueueTick \/ TickBegins \/ TickCallsLock \/ AcquireReturns
    \/ RenewReturns \/ HandoffRefused \/ HandoffAdopts \/ HandoffTimesOut
    \/ PushBegins \/ PushFindsPeer \/ TransferReturns \/ PostReturns
    \/ ReleaseBegins \/ ReleaseReturns \/ LockApplies

Watchdog ==
    \/ StepConnected \/ StepRecovering \/ StepIdle \/ ReadReturns
    \/ ConnectCeiling
    \/ \E ceiling \in BOOLEAN : ReleaseAwaited(ceiling)
    \/ WatchdogExits

Discord ==
    \/ \E ok \in BOOLEAN : \/ HandoffConnectSettles(ok)
                           \/ WatchdogConnectSettles(ok)
    \/ \E ok \in BOOLEAN, c \in {"leftHandoff", "leftWatchdog"} :
           LeftConnectSettles(c, ok)

Shutdown == PushExits \/ StopWatchdog \/ StopLeader \/ GracefulExits

Environment ==
    \/ HandoffArrives \/ TickThrows \/ TransferThrows \/ SdkRetry
    \/ ReadThrows \/ ShardCloses \/ ShardRecovers
    \/ \E s \in {"SIGTERM", "SIGINT"} : SignalArrives(s)
    \/ ForcedExit
    \/ LeaseLapses \/ PeerAcquires \/ PeerReleases \/ PeerTransfers

Next == Leader \/ Watchdog \/ Discord \/ Shutdown \/ Environment

\* The timers of both loops fire, DynamoDB answers or the SDK gives up, an
\* awaited call returns or its ceiling ends it, and the handoff's connect()
\* settles (the bounded-settlement assumption of gateway-leader.js).  An event that
\* is due stays due while a microtask runs before it, hence SF.  A read of the
\* holder that is made again and again is answered in the end.  Nothing is
\* assumed of a peer, of the library's own reconnect, of a hard-exit timer.
Fairness ==
    /\ WF_vars(Leader)
    /\ SF_vars(Watchdog)
    /\ SF_vars(ReadReturns)
    /\ SF_vars(Shutdown)
    /\ SF_vars(\E ok \in BOOLEAN : LeftConnectSettles("leftHandoff", ok))

Spec == Init /\ [][Next]_vars /\ Fairness

-----------------------------------------------------------------------------
(* Properties.                                                             *)

\* A leader that believes it holds the lock has a version to renew it with,
\* until the exit path gives the lock up: no completion of a renew, acquire,
\* release or handoff may tear heldLock from currentVersion (gateway-leader.js
\* step, whose renew without a version is the defensive lock_missing_version).
HeldHasCursor == held /\ ~closed => cursor # "null"

\* Once SIGTERM has begun the push handoff the leader neither acquires the
\* lock, nor adopts it, nor opens a connection, whatever was queued on the
\* chain before (the closed sentinel of gateway-leader.js, lines 137-142).
ClosedLeaderIsDead ==
    [][closed => /\ stage' # "acquire"
                 /\ held' => held
                 /\ pending'["handoff"] <= pending["handoff"]]_vars

\* A SIGTERM of the holder that nothing disturbs does not leave the lock
\* behind in its name for the lease to run out: it is transferred, released
\* or was a peer's already (pushHandoff, every one of its outcomes).
PushLetsGo == shutdown = "exit push" /\ disturbances = 0 => row # "self"

\* The clock of an automatic reconnect keeps running for as long as the
\* reconnect does, through every loss and gain of the lock meanwhile (step,
\* lines 337-349: recovery belongs to the process).
RecoveryClockRuns ==
    [][ws = "recovering" /\ ws' = "recovering" => recovery' >= recovery]_vars

\* A holder without a connection gets one, or gives the lock up, or exits:
\* no interleaving of the handoff's connect(), the watchdog's attempts and
\* the automatic reconnect leaves the shard without either.
HeldConnects ==
    held /\ ws # "connected" ~> ws = "connected" \/ ~held \/ ~Up

\* An automatic reconnect ends, or the watchdog replaces the process, with
\* or without the lock (step, lines 340-360).
RecoveryEnds == ws = "recovering" ~> ws # "recovering" \/ ~Up

\* A connected replica whose lock a peer has taken does not stay connected:
\* the leader notices the loss, then the watchdog reads the peer's live
\* lease and exits (split brain, lines 283-331).
LoserLeaves ==
    ws = "connected" /\ row = "peer" /\ live
        ~> ws # "connected" \/ row # "peer" \/ ~live \/ ~Up

\* A leader that holds a lock the row does not confirm finds out.
LossIsNoticed == held /\ row # "self" ~> ~held \/ row = "self" \/ ~Up

\* A process that has a signal exits, on either path and whatever its leader
\* and its watchdog are waiting for, without the hard-exit timers.
ShutdownEnds == signal # "none" ~> ~Up

\* gateway-leader.js lines 437-444: connecting stays true until the handoff's
\* connect() settles, so the watchdog never starts its own meanwhile.
WatchdogYields ==
    [][pending'["watchdog"] > pending["watchdog"]
           => pending["handoff"] = 0 /\ pending["leftHandoff"] = 0]_vars

\* gateway-shutdown-helpers.js lines 303-306: stopping the watchdog makes a
\* tick parked in an await return before a later release or exit, so once
\* SIGTERM's push handoff has begun the watchdog does not exit the process.
StoppedWatchdogStays == closed => shutdown # "exit watchdog"

\* index.js lines 680-683: the graceful teardown after SIGTERM only runs on a
\* standby that has no lock to push.
GracefulIsStandby ==
    shutdown = "exit graceful" /\ signal = "SIGTERM" => ~held
=============================================================================
