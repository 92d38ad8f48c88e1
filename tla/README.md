# qURL integrations: TLA+ models

A verification development for this repository. It covers the three places
where several actors change state that must stay in agreement, and where a
mistake costs more than a failed request:

- the **hot-standby gateway tier of the Discord bot**: two or more replicas
  compete for one Discord WebSocket through a DynamoDB lock, and hand it over
  during deploys;
- a **workspace of the Slack app**: its qURL key, how it is set up, rotated,
  disconnected and erased by several server processes over a table with stale
  reads, and its members' messages to the agent, their decisions on the agent's
  proposals, and the Connectors they install;
- **local sharing in the CLI**: lifecycle commands and a background daemon that
  meet in one registry file and at the platform.

Contents: [Inventory](#inventory) · [Modules](#modules) · [Runs](#runs) ·
[Fairness](#fairness) · [Proofs](#proofs) · [Findings](#findings) ·
[Not modelled](#not-modelled) · [Plan](#plan)

## Inventory

The repository holds a Go CLI with a connector daemon, Slack, Teams and Discord
applications, browser extensions, shared Go libraries, and delivery
configuration. The parts with state of their own that several actors change:

| Part | State | Operations | Hard behaviours |
| --- | --- | --- | --- |
| Leader lock (`gateway-lock.js`) | lock row: `instance_id`, `version`, `expires_at`; per process `currentVersion` | `acquireLock`, `renewLock`, `transferLock`, `releaseLock`, `adoptLockFromHandoff`, `readCurrentHolder` | conditional writes of several replicas delayed, repeated or lost; wall clocks that disagree |
| Leader (`gateway-leader.js`) | `heldLock`, `closed`, `connecting`, the `inflight` promise chain | periodic tick, `handleInboundHandoff`, `pushHandoff`, `releaseLockForImmediateExit` | works serialized on one chain; a handoff's `connect()` outlives its work |
| Connection watchdog (`gateway-connection-watchdog.js`) | attempts, `recoveryStartedAt`, `stopping` | `step`, `exitAfterExhaustion`, `stop` | runs beside the leader, reads its state between awaits |
| WebSocket shim (`gateway-ws-shim.js`) | `wsConnected`, `wsRecovering`, the IDENTIFY budget | `start`, `connect`, `stop`, listeners of the library | callbacks at any moment; overlapping `connect()` calls |
| Session store (`gateway-session-store.js`) | mirror, write cursor, flush timer, writes in flight; the session row | `hydrate`, `updateSessionInfo`, `flushFinal` | writes fired and not awaited; replicas share the row |
| Shutdown (`index.js`, `gateway-shutdown-helpers.js`) | `isShuttingDown` and the hard-exit timers | SIGTERM, SIGINT, graceful teardown, push handoff | path chosen once; waits on watchdog, leader and control server |
| Peer heartbeats (`gateway-peer-heartbeat.js`) | one row per live replica | write, list fresh, delete | freshness against a crashed peer |
| Control channel (`gateway-control-*.js`, `gateway-hmac.js`) | nonces seen | POST `/control/yours` | lost or repeated POST, bounded nonce set |
| TTL cache (`internal/ttlcache`) | entry, call in flight, generation | get, invalidate (with or without a condition), seed, sweep | a fill outlives the invalidation that detached it |
| Key provider (`shared/auth/ddb_provider.go`) | workspace row; per process the cache, a strong-read marker, a validation in flight | look a key up, validate it, store, replace, fill in the identity, delete, store the bot token | reads that lag; waiters that share one check; a sibling process's write |
| Slack setup (`internal/oauth`, `handler_admin.go`) | OAuth states, workspace mapping, the external binding and the keys at qurl-service | link, start, callback: consume, bind, reclaim, reuse, rotate, mint, persist, revoke | two browsers or users at once; a call that fails or loses its answer after it was applied |
| Slack teardown (`handler_lifecycle.go`, `handler_uninstall_confirm.go`) | purge jobs, stamps of the tables | uninstall click, removal event, purge with retries | a late purge against a new installation |
| Slack agent (`handler_agent.go`, `handler_agent_confirm.go`, `slackdata/agentstate.go`) | event markers, counters, proposals, claims | message to turn, card, Approve, Reject | a message delivered twice, to two processes; clicks at once |
| Connector installs (`handler_tunnel.go`, `slackdata/aliases.go`) | alias bindings; sharing and tokens at the platform | find or create, bind, restart sharing, mint, deliver, compensate | failure at any call, with an unclear answer; two installs of one resource |
| Local share registry (`connector/state/shares.go`) | a row per resource: desired state, serving epoch, origin | put, set desired, enable, retarget, delete | several processes; answers that arrive late |
| CLI lifecycle commands (`cli/cmd`) | none of their own | start, restart, restart `--target`, publish, stop, delete | killed between two writes; compensation beside another command |
| Share daemon (`connector/daemon/manager.go`) | tracked definitions, backoffs, timers, denials in flight, the session group | trigger, reconcile, push routes, runner callbacks and exit | a callback or an exit in the middle of a push or a stop |
| Per-share daemon (`connector/daemon/pershare.go`) | a group per share, retiring groups | reconcile, stop groups, prune, recheck | a stop that times out while its session lives |
| Flow state (`flow-state.js`, `flow-dispatch.js`) | flow rows with versions | create, transition, supersede, delete | optimistic concurrency in several separate calls |
| Events (`event-publisher.js`, `event-consumer.js`) | messages in flight, seen set | publish, drain, receive, delete | at-least-once delivery, bounded seen set, drain against a deadline |
| Webhook subscriptions (`webhook-subscriptions.js`) | owner cache | upsert, scan, refresh | a scan racing a local upsert |
| Connector resource state (`connector/state/resource.go`) | a file per resource, with a lock file | read, replace, quarantine | a crash between two file writes |
| Teams stores | setup links, nonces | consume once | two consumers of one nonce |
| Other commands, HTTP client, views, extensions, CI, templates | none shared | - | - |

**The gateway.** Every replica runs a leader tick: write its heartbeat, then
renew the lock if it holds it, else try to acquire it. A watchdog tick looks at
the shim's mirror of the WebSocket and at the leader's `heldLock` and connects,
waits, or ends the process. SIGTERM on the holder closes the leader, transfers
the row to the freshest peer, POSTs the new version to it and exits *without*
closing the WebSocket; the peer adopts the version, connects, and the library
RESUMEs the session that its session store offers. SIGTERM on a standby, and
SIGINT on anybody, tears down one component after the other. All of one process
runs on one JavaScript event loop and interleaves at each `await`; processes
meet only in DynamoDB, in the POST, and at Discord.

**The Slack workspace.** `/qurl setup` hands a link to a user; its browser starts
it, signs in, and comes back to the callback, which consumes the link, binds the
workspace to the user, and reuses, mints or rotates the workspace's key at
qurl-service and stores it in the workspace row. Every other request looks the
key up through the provider: strong-read marker, cache, a fill that requests of
one process share, and a check of a cached key against the table. Uninstall
revokes and deletes the key; the removal of the app arrives as an event; both
start a purge in the background that retries its steps and spares what was
written after its cutoff. Messages to the agent are deduplicated by a marker,
counted, and answered, some of them by a card that proposes an action; a click on
it claims the proposal and acts, or opens the form that installs a Connector.
Processes share the tables and qurl-service, and nothing else.

**Local sharing.** A lifecycle command asks the platform to turn a resource's
sharing on or off, gets an epoch back, writes it to the registry, and tells the
daemon to reconcile, starting it if need be; on failure it compensates. The
daemon compares the registry with what it tracks, withholds what backs off, and
starts, pushes routes to, restarts or stops one session group. The group
registers each route with the platform, which refuses what is off, revoked or
superseded; the daemon then turns the row off. A headless start asks
the platform about such a row once more.

What makes each part correct:

- *Lock*: at most one replica is inside a lease that DynamoDB confirmed to it,
  and while the lease lasts only its owner gives it away.
- *Leader*: `heldLock` never without a version to renew with; a closed leader
  does nothing any more; a lost lock is noticed; SIGTERM does not leave the
  lock behind.
- *Watchdog*: a holder gets a connection or gives up the lock or the process; of
  two connected replicas the loser leaves; a reconnect does not last for ever.
- *Session store*: no update is forgotten, the write rate stays below the
  dispatch rate, and the final flush is the last word.
- *Shutdown*: a signalled process exits without its hard-exit timers.
- *Key provider*: no lookup answers with a row older than the last write its
  own process had finished; every lookup ends.
- *Setup*: a link is used once; there are never two live keys in a rotation;
  no key is made that nobody can find and revoke.
- *Teardown*: what was removed is forgotten in the end, and nothing stamped since
  with it.
- *Agent*: one turn per message and no message lost to its own marker; limits
  hold and are not used up by the refused; one decision per proposal, by
  somebody entitled.
- *Installs*: a failed one leaves nothing live behind, a delivered one works.
- *Registry and commands*: a row is never ahead of the platform, and an origin
  is fenced by an epoch.
- *Share daemon*: nothing is left undone without a retry on its way; what was
  ensured is served, what was stopped is withdrawn; one session per resource.

## Modules

| Module | Models | Kind |
| --- | --- | --- |
| `ShardLease` | what the lock promises | abstract specification |
| `GatewayLock` | `gateway-lock.js`, driven by one serialized caller per replica, over the DynamoDB row | detailed; refines `ShardLease` |
| `MCGatewayLock` | the clock skews the runs use | model-checking module |
| `GatewayReplica` | one process: `gateway-leader.js`, `gateway-connection-watchdog.js`, the shim's mirror, the shutdown paths | detailed |
| `SessionStore` | `gateway-session-store.js` of all replicas over the shared row | detailed |
| `GatewayLockProofs`, `GatewayReplicaProofs`, `SessionStoreProofs` | theorems about the three | proofs |
| `TtlCache` | `internal/ttlcache` at one key, as operators on a cache | operators |
| `KeyProvider` | `shared/auth/ddb_provider.go`: the workspace row and the lookups | component |
| `WorkspaceSetup` | `/qurl setup` and the OAuth callback, with the keys at qurl-service | component |
| `WorkspaceTeardown` | `/qurl uninstall`, the removal event, the purge | component |
| `SlackWorkspace` | the three over one workspace, with what its members write | composition (`Spec`) |
| `AgentTurns` | the agent from a message to a reply or a card | component |
| `AgentConfirm` | the clicks on a card | component |
| `ConnectorInstall` | `/qurl-admin protect-connector` with its compensation | component |
| `SlackAgent` | the workspace with its members at work | composition (`AgentSpec`) |
| `MCSlackWorkspace` | the scenarios of the run | model-checking module |
| `SlackWorkspaceProofs` | theorems about `Spec`: the provider, the setups and the teardown | proofs |
| `AgentConfirmProofs`, `ConnectorInstallProofs` | lemmas about messages and clicks, and about installs | proofs |
| `SlackAgentProofs` | theorems about `AgentSpec`, the whole system | proofs |
| `LocalShares` | `connector/state/shares.go`, and, as `RegistrySpec`, the registry's contract | component and abstract specification |
| `ShareCommands` | the lifecycle commands and the platform | component |
| `ShareDaemon` | `connector/daemon/manager.go` in single-group mode | component |
| `ShareSystem` | commands, daemon and headless start over one registry | composition; refines `RegistrySpec`'s steps |
| `MCShareSystem` | the scenarios of the run | model-checking module |
| `ShareSystemProofs` | theorems about `ShareSystem` | proofs |
| `PerShareDaemon` | `connector/daemon/pershare.go` | detailed |

The lines each definition stands for are listed under `map` in `PROJECT.json`.
A component module has its own variables and one action per step of its code;
a composition EXTENDS its components, adds the environment and says what each
step leaves alone. A definition marked *Mutant* is a plausible bug; no
specification uses it.

### GatewayLock

A lock call is three steps, because three parties order them: `Send` (through
`AcquireLock`, `RenewLock`, `TransferLock`, `ReleaseLock`) reads the wall clock
and `currentVersion` and sends a conditional write; `Deliver` is DynamoDB
evaluating `ConditionExpression` and storing the item; `AcquireReturns` and its
siblings are the code after the `await`. `SdkRetry` sends the same write again
after its response was lost; `CallThrows` is the SDK giving up, with the write
applied or not. `cursor` is `currentVersion`, with 0 for null. `Tick` advances
true time; `LocalNow(i)` adds the replica's fixed skew. `offers` are the POSTs
that follow a transfer; `AdoptLockFromHandoff` consumes one and sets the cursor
without reading the row, as the code does. `retired` says that the exit path has
begun: in the code `transferLock` and `releaseLock` are only called from
`pushHandoff` and `releaseLockForImmediateExit`, after which the leader is
closed or the process ends. The variable `until` is history: the expiry last
confirmed to the replica.

Assumptions: a write takes effect, if at all, before its client sees the outcome
(a request given up on is not applied later); an `instance_id` belongs to one
process; the skew of a clock does not change while a behaviour lasts; seconds
are whole, as in the code.

### GatewayReplica

The variables follow the source: `held`, `closed`, `connecting` and the chain
of `runSerialized` works (`tick`, `handoff`, `push`, `release`), with `stage`
naming the `await` at which the running work is; `wd` is the `await` of the
watchdog's step. `Event` says that a due timer or callback is only handled when
no chained work is about to begin, because that happens in a microtask.
`pending` counts the `connect()` calls that have not settled, by caller; a
caller that hit its ceiling leaves its call behind (`leftHandoff`,
`leftWatchdog`), where it still settles later and still touches `connecting`.

The row is reduced to whose it is (`none`, `self`, `peer`) and whether its lease
is live; the cursor to `null`, `fits` (the row's version) or `behind`. A cursor
of an earlier tenancy may by chance fit again: `PeerTransfers` and
`HandoffAdopts` choose. `GatewayLock` has the versions and clocks in full.

The environment: peers acquire, release and transfer, POSTs arrive or are lost,
the shard closes with a terminal or a recoverable code, DynamoDB throws, the SDK
retries, the lease of a holder lapses, signals arrive, and `ForcedExit` is the
hard-exit timer (10 s or 12 s) at any point of a shutdown. Which peer
`listFreshPeers` finds is a free choice.

`connect()` calls may overlap: the watchdog prefers its ceiling to a hang
(`gateway-connection-watchdog.js` lines 88-100). The model has this overlap and
no property forbids it; `WatchdogYields` is about the pair the code does rule out.

### SessionStore

`Boot` is `hydrate`; `Ready`, `Dispatch` and `ResumeRejected` are the library's
callbacks and call `Update` and `NullClear` (`updateSessionInfo` with a session
and with null). `throttled` says that less than `writeThrottleMs` has passed
since `lastWriteAt`; `timer` is the flush timer. A fired write joins `writes`
and is applied or fails later, in any order (`WriteApplies`, `WriteFails`), also
after its process has gone. `FlushFinal`, `WritesSettled` and `FinalPutReturns`
are `flushFinal`'s stop, wait and put; `ExitsUnflushed` is the push handoff
(which skips the flush), a crash or a hard exit. `saved` and `alone` are history
variables for the properties. A session is an id and a sequence: both are all the
properties tell apart; the resume URL goes with the id.

Assumptions: a process that has gone is not replaced under the same name while
writes of it are in flight (`Quiet`; another replica boots at any time); a write
is applied and settled in one step; the geometry check of `updateSessionInfo` is
left out, because one shard is configured throughout.

### TtlCache and KeyProvider

`TtlCache` is the cache at one key: `entry` and `call` are each empty or one
element, and `gen` is the generation that keeps a detached fill from being
cached. `KeyProvider` drives it: `Look` is `getOrStartAPIKeyLookup` (join a
call, take a cached entry, or start a fill), `Read`, `ReadFails` and `Finish`
the fill of its owner and what those who wait get, `Check`, `Verify` and `Judge`
the shared validation of a cached key and the rechecks it leads to. `replica` is the
row as an eventually consistent read returns it, `strong` the marker that makes
reads of one process strong until the replica has its write. The row's writes
(`StoreKey`, `ClearKey`, `StoreBotToken`, `DeleteRow`) stamp it with the
clock; `SeedKey` and `ForgetKey` are what the writing process does to its cache.
Four fields are history: `floor` is the newest write the lookup's process had
finished when it began, `fell` says that it kept a key because the check itself
failed, `held` that the entry of a check was still there when the check began, and
`stray` that a lookup took the verdict of a check that was not (see
[Proofs](#what-the-attempts-found)).

The clock counts stamped writes, so no two have one stamp and the processes'
clocks are in step; an entry and a marker live for five minutes, longer than a
replica lags. Ciphertexts and digests are the write that made them, `ver`.

### WorkspaceSetup

A flow is one browser. `MintLink` is the slash command with its owner gate on a
stale read; `StartLink` the start page; `Consume` the conditional delete in the
callback; `Bind`, `Disambiguate` and `Reclaim` the owner's row with its lost
and legacy cases; `TakesKey`, `Validate`, `Identify` and `Identity` the way to
reuse; `Revoke`, `Confirm`, `MintReplacement` rotation; `Mint`, by `Binds` or
`MintsLegacy`, the two endpoints of qurl-service, `Replays` its idempotency;
`Persist`, `Stores`, `Abandons` the conditional store and the orphan it may
leave, `RevokeOrphan` its background revocation, `Seeds` the cache. Each remote
call may fail, and the unsafe ones may lose an answer after they were applied
(`RevokeReplyLost`, `MintReplyLost`, `PersistFails`). `released` are keys given
up in the open: by an event, a log line or a reply to the user.

qurl-service is external and is modelled from what the code asks of it: mint,
replace, revoke, validate, and an external binding per workspace.

### WorkspaceTeardown and SlackWorkspace

`Confirms` to `SchedulesPurge` are the click on *Uninstall*: read the key id,
build a client (a lookup like any other), revoke, delete, forget, purge.
`Removal` is the app removed in Slack, `ReceiveEvent` its event, which takes the
cutoff from the event and not from its own clock. A purge goes over the row,
the agent's table, the mapping, the counters and the policies; `PurgeFails` is a
step that failed for now or because a row is malformed; `JudgePurge` decides on
another attempt, on giving up with a message to an operator (`cleanup`), or on
the end; `PurgeAborts` is a shutdown. A table is the stamp of its latest write.

`SlackWorkspace` adds the environment: which commands, sessions, readers, clicks,
events and members' activities a scenario has, and how many calls go wrong.
The mapping has two times: `stamp`, which purges go by, and `updated`, history, the
newest write of any kind. Every writer of the row sets both but one:
`Transfers` gives the row a new owner and leaves the stamp as it was, as
`TransferOwnership` does (finding `slack_transfer`). `TableWritten` is a write of a
table that purges look at.

### AgentTurns, AgentConfirm, ConnectorInstall, SlackAgent

A delivery is one arrival of a message at one process. It reads the toggle and
the thread, writes the event's marker on the condition that there is none
(`MarkSeen`; the marker holds its writer's token, by which a repeated write
finds its own), counts itself for the member and then for the team, runs the
turn, and stores a proposal and posts its card. An upload of a kind that is not
supported is answered with a notice once in a while: `ClaimNotice` claims it for the
window (`claimMediaNotice`). A click (`press`) rechecks the toggle, loads
the proposal, passes the gates, claims the proposal by a marker, acts or opens
the form, and settles the card. The gates (`Entitled`) let the member who asked
decide about a link, any member about the summary of a page (`inspect`), and an
admin about anything else. `ran`, the deliveries that had their turn, and
`excused` are history.

An install finds or creates the resource, looks the channel's alias up, binds
it, looks again when it lost the race, reads sharing, restarts it, reconciles when the
answer was unclear, mints, confirms and sends the token, and posts the
instructions. After a failure it revokes the token it minted, and turns sharing
off if it `owns` it. `InstallDies` is the process ending in the middle. `alone` and
`spoiled` are history: whether another install was ever at work on the resource,
and whether cleaning up failed or an answer left the install in the dark.

Bindings also go away: by `/qurl-admin unset-alias` (`UnbindAlias`) and with the
channel policies that a purge erases (`BindingsFollow`). The lookup is an eventually
consistent read, so it sees what a binding is or any of what it has been
(`Seen`, of `past`). An install that reads a binding of its own resource which is gone
already skips the write, and goes on to report the alias ready; so does one whose
binding is removed after it has passed the alias. `misled` is history: these
installs, and no other.

`SlackAgent` puts them into the workspace: the toggle is a column of the mapping
row and follows its writes, the purge of agent state erases markers,
counters and proposals (`EraseAgentState`), a failed one some or none, and a
binding that an install writes or an admin removes (`Unsets`) stamps the channel
policies (`PoliciesFollow`).

What the model takes for granted: one hour window, so a counter does not reset;
markers and claims are not reaped while a behaviour lasts, the notice is
(`NoticeLapses`); the admins are fixed; the feature flags of confirmation are on;
a panic is a failure; the membership check of a click is one of the failures of
`PressFails`; a resource is known by its slug; a restart that was given up on
is not applied after its reconciling read.

### LocalShares, ShareCommands, ShareDaemon, ShareSystem

Every operation of the registry takes the cross-process lock, reads, decides and
replaces the file: one atomic step. `Epochs` are the platform's.

`ShareCommands` has a process per command, at the request or the registry
operation it is about to make (`pc`); it keeps what it has read (`local`,
`prior`, `sharing`). An answered request has been applied, a lost one may have
been, and `Killed` ends a command between any two. `Fail` and the `Compensate`
actions are the compensation; `authorized` is history: the epochs at which the
platform was ever on.

`ShareDaemon` has one section under `m.mu` per step. `loop` is where `Run` and
`Reconcile` stand and the snapshot they hold; `List`, `PruneUndesired`,
`RecordDesired`, `EligibleRoutes`, `PushRoutes` or `PushFails`, `RestartRoute`
or `RestartFails`, `StartWaits`, `StartWithholds`, `LaunchRunner` or
`StartFails`, `RunnerStopped` are the pass over it. The session group
(qurl-connector's `SessionGroupRunner`) is external and seen through the
`GroupRunner` interface: it serves a route, reports it refused, stops or fails.
`FinishBenign`, `FinishFailed` and `FinishGone` are the exits as the manager
classifies them, `PersistResourceGone` the goroutine that turns a denied row
off. Time is not counted: an instant in the future is a flag (`withheld`,
`groupBackoff`) and a timer that was started is in `timers` until it fires.

`ShareSystem` joins them by `Ensure` and `reload`, lets the service manager
restart the daemon, and adds `daemon retarget-local` and the headless start,
which reads the platform and writes the row in two steps.

### PerShareDaemon

Every share that is on gets a group with a `Manager` of its own. `place` is the
table of the per-share manager that holds a group, `manager` where the group's
`Run` is, `session` whether its runner holds a live session. `Reconcile` is one
pass under `m.mu`; `GroupStopped` and `GroupOutlivesStop` are `stopGroups`'
wait and its deadline, `RunReturns` and `RunStopTimesOut` the group's own.

## Runs

| Run | Module | Question | Result |
| --- | --- | --- | --- |
| `lock_safety` | `MCGatewayLock` | Is a confirmed lease exclusive, and does the lock implement `ShardLease`? | holds |
| `lock_skew` | `MCGatewayLock` | Is a holder that heartbeats safe from a peer with any clock? | violated |
| `replica` | `GatewayReplica` | Do leader, watchdog and shutdown keep their shared state in order, and do connections, reconnects, split brain, lost locks and shutdowns come to an end? | holds |
| `replica_yields` | `GatewayReplica` | Does the watchdog yield to a handoff's `connect()`? | violated |
| `replica_stop` | `GatewayReplica` | Does stopping the watchdog stop its exit? | violated |
| `replica_graceful` | `GatewayReplica` | Does the graceful path after SIGTERM run on standbys only? | violated |
| `session_store` | `SessionStore` | Are updates kept, throttled and flushed? | holds |
| `session_flush` | `SessionStore` | Does a final flush only ever move the row forward? | violated |
| `slack_workspace` | `MCSlackWorkspace` | Do lookups, setups, rotations, teardowns, messages, clicks and installs of one workspace keep its key, its links, its proposals and its tokens in order? | holds |
| `slack_transfer` | `MCSlackWorkspace` | Does a purge spare an owner who was written since its teardown? | violated |
| `share_system` | `MCShareSystem` | Do commands and daemon keep registry, platform and session group in agreement? | holds |
| `share_sessions` | `PerShareDaemon` | Has a resource one live session at most? | violated |

What the properties of the passing runs say:

- `ConfirmedLeaseIsOwned`: a replica inside a lease that was confirmed to it and
  has run out on nobody's clock owns the row. `ImplementsLease`: refinement.
- `HeldHasCursor`: no completion tears `heldLock` from `currentVersion`.
  `ClosedLeaderIsDead`: after SIGTERM's push handoff has begun nothing queued
  before acquires, adopts or connects. `PushLetsGo`: an undisturbed push handoff
  does not leave the lock in its own name. `RecoveryClockRuns`: the clock of a
  reconnect survives every loss and gain of the lock.
- `HeldConnects`, `RecoveryEnds`, `LoserLeaves`, `LossIsNoticed`,
  `ShutdownEnds`: the liveness promises, in that order, of the watchdog's
  connect ladder, its recovery bound, its split-brain exit, the leader's
  renewals, and the two shutdown paths.
- `UnsavedHasTimer`: what the mirror has and nothing was fired for waits for
  the timer. `ThrottleHolds`: within a window nothing of the same session is
  written twice. `FlushedRowIsMirror`: a lone process's final flush is final.
- `NoOlderKey`: a lookup never answers with an older row than the last write its
  process had finished when it began. `RequestsEnd`: no lookup, setup or
  uninstall waits for ever.
- `OneFlowPerLink`: one callback per link. `NeverTwoKeys`: a replaced key is dead
  when its replacement lives. `KeysAccountedFor`: every live key that was not
  stored can be found by the row, a flow, the binding, a replay, a pending
  revocation, or was given up in the open. Exempt are keys once stored (a
  rotation begun earlier may write over them without a condition) and the
  replacement of a key without identity, and one whose mint was answered only after
  another rotation had written over the key it replaces.
- `PurgeSparesFresh`: no purge erases what was *stamped* after its teardown. Of the
  mapping that leaves out ownership transfers, which `PurgeSparesUpdated`
  (violated) is about.
  `TeardownForgets`: after a removal everything older goes, or an operator is
  told, or a shutdown cut the purge short.
- `OneTurnPerMessage`, `DuplicateOfAnother`: one turn per message, and none
  ignored for its own marker: another delivery wrote it, and was not ignored
  itself (it may have been dropped later, by a limit or a failure). `TurnsShared`:
  each turn has a place of its own in the counts, up to the member's and the
  team's limit, and what was refused takes nobody's. `DecidedOnce`,
  `EntitledDecides`: one decision per proposal, claimed by nobody but the
  entitled: the asker of a link, any member for a summary, an admin for the rest.
- `NothingLeftBehind`, `DeliveredWorks`: what a failed install leaves, and what a
  delivered one is worth: its alias, unless it was `misled` about it, a live token,
  and sharing that is on.
- `RowFollowsCloud`: a row is never ahead of the platform, and on only at an epoch
  at which the platform was on. `TargetFence`: an origin changes with a newer
  epoch, or while no daemon runs. `ImplementsRegistry`: commands and daemon write
  the registry by its operations alone (refinement).
- `NothingForgotten`: with the loop idle and nothing scheduled every tracked
  route is in a live group with its origin, and every backoff has its timer.
  `EnsuredIsServed`, `WithdrawnWhenTold`: liveness of start and stop.

### Bounds

- Two replicas: each conflict over the row is between its owner and one
  other, and the theorems hold for any number. `TTL = 2` and `MaxClock = 4`
  let a lease begin, run out and be taken twice; `MaxVersion = 3` lets a cursor
  of one tenancy equal the version of the next. In `lock_safety` one clock is a second
  ahead, which makes every comparison of clocks unequal somewhere; in
  `lock_skew` it is ahead by more than the lease.
- `MaxAttempts = 2` (5 in the code) and `MaxRecovery = 1` tick: the ladder has
  a first, a middle and a last attempt; no property depends on the number.
- `MaxDisturbances` counts throws (but those of the watchdog's read), retries,
  shard closes, lapses of a held lease and transfers by peers in one behaviour: 1
  in `replica`, where the temporal check dominates; the theorems have the safety
  properties for any number of them. A violated property says how many it takes:
  none for `replica_graceful`, three for `replica_yields`. Ticks, watchdog steps,
  handoffs and acquires by peers are unbounded.
- `MaxSession = 2`, `MaxSequence = 3`, `MaxWrites = 2`: a new session after a
  rejected one, three updates around a throttle window, and two writes in
  flight that can be applied in the other order.
- `slack_workspace` and `share_system` choose one of several **scenarios** at the
  start: who may do what, and how many calls fail, are refused or lose their
  answer. The whole product would be out of reach, and the pairs that conflict are
  few: lookups beside a disconnect or a rotation; two browsers on one link, two
  users at once, two rotations, with and without bindings, from a new, configured,
  legacy, orphaned or dead workspace; setups beside a disconnect; removal beside a
  reinstallation, another owner, or writes to each table; a message delivered
  three times; uploads and turns at the limits; two clicks on a card of each kind;
  two installs of one resource, and of one alias, and with the alias removed under
  them by an admin or by a purge (34 scenarios). `slack_transfer` has one more: an
  owner replaced during an uninstall. For sharing: each kind of command with
  faults, two commands on one resource, and the daemon alone with four faults, or
  with two resources (8).
- Two processes, browsers and links, one uninstall, two readers, accounts and
  users. `MaxKeys = 3`: a key, its replacement and one more. `RecheckLimit = 2`
  and `PurgeAttempts = 2` (both 3 in the code) have a first and a last round.
- Three deliveries, because a duplicate and a turn of another member are two of
  them; `UserCap = 1` and `TeamCap = 2`: both limits can be reached by three turns,
  and in either order. Two clicks, two installs: each conflict is one of two.
- `MaxEpoch = 3`: the published epoch, a restart, and a restart beside it. Two
  resources, so that one is withheld while the other is served; two origins.
- `share_sessions`: one resource and two groups suffice for a second session.

`CHECK_DEADLOCK FALSE` everywhere: a process exits, and the bounds end behaviours.

## Fairness

- `GatewayReplica`: weak fairness of the leader's steps and strong fairness of
  the watchdog's and the shutdown's: their timers fire, DynamoDB answers or the
  SDK gives up, and each awaited call returns or its ceiling
  (`connectCeilingMs`, `releaseLockCeilingMs`, `inboundConnectTimeoutMs`) ends
  the wait. Strong fairness because a due event may be put off by a microtask of
  the chain again and again, but the event queue is served in order. Strong
  fairness also of the settlement of a `connect()` a handoff left behind: the
  bounded-settlement assumption stated in `gateway-leader.js` lines 451-459. And of
  the watchdog's read of the holder: it may fail any number of times, but one that is
  made again and again is answered in the end. None
  for the library's own reconnect, for peers, for a POST, for a shard close,
  for a signal, or for the hard-exit timers. So `RecoveryEnds` does not rest on
  Discord coming back, nor `ShutdownEnds` on a hard exit.
- `SlackWorkspace` and `SlackAgent`: a goroutine that has begun goes on (lookups,
  callbacks, uninstalls, purges), a purge's retry timer fires, and Slack delivers
  an event until it is taken. Nobody has to open a link or click, no replica has
  to catch up, and no message, card or install has to go on.
- `ShareSystem`: the goroutines run, the timers fire, the platform answers a
  registration it accepts, and the service manager restarts the daemon. No
  command has to go on: `EnsuredIsServed` speaks of one whose Ensure returned.
- Weak fairness suffices in the last two: a step that is due stays due until it is
  taken, or something that settles the matter happens.

## Proofs

Each component with theorems has a module for them. They hold for every value of
the constants that meets the named assumptions of the component's module, and
assume nothing else. Every invariant and every action property of the passing runs has one.
The argument is the same everywhere: an inductive invariant
(`IInv`, `WorkspaceInv`, `AgentInv`, `ShareInv`) that holds initially, that every action
preserves (one lemma per action or group of actions, joined for the next-state
relation), and that implies the property; an action property is shown of every
step from a state of the invariant. Each inductive invariant was an invariant of
a TLC run before it was proved.

| Module | Theorem | Property |
| --- | --- | --- |
| `GatewayLockProofs` | `TypeCorrect` | `TypeOK` |
| | `LeaseExclusion` | `ConfirmedLeaseIsOwned` |
| | `LockImplementsLease` | `ImplementsLease` (refinement) |
| `GatewayReplicaProofs` | `TypeCorrect` | `TypeOK` |
| | `HolderHasCursor` | `HeldHasCursor` |
| | `ClosedIsDead` | `ClosedLeaderIsDead` |
| | `ClockRuns` | `RecoveryClockRuns` |
| | `PushGivesUp` | `PushLetsGo` |
| `SessionStoreProofs` | `TypeCorrect` | `TypeOK` |
| | `NothingForgotten` | `UnsavedHasTimer` |
| | `FlushIsLast` | `FlushedRowIsMirror` |
| | `ThrottleIsHeld` | `ThrottleHolds` |
| `SlackWorkspaceProofs` | `TypesHold` | `TypeOK` |
| | `LookupsAreFresh` | `NoOlderKey` |
| | `LinksAreUsedOnce` | `OneFlowPerLink` |
| | `OldKeysDieFirst` | `NeverTwoKeys` |
| | `KeysStayAccountedFor` | `KeysAccountedFor` |
| | `PurgesSpareFresh` | `PurgeSparesFresh` |
| `SlackAgentProofs` | `WorkspaceStaysSafe`, `PurgesStaySparing` | the same six, of `AgentSpec` |
| | `AgentTypesHold` | `AgentTypeOK` |
| | `TurnsAreShared` | `TurnsShared` |
| | `MessagesTurnOnce` | `OneTurnPerMessage` |
| | `DuplicatesHaveOriginals` | `DuplicateOfAnother` |
| | `CardsDecidedOnce` | `DecidedOnce` |
| | `OnlyEntitledDecide` | `EntitledDecides` |
| | `FailedInstallsCleanUp` | `NothingLeftBehind` |
| | `DeliveredInstallsWork` | `DeliveredWorks` |
| `ShareSystemProofs` | `TypeCorrect` | `TypeOK` |
| | `RowsFollow` | `RowFollowsCloud` |
| | `OriginsAreFenced` | `TargetFence` |
| | `SystemImplementsRegistry` | `ImplementsRegistry` (refinement) |
| | `NothingIsForgotten` | `NothingForgotten` |

The modules of the gateway also have `Invariance`, `Spec => []IInv`;
`AgentInvariant` and `AnswersAreBacked` are its counterparts for the agent and
for sharing.

### The lock

`ConfirmedLeaseIsOwned` is not inductive: between DynamoDB applying a renewal
and the replica seeing it, the row is ahead of what the replica knows. `IInv`
adds, for each replica,

- `ExitCall`: calls that give the lock away come from the exit path only;
- `Monotone`: a call's clock reading is not in the future, and no expiry that was
  confirmed exceeds what the outstanding call, or a later one, would write;
- `Confirmed`: the confirmed expiry is a lower bound for the row's, as long as it
  has passed on nobody's clock;
- `Unseen`: the same for a write that was applied and not yet seen.

The heart is `DeliverIInv`: a write that takes effect on another replica's row is
an acquire, whose condition needs an expiry behind the acquirer's clock reading;
that reading is not in the future (`Monotone`), so the lease had run out on the
acquirer's own clock, and `Confirmed` and `Unseen` ask nothing for it. The
refinement uses the same invariant; `owner`, `live` and `successors` are
computed from the row, the clocks and the outstanding calls. The constants'
assumptions (`RowAssumption`, `NoneInstance`, `TTLAssumption`, `SkewAssumption`,
`BoundAssumption`) are all that is assumed.

### The replica

`TypeOK` alone is not inductive: it bounds the chain by four works and the
attempts by `MaxAttempts`, and nothing in it says why a fifth work or one more
attempt cannot come. `IInv` adds

- `Unique`: no work is queued twice, so four kinds of works make at most four;
- `WorkInv`: a queued push means a closed leader, a queued release means a
  watchdog that is leaving, and only a shutdown closes the leader;
- `StageInv`: the `await` at which the chain stands fits the work at its head
  and the leader's state. In particular an acquire is only outstanding
  while the leader is open and does not hold the lock, and a leader that was
  closed during a tick's heartbeat holds the lock, so that tick does not go on to
  acquire;
- `LadderInv`: a watchdog that may start an attempt has one left, and awaits one
  `connect()` at a time;
- `HeldHasCursor` itself.

`ClosedIsDead` rests on `StageInv`: a step that adopts, acquires or connects
starts at an `await` that a closed leader has left or refuses. `ClockRuns` needs
only the type of the clock, and that the two watchdog steps that clear it see another
state of the shard.

`PushGivesUp` needs what `IInv` does not have: what the row and the leader know of
each other. `CalmInv` says, of a process that nothing has disturbed yet, that a row
in its name is live and one of four things (`Ours`): the leader holds the lock with
a version that fits; its renewal was applied and not answered; its acquire was applied
and not answered; or it has let go and its release is on its way. The versions
fit because nobody hands the lock over to it, so no inbound handoff runs either. Hence a
renewal, a transfer and a release meet their conditions, every way a push
ends leaves the row in another name or in none, and a tick or a release queued
before the push leaves the push in the chain (`TailKeeps`). The last conjunct of
`Calm` is the property, of any state after the signal: while the row is in this
replica's name the push has yet to run to its end. A signal that finds the leader
without the lock begins no push; one that comes while an acquire is out takes the
graceful path, which the property leaves out and finding `GracefulIsStandby` is about.

### The session store

`IInv` says, for each replica: what its mirror has was fired or has its timer,
and an empty mirror owes nothing (`Unsaved`); a timer is due only outside the
throttle window (`DueIsOutside`), which is what `ThrottleHolds` needs when it
fires; nothing is in flight beside a final put (`FinalIsLast`); while a process
is alone, no other has a write in flight either (`AloneIsAlone`); and the row of a
flushed lone process is its mirror (`Flushed`). The last needs the two before it:
they leave nobody whose write could still be applied.

### The workspace's key

The theorems are of `Spec`; their lemmas are of `[Moves]_vars`, where `Moves` is
`Next`, a fault that only spends the scenario's budget, or a binding written to the
channel policies (`BindingWritten`). A step of the agent is one
of `Moves` as far as the workspace goes (`AgentMovesWorkspace`), which carries all
of them over to `AgentSpec`, the system that the run checks. `WorkspaceInv` is the
conjunction of six invariants:

- `TypeInv`: `TypeOK` with what the types leave open: an answer that is a key has one
  (`ResultShape`), a flow that has not come back holds nothing (`FlowShape`), and a
  purge that waits has an attempt left (`PurgeShape`).
- `LinksOnce`: `OneFlowPerLink`, with `Consumption`: whoever went past the callback
  has consumed its link. A second consumption fails on the conditional delete.
- `OldKeysDie`: `NeverTwoKeys`, with `Retired`: a setup on its way to a replacement
  has seen the old key dead. Keys do not come to life again, so what was seen
  holds when the replacement is minted, however much later.
- `PurgeTimes`: only the event's purge erases everything, and its cutoff is the time
  of the removal. That every erasure is no newer than its teardown is then shown
  of each step of a purge.
- `Custody`: where each key is. A flow holds keys that were made for its own account
  (`HeldKeys`); qurl-service binds one key, and the binding still names it
  (`OneBinding`); the row's identity is that of its key (`RowIdentified`); a rotation
  is of the row's key or of one that was replaced or lost since (`Rotations`); a key
  is replaced once, and its replacement is stored, held, given up, or can be replayed
  because the row still has the old key (`Replacements`); a key of the legacy
  endpoint was the workspace's first or is some setup's (`LegacyKept`).
  `KeysAccountedFor` follows case by case over the ways a key is made.
- `NoStale`: why no lookup is older than its floor. For each process `CacheSound`: the
  last write it has finished is in the replica, or behind a strong-read marker, or
  in a cached entry that was read since (`Covered`); the fill in flight may be
  joined by anybody (`CallFine`), and so may a check while the entry it is of is
  there (`CheckFine`, `EntryHeld`). For each lookup `Sound`: what it read, checks or
  waits for is at least its floor (`Answers`, `Gives`, `Awaits`). `Stamps` says that
  every version held anywhere was written. The delicate steps are those that
  invalidate: a write by the process raises the floor of every later lookup at once,
  and what is still in flight is detached from them in the same step.

The assumptions are `ProviderAssumption`, `SetupAssumption`, `TeardownAssumption`,
`ActorsAssumption` (flows, clicks and readers are different actors) and
`ScenarioAssumption` (the shape of a scenario). Numbers of processes, browsers,
links, users, keys, clicks, readers and faults are arbitrary.

### The agent and the installs

`AgentInv` is `TurnInv /\ InstallInv`, about two sets of variables that meet
only where a click opens an install. They assume `WriterAssumption` (a writer's
token is nobody else's), `SlugAssumption` and `AgentAssumption` (the scenarios
are of the right shape), and nothing about how many messages, deliveries,
members, clicks, installs, attempts or calls that go wrong there are.

`OneTurnPerMessage` is not inductive: that two deliveries did not both go on
follows from what is in the marker. `TurnInv` says that whoever went on wrote the
marker of its message, and that a written marker is that of a delivery which is no
duplicate (`Marked`); that a claim is held by a click that passed the gates
(`ClaimsEntitled`); and that whoever acts on a proposal holds its claim
(`ActsClaimed`). The first two lapse once a purge has erased the markers; the
third does not, because gates come before claims whatever was erased.

`InstallInv` says what an install knows: past the alias it has it (`AliasHeld`)
unless it was misled, and a removal misleads every install it takes the alias from
(`RemovalKeeps`); one that is alone at a resource is alone in
fact (`AloneAtWork`), so that what it read of its sharing is what is there but for its own
restart (`PriorRead`); a token of one attempt was minted once (`TokenOfOneAttempt`);
sharing stays on for a delivered install that met no other, because those who come
later find it on and so do not own it (`StaysOn`); and every live token, and all sharing
that is on, has an install that will clean it up, delivered it, or is spoiled
(`TokenAnswered`, `SharingAnswered`). `NothingLeftBehind` and `DeliveredWorks`
follow; the second is what makes the first worth having, for a code that turned
everything off again would satisfy the first.

Two arguments count. `TallyInv` joins to the counters what they count
(`CountsTell`): the deliveries a count has let through, as a set, has as many
elements as the counter says, up to its cap; a delivery is let through for the team
only when it was for its member. `TurnsShared` is about subsets of these sets. And an
epoch of a resource is at most the number of installs that have restarted it
(`EpochsCounted`), each of which does so once; this bounds what `AgentTypeOK` says
of `sharing`. Both assume that the deliveries and the installs are finitely many,
and use the library's theorems on cardinality.

### Local sharing

`RowFollowsCloud` is not inductive, because a command holds answers it has yet to
write. `ShareInv` says that every answer somebody holds and may still write was
true of the platform once: the platform itself (`PlatformOwn`), each row
(`RowsBacked`), what each command would store or fall back to (`CommandsBacked`),
and the headless start's answer (`ReauthBacked`). `Backed` persists, because the
platform's epochs only grow (`CloudGrows`, shown of every request, applied,
refused or lost). Each step is then shown to be one of `Writes`: an operation of
the registry with a backed value, or the offline conversion with no daemon.
`RowsFollow`, `SystemImplementsRegistry` and `OriginsAreFenced` follow from
`ShareInv` and `Writes`. The assumptions are `EpochAssumption`,
`TargetAssumption` and `ShareAssumption`. `TypeCorrect` adds the shape of the
daemon: in particular its loop, which restarts nothing it does not track.

`NothingForgotten` is about the idle loop; its invariant, `LoopInv`, is about every
point of a pass:

- `LoopKnows`: what the pass has established of `tracked`. Once it has dropped what
  is not desired it tracks nothing else; once it has recorded what is desired it
  tracks all of that, at its targets, and restarts nothing but that.
- `HeldBack`: a route that waits out its backoff is tracked and has its timer, and
  so has the session. A timer that fires ends the backoff in the same step.
- `Retried`: something is `Scheduled` (the trigger, a timer, a session that has
  exited and is yet to be finished, an epoch yet to be persisted) or the pass is
  `OnCourse`: nothing has interrupted it, so what it goes on from (the session, its
  routes, the desired routes) is still what it established, and where it ends every
  tracked route is on the session at its target.

A step either schedules something or keeps the pass on its course (`CourseKept`).
What is scheduled stays so (`ScheduledStays`) in every step but two: the beginning
of a pass, which consumes the trigger and has everything still to establish, and the
end of the daemon, which leaves nothing tracked. That the callbacks of the runner,
its exits and the timers come at any point of the pass is the reason for
the disjunction: they take a pass off its course, and each of them schedules the
next one. `TimerAssumption` (in `ShareDaemon`) keeps the names of the timers apart.

### What the attempts found

Four proof attempts failed for a reason, and changed a property or the model:

- `KeysAccountedFor` was false as first stated, in a case the run does not
  reach. A rotation whose mint was applied and not answered is replayed while the row
  has the key it replaces. If another rotation, begun on an older key, stores its
  replacement over that row in between (`callback.go`, line 1082, stores without a
  condition), nothing finds the first replacement again. `Outrun` names the case.
- `NoOlderKey` was false as first stated. A check of a cached key that
  begins when its entry has gone already (evicted, or deleted by a sibling request) is
  not dropped by the next delete, which drops the checks of the entry it evicts
  (`ddb_provider.go`, lines 323 and 763-782). If a setup caches the same ciphertext again
  (line 833), a lookup that begins after the delete joins the old check and
  takes its verdict. `stray` marks these lookups, and those alone.
- Five CASE expressions of the model had overlapping guards (`Judge`, `Identity`,
  `JudgePurge`, a mutant of `CountTeam`, and the initial keys). TLC takes the first
  that is true; the meaning of CASE leaves the choice open, and the prover refuses to
  choose. The guards are now exclusive, in the order of the code.
- A state of the agent kept the *number* of turns that ran. Nothing about the model
  told whose they were, so nothing could be said of them by induction. `ran` is now the
  set of deliveries, and `TurnsShared` counts it.

### Only model-checked

- The nine liveness properties (the prover does not handle fairness and ENABLED) and
  the violations.

## Findings

Each is a run that shows a counterexample to what a comment or document says.

1. `lock_skew`: the comment in `gateway-lock.js` (57-64) and the design document
   say that the version keeps a peer with a wrong clock from taking the lock
   while the holder heartbeats. `acquireLock`'s condition has no version in it.
2. `replica_yields`: `connecting` is one flag for several handoffs; the second
   one's settlement clears it while the first one's `connect()` is outstanding.
3. `replica_stop`: a watchdog already inside `exitAfterExhaustion` does not look at
   `stopping` again and may call `exit(1)` in the middle of a push handoff.
4. `replica_graceful`: the path is chosen from `heldLock` when the signal comes; an
   acquire in flight, or a later tick, then wins the lock for a process that
   tears down and exits with it.
5. `session_flush`: `flushFinal` on a standby writes the mirror of its boot over
   the row the active replica has advanced since.
6. `share_sessions`: the comment in `pershare.go` (97-99) and
   `docs/session-groups.md` (86-88) say that a resource is not admitted again
   before its old group has finished, so that it never has two live sessions. A
   group counts as finished when its `Run` has returned, and `Run` returns when
   its bounded stop gives up, with the session still alive.
7. `slack_transfer`: the comments in `workspace.go` say that every guarded write of
   the mapping refreshes the purge's stamp, lest a delayed purge delete fresh rows
   (26-29), and that the row is deleted only when it has not been updated since the
   cutoff (891-894). `TransferOwnership` (798) sets `owner_id` and `updated_at` and no
   stamp, so the purge of an uninstall deletes the owner who was written after it.

Behaviours the models have and the code's comments promise nothing about, which
the properties therefore exempt, are listed under `hazards` with a note: a
rotation that stores over a newer key, a purge cut short by a shutdown, an
install that turns sharing off under another install of the same resource, an
install that is told of a binding already removed, and a purge of agent state
under conversations still going on.

## Not modelled

- Gateway: the IDENTIFY budget of the shim and its fatal shutdown, `start()`'s connect
  race, the guild census, metrics and the readiness probe. The heartbeat rows and
  nonces: their effects (which peer is found, whether a POST is accepted) are
  choices of the environment. Two further behaviours of the session store: a
  null-clear's delete applied before an earlier put, and a take-over that resumes
  with the mirror of its boot.
- Slack: the replay window of a setup (24 hours) does not lapse; rate limits
  of links; panics and a missing store; envelopes and ciphers; several partitions
  and workspaces; thread contexts, audit entries, exposure lists; the model
  behind the agent; the other commands, views and texts.
- CLI: hub enrollment, the diagnostics endpoint, service definitions per platform,
  the atomic file replacement and lock below the registry, the device key; other
  commands, links, grants, login; the HTTP client and its retries.
- Flow state, events, webhook subscriptions, the connector's resource state,
  Teams: see the plan.
- Edge templates, the S3 origin image, extensions, CI: no state several actors
  change.

How much of the repository that is: the Go implementation has about 81,000 lines,
of which the modules cover those with state that more than one actor changes or
that must survive a failure. Most of the others are one actor's straight line from a
request to a response: parsing and validating fields, building and rendering
messages, views and command output, HTTP plumbing and error texts. A model of
these would say again what the lines say, and have no behaviour for a property to
rule out; they are left to tests.

## Plan

1. Done: the gateway with `ShardLease`, `GatewayLock`, `GatewayReplica` and
   `SessionStore`; the workspace with `TtlCache`, `KeyProvider`,
   `WorkspaceSetup`, `WorkspaceTeardown`, `AgentTurns`, `AgentConfirm` and
   `ConnectorInstall`; local sharing with `LocalShares`, `ShareCommands`,
   `ShareDaemon` and `PerShareDaemon`; and the proofs above.
2. Done: the proofs about the workspace's key and the agent's limits.
3. Done: the proofs of `NothingForgotten`, with an invariant for each point of the
   reconcile loop, and of `PushLetsGo`.
4. `FlowState`: rows with optimistic versions; `createFlow`, `transitionFlow`
   (read, conditional update, recheck), `deleteFlow`, `supersedeOrCreate`, each
   split at its calls. A transition that reports success is the one that
   happened; a superseded flow is never advanced.
5. `ResourceState`: the connector's resource files with their locks, over a crash
   between two writes; `EventPipeline`: publisher, queue and consumer with
   redelivery, the seen set at its limit, and a drain against its deadline.
6. `ControlChannel`: nonces and freshness, composed with `GatewayLock`'s offers;
   `IdentifyBudget`: concurrent grants against the budget.
