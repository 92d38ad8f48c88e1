-------------------------- MODULE WorkspaceTeardown --------------------------
(***************************************************************************)
(* The ways a workspace is forgotten: /qurl uninstall, confirmed by a      *)
(* click, which disconnects the qURL key and keeps the Slack app, and the  *)
(* event Slack sends when the app itself is removed, which erases all.     *)
(* Both leave the rest to a purge in the background that retries its       *)
(* steps and spares what was written after its cutoff.                     *)
(*                                                                         *)
(* A table is the stamp of its latest write, 0 when it is empty; several   *)
(* rows of one table are one.                                              *)
(***************************************************************************)
EXTENDS WorkspaceSetup

CONSTANTS
    Clicks,         \* confirmations of /qurl uninstall
    PurgeAttempts   \* lifecyclePurgeRetryAttempts

VARIABLES
    tables,    \* agent state, rate counters, channel policies
    click,
    removed,   \* when the app was removed in Slack, 0 if it was not
    told,      \* the event of it was delivered
    purge      \* per click, and the event's

ASSUME TeardownAssumption == PurgeAttempts \in Nat \ {0} /\ "event" \notin Clicks

teardownVars == <<tables, click, removed, told, purge>>

Jobs == Clicks \cup {"event"}
Tables == {"agent", "counters", "policies"}
NoPurge == [pc |-> "idle", proc |-> CHOOSE p \in Processes : TRUE,
            full |-> FALSE, cutoff |-> 0, ver |-> 0, attempt |-> 0,
            failed |-> {}]
NoClick == [pc |-> "idle", proc |-> CHOOSE p \in Processes : TRUE, ver |-> 0]

ClickRows == [pc : {"idle", "ident", "lookup", "revoke", "delete", "forget",
                    "done"},
              proc : Processes, ver : Nat]
PurgeRows ==
    [pc : {"idle", "state", "forget", "agent", "mapping", "counters",
           "policies", "judge", "wait", "done", "cleanup", "aborted"},
     proc : Processes, full : BOOLEAN, cutoff : Nat, ver : Nat,
     attempt : 0 .. PurgeAttempts, failed : SUBSET {"malformed", "transient"}]

TeardownOK ==
    /\ tables \in [Tables -> 0 .. clock]
    /\ click \in [Clicks -> ClickRows]
    /\ removed \in 0 .. clock
    /\ told \in BOOLEAN
    /\ purge \in [Jobs -> PurgeRows]
    /\ \A u \in Clicks : click[u].ver <= clock
    /\ \A j \in Jobs : purge[j].cutoff <= clock /\ purge[j].ver <= clock

-----------------------------------------------------------------------------
(* The click.                                                              *)

ClickKept == UNCHANGED <<tables, removed, told, setupVars>>
ClickIn(u, pc) == click[u].pc = pc
ClickGoes(u, pc) == click' = [click EXCEPT ![u].pc = pc]

\* The gate's read of the owner may be stale.
Confirms(u, user, p) ==
    /\ ClickIn(u, "idle")
    /\ click' = [click EXCEPT ![u] = [NoClick EXCEPT !.proc = p,
                    !.pc = IF user \in {mapping.owner, mapReplica}
                               THEN "ident" ELSE "done"]]
    /\ ClickKept /\ UNCHANGED <<purge, providerVars>>

\* revokeWorkspaceUpstreamKey, the key id.
ReadsKeyId(u) ==
    /\ ClickIn(u, "ident")
    /\ IF row.key # 0 /\ row.ident
           THEN LookupBegins(u, click[u].proc) /\ ClickGoes(u, "lookup")
           ELSE UNCHANGED providerVars /\ ClickGoes(u, "delete")
    /\ ClickKept /\ UNCHANGED purge

\* The key itself, with which the key is to be revoked.
BuildsClient(u) ==
    /\ ClickIn(u, "lookup")
    /\ LookedUp(u)
    /\ LookupTaken(u)
    /\ ClickGoes(u, CASE lookup[u].result.status = "key"  -> "revoke"
                      [] lookup[u].result.status = "none" -> "delete"
                      [] OTHER                            -> "done")
    /\ ClickKept
    /\ UNCHANGED <<purge, clock, row, replica, cache, strong, checking, known>>

\* A key cannot revoke itself: 403 while it lives, 401 once it is dead.
RevokesUpstream(u) ==
    /\ ClickIn(u, "revoke")
    /\ ClickGoes(u, "delete")
    /\ ClickKept /\ UNCHANGED <<purge, providerVars>>

\* The call fails, the click changes nothing, and its user is told so.
ClickFails(u) ==
    /\ click[u].pc \in {"ident", "revoke", "delete"}
    /\ ClickGoes(u, "done")
    /\ ClickKept /\ UNCHANGED <<purge, providerVars>>

\* Disconnecting the workspace gives its key up.
GivesUpKey == released' = IF row.key = 0 THEN released ELSE released \cup {row.key}

\* DeleteAPIKey, its write.
DeletesKey(u) ==
    /\ ClickIn(u, "delete")
    /\ IF row.key = 0 THEN UNCHANGED <<clock, row>> ELSE ClearKey
    /\ GivesUpKey
    /\ click' = [click EXCEPT ![u].pc = "forget", ![u].ver = row'.ver]
    /\ UNCHANGED <<tables, removed, told, purge>>
    /\ UNCHANGED <<links, mapping, mapReplica, flow, keys, bindings, binding,
                   orphans, replica, cache, strong, checking, known, lookup>>

\* The write's reply is lost, and with it the purge.
DeleteReplyLost(u) ==
    /\ ClickIn(u, "delete")
    /\ ClearKey
    /\ GivesUpKey
    /\ ClickGoes(u, "done")
    /\ UNCHANGED <<tables, removed, told, purge>>
    /\ UNCHANGED <<links, mapping, mapReplica, flow, keys, bindings, binding,
                   orphans, replica, cache, strong, checking, known, lookup>>

\* The cache is dropped, and the purge scheduled with a cutoff taken now.
SchedulesPurge(u) ==
    /\ ClickIn(u, "forget")
    /\ ForgetKey(click[u].proc, click[u].ver)
    /\ ClickGoes(u, "done")
    /\ purge' = [purge EXCEPT ![u] = [NoPurge EXCEPT !.pc = "agent",
                    !.proc = click[u].proc, !.cutoff = clock, !.attempt = 1]]
    /\ ClickKept /\ UNCHANGED <<clock, row, replica, lookup>>

ClickStep(u) == \/ ReadsKeyId(u) \/ BuildsClient(u) \/ RevokesUpstream(u)
                \/ DeletesKey(u) \/ SchedulesPurge(u)

ClickFault(u) == ClickFails(u) \/ DeleteReplyLost(u)

-----------------------------------------------------------------------------
(* The app is removed in Slack.                                            *)

Removal ==
    /\ removed = 0 /\ clock > 0
    /\ removed' = clock
    /\ UNCHANGED <<tables, click, told, purge, setupVars, providerVars>>

EventPurge(p, cutoff) ==
    purge' = [purge EXCEPT !["event"] =
                 [NoPurge EXCEPT !.pc = "state", !.proc = p, !.full = TRUE,
                                 !.cutoff = cutoff, !.attempt = 1]]

\* Mutant: the cutoff is when the event is handled.
ReceiveEventLate(p) ==
    /\ removed > 0 /\ ~told
    /\ told' = TRUE
    /\ EventPurge(p, clock)
    /\ UNCHANGED <<tables, click, removed, setupVars, providerVars>>

\* handleLifecycleEvent; lifecyclePurgeCutoff takes the event's own time.
ReceiveEvent(p) ==
    /\ removed > 0 /\ ~told
    /\ told' = TRUE
    /\ EventPurge(p, removed)
    /\ UNCHANGED <<tables, click, removed, setupVars, providerVars>>

-----------------------------------------------------------------------------
(* The purge: purgeWorkspace and retryLifecyclePurge.                      *)

PurgeKept == UNCHANGED <<click, removed, told>>
PurgeIn(j, pc) == purge[j].pc = pc
PurgeGoes(j, pc) == purge' = [purge EXCEPT ![j].pc = pc]
Cutoff(j) == purge[j].cutoff

\* The guarded delete of the whole row; the cache is dropped either way.
PurgesState(j) ==
    /\ PurgeIn(j, "state")
    /\ IF MayDelete(Cutoff(j))
           THEN DeleteRow(Cutoff(j)) /\ GivesUpKey
           ELSE UNCHANGED <<clock, row, released>>
    /\ purge' = [purge EXCEPT ![j].pc = "forget", ![j].ver = row'.ver]
    /\ PurgeKept /\ UNCHANGED tables
    /\ UNCHANGED <<links, mapping, mapReplica, flow, keys, bindings, binding,
                   orphans, replica, cache, strong, checking, known, lookup>>

PurgeForgets(j) ==
    /\ PurgeIn(j, "forget")
    /\ ForgetKey(purge[j].proc, purge[j].ver)
    /\ PurgeGoes(j, "agent")
    /\ PurgeKept /\ UNCHANGED <<tables, setupVars, clock, row, replica, lookup>>

NextTable(t) == CASE t = "agent"    -> "mapping"
                  [] t = "counters" -> "policies"
                  [] t = "policies" -> "judge"

\* Agent state is erased whatever its age.
PurgesTable(j, t) ==
    /\ PurgeIn(j, t)
    /\ tables' = [tables EXCEPT ![t] =
                     IF t = "agent" \/ @ <= Cutoff(j) THEN 0 ELSE @]
    /\ PurgeGoes(j, NextTable(t))
    /\ PurgeKept /\ UNCHANGED <<setupVars, providerVars>>

\* deleteWorkspaceMapping.
PurgesMapping(j) ==
    /\ PurgeIn(j, "mapping")
    /\ mapping' = IF mapping.stamp <= Cutoff(j)
                      THEN Mapped("none", 0) ELSE mapping
    /\ PurgeGoes(j, "counters")
    /\ PurgeKept /\ UNCHANGED tables
    /\ UNCHANGED <<links, mapReplica, flow, keys, bindings, binding, orphans,
                   released, providerVars>>

After(j) == CASE purge[j].pc = "state"   -> "agent"
              [] purge[j].pc = "mapping" -> "counters"
              [] OTHER                   -> NextTable(purge[j].pc)

\* A step fails, and the next ones are attempted all the same.  Only a row
\* without a readable key of its own cannot be mended by another attempt.
PurgeFails(j) ==
    /\ purge[j].pc \in Tables \cup {"state", "mapping"}
    /\ \E kind \in {"transient", "malformed"} :
           /\ kind = "malformed" => purge[j].pc \in {"counters", "policies"}
           /\ purge' = [purge EXCEPT ![j].pc = After(j),
                                     ![j].failed = @ \cup {kind}]
    /\ PurgeKept /\ UNCHANGED <<tables, setupVars, providerVars>>

\* Mutant: the attempts are not counted.
JudgeAlways(j) ==
    /\ PurgeIn(j, "judge")
    /\ PurgeGoes(j, CASE purge[j].failed = {}            -> "done"
                      [] purge[j].failed = {"malformed"} -> "cleanup"
                      [] OTHER                           -> "wait")
    /\ PurgeKept /\ UNCHANGED <<tables, setupVars, providerVars>>

\* Mutant: one attempt is all there is.
JudgeOnce(j) ==
    /\ PurgeIn(j, "judge")
    /\ PurgeGoes(j, "done")
    /\ PurgeKept /\ UNCHANGED <<tables, setupVars, providerVars>>

JudgePurge(j) ==
    LET p == purge[j] IN
    /\ PurgeIn(j, "judge")
    /\ PurgeGoes(j, IF p.failed = {} THEN "done"
                    ELSE IF p.failed = {"malformed"} \/ p.attempt = PurgeAttempts
                        THEN "cleanup" ELSE "wait")
    /\ PurgeKept /\ UNCHANGED <<tables, setupVars, providerVars>>

\* The delay between two attempts is over.
Retries(j) ==
    /\ PurgeIn(j, "wait")
    /\ purge' = [purge EXCEPT ![j].pc = IF purge[j].full THEN "state" ELSE "agent",
                              ![j].attempt = @ + 1, ![j].failed = {}]
    /\ PurgeKept /\ UNCHANGED <<tables, setupVars, providerVars>>

\* Shutdown cancels it.
PurgeAborts(j) ==
    /\ purge[j].pc \in Tables \cup {"state", "mapping", "wait"}
    /\ PurgeGoes(j, "aborted")
    /\ PurgeKept /\ UNCHANGED <<tables, setupVars, providerVars>>

PurgeStep(j) == \/ PurgesState(j) \/ PurgeForgets(j)
                \/ \E t \in Tables : PurgesTable(j, t)
                \/ PurgesMapping(j) \/ JudgePurge(j) \/ Retries(j)

PurgeFault(j) == PurgeFails(j) \/ PurgeAborts(j)
=============================================================================
