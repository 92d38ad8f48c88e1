---------------------------- MODULE SlackWorkspace ----------------------------
(***************************************************************************)
(* One Slack workspace, put together: the lookups of its qURL key, the     *)
(* setups that bind it and rotate its key, the two ways it is forgotten,   *)
(* and what its members write meanwhile.                                   *)
(*                                                                         *)
(* A scenario says where the workspace starts, who may do what, and how    *)
(* many things may go wrong.                                               *)
(***************************************************************************)
EXTENDS WorkspaceTeardown

CONSTANTS
    Readers,     \* requests that need the workspace's key
    Scenarios    \* bound: records [start, bindings, procs, jobs, sessions,
                 \* signIn, readers, clicks, acts, faults]

ASSUME ActorsAssumption ==
    /\ Actors = Flows \cup Clicks \cup Readers
    /\ Flows \cap Clicks = {}
    /\ Readers \cap (Flows \cup Clicks) = {}

ASSUME ScenarioAssumption ==
    \A s \in Scenarios :
        /\ s.start \in {"new", "configured", "legacy", "dead", "orphaned"}
        /\ s.owner \in Users /\ s.bindings \in BOOLEAN
        /\ s.signIn \in [Users \cup {"none"} -> SUBSET Accounts]
        /\ s.signIn[s.owner] # {}
        /\ s.jobs \in [Links -> SUBSET (Users \X Modes)]
        /\ s.sessions \in [Flows -> SUBSET Links]
        /\ s.clicks \in [Clicks -> SUBSET Users]
        /\ s.procs \subseteq Processes
        /\ s.faults \in Nat /\ s.acts \subseteq {"install", "admin", "transfer", "unset",
                                                 "agent", "counters", "policies"}

VARIABLES
    scenario,
    faults,   \* faults the instance may still see
    acts      \* what members may still do

systemVars == <<scenario, faults, acts>>
vars == <<providerVars, setupVars, teardownVars, systemVars>>

Activities == {"install", "admin", "transfer", "unset"} \cup Tables

TypeOK ==
    /\ ProviderOK
    /\ SetupOK
    /\ TeardownOK
    /\ scenario \in Scenarios
    /\ faults \in 0 .. scenario.faults
    /\ acts \subseteq Activities

\* Key 1 is the workspace's from the start, unless it is new.
Configured == scenario.start # "new"
Identified == scenario.start = "configured"

Owner == CASE scenario.start = "new"      -> "none"
           [] scenario.start = "orphaned" -> "legacy"
           [] OTHER                       -> scenario.owner

FirstAccount == CHOOSE a \in scenario.signIn[scenario.owner] : TRUE

Init ==
    /\ scenario \in Scenarios
    /\ faults = scenario.faults
    /\ acts = scenario.acts
    /\ clock = IF Configured THEN 1 ELSE 0
    /\ row = IF Configured
                 THEN [key |-> 1, ident |-> Identified,
                       acct |-> IF Identified THEN FirstAccount ELSE "none",
                       ver |-> 1, bot |-> 1, stamp |-> 1]
                 ELSE NoRow
    /\ replica = [key |-> row.key, ver |-> row.ver]
    /\ cache = [p \in Processes |-> EmptyCache]
    /\ strong = [p \in Processes |-> {}]
    /\ checking = [p \in Processes |-> {}]
    /\ known = [p \in Processes |-> 0]
    /\ lookup = [a \in Actors |-> NoLookup(CHOOSE p \in Processes : TRUE)]
    /\ links = [l \in Links |-> NoLink]
    /\ mapping = Mapped(Owner, clock)
    /\ mapReplica = Owner
    /\ flow = [f \in Flows |-> NoFlow]
    /\ keys = [k \in Keys |->
                  IF k = 1 /\ Configured
                      THEN [state |-> IF scenario.start = "dead" THEN "revoked"
                                                                 ELSE "live",
                            acct |-> FirstAccount,
                            via |-> IF ~Identified THEN "none"
                                    ELSE IF scenario.bindings THEN "binding"
                                                              ELSE "legacy",
                            old |-> 0]
                      ELSE Unminted]
    /\ bindings = scenario.bindings
    /\ binding = IF Identified /\ bindings
                     THEN {[acct |-> FirstAccount, key |-> 1]} ELSE {}
    /\ orphans = {}
    /\ released = {}
    /\ tables = [t \in Tables |-> clock]
    /\ click = [u \in Clicks |-> NoClick]
    /\ removed = 0
    /\ told = FALSE
    /\ purge = [j \in Jobs |-> NoPurge]

Fault == faults > 0 /\ faults' = faults - 1
NoFault == UNCHANGED systemVars
Faulty == Fault /\ UNCHANGED <<scenario, acts>>

-----------------------------------------------------------------------------
(* Storage.                                                                *)

Replicates ==
    /\ \/ ReplicaCatchesUp /\ UNCHANGED setupVars
       \/ MappingCatchesUp /\ UNCHANGED providerVars
    /\ NoFault /\ UNCHANGED teardownVars

-----------------------------------------------------------------------------
(* Lookups.                                                                *)

Asks(a, p) ==
    /\ a \in scenario.readers /\ p \in scenario.procs
    /\ LookupBegins(a, p)
    /\ NoFault /\ UNCHANGED <<setupVars, teardownVars>>

LooksUp(a) ==
    /\ LookupStep(a)
    /\ NoFault /\ UNCHANGED <<setupVars, teardownVars>>

LookupGoesWrong(a) ==
    /\ LookupFault(a)
    /\ Faulty /\ UNCHANGED <<setupVars, teardownVars>>

-----------------------------------------------------------------------------
(* Setups.                                                                 *)

Commands(l) ==
    /\ \E job \in scenario.jobs[l] : MintLink(l, job[1], job[2])
    /\ NoFault /\ UNCHANGED <<providerVars, teardownVars>>

Expires(l) ==
    /\ LinkExpires(l)
    /\ Faulty /\ UNCHANGED <<providerVars, teardownVars>>

Opens(f) ==
    /\ \E l \in scenario.sessions[f], p \in scenario.procs : StartLink(f, l, p)
    /\ NoFault /\ UNCHANGED <<providerVars, teardownVars>>

\* The browser comes back with a code, for the account it signed in with.
Returns(f) ==
    /\ In(f, "callback")
    /\ \E a \in scenario.signIn[links[flow[f].link].user] : Consume(f, a)
    /\ NoFault /\ UNCHANGED <<providerVars, teardownVars>>

SetsUp(f) ==
    /\ OwnerStep(f) \/ KeyStep(f) \/ StoreStep(f)
    /\ NoFault /\ UNCHANGED teardownVars

SetupGoesWrong(f) ==
    /\ FlowFault(f)
    /\ Faulty /\ UNCHANGED teardownVars

CleansUp(k) ==
    /\ \/ RevokeOrphan(k, FALSE) /\ NoFault
       \/ RevokeOrphan(k, TRUE) /\ Faulty
    /\ UNCHANGED teardownVars

-----------------------------------------------------------------------------
(* Teardowns.                                                              *)

Uninstalls(u) ==
    /\ \E user \in scenario.clicks[u], p \in scenario.procs :
           Confirms(u, user, p)
    /\ NoFault

Disconnects(u) == ClickStep(u) /\ NoFault
DisconnectGoesWrong(u) == ClickFault(u) /\ Faulty

AppRemoved ==
    /\ "remove" \in scenario.events
    /\ Removal
    /\ NoFault

EventArrives ==
    /\ \E p \in scenario.procs : ReceiveEvent(p)
    /\ NoFault

Purges(j) == PurgeStep(j) /\ NoFault
PurgeGoesWrong(j) == PurgeFault(j) /\ Faulty

-----------------------------------------------------------------------------
(* What else is written: each once.                                        *)

Does(act) == act \in acts /\ acts' = acts \ {act} /\ UNCHANGED <<scenario, faults>>

\* The app is installed, or installed again.
Reinstalled ==
    /\ Does("install")
    /\ StoreBotToken
    /\ UNCHANGED <<replica, cache, strong, checking, known, lookup, setupVars,
                   teardownVars>>

OthersKept == UNCHANGED <<row, replica, cache, strong, checking, known, lookup,
                          click, removed, told, purge>>
Ticks == clock' = clock + 1

\* A write to a table, which stamps it.
TableWritten(t) ==
    /\ Ticks
    /\ tables' = [tables EXCEPT ![t] = clock + 1]
    /\ OthersKept /\ UNCHANGED setupVars

\* Members at work: conversations, rate counters, channel policies.
Writes(t) == Does(t) /\ TableWritten(t)

\* AddAdmin, RemoveAdmin, SetAgentEnabled, on the row that is there.
ChangesAdmins ==
    /\ Does("admin")
    /\ mapping.owner # "none"
    /\ Ticks
    /\ mapping' = [mapping EXCEPT !.stamp = clock + 1, !.updated = clock + 1]
    /\ OthersKept
    /\ UNCHANGED <<tables, links, mapReplica, flow, keys, bindings, binding,
                   orphans, released>>

\* TransferOwnership, which leaves the purge's stamp as it was.
Transfers ==
    /\ Does("transfer")
    /\ mapping.owner \in Users
    /\ Ticks
    /\ \E u \in Users :
           mapping' = [mapping EXCEPT !.owner = u, !.updated = clock + 1]
    /\ OthersKept
    /\ UNCHANGED <<tables, links, mapReplica, flow, keys, bindings, binding,
                   orphans, released>>

-----------------------------------------------------------------------------

Next ==
    \/ Replicates
    \/ \E a \in Readers, p \in Processes : Asks(a, p)
    \/ \E a \in Actors : LooksUp(a) \/ LookupGoesWrong(a)
    \/ \E l \in Links : Commands(l) \/ Expires(l)
    \/ \E f \in Flows : Opens(f) \/ Returns(f) \/ SetsUp(f) \/ SetupGoesWrong(f)
    \/ \E k \in Keys : CleansUp(k)
    \/ \E u \in Clicks : Uninstalls(u) \/ Disconnects(u) \/ DisconnectGoesWrong(u)
    \/ AppRemoved
    \/ EventArrives
    \/ \E j \in Jobs : Purges(j) \/ PurgeGoesWrong(j)
    \/ Reinstalled
    \/ \E t \in Tables : Writes(t)
    \/ ChangesAdmins
    \/ Transfers

\* A goroutine that has begun goes on, a timer fires, and Slack delivers an
\* event until it is taken.  Nobody has to open a link or click.
Fairness ==
    /\ \A a \in Actors : WF_vars(LooksUp(a))
    /\ \A f \in Flows : WF_vars(SetsUp(f))
    /\ \A u \in Clicks : WF_vars(Disconnects(u))
    /\ \A j \in Jobs : WF_vars(Purges(j))
    /\ WF_vars(EventArrives)

Spec == Init /\ [][Next]_vars /\ Fairness

-----------------------------------------------------------------------------

\* A lookup never answers with an older row than the last write its own
\* process had finished when it began: the detached fills, the strong-read
\* marker and the check of a cached key hold together, whatever the replica
\* lags.  A key kept because the check itself failed is exempt.  So is one that
\* strays: a check begun once its entry is gone is dropped by no later delete,
\* and if a setup caches the same ciphertext again after that delete, a lookup
\* joins the check and takes the verdict it had before.
NoOlderKey ==
    \A a \in Actors :
        /\ lookup[a].pc = "done"
        /\ lookup[a].result.status \in {"key", "none"}
        /\ ~lookup[a].fell /\ ~lookup[a].stray
        => lookup[a].result.ver >= lookup[a].floor

\* A link sets a workspace up once: of all the browsers that opened it one
\* callback at most goes past its consumption.
OneFlowPerLink ==
    \A f, g \in Flows :
        f # g /\ flow[f].user # "none" /\ flow[g].user # "none"
        => flow[f].link # flow[g].link

\* A key is replaced only once it is dead: no rotation leaves the workspace
\* with two live keys, whatever fails and however often it is tried.
NeverTwoKeys ==
    \A k \in Keys :
        keys[k].state = "live" /\ keys[k].old # 0
        => keys[keys[k].old].state = "revoked"

Stored(k) == \E f \in Flows : flow[f].key = k /\ flow[f].wrote # 0

\* What would find a live key again: the row, the setup that holds it, its
\* pending revocation, the binding or the rotation that replays it, or the
\* event, log or reply that gave it up.
Accounted(k) ==
    \/ row.key = k
    \/ \E f \in Flows : flow[f].key = k /\ flow[f].pc # "done"
    \/ k \in orphans \cup released
    \/ \E b \in binding : b.key = k
    \/ /\ keys[k].via = "replacement"
       /\ keys[k].old \in {0, row.key}

\* Nothing finds the replacement of key k again: k was given up, or a rotation
\* begun on another key was, or may have been, written over it.
Lost(k) ==
    \/ k \in released
    \/ \E f \in Flows : /\ flow[f].pc \in {"seed", "done"} /\ flow[f].key # 0
                         /\ Replacement(f) /\ flow[f].old # k

Outrun(k) == keys[k].via = "replacement" /\ Lost(keys[k].old)

\* No setup, rotation, conflict or failure makes a live key that is not stored
\* and that nobody could revoke any more.  (Not covered: one that was stored and
\* is written over by a rotation begun before it, the replacement of a key
\* without identity, which is replayed only while the row has none, and one
\* whose mint was answered too late: Outrun.)
KeysAccountedFor ==
    \A k \in Keys :
        /\ keys[k].state = "live"
        /\ keys[k].via # "none"
        /\ ~Stored(k)
        => Accounted(k) \/ Outrun(k)

TeardownTime(j) == IF j = "event" THEN removed ELSE Cutoff(j)

\* A purge, however late and however often retried, erases nothing stamped since
\* the teardown it is for: a bot token only for an app removed in Slack, and the
\* mapping, counters and policies only if no write has stamped them since.
\* (TransferOwnership writes the mapping without a stamp: PurgeSparesUpdated.
\* Agent state has none.)
PurgeSparesFresh ==
    [][/\ row.bot # 0 /\ row'.bot = 0 => removed > 0 /\ row.stamp <= removed
       /\ mapping.owner # "none" /\ mapping'.owner = "none"
              => \E j \in Jobs : /\ purge[j].pc # "idle"
                                 /\ mapping.stamp <= TeardownTime(j)
       /\ \A t \in Tables \ {"agent"} :
              tables[t] # 0 /\ tables'[t] = 0
              => \E j \in Jobs : /\ purge[j].pc # "idle"
                                 /\ tables[t] <= TeardownTime(j)]_vars

\* A purge erases the mapping only when it has not been updated since the
\* teardown, as deleteWorkspaceMapping's comment has it: no owner written since,
\* by a setup, a change of the admins or a transfer.
PurgeSparesUpdated ==
    [][mapping.owner # "none" /\ mapping'.owner = "none"
           => \E j \in Jobs : /\ purge[j].pc # "idle"
                              /\ mapping.updated <= TeardownTime(j)]_vars

Forgotten(stamp) == stamp = 0 \/ stamp > removed

AllForgotten == /\ Forgotten(row.stamp) /\ Forgotten(mapping.stamp)
                /\ \A t \in Tables : Forgotten(tables[t])

\* Once the app is removed everything older is erased, or an operator is told
\* to finish, unless a shutdown cut the purge short.
TeardownForgets ==
    removed > 0 ~> AllForgotten \/ purge["event"].pc \in {"cleanup", "aborted"}

Busy == \/ \E a \in Actors : lookup[a].pc \notin {"idle", "done"}
        \/ \E f \in Flows : flow[f].pc \notin {"idle", "callback", "done"}
        \/ \E u \in Clicks : click[u].pc \notin {"idle", "done"}

\* Every lookup, every setup that consumed its link and every uninstall comes
\* to an end, although they wait for each other's reads.  (There are finitely
\* many, so that none goes on for ever iff none is left again and again.)
RequestsEnd == []<>~Busy
=============================================================================
