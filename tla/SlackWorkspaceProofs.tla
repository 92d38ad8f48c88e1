------------------------ MODULE SlackWorkspaceProofs ------------------------
(***************************************************************************)
(* The safety of a workspace: for any number of processes, requests,       *)
(* setups, uninstalls, keys and scenarios, and any number of faults.       *)
(***************************************************************************)
EXTENDS SlackWorkspace, TLAPS

\* A fault of the agent is paid from the workspace's account of them, and the
\* bindings of Connector installs are written to its policies.
Spends == Faulty /\ UNCHANGED <<providerVars, setupVars, teardownVars>>
BindingWritten == /\ \E t \in Tables : TableWritten(t)
                  /\ NoFault \/ Faulty \/ Does("unset")
Moves == Next \/ Spends \/ BindingWritten

-----------------------------------------------------------------------------
(* Types, and what a flow, a lookup and a purge hold where.                *)

Before == {"idle", "callback"}

ShapedFlow(r) ==
    /\ r.pc \in Before => r.user = "none" /\ r.key = 0
    /\ r.pc = "callback" \/ r.user # "none" => r.link \in Links
    /\ r.pc \notin Before \cup {"done"} => r.user \in Users /\ r.acct \in Accounts
    /\ r.pc \in {"persist", "seed"} => r.key # 0
    /\ r.key = 0 => r.wrote = 0

FlowShape == \A f \in Flows : ShapedFlow(flow[f])

LinkShape == \A l \in Links : links[l].state \in {"minted", "started"}
                                  => links[l].user \in Users

ResultShape == \A a \in Actors : lookup[a].result.status = "key"
                                     => lookup[a].result.key # 0

PurgeShape == \A j \in Jobs : purge[j].pc = "wait"
                                  => purge[j].attempt < PurgeAttempts

ProviderInv == ProviderOK /\ ResultShape
SetupInv == SetupOK /\ FlowShape /\ LinkShape
TeardownInv == TeardownOK /\ PurgeShape
ScenarioOK == /\ scenario \in Scenarios
              /\ faults \in 0 .. scenario.faults
              /\ acts \subseteq Activities

TypeInv == ProviderInv /\ SetupInv /\ TeardownInv /\ ScenarioOK

\* Where anything starts.
LEMMA TypeBegins ==
    ASSUME Init
    PROVE  TypeInv
<1> DEFINE p0 == CHOOSE p \in Processes : TRUE
<1>0. p0 \in Processes
      BY ProviderAssumption
<1>1. /\ scenario \in Scenarios /\ scenario.owner \in Users
      /\ scenario.bindings \in BOOLEAN /\ scenario.faults \in Nat
      /\ scenario.acts \subseteq Activities
      /\ FirstAccount \in Accounts
  <2>1. scenario \in Scenarios
        BY DEF Init
  <2>2. scenario.signIn[scenario.owner] \subseteq Accounts
        BY <2>1, ScenarioAssumption
  <2>3. FirstAccount \in scenario.signIn[scenario.owner]
        BY <2>1, ScenarioAssumption DEF FirstAccount
  <2> QED BY <2>1, <2>2, <2>3, ScenarioAssumption DEF Activities, Tables
<1>2. /\ clock \in 0 .. 1 /\ (Configured <=> clock = 1)
      BY DEF Init
<1>3. /\ row \in Rows /\ row.ver <= clock /\ row.bot <= clock
      /\ row.stamp <= clock
      BY <1>1, <1>2, ProviderAssumption DEF Init, Rows, NoRow, Identified
<1>4. ProviderOK /\ ResultShape
  <2>1. replica \in [key : 0 .. MaxKeys, ver : 0 .. clock]
        BY <1>2, <1>3 DEF Init, Rows
  <2>2. NoLookup(p0) \in Lookups /\ NoLookup(p0).result.status = "error"
        BY <1>0, ProviderAssumption DEF NoLookup, Lookups, Failure, Results
  <2>3. cache \in [Processes -> [entry : SUBSET Entries, call : SUBSET Actors,
                                 gen : Nat]]
        BY DEF Init, EmptyCache
  <2>4. /\ strong \in [Processes -> SUBSET (0 .. clock)]
        /\ checking \in [Processes -> SUBSET Checks]
        /\ known \in [Processes -> 0 .. clock]
        BY <1>2 DEF Init
  <2>5. lookup = [a \in Actors |-> NoLookup(p0)]
        BY DEF Init
  <2>6. lookup \in [Actors -> Lookups]
        BY <2>2, <2>5
  <2>7. ResultShape
        BY <2>2, <2>5 DEF ResultShape
  <2>8. clock \in Nat
        BY <1>2
  <2> QED BY <1>3, <2>1, <2>3, <2>4, <2>6, <2>7, <2>8 DEF ProviderOK
<1>5. SetupOK /\ FlowShape /\ LinkShape
  <2>1. NoFlow \in FlowRows
        BY <1>0, ProviderAssumption DEF NoFlow, FlowRows, FlowPcs, Modes
  <2>2. flow = [f \in Flows |-> NoFlow] /\ links = [l \in Links |-> NoLink]
        BY DEF Init
  <2>3. keys \in [Keys -> KeyRows]
        BY <1>1, ProviderAssumption DEF Init, KeyRows, Unminted
  <2>4. binding \subseteq [acct : Accounts, key : Keys]
        BY <1>1, ProviderAssumption DEF Init, Keys
  <2>5. Owner \in Owners
        BY <1>1 DEF Owner, Owners
  <2>6. /\ mapping \in [owner : Owners, stamp : 0 .. clock, updated : 0 .. clock]
        /\ mapReplica \in Owners /\ bindings \in BOOLEAN
        /\ orphans \subseteq Keys /\ released \subseteq Keys
        BY <1>1, <1>2, <2>5 DEF Init, Mapped
  <2>7. NoLink \in LinkRows /\ NoLink.state = "none"
        BY DEF NoLink, LinkRows, Modes
  <2>8. flow \in [Flows -> FlowRows] /\ \A f \in Flows : flow[f].wrote <= clock
    <3>1. NoFlow.wrote = 0
          BY DEF NoFlow
    <3> HIDE DEF p0
    <3> QED BY <1>2, <2>1, <2>2, <3>1
  <2>10. SetupOK
        BY <2>2, <2>3, <2>4, <2>6, <2>7, <2>8 DEF SetupOK
  <2>9. FlowShape /\ LinkShape
        BY <2>2, <2>7 DEF FlowShape, ShapedFlow, LinkShape, NoFlow, Before
  <2> QED BY <2>9, <2>10
<1>6. TeardownOK /\ PurgeShape
  <2>1. NoPurge \in PurgeRows /\ NoClick \in ClickRows
        BY <1>0, TeardownAssumption DEF NoPurge, PurgeRows, NoClick, ClickRows
  <2>2. /\ NoPurge.pc = "idle" /\ NoPurge.cutoff = 0 /\ NoPurge.ver = 0
        /\ NoClick.ver = 0
        BY DEF NoPurge, NoClick
  <2>3. /\ purge = [j \in Jobs |-> NoPurge] /\ click = [u \in Clicks |-> NoClick]
        /\ tables = [t \in Tables |-> clock] /\ removed = 0 /\ told = FALSE
        BY DEF Init
  <2>4. PurgeShape
        BY <2>2, <2>3 DEF PurgeShape
  <2>5. tables \in [Tables -> 0 .. clock] /\ removed \in 0 .. clock
        BY <1>2, <2>3
  <2>6. /\ \A u \in Clicks : click[u] = NoClick
        /\ \A j \in Jobs : purge[j] = NoPurge
        BY <2>3
  <2>7. click \in [Clicks -> ClickRows] /\ purge \in [Jobs -> PurgeRows]
        BY <2>1, <2>3
  <2>8. /\ \A u \in Clicks : click[u].ver <= clock
        /\ \A j \in Jobs : purge[j].cutoff <= clock /\ purge[j].ver <= clock
        BY <1>2, <2>2, <2>6
  <2>9. told \in BOOLEAN
        BY <2>3
  <2> QED BY <2>4, <2>5, <2>7, <2>8, <2>9 DEF TeardownOK
<1>7. faults \in 0 .. scenario.faults /\ acts \subseteq Activities
      BY <1>1 DEF Init
<1> QED BY <1>1, <1>4, <1>5, <1>6, <1>7
        DEF TypeInv, ProviderInv, SetupInv, TeardownInv, ScenarioOK

-----------------------------------------------------------------------------
(* Lookups.                                                                *)

LEMMA LookKeepsTypes ==
    ASSUME ProviderInv, NEW a \in Actors, Look(a)
    PROVE  ProviderInv'
<1> DEFINE p == Proc(a)
<1>1. /\ lookup \in [Actors -> Lookups] /\ lookup[a] \in Lookups /\ p \in Processes
      /\ cache[p] \in [entry : SUBSET Entries, call : SUBSET Actors, gen : Nat]
      BY DEF ProviderInv, ProviderOK, Lookups, Proc
<1> HIDE DEF p
<1>2. PICK expired \in BOOLEAN, lapsed \in BOOLEAN :
        LET c == Swept(cache[p], expired)
            marker == IF lapsed THEN {} ELSE strong[p]
        IN /\ strong' = [strong EXCEPT ![p] = marker]
           /\ checking' = [checking EXCEPT ![p] = IF expired THEN {} ELSE @]
           /\ \/ /\ c.entry # {}
                 /\ cache' = [cache EXCEPT ![p] = c]
                 /\ lookup' = [lookup EXCEPT ![a].pc = "check",
                                  ![a].token = Cached(c).ver,
                                  ![a].result = Outcome(Cached(c).key,
                                                        Cached(c).ver)]
              \/ /\ c.entry = {} /\ c.call # {}
                 /\ cache' = [cache EXCEPT ![p] = c]
                 /\ lookup' = [lookup EXCEPT ![a].pc = "wait",
                                             ![a].on = c.call]
              \/ /\ c.entry = {} /\ c.call = {}
                 /\ cache' = [cache EXCEPT ![p] = Started(c, a)]
                 /\ lookup' = [lookup EXCEPT ![a].pc = "read",
                                             ![a].gen = c.gen,
                                             ![a].strong = (marker # {})]
      BY DEF Look, p
<1> DEFINE c == Swept(cache[p], expired)
           marker == IF lapsed THEN {} ELSE strong[p]
<1>3. c \in [entry : SUBSET Entries, call : SUBSET Actors, gen : Nat]
      BY <1>1 DEF Swept
<1>4. c.entry # {} => Cached(c) \in Entries
      BY <1>3 DEF Cached
<1>5. Started(c, a) \in [entry : SUBSET Entries, call : SUBSET Actors, gen : Nat]
      BY <1>3 DEF Started
<1>6. /\ strong' = [strong EXCEPT ![p] = marker]
      /\ checking' = [checking EXCEPT ![p] = IF expired THEN {} ELSE @]
      /\ UNCHANGED <<clock, row, replica, known>>
      BY <1>2 DEF Look
<1>7. CASE /\ c.entry # {}
           /\ cache' = [cache EXCEPT ![p] = c]
           /\ lookup' = [lookup EXCEPT ![a].pc = "check",
                            ![a].token = Cached(c).ver,
                            ![a].result = Outcome(Cached(c).key, Cached(c).ver)]
  <2> HIDE DEF c
  <2>1. /\ Cached(c).key \in 1 .. MaxKeys /\ Cached(c).ver \in Nat
        BY <1>4, <1>7 DEF Entries
  <2>2. Outcome(Cached(c).key, Cached(c).ver)
            = [status |-> "key", key |-> Cached(c).key, ver |-> Cached(c).ver]
        BY <2>1, ProviderAssumption DEF Outcome
  <2> DEFINE found == Outcome(Cached(c).key, Cached(c).ver)
             token == Cached(c).ver
  <2>a. found \in Results /\ token \in Nat
        BY <2>1, <2>2, ProviderAssumption DEF Results
  <2>b. lookup' = [lookup EXCEPT ![a].pc = "check", ![a].token = token,
                                 ![a].result = found]
        BY <1>7
  <2>3. lookup' \in [Actors -> Lookups]
    <3> HIDE DEF found, token
    <3> QED BY <1>1, <2>a, <2>b DEF Lookups
  <2>4. ResultShape'
        BY <1>1, <1>7, <2>1, <2>2, ProviderAssumption DEF ResultShape, ProviderInv
  <2> QED BY <1>1, <1>3, <1>6, <1>7, <2>3, <2>4 DEF ProviderInv, ProviderOK
<1>8. CASE /\ c.entry = {} /\ c.call # {}
           /\ cache' = [cache EXCEPT ![p] = c]
           /\ lookup' = [lookup EXCEPT ![a].pc = "wait", ![a].on = c.call]
  <2> HIDE DEF c
  <2>1. lookup' \in [Actors -> Lookups]
        BY <1>1, <1>3, <1>8 DEF Lookups
  <2>2. ResultShape'
        BY <1>1, <1>8 DEF ResultShape, ProviderInv
  <2> QED BY <1>1, <1>3, <1>6, <1>8, <2>1, <2>2 DEF ProviderInv, ProviderOK
<1>9. CASE /\ c.entry = {} /\ c.call = {}
           /\ cache' = [cache EXCEPT ![p] = Started(c, a)]
           /\ lookup' = [lookup EXCEPT ![a].pc = "read", ![a].gen = c.gen,
                                       ![a].strong = (marker # {})]
  <2> DEFINE direct == marker # {}
  <2>0. direct \in BOOLEAN
        OBVIOUS
  <2>a. lookup' = [lookup EXCEPT ![a].pc = "read", ![a].gen = c.gen,
                                 ![a].strong = direct]
        BY <1>9
  <2> HIDE DEF c, direct
  <2>1. lookup' \in [Actors -> Lookups]
        BY <1>1, <1>3, <2>0, <2>a DEF Lookups
  <2>2. ResultShape'
        BY <1>1, <1>9 DEF ResultShape, ProviderInv
  <2> QED BY <1>1, <1>5, <1>6, <1>9, <2>1, <2>2 DEF ProviderInv, ProviderOK
<1> QED BY <1>2, <1>7, <1>8, <1>9

\* Steps that change one lookup and nothing else.
LEMMA ReadsKeepTypes ==
    ASSUME ProviderInv, NEW a \in Actors,
           Read(a) \/ ReadFails(a) \/ Verify(a) \/ VerifyFails(a) \/ GivesUp(a)
    PROVE  ProviderInv'
<1>0. lookup[a] \in Lookups
      BY DEF ProviderInv, ProviderOK
<1>1. lookup \in [Actors -> Lookups] /\ ResultShape /\ ProviderOK
      BY DEF ProviderInv, ProviderOK
<1>2. /\ Failure \in Results /\ Failure.status = "error"
      /\ \A s \in {"error", "ctx"} :
            [Failure EXCEPT !.status = s] \in Results
      BY ProviderAssumption DEF Failure, Results
<1>3. \A k \in 0 .. MaxKeys, v \in Nat :
          /\ Outcome(k, v) \in Results
          /\ Outcome(k, v).status = "key" => Outcome(k, v).key # 0
      BY ProviderAssumption DEF Outcome, Results
<1>4. ASSUME NEW r \in Results, r.status = "key" => r.key # 0, HasRead(a, r)
      PROVE  ProviderInv'
  <2>1. lookup' \in [Actors -> Lookups]
    <3> DEFINE l == [lookup[a] EXCEPT !.pc = "finish", !.result = r]
    <3>1. l \in Lookups
          BY <1>0 DEF Lookups
    <3>2. lookup' = [lookup EXCEPT ![a] = l]
          BY <1>1, <1>4 DEF HasRead
    <3> QED BY <1>1, <3>1, <3>2
  <2>2. ResultShape'
        BY <1>1, <1>4 DEF HasRead, ResultShape
  <2> QED BY <1>1, <1>4, <2>1, <2>2 DEF HasRead, ProviderOK, ProviderInv
<1>5. ASSUME NEW v \in {"none", "current", "stale", "error", "ctx"},
             HasVerified(a, v)
      PROVE  ProviderInv'
  <2>1. lookup' \in [Actors -> Lookups]
    <3> DEFINE l == [lookup[a] EXCEPT !.pc = "answer", !.verdict = v]
    <3>1. l \in Lookups
          BY <1>0 DEF Lookups
    <3>2. lookup' = [lookup EXCEPT ![a] = l]
          BY <1>1, <1>5 DEF HasVerified
    <3> QED BY <1>1, <3>1, <3>2
  <2>2. ResultShape'
        BY <1>1, <1>5 DEF HasVerified, ResultShape
  <2> QED BY <1>1, <1>5, <2>1, <2>2 DEF HasVerified, ProviderOK, ProviderInv
<1>6. CASE Read(a)
  <2>1. /\ row.key \in 0 .. MaxKeys /\ row.ver \in Nat
        /\ replica.key \in 0 .. MaxKeys /\ replica.ver \in Nat
        BY <1>1 DEF ProviderOK, Rows
  <2> QED BY <1>3, <1>4, <1>6, <2>1 DEF Read
<1>7. CASE ReadFails(a)
      BY <1>2, <1>4, <1>7, Zenon DEF ReadFails, Failure
<1>8. CASE Verify(a)
      BY <1>5, <1>8 DEF Verify
<1>9. CASE VerifyFails(a)
      BY <1>5, <1>9 DEF VerifyFails
<1>10. CASE GivesUp(a)
  <2>1. lookup' \in [Actors -> Lookups]
    <3> DEFINE l == [lookup[a] EXCEPT !.pc = "done", !.on = {},
                                      !.result = Failure]
    <3>1. l \in Lookups
          BY <1>0, <1>2 DEF Lookups
    <3>2. lookup' = [lookup EXCEPT ![a] = l]
          BY <1>1, <1>10 DEF GivesUp
    <3> QED BY <1>1, <3>1, <3>2
  <2>2. ResultShape'
        BY <1>1, <1>2, <1>10 DEF GivesUp, ResultShape
  <2> QED BY <1>1, <1>10, <2>1, <2>2 DEF GivesUp, ProviderOK, ProviderInv
<1> QED BY <1>6, <1>7, <1>8, <1>9, <1>10

LEMMA ChecksKeepTypes ==
    ASSUME ProviderInv, NEW a \in Actors, Check(a) \/ Answer(a)
    PROVE  ProviderInv'
<1>1. /\ lookup \in [Actors -> Lookups] /\ lookup[a] \in Lookups
      /\ ResultShape /\ ProviderOK
      /\ Proc(a) \in Processes /\ checking \in [Processes -> SUBSET Checks]
      /\ checking[Proc(a)] \subseteq Checks
      BY DEF ProviderInv, ProviderOK, Proc, Lookups
<1>2. CASE Check(a)
  <2> DEFINE token == lookup[a].token
             same == {v \in checking[Proc(a)] : v.ver = token}
             strays == \E v \in same : Strays(v)
             held == Matches(cache[Proc(a)], token)
  <2>1. token \in Nat /\ strays \in BOOLEAN /\ held \in BOOLEAN
    <3>1. token \in Nat
          BY <1>1 DEF Lookups
    <3>2. strays \in BOOLEAN
          OBVIOUS
    <3>3. held \in BOOLEAN
          BY DEF Matches
    <3> QED BY <3>1, <3>2, <3>3
  <2>2. /\ {v.owner : v \in same} \subseteq Actors
        /\ [ver |-> token, owner |-> a, held |-> held] \in Checks
        BY <1>1, <2>1 DEF Checks
  <2>3. CASE /\ lookup' = [lookup EXCEPT ![a].pc = "join",
                               ![a].on = {v.owner : v \in same},
                               ![a].stray = strays]
             /\ UNCHANGED checking
    <3> DEFINE owners == {v.owner : v \in same}
    <3> HIDE DEF strays, owners
    <3>1. lookup' \in [Actors -> Lookups]
      <4>1. owners \subseteq Actors
            BY <2>2 DEF owners
      <4>2. lookup' = [lookup EXCEPT ![a].pc = "join", ![a].on = owners,
                                     ![a].stray = strays]
            BY <2>3 DEF owners
      <4> QED BY <1>1, <2>1, <4>1, <4>2 DEF Lookups
    <3>2. ResultShape'
      <4> HIDE DEF same, strays
      <4>1. \A b \in Actors : lookup'[b].result = lookup[b].result
            BY <1>1, <2>3 DEF Lookups
      <4> QED BY <1>1, <4>1 DEF ResultShape
    <3> QED BY <1>1, <1>2, <2>3, <3>1, <3>2 DEF Check, ProviderOK, ProviderInv
  <2>4. CASE /\ checking' = [checking EXCEPT ![Proc(a)] =
                               {[ver |-> token, owner |-> a, held |-> held]}]
             /\ lookup' = [lookup EXCEPT ![a].pc = "verify"]
    <3> HIDE DEF held, token
    <3>1. lookup' \in [Actors -> Lookups]
          BY <1>1, <2>4 DEF Lookups
    <3>2. ResultShape'
          BY <1>1, <2>4 DEF ResultShape
    <3>3. checking' \in [Processes -> SUBSET Checks]
          BY <1>1, <2>2, <2>4
    <3> QED BY <1>1, <1>2, <3>1, <3>2, <3>3 DEF Check, ProviderOK, ProviderInv
  <2> QED BY <1>2, <2>3, <2>4 DEF Check
<1>3. CASE Answer(a)
  <2>1. /\ lookup' = [b \in Actors |->
                        IF b = a \/ Waiting(a, b)
                            THEN [lookup[b] EXCEPT !.pc = "judge", !.on = {},
                                     !.verdict = lookup[a].verdict]
                            ELSE lookup[b]]
        /\ checking' = [checking EXCEPT ![Proc(a)] = {v \in @ : v.owner # a}]
        BY <1>3 DEF Answer
  <2>2. \A b \in Actors : [lookup[b] EXCEPT !.pc = "judge", !.on = {},
                              !.verdict = lookup[a].verdict] \in Lookups
        BY ZenonT(30), <1>1 DEF Lookups
  <2>3. lookup' \in [Actors -> Lookups]
        BY <1>1, <2>1, <2>2
  <2>4. ResultShape'
        BY <1>1, <2>1 DEF ResultShape, Lookups
  <2>5. checking' \in [Processes -> SUBSET Checks]
        BY <1>1, <2>1
  <2> QED BY <1>1, <1>3, <2>3, <2>4, <2>5 DEF Answer, ProviderOK, ProviderInv
<1> QED BY <1>2, <1>3

Caches == [entry : SUBSET Entries, call : SUBSET Actors, gen : Nat]

\* What the steps of a lookup make of it.
LEMMA LookupEdits ==
    ASSUME NEW r \in Lookups, NEW x \in Results
    PROVE  /\ [r EXCEPT !.pc = "done"] \in Lookups
           /\ [r EXCEPT !.pc = "done"].result = r.result
           /\ [r EXCEPT !.pc = "done", !.fell = TRUE] \in Lookups
           /\ [r EXCEPT !.pc = "done", !.fell = TRUE].result = r.result
           /\ [r EXCEPT !.pc = "look", !.retried = 1, !.stray = FALSE] \in Lookups
           /\ [r EXCEPT !.pc = "look", !.retried = 1, !.stray = FALSE].result = r.result
           /\ [r EXCEPT !.pc = "look", !.on = {}, !.shared = 1] \in Lookups
           /\ [r EXCEPT !.pc = "look", !.on = {}, !.shared = 1].result = r.result
           /\ [r EXCEPT !.pc = "done", !.on = {}, !.result = x] \in Lookups
           /\ [r EXCEPT !.pc = "done", !.on = {}, !.result = x].result = x
<1>1. [r EXCEPT !.pc = "done"] \in Lookups
      BY DEF Lookups
<1>2. [r EXCEPT !.pc = "done", !.fell = TRUE] \in Lookups
      BY DEF Lookups
<1>a. \A n \in 0 .. 1 : /\ [r EXCEPT !.pc = "look", !.retried = n,
                                      !.stray = FALSE] \in Lookups
                        /\ [r EXCEPT !.pc = "look", !.on = {}, !.shared = n]
                              \in Lookups
  <2> TAKE n \in 0 .. 1
  <2>1. [r EXCEPT !.pc = "look", !.retried = n, !.stray = FALSE] \in Lookups
        BY DEF Lookups
  <2>2. [r EXCEPT !.pc = "look", !.on = {}, !.shared = n] \in Lookups
        BY DEF Lookups
  <2> QED BY <2>1, <2>2
<1>3. [r EXCEPT !.pc = "look", !.retried = 1, !.stray = FALSE] \in Lookups
      BY <1>a
<1>4. [r EXCEPT !.pc = "look", !.on = {}, !.shared = 1] \in Lookups
      BY <1>a
<1>5. [r EXCEPT !.pc = "done", !.on = {}, !.result = x] \in Lookups
      BY DEF Lookups
<1>6. DOMAIN r = DOMAIN [pc |-> 0, proc |-> 0, on |-> 0, gen |-> 0,
        strong |-> 0, token |-> 0, verdict |-> 0, result |-> 0, rechecks |-> 0,
        shared |-> 0, retried |-> 0, floor |-> 0, fell |-> 0, stray |-> 0]
      BY DEF Lookups
<1> QED BY <1>1, <1>2, <1>3, <1>4, <1>5, <1>6

LEMMA JudgeKeepsTypes ==
    ASSUME ProviderInv, NEW a \in Actors, Judge(a)
    PROVE  ProviderInv'
<1> DEFINE l == lookup[a]
           p == Proc(a)
           local == Matches(cache[p], l.token)
           evicts == l.verdict = "stale" /\ local
           again == [l EXCEPT !.verdict = "none"]
           retries == l.verdict = "ctx" /\ l.retried = 0
           next == CASE retries -> [again EXCEPT !.pc = "look", !.retried = 1,
                                                 !.stray = FALSE]
                     [] l.verdict = "current" /\ local -> [l EXCEPT !.pc = "done"]
                     [] l.verdict \in {"ctx", "error"} /\ local /\ ~retries
                          -> [l EXCEPT !.pc = "done", !.fell = TRUE]
                     [] OTHER -> Recheck(again)
<1>1. /\ lookup \in [Actors -> Lookups] /\ l \in Lookups /\ p \in Processes
      /\ cache \in [Processes -> Caches] /\ cache[p] \in Caches
      /\ ResultShape /\ ProviderOK
      BY DEF ProviderInv, ProviderOK, Proc, Lookups, Caches
<1>2. /\ cache' = [cache EXCEPT ![p] = IF evicts THEN InvalidatedIf(@, l.token)
                                                 ELSE @]
      /\ strong' = [strong EXCEPT ![p] = IF evicts THEN {row.ver} ELSE @]
      /\ checking' = [checking EXCEPT ![p] = IF evicts THEN {} ELSE @]
      /\ lookup' = [lookup EXCEPT ![a] = next]
      /\ UNCHANGED <<clock, row, replica, known>>
      BY DEF Judge
<1>3. /\ next \in Lookups
      /\ next.result.status = "key" => next.result.key # 0
  <2>1. l.result.status = "key" => l.result.key # 0
        BY <1>1 DEF ResultShape
  <2>2. /\ again \in Lookups /\ again.result = l.result
        /\ again.rechecks = l.rechecks
    <3> HIDE DEF l
    <3> QED BY <1>1 DEF Lookups
  <2>3. \A r \in Lookups :
            /\ [r EXCEPT !.pc = "look", !.retried = 1, !.stray = FALSE] \in Lookups
            /\ [r EXCEPT !.pc = "done"] \in Lookups
            /\ [r EXCEPT !.pc = "done", !.fell = TRUE] \in Lookups
            /\ [r EXCEPT !.pc = "look", !.retried = 1, !.stray = FALSE].result
                   = r.result
            /\ [r EXCEPT !.pc = "done"].result = r.result
            /\ [r EXCEPT !.pc = "done", !.fell = TRUE].result = r.result
    <3>1. Failure \in Results
          BY ProviderAssumption DEF Failure, Results
    <3> QED BY <3>1, LookupEdits
  <2>4. /\ Recheck(again) \in Lookups
        /\ Recheck(again).result \in {Failure, again.result}
    <3>1. Failure \in Results
          BY ProviderAssumption DEF Failure, Results
    <3> HIDE DEF again
    <3>2. CASE again.rechecks >= RecheckLimit
      <4>1. Recheck(again) = [again EXCEPT !.pc = "done", !.result = Failure]
            BY <3>2 DEF Recheck
      <4> QED BY <2>2, <3>1, <4>1 DEF Lookups
    <3>3. CASE ~(again.rechecks >= RecheckLimit)
      <4>1. Recheck(again) = [again EXCEPT !.pc = "look", !.rechecks = @ + 1,
                                           !.stray = FALSE]
            BY <3>3 DEF Recheck
      <4>2. again.rechecks + 1 \in 0 .. RecheckLimit
            BY <2>2, <3>3, ProviderAssumption DEF Lookups
      <4> QED BY <2>2, <4>1, <4>2 DEF Lookups
    <3> QED BY <3>2, <3>3
  <2>5. Failure.status = "error"
        BY DEF Failure
  <2>6. /\ next \in Lookups
        /\ next.result \in {Failure, l.result}
    <3> HIDE DEF l, again, local
    <3> QED BY <1>1, <2>2, <2>3, <2>4
  <2> QED BY <2>1, <2>5, <2>6
<1>4. lookup' \in [Actors -> Lookups] /\ ResultShape'
  <2> HIDE DEF next, l
  <2> QED BY <1>1, <1>2, <1>3 DEF ResultShape
<1>5. /\ cache' \in [Processes -> Caches]
      /\ checking' \in [Processes -> SUBSET Checks]
      /\ strong' \in [Processes -> SUBSET (0 .. clock)]
  <2>1. InvalidatedIf(cache[p], l.token) \in Caches
        BY <1>1 DEF InvalidatedIf, Invalidated, Caches
  <2>2. row.ver \in 0 .. clock
        BY <1>1 DEF ProviderOK, Rows
  <2> HIDE DEF evicts, l, p
  <2> QED BY <1>1, <1>2, <2>1, <2>2 DEF ProviderOK
<1> QED BY <1>1, <1>2, <1>4, <1>5 DEF ProviderOK, ProviderInv, Caches

LEMMA FinishKeepsTypes ==
    ASSUME ProviderInv, NEW a \in Actors, Finish(a)
    PROVE  ProviderInv'
<1> DEFINE l == lookup[a]
           p == Proc(a)
           kept == IF l.result.status = "key"
                       THEN {[key |-> l.result.key, ver |-> l.result.ver,
                              at |-> row.ver]}
                       ELSE {}
<1>1. /\ lookup \in [Actors -> Lookups] /\ l \in Lookups /\ p \in Processes
      /\ l.result \in Results
      /\ cache \in [Processes -> Caches] /\ cache[p] \in Caches
      /\ checking \in [Processes -> SUBSET Checks]
      /\ ResultShape /\ ProviderOK
      BY DEF ProviderInv, ProviderOK, Proc, Lookups, Caches
<1>2. /\ cache' = [cache EXCEPT ![p] = Finished(@, a, kept, l.gen)]
      /\ lookup' = [b \in Actors |->
                       CASE b = a         -> [l EXCEPT !.pc = "done"]
                         [] b \in {c \in Actors : Waiting(a, c)}
                                          -> Shared(lookup[b], l.result)
                         [] OTHER         -> lookup[b]]
      /\ checking' = [checking EXCEPT ![p] =
                         IF cache'[p].entry # cache[p].entry THEN Unchecked(p)
                                                             ELSE @]
      /\ UNCHANGED <<clock, row, replica, strong, known>>
      BY DEF Finish, Releases
<1>3. kept \subseteq Entries
  <2>1. l.result.status = "key" => l.result.key \in 1 .. MaxKeys
        BY <1>1, ProviderAssumption DEF ResultShape, Results
  <2>2. row.ver \in Nat /\ l.result.ver \in Nat
        BY <1>1 DEF ProviderOK, Rows, Results
  <2> QED BY <2>1, <2>2 DEF Entries
<1>4. cache' \in [Processes -> Caches]
  <2>1. Finished(cache[p], a, kept, l.gen) \in Caches
    <3> HIDE DEF kept, l
    <3> QED BY <1>1, <1>3 DEF Finished, Caches
  <2> HIDE DEF kept, l, p
  <2> QED BY <1>1, <1>2, <2>1
<1>5. checking' \in [Processes -> SUBSET Checks]
  <2>1. Unchecked(p) \subseteq Checks
        BY <1>1 DEF Unchecked
  <2> HIDE DEF kept, l, p
  <2> QED BY <1>1, <1>2, <2>1
<1>6. /\ lookup' \in [Actors -> Lookups]
      /\ \A b \in Actors : lookup'[b].result \in {lookup[b].result, l.result}
  <2>1. \A r \in Lookups, x \in Results :
            /\ [r EXCEPT !.pc = "done"] \in Lookups
            /\ [r EXCEPT !.pc = "done"].result = r.result
            /\ [r EXCEPT !.pc = "look", !.on = {}, !.shared = 1] \in Lookups
            /\ [r EXCEPT !.pc = "look", !.on = {}, !.shared = 1].result = r.result
            /\ [r EXCEPT !.pc = "done", !.on = {}, !.result = x] \in Lookups
            /\ [r EXCEPT !.pc = "done", !.on = {}, !.result = x].result = x
        BY LookupEdits
  <2>2. \A r \in Lookups : /\ Shared(r, l.result) \in Lookups
                           /\ Shared(r, l.result).result \in {r.result, l.result}
        BY <1>1, <2>1 DEF Shared
  <2> HIDE DEF l
  <2>3. \A b \in Actors : /\ lookup'[b] \in Lookups
                          /\ lookup'[b].result \in {lookup[b].result, l.result}
        BY <1>1, <1>2, <2>1, <2>2 DEF l
  <2> QED BY <1>2, <2>3
<1>7. ResultShape'
      BY <1>1, <1>6 DEF ResultShape
<1> HIDE DEF l, p, kept
<1> QED BY <1>1, <1>2, <1>4, <1>5, <1>6, <1>7 DEF ProviderOK, ProviderInv, Caches

\* A lookup begins, ends and is taken, and a process caches a key or drops it.
LEMMA CallsKeepTypes ==
    ASSUME ProviderInv,
           \/ \E a \in Actors, p \in Processes : LookupBegins(a, p)
           \/ ReplicaCatchesUp
           \/ \E a \in Actors :
                 /\ LookupTaken(a)
                 /\ UNCHANGED <<clock, row, replica, cache, strong, checking, known>>
    PROVE  ProviderInv'
<1>1. /\ lookup \in [Actors -> Lookups] /\ ResultShape /\ ProviderOK
      /\ \A a \in Actors : Proc(a) \in Processes
      BY DEF ProviderInv, ProviderOK, Lookups, Proc
<1>2. \A p \in Processes : /\ NoLookup(p) \in Lookups
                           /\ NoLookup(p).result.status = "error"
      BY ProviderAssumption DEF NoLookup, Lookups, Failure, Results
<1>3. ASSUME NEW a \in Actors, NEW p \in Processes, LookupBegins(a, p)
      PROVE  ProviderInv'
  <2> DEFINE l == [NoLookup(p) EXCEPT !.pc = "look", !.floor = known[p]]
  <2>1. known[p] \in Nat
        BY <1>1 DEF ProviderOK
  <2>2. l \in Lookups /\ l.result.status = "error"
        BY ZenonT(30), <1>2, <2>1 DEF Lookups
  <2>3. lookup' = [lookup EXCEPT ![a] = l]
        BY <1>3 DEF LookupBegins
  <2>4. lookup' \in [Actors -> Lookups] /\ ResultShape'
    <3> HIDE DEF l
    <3> QED BY <1>1, <2>2, <2>3 DEF ResultShape
  <2> QED BY <1>1, <1>3, <2>4 DEF LookupBegins, ProviderOK, ProviderInv
<1>4. CASE ReplicaCatchesUp
  <2>1. replica' \in [key : 0 .. MaxKeys, ver : 0 .. clock]
        BY <1>1, <1>4 DEF ReplicaCatchesUp, Catches, ProviderOK, Rows
  <2> QED BY <1>1, <1>4, <2>1 DEF ReplicaCatchesUp, ProviderOK, ProviderInv,
          ResultShape
<1>5. ASSUME NEW a \in Actors, LookupTaken(a),
             UNCHANGED <<clock, row, replica, cache, strong, checking, known>>
      PROVE  ProviderInv'
  <2>1. lookup' \in [Actors -> Lookups] /\ ResultShape'
        BY <1>1, <1>2, <1>5 DEF LookupTaken, ResultShape
  <2> QED BY <1>1, <1>5, <2>1 DEF ProviderOK, ProviderInv
<1> QED BY <1>3, <1>4, <1>5

LEMMA CachingKeepsTypes ==
    ASSUME ProviderInv, NEW p \in Processes, UNCHANGED <<clock, row, replica, lookup>>,
           NEW ver \in 0 .. clock,
           \/ ForgetKey(p, ver)
           \/ \E k \in 1 .. MaxKeys : SeedKey(p, k, ver)
    PROVE  ProviderInv'
<1>1. /\ cache \in [Processes -> Caches] /\ cache[p] \in Caches
      /\ checking \in [Processes -> SUBSET Checks]
      /\ known \in [Processes -> 0 .. clock]
      /\ strong \in [Processes -> SUBSET (0 .. clock)]
      /\ ResultShape /\ ProviderOK /\ clock \in Nat /\ row.ver \in 0 .. clock
      BY DEF ProviderInv, ProviderOK, Caches, Rows
<1>2. Unchecked(p) \subseteq Checks
      BY <1>1 DEF Unchecked
<1>3. Invalidated(cache[p]) \in Caches
      BY <1>1 DEF Invalidated, Caches
<1>4. ASSUME NEW k \in 1 .. MaxKeys
      PROVE  Seeded(cache[p], [key |-> k, ver |-> ver, at |-> row.ver]) \in Caches
  <2>1. [key |-> k, ver |-> ver, at |-> row.ver] \in Entries
        BY <1>1 DEF Entries
  <2> QED BY <1>3, <2>1 DEF Seeded, Caches
<1>5. /\ cache' \in [Processes -> Caches]
      /\ strong' \in [Processes -> SUBSET (0 .. clock)]
      /\ checking' \in [Processes -> SUBSET Checks]
      /\ known' \in [Processes -> 0 .. clock]
  <2>1. CASE ForgetKey(p, ver)
        BY <1>1, <1>2, <1>3, <2>1 DEF ForgetKey
  <2>2. ASSUME NEW k \in 1 .. MaxKeys, SeedKey(p, k, ver)
        PROVE  /\ cache' \in [Processes -> Caches]
               /\ strong' \in [Processes -> SUBSET (0 .. clock)]
               /\ checking' \in [Processes -> SUBSET Checks]
               /\ known' \in [Processes -> 0 .. clock]
    <3> DEFINE e == [key |-> k, ver |-> ver, at |-> row.ver]
    <3>1. cache' = [cache EXCEPT ![p] = Seeded(@, e)]
          BY <2>2 DEF SeedKey
    <3>2. cache' \in [Processes -> Caches]
          BY <1>1, <1>4, <3>1
    <3> HIDE DEF e
    <3>3. known' = [known EXCEPT ![p] = IF ver > @ THEN ver ELSE @]
          BY <2>2 DEF SeedKey
    <3>4. /\ strong' = [strong EXCEPT ![p] = {}]
          /\ checking' = [checking EXCEPT ![p] = Unchecked(p)]
          BY <2>2 DEF SeedKey
    <3>5. known' \in [Processes -> 0 .. clock]
          BY <1>1, <3>3
    <3>6. /\ strong' \in [Processes -> SUBSET (0 .. clock)]
          /\ checking' \in [Processes -> SUBSET Checks]
          BY <1>1, <1>2, <3>4
    <3> QED BY <3>2, <3>5, <3>6
  <2> QED BY <2>1, <2>2
<1> QED BY <1>1, <1>5 DEF ProviderOK, ProviderInv, ResultShape, Caches

\* The row is written at the next time, or only time goes on.
LEMMA WritesKeepTypes ==
    ASSUME ProviderInv, row' \in Rows,
           clock' = clock + 1 \/ clock' = clock,
           row'.ver <= clock', row'.bot <= clock', row'.stamp <= clock',
           UNCHANGED <<replica, cache, strong, checking, known, lookup>>
    PROVE  ProviderInv'
<1>1. clock \in Nat /\ clock' \in Nat /\ 0 .. clock \subseteq 0 .. clock'
      BY DEF ProviderInv, ProviderOK
<1>2. /\ replica' \in [key : 0 .. MaxKeys, ver : 0 .. clock']
      /\ strong' \in [Processes -> SUBSET (0 .. clock')]
      /\ known' \in [Processes -> 0 .. clock']
      BY <1>1 DEF ProviderInv, ProviderOK
<1> QED BY <1>1, <1>2 DEF ProviderInv, ProviderOK, ResultShape

\* The writes there are.
LEMMA StampsAreRows ==
    ASSUME ProviderInv
    PROVE  /\ \A k \in 0 .. MaxKeys, acct \in Accounts :
                  StoreKey(k, acct) =>
                      /\ clock' = clock + 1 /\ row' \in Rows /\ row'.ver = clock + 1
                      /\ row'.bot <= clock' /\ row'.stamp = clock + 1
                      /\ row'.key = k /\ row'.ident /\ row'.acct = acct
                      /\ row'.bot = row.bot
           /\ ClearKey =>
                  /\ clock' = clock + 1 /\ row' \in Rows /\ row'.ver = clock + 1
                  /\ row'.bot <= clock' /\ row'.stamp = clock + 1
                  /\ row'.key = 0 /\ ~row'.ident /\ row'.bot = row.bot
           /\ StoreBotToken =>
                  /\ clock' = clock + 1 /\ row' \in Rows /\ row'.ver = row.ver
                  /\ row'.bot = clock + 1 /\ row'.stamp = clock + 1
                  /\ row'.key = row.key /\ row'.ident = row.ident
                  /\ row'.acct = row.acct
           /\ \A cutoff \in Nat :
                  DeleteRow(cutoff) =>
                      /\ clock' = clock + 1 \/ UNCHANGED <<clock, row>>
                      /\ row' \in Rows
                      /\ clock' = clock + 1 => /\ row'.ver = clock + 1
                                               /\ row'.bot = 0 /\ row'.stamp = 0
                                               /\ row'.key = 0 /\ ~row'.ident
                      /\ row.stamp <= cutoff
<1>1. /\ clock \in Nat /\ row \in Rows
      /\ row.ver <= clock /\ row.bot <= clock /\ row.stamp <= clock
      /\ row.bot \in Nat
      BY DEF ProviderInv, ProviderOK, Rows
<1>2. ASSUME NEW k \in 0 .. MaxKeys, NEW acct \in Accounts, StoreKey(k, acct)
      PROVE  /\ clock' = clock + 1 /\ row' \in Rows /\ row'.ver = clock + 1
             /\ row'.bot <= clock' /\ row'.stamp = clock + 1
             /\ row'.key = k /\ row'.ident /\ row'.acct = acct
             /\ row'.bot = row.bot
  <2> DEFINE now == clock + 1
  <2>1. now \in Nat
        BY <1>1
  <2>2. /\ clock' = now
        /\ row' = [row EXCEPT !.key = k, !.ident = TRUE, !.acct = acct,
                              !.ver = now, !.stamp = now]
        BY <1>1, <1>2 DEF StoreKey, Stamped, Rows
  <2> HIDE DEF now
  <2>3. /\ row' \in Rows /\ row'.ver = now /\ row'.stamp = now /\ row'.key = k
        /\ row'.ident /\ row'.acct = acct /\ row'.bot = row.bot
        BY <1>1, <2>1, <2>2 DEF Rows
  <2> QED BY <1>1, <2>2, <2>3 DEF now
<1>3. ASSUME ClearKey
      PROVE  /\ clock' = clock + 1 /\ row' \in Rows /\ row'.ver = clock + 1
             /\ row'.bot <= clock' /\ row'.stamp = clock + 1
             /\ row'.key = 0 /\ ~row'.ident /\ row'.bot = row.bot
  <2> DEFINE now == clock + 1
  <2>1. now \in Nat
        BY <1>1
  <2>2. /\ clock' = now
        /\ row' = [row EXCEPT !.key = 0, !.ident = FALSE, !.acct = "none",
                              !.ver = now, !.stamp = now]
        BY <1>1, <1>3 DEF ClearKey, Stamped, Rows
  <2> HIDE DEF now
  <2>3. row' = [key |-> 0, ident |-> FALSE, acct |-> "none", ver |-> now,
                bot |-> row.bot, stamp |-> now]
        BY <1>1, <2>2 DEF Rows
  <2>4. /\ row' \in Rows /\ row'.ver = now /\ row'.stamp = now /\ row'.key = 0
        /\ ~row'.ident /\ row'.bot = row.bot
        BY <1>1, <2>1, <2>3, ProviderAssumption DEF Rows
  <2> QED BY <1>1, <2>2, <2>4 DEF now
<1>4. ASSUME StoreBotToken
      PROVE  /\ clock' = clock + 1 /\ row' \in Rows /\ row'.ver = row.ver
             /\ row'.bot = clock + 1 /\ row'.stamp = clock + 1
             /\ row'.key = row.key /\ row'.ident = row.ident
             /\ row'.acct = row.acct
  <2> DEFINE now == clock + 1
  <2>1. now \in Nat
        BY <1>1
  <2>2. clock' = now /\ row' = [row EXCEPT !.bot = now, !.stamp = now]
        BY <1>1, <1>4 DEF StoreBotToken, Stamped, Rows
  <2> HIDE DEF now
  <2>3. /\ row' \in Rows /\ row'.ver = row.ver /\ row'.stamp = now
        /\ row'.bot = now /\ row'.key = row.key /\ row'.ident = row.ident
        /\ row'.acct = row.acct
        BY <1>1, <2>1, <2>2 DEF Rows
  <2> QED BY <2>2, <2>3 DEF now
<1>5. ASSUME NEW cutoff \in Nat, DeleteRow(cutoff)
      PROVE  /\ clock' = clock + 1 \/ UNCHANGED <<clock, row>>
             /\ row' \in Rows
             /\ clock' = clock + 1 => /\ row'.ver = clock + 1
                                      /\ row'.bot = 0 /\ row'.stamp = 0
                                      /\ row'.key = 0 /\ ~row'.ident
             /\ row.stamp <= cutoff
  <2>1. \A now \in Nat : /\ [NoRow EXCEPT !.ver = now] \in Rows
                         /\ [NoRow EXCEPT !.ver = now].ver = now
                         /\ [NoRow EXCEPT !.ver = now].bot = 0
                         /\ [NoRow EXCEPT !.ver = now].stamp = 0
                         /\ [NoRow EXCEPT !.ver = now].key = 0
                         /\ ~[NoRow EXCEPT !.ver = now].ident
    <3> TAKE now \in Nat
    <3>1. /\ NoRow \in Rows /\ NoRow.bot = 0 /\ NoRow.stamp = 0
          /\ NoRow.key = 0 /\ NoRow.ident = FALSE
          BY ProviderAssumption DEF NoRow, Rows
    <3>2. [NoRow EXCEPT !.ver = now] \in Rows
          BY <3>1 DEF Rows
    <3> QED BY <3>1, <3>2 DEF Rows
  <2>2. row.stamp <= cutoff
        BY <1>5 DEF DeleteRow, MayDelete
  <2>3. CASE UNCHANGED <<clock, row>>
        BY <1>1, <2>2, <2>3
  <2>4. CASE clock' = clock + 1 /\ row' = [NoRow EXCEPT !.ver = clock + 1]
        BY <1>1, <2>1, <2>2, <2>4
  <2> QED BY <1>5, <2>3, <2>4 DEF DeleteRow
<1> QED BY <1>2, <1>3, <1>4, <1>5

-----------------------------------------------------------------------------
(* Setups.                                                                 *)

LEMMA SetupRests ==
    ASSUME SetupInv, UNCHANGED setupVars, clock \in Nat, clock' \in Nat,
           clock <= clock'
    PROVE  SetupInv'
<1>1. mapping' \in [owner : Owners, stamp : 0 .. clock', updated : 0 .. clock']
      BY DEF SetupInv, SetupOK, setupVars
<1>2. \A f \in Flows : flow'[f].wrote <= clock'
      BY DEF SetupInv, SetupOK, setupVars, FlowRows
<1> QED BY <1>1, <1>2 DEF SetupInv, SetupOK, setupVars, FlowShape, LinkShape

LEMMA TeardownRests ==
    ASSUME TeardownInv, UNCHANGED teardownVars, clock \in Nat, clock' \in Nat,
           clock <= clock'
    PROVE  TeardownInv'
<1>1. 0 .. clock \subseteq 0 .. clock'
      OBVIOUS
<1>2. tables' \in [Tables -> 0 .. clock'] /\ removed' \in 0 .. clock'
      BY <1>1 DEF TeardownInv, TeardownOK, teardownVars
<1>3. /\ \A u \in Clicks : click'[u].ver <= clock'
      /\ \A j \in Jobs : purge'[j].cutoff <= clock' /\ purge'[j].ver <= clock'
      BY DEF TeardownInv, TeardownOK, teardownVars, ClickRows, PurgeRows
<1> QED BY <1>2, <1>3 DEF TeardownInv, TeardownOK, teardownVars, PurgeShape

\* What a step may make of a flow, and of the rest of a setup.
LEMMA FlowMoves ==
    ASSUME SetupInv, clock \in Nat, clock' \in Nat, clock <= clock',
           NEW f \in Flows, NEW g \in FlowRows, ShapedFlow(g), g.wrote <= clock',
           flow' = [flow EXCEPT ![f] = g],
           links' \in [Links -> LinkRows], LinkShape',
           mapping' \in [owner : Owners, stamp : 0 .. clock', updated : 0 .. clock'],
           UNCHANGED <<mapReplica, bindings>>,
           keys' \in [Keys -> KeyRows],
           binding' \subseteq [acct : Accounts, key : Keys],
           orphans' \subseteq Keys, released' \subseteq Keys
    PROVE  SetupInv'
<1>1. flow \in [Flows -> FlowRows] /\ \A h \in Flows : flow[h].wrote <= clock
      BY DEF SetupInv, SetupOK
<1>2. flow' \in [Flows -> FlowRows]
      BY <1>1
<1>3. \A h \in Flows : flow'[h].wrote <= clock'
      BY <1>1 DEF FlowRows
<1>4. FlowShape'
      BY <1>1 DEF SetupInv, FlowShape
<1> QED BY <1>2, <1>3, <1>4 DEF SetupInv, SetupOK

\* Nothing but the flow.
LEMMA FlowAlone ==
    ASSUME SetupInv, clock \in Nat, clock' \in Nat, clock <= clock',
           NEW f \in Flows, NEW g \in FlowRows, ShapedFlow(g), g.wrote <= clock',
           flow' = [flow EXCEPT ![f] = g], Unminting
    PROVE  SetupInv'
<1>1. mapping' \in [owner : Owners, stamp : 0 .. clock', updated : 0 .. clock']
      BY DEF SetupInv, SetupOK, Unminting
<1> QED BY <1>1, FlowMoves DEF SetupInv, SetupOK, LinkShape, Unminting

\* A flow past its callback that goes on, or ends.
Midway == FlowPcs \ {"idle", "start", "callback", "persist", "seed"}

LEMMA FlowGoesOn ==
    ASSUME NEW r \in FlowRows, ShapedFlow(r), r.pc \notin Before,
           NEW pc \in Midway, pc = "done" \/ r.pc # "done"
    PROVE  /\ [r EXCEPT !.pc = pc] \in FlowRows
           /\ ShapedFlow([r EXCEPT !.pc = pc])
           /\ [r EXCEPT !.pc = pc].wrote = r.wrote
           /\ \A k \in 0 .. MaxKeys :
                 /\ [r EXCEPT !.pc = pc, !.old = k] \in FlowRows
                 /\ ShapedFlow([r EXCEPT !.pc = pc, !.old = k])
                 /\ [r EXCEPT !.pc = pc, !.old = k].wrote = r.wrote
<1>1. pc \in FlowPcs /\ pc \notin Before /\ pc \notin {"persist", "seed"}
      BY DEF Midway, FlowPcs, Before
<1>2. ASSUME NEW g \in FlowRows, g.pc = pc, g.user = r.user, g.key = r.key,
             g.link = r.link, g.acct = r.acct, g.wrote = r.wrote
      PROVE  ShapedFlow(g)
      BY <1>1, <1>2 DEF ShapedFlow, Before
<1>3. /\ [r EXCEPT !.pc = pc] \in FlowRows
      /\ ShapedFlow([r EXCEPT !.pc = pc])
      /\ [r EXCEPT !.pc = pc].wrote = r.wrote
  <2> DEFINE g == [r EXCEPT !.pc = pc]
  <2>1. g \in FlowRows
        BY <1>1 DEF FlowRows
  <2>2. /\ g.pc = pc /\ g.user = r.user /\ g.key = r.key
        /\ g.link = r.link /\ g.acct = r.acct /\ g.wrote = r.wrote
        BY DEF FlowRows
  <2> QED BY <1>2, <2>1, <2>2
<1>4. ASSUME NEW k \in 0 .. MaxKeys
      PROVE  /\ [r EXCEPT !.pc = pc, !.old = k] \in FlowRows
             /\ ShapedFlow([r EXCEPT !.pc = pc, !.old = k])
             /\ [r EXCEPT !.pc = pc, !.old = k].wrote = r.wrote
  <2> DEFINE g == [r EXCEPT !.pc = pc, !.old = k]
  <2>1. g \in FlowRows
        BY <1>1 DEF FlowRows
  <2>2. /\ g.pc = pc /\ g.user = r.user /\ g.key = r.key
        /\ g.link = r.link /\ g.acct = r.acct /\ g.wrote = r.wrote
        BY DEF FlowRows
  <2> QED BY <1>2, <2>1, <2>2
<1> QED BY <1>3, <1>4

LEMMA GoesKeepsTypes ==
    ASSUME SetupInv, clock \in Nat, clock' \in Nat, clock <= clock',
           NEW f \in Flows, flow[f].pc \notin Before,
           NEW pc \in Midway, pc = "done" \/ flow[f].pc # "done",
           \/ Goes(f, pc)
           \/ \E k \in 0 .. MaxKeys :
                 flow' = [flow EXCEPT ![f].pc = pc, ![f].old = k],
           Unminting
    PROVE  SetupInv'
<1> DEFINE r == flow[f]
<1>1. /\ flow \in [Flows -> FlowRows] /\ r \in FlowRows /\ ShapedFlow(r)
      /\ r.wrote <= clock /\ r.wrote \in Nat
      BY DEF SetupInv, SetupOK, FlowShape, FlowRows
<1>2. CASE Goes(f, pc)
  <2> DEFINE g == [r EXCEPT !.pc = pc]
  <2>1. g \in FlowRows /\ ShapedFlow(g) /\ g.wrote <= clock'
    <3>1. r.pc \notin Before /\ (pc = "done" \/ r.pc # "done")
          OBVIOUS
    <3>2. g \in FlowRows /\ ShapedFlow(g) /\ g.wrote = r.wrote
      <4> HIDE DEF r
      <4> QED BY <1>1, <3>1, FlowGoesOn
    <3> HIDE DEF g
    <3> QED BY <1>1, <3>2
  <2>2. flow' = [flow EXCEPT ![f] = g]
        BY <1>1, <1>2 DEF Goes
  <2> HIDE DEF g
  <2> QED BY <2>1, <2>2, FlowAlone
<1>3. ASSUME NEW k \in 0 .. MaxKeys,
             flow' = [flow EXCEPT ![f].pc = pc, ![f].old = k]
      PROVE  SetupInv'
  <2> DEFINE g == [r EXCEPT !.pc = pc, !.old = k]
  <2>1. g \in FlowRows /\ ShapedFlow(g) /\ g.wrote <= clock'
    <3>1. r.pc \notin Before /\ (pc = "done" \/ r.pc # "done")
          OBVIOUS
    <3>2. g \in FlowRows /\ ShapedFlow(g) /\ g.wrote = r.wrote
      <4> HIDE DEF r
      <4> QED BY ZenonT(30), <1>1, <3>1, FlowGoesOn
    <3> HIDE DEF g
    <3> QED BY <1>1, <3>2
  <2>2. flow' = [flow EXCEPT ![f] = g]
        BY <1>1, <1>3
  <2> HIDE DEF g
  <2> QED BY <2>1, <2>2, FlowAlone
<1> QED BY <1>2, <1>3

LEMMA LinksKeepTypes ==
    ASSUME SetupInv, UNCHANGED clock, clock \in Nat,
           \/ MappingCatchesUp
           \/ \E l \in Links, user \in Users, mode \in Modes :
                  MintLink(l, user, mode)
           \/ \E l \in Links : LinkExpires(l)
           \/ \E f \in Flows, l \in Links, p \in Processes : StartLink(f, l, p)
           \/ \E f \in Flows, acct \in Accounts : Consume(f, acct)
    PROVE  SetupInv'
<1>1. /\ links \in [Links -> LinkRows] /\ flow \in [Flows -> FlowRows]
      /\ mapping \in [owner : Owners, stamp : 0 .. clock, updated : 0 .. clock]
      /\ FlowShape /\ LinkShape /\ SetupOK
      BY DEF SetupInv, SetupOK
<1>2. CASE MappingCatchesUp
  <2>1. mapReplica' \in Owners
        BY <1>1, <1>2 DEF MappingCatchesUp
  <2> QED BY <1>1, <1>2, <2>1 DEF MappingCatchesUp, SetupInv, SetupOK,
          FlowShape, LinkShape
<1>3. ASSUME NEW l \in Links, NEW user \in Users, NEW mode \in Modes,
             MintLink(l, user, mode)
      PROVE  SetupInv'
  <2>1. links' = [links EXCEPT ![l] = [state |-> "minted", user |-> user,
                                       mode |-> mode]]
        BY <1>3 DEF MintLink
  <2>2. links' \in [Links -> LinkRows] /\ LinkShape'
        BY <1>1, <2>1 DEF LinkRows, LinkShape
  <2> QED BY <1>1, <1>3, <2>2 DEF MintLink, SetupInv, SetupOK, FlowShape
<1>4. ASSUME NEW l \in Links, LinkExpires(l)
      PROVE  SetupInv'
  <2>1. links' = [links EXCEPT ![l].state = "expired"]
        BY <1>4 DEF LinkExpires
  <2>2. links' \in [Links -> LinkRows] /\ LinkShape'
        BY <1>1, <2>1 DEF LinkRows, LinkShape
  <2> QED BY <1>1, <1>4, <2>2 DEF LinkExpires, SetupInv, SetupOK, FlowShape
<1>5. ASSUME NEW f \in Flows, NEW l \in Links, NEW p \in Processes,
             StartLink(f, l, p)
      PROVE  SetupInv'
  <2> DEFINE g == [NoFlow EXCEPT !.pc = "callback", !.proc = p, !.link = l]
  <2>1. NoFlow \in FlowRows /\ NoFlow.user = "none" /\ NoFlow.key = 0
            /\ NoFlow.wrote = 0
        BY ProviderAssumption DEF NoFlow, FlowRows, FlowPcs, Modes
  <2>2. g \in FlowRows /\ ShapedFlow(g) /\ g.wrote = 0
        BY <2>1 DEF FlowRows, FlowPcs, ShapedFlow, Before
  <2>3. links' = [links EXCEPT ![l].state = "started"]
        /\ flow' = [flow EXCEPT ![f] = g]
        /\ links[l].state \in {"minted", "started"}
        BY <1>5 DEF StartLink
  <2>4. links' \in [Links -> LinkRows] /\ LinkShape'
        BY <1>1, <2>3 DEF LinkRows, LinkShape
  <2>5. /\ UNCHANGED <<mapping, mapReplica, keys, bindings, binding, orphans,
                        released>>
        BY <1>5 DEF StartLink
  <2>6. /\ mapping' \in [owner : Owners, stamp : 0 .. clock', updated : 0 .. clock']
        /\ keys' \in [Keys -> KeyRows]
        /\ binding' \subseteq [acct : Accounts, key : Keys]
        /\ orphans' \subseteq Keys /\ released' \subseteq Keys
        BY <1>1, <2>5 DEF SetupOK
  <2>7. clock' \in Nat /\ clock <= clock' /\ g.wrote <= clock'
        BY <2>2
  <2> HIDE DEF g
  <2> QED BY <2>2, <2>3, <2>4, <2>5, <2>6, <2>7, FlowMoves
<1>6. ASSUME NEW f \in Flows, NEW acct \in Accounts, Consume(f, acct)
      PROVE  SetupInv'
  <2> DEFINE l == flow[f].link
             r == flow[f]
  <2>1. /\ r \in FlowRows /\ r.pc = "callback" /\ l \in Links
        /\ r.key = 0 /\ r.wrote = 0 /\ r.user = "none"
        BY <1>1, <1>6 DEF Consume, In, FlowShape, ShapedFlow, FlowRows, Before
  <2>2. links[l] \in LinkRows
        BY <1>1, <2>1
  <2>3. PICK g \in FlowRows :
            /\ ShapedFlow(g) /\ g.wrote = 0
            /\ flow' = [flow EXCEPT ![f] = g]
    <3>1. CASE Ends(f)
      <4> DEFINE g == [r EXCEPT !.pc = "done"]
      <4>1. g \in FlowRows
            BY <2>1 DEF FlowRows, FlowPcs
      <4>2. /\ g.pc = "done" /\ g.user = "none" /\ g.key = 0 /\ g.wrote = 0
            BY <2>1 DEF FlowRows
      <4>3. flow' = [flow EXCEPT ![f] = g]
            BY <1>1, <3>1 DEF Ends, Goes
      <4>4. ShapedFlow(g)
            BY <4>2 DEF ShapedFlow, Before
      <4> HIDE DEF g
      <4> QED BY <4>1, <4>2, <4>3, <4>4
    <3>2. CASE Consumed(f, acct) /\ links[l].state = "started"
      <4> DEFINE user == links[l].user
                 mode == links[l].mode
                 g == [r EXCEPT !.pc = "bind", !.user = user, !.mode = mode,
                                !.acct = acct]
      <4>1. user \in Users /\ mode \in Modes
            BY <1>1, <2>1, <2>2, <3>2 DEF LinkShape, LinkRows
      <4>2. flow' = [flow EXCEPT ![f] = g]
            BY <1>1, <3>2 DEF Consumed
      <4> HIDE DEF user, mode, r
      <4>3. g \in FlowRows
            BY <2>1, <4>1 DEF FlowRows, FlowPcs
      <4>4. /\ g.pc = "bind" /\ g.user = user /\ g.acct = acct /\ g.key = 0
            /\ g.wrote = 0 /\ g.link = r.link
            BY <2>1 DEF FlowRows
      <4>5. r.link \in Links
            BY <2>1 DEF r
      <4> HIDE DEF g
      <4>6. ShapedFlow(g)
            BY <4>1, <4>4, <4>5 DEF ShapedFlow, Before
      <4> QED BY <4>2, <4>3, <4>4, <4>6
    <3> QED BY <1>6, <3>1, <3>2 DEF Consume
  <2>4. links' \in [Links -> LinkRows] /\ LinkShape'
    <3>1. CASE links' = [links EXCEPT ![l].state = "used"]
          BY <1>1, <2>1, <3>1 DEF LinkRows, LinkShape
    <3>2. CASE UNCHANGED links
          BY <1>1, <3>2 DEF LinkShape
    <3> QED BY <1>6, <3>1, <3>2 DEF Consume
  <2>5. /\ UNCHANGED <<mapping, mapReplica, keys, bindings, binding, orphans,
                        released>>
        BY <1>6 DEF Consume
  <2>6. /\ mapping' \in [owner : Owners, stamp : 0 .. clock', updated : 0 .. clock']
        /\ keys' \in [Keys -> KeyRows]
        /\ binding' \subseteq [acct : Accounts, key : Keys]
        /\ orphans' \subseteq Keys /\ released' \subseteq Keys
        BY <1>1, <2>5 DEF SetupOK
  <2>7. clock' \in Nat /\ clock <= clock' /\ g.wrote <= clock'
        BY <2>3
  <2> QED BY <2>3, <2>4, <2>5, <2>6, <2>7, FlowMoves
<1> QED BY <1>2, <1>3, <1>4, <1>5, <1>6

\* A flow is somewhere past its callback, and goes somewhere past it.
LEMMA FlowsAreRows ==
    ASSUME SetupInv, NEW f \in Flows
    PROVE  /\ flow \in [Flows -> FlowRows] /\ flow[f] \in FlowRows
           /\ ShapedFlow(flow[f]) /\ flow[f].wrote <= clock /\ flow[f].wrote \in Nat
           /\ flow[f].pc \notin Before \cup {"done"}
                 => flow[f].user \in Users /\ flow[f].acct \in Accounts
           /\ flow[f].pc \in {"persist", "seed"}
                 => flow[f].key \in Keys
<1>1. /\ flow \in [Flows -> FlowRows] /\ flow[f] \in FlowRows
      /\ ShapedFlow(flow[f]) /\ flow[f].wrote <= clock
      BY DEF SetupInv, SetupOK, FlowShape
<1>2. flow[f].wrote \in Nat /\ flow[f].key \in 0 .. MaxKeys
      BY <1>1 DEF FlowRows
<1> QED BY <1>1, <1>2, ProviderAssumption DEF ShapedFlow, Keys

LEMMA OwnerKeepsTypes ==
    ASSUME ProviderInv, SetupInv, NEW f \in Flows, OwnerStep(f)
    PROVE  ProviderInv' /\ SetupInv' /\ clock' \in Nat /\ clock <= clock'
<1>1. /\ clock \in Nat /\ SetupOK /\ LinkShape /\ LinkShape'
      /\ links' \in [Links -> LinkRows] /\ keys' \in [Keys -> KeyRows]
      /\ binding' \subseteq [acct : Accounts, key : Keys]
      /\ orphans' \subseteq Keys /\ released' \subseteq Keys
      /\ UNCHANGED <<mapReplica, bindings>>
      /\ UNCHANGED <<row, replica, cache, strong, checking, known, lookup>>
      BY DEF ProviderInv, ProviderOK, SetupInv, SetupOK, LinkShape, OwnerStep,
             Bind, Disambiguate, Reclaim
<1>2. flow[f].pc \in {"bind", "whose", "reclaim"}
      BY DEF OwnerStep, Bind, Disambiguate, Reclaim, In
<1>3. clock' \in Nat /\ clock <= clock'
      BY <1>1 DEF OwnerStep, Bind, Disambiguate, Reclaim, Bound, MappingKept
<1>4. mapping' \in [owner : Owners, stamp : 0 .. clock', updated : 0 .. clock']
  <2>1. CASE Bound(f)
    <3>1. flow[f].user \in Owners
          BY <1>2, FlowsAreRows DEF Before, Owners
    <3> QED BY <1>1, <2>1, <3>1 DEF Bound, Mapped
  <2>2. CASE MappingKept
        BY <1>1, <2>2 DEF SetupOK, MappingKept
  <2> QED BY <2>1, <2>2 DEF OwnerStep, Bind, Disambiguate, Reclaim
<1>5. PICK pc \in Midway : Goes(f, pc)
      BY Zenon DEF OwnerStep, Bind, Disambiguate, Reclaim, Bound, Ends, Midway,
         FlowPcs
<1>6. ProviderInv'
  <2>1. clock' = clock + 1 \/ clock' = clock
        BY DEF OwnerStep, Bind, Disambiguate, Reclaim, Bound, MappingKept
  <2>2. /\ row' \in Rows /\ row'.ver <= clock' /\ row'.bot <= clock'
        /\ row'.stamp <= clock'
        BY <1>1, <1>3 DEF ProviderInv, ProviderOK, Rows
  <2> QED BY <1>1, <2>1, <2>2, WritesKeepTypes
<1>7. PICK g \in FlowRows : /\ ShapedFlow(g) /\ g.wrote <= clock'
                            /\ flow' = [flow EXCEPT ![f] = g]
  <2> DEFINE g == [flow[f] EXCEPT !.pc = pc]
  <2>1. flow' = [flow EXCEPT ![f] = g]
        BY <1>5, FlowsAreRows DEF Goes
  <2>2. flow[f].pc \notin Before /\ flow[f].pc # "done"
        BY <1>2 DEF Before
  <2>3. g \in FlowRows /\ ShapedFlow(g) /\ g.wrote = flow[f].wrote
        BY <2>2, FlowsAreRows, FlowGoesOn
  <2>4. g.wrote <= clock'
        BY <1>1, <1>3, <2>3, FlowsAreRows
  <2> HIDE DEF g
  <2> QED BY <2>1, <2>3, <2>4
<1> QED BY <1>1, <1>3, <1>4, <1>6, <1>7, FlowMoves

LEMMA KeyStepKeepsTypes ==
    ASSUME ProviderInv, SetupInv, NEW f \in Flows,
           \/ Ensures(f) \/ TakesKey(f) \/ Validate(f) \/ Identify(f)
           \/ Identity(f) \/ Confirm(f) \/ FlowFails(f) \/ RevokeFails(f)
    PROVE  ProviderInv' /\ SetupInv' /\ clock' = clock
<1>1. clock \in Nat /\ SetupOK /\ row.key \in 0 .. MaxKeys
      BY DEF ProviderInv, ProviderOK, SetupInv, Rows
<1>2. f \in Actors /\ flow[f].proc \in Processes
      BY ActorsAssumption, FlowsAreRows DEF FlowRows
<1>3. clock' = clock /\ ProviderInv'
  <2>1. CASE UNCHANGED providerVars
        BY <2>1 DEF providerVars, ProviderInv, ProviderOK, ResultShape
  <2>2. CASE LookupBegins(f, flow[f].proc)
        BY <1>2, <2>2, CallsKeepTypes DEF LookupBegins
  <2>3. CASE TakesKey(f)
        BY <1>2, <2>3, CallsKeepTypes DEF TakesKey
  <2> QED BY <2>1, <2>2, <2>3
          DEF Ensures, Validate, Identify, Identity, Confirm, FlowFails, RevokeFails
<1>4. flow[f].pc \notin Before \cup {"done"} /\ Unminting
      BY DEF Ensures, TakesKey, Validate, Identify, Identity, Confirm, FlowFails,
             RevokeFails, In, Before
<1>5. \E pc \in Midway :
          \/ Goes(f, pc)
          \/ \E k \in 0 .. MaxKeys :
                 flow' = [flow EXCEPT ![f].pc = pc, ![f].old = k]
  <2>1. CASE Ensures(f)
        BY <2>1 DEF Ensures, Midway, FlowPcs
  <2>2. CASE TakesKey(f)
    <3> DEFINE found == lookup[f].result
               pc == CASE found.status = "none" -> "mint"
                       [] found.status = "key"  -> "validate"
                       [] OTHER                 -> "done"
    <3>1. found.key \in 0 .. MaxKeys
          BY <1>2 DEF ProviderInv, ProviderOK, Lookups, Results
    <3>2. pc \in Midway
          BY DEF Midway, FlowPcs
    <3>3. flow' = [flow EXCEPT ![f].pc = pc, ![f].old = found.key]
          BY <2>2 DEF TakesKey
    <3> HIDE DEF pc, found
    <3> QED BY <3>1, <3>2, <3>3
  <2>3. CASE Validate(f)
        BY <2>3 DEF Validate, Midway, FlowPcs
  <2>4. CASE Identify(f)
        BY <2>4 DEF Identify, Midway, FlowPcs
  <2>5. CASE Identity(f)
    <3> DEFINE mode == flow[f].mode
               other == row.acct # "none" /\ row.acct # flow[f].acct
               blank == mode = "repoint" /\ (row.acct = "none" \/ ~row.ident)
               refused == row.key # 0 /\ (other \/ blank)
               pc == CASE row.key = 0                           -> "mint"
                       [] refused                               -> "done"
                       [] row.key # 0 /\ row.ident /\ ~refused  -> "revoke"
                       [] OTHER                                 -> "replace"
               k == IF row.key # 0 /\ row.ident THEN row.key ELSE 0
    <3>1. pc \in Midway
      <4> HIDE DEF refused, other, blank
      <4> QED BY DEF Midway, FlowPcs
    <3>2. k \in 0 .. MaxKeys
          BY <1>1, ProviderAssumption
    <3>3. flow' = [flow EXCEPT ![f].pc = pc, ![f].old = k]
          BY <2>5 DEF Identity
    <3> HIDE DEF pc, k
    <3> QED BY <3>1, <3>2, <3>3
  <2>6. CASE Confirm(f)
        BY <2>6 DEF Confirm, Midway, FlowPcs
  <2>7. CASE FlowFails(f) \/ RevokeFails(f)
        BY <2>7 DEF FlowFails, RevokeFails, Ends, Midway, FlowPcs
  <2> QED BY <2>1, <2>2, <2>3, <2>4, <2>5, <2>6, <2>7
<1> QED BY <1>1, <1>3, <1>4, <1>5, GoesKeepsTypes

LEMMA KeysAreRows ==
    ASSUME SetupInv
    PROVE  /\ \A k : Revoked(k) => keys' \in [Keys -> KeyRows]
           /\ \A k \in Keys, acct \in Accounts, old \in 0 .. MaxKeys,
                 via \in {"binding", "legacy", "replacement"} :
                  Made(k, acct, via, old) => keys' \in [Keys -> KeyRows]
<1>1. keys \in [Keys -> KeyRows]
      BY DEF SetupInv, SetupOK
<1>2. ASSUME NEW k, Revoked(k)
      PROVE  keys' \in [Keys -> KeyRows]
  <2>1. CASE k \in Keys
        BY <1>1, <1>2, <2>1 DEF Revoked, KeyRows
  <2>2. CASE k \notin Keys
        BY <1>1, <1>2, <2>2 DEF Revoked
  <2> QED BY <2>1, <2>2
<1>3. ASSUME NEW k \in Keys, NEW acct \in Accounts, NEW old \in 0 .. MaxKeys,
             NEW via \in {"binding", "legacy", "replacement"},
             Made(k, acct, via, old)
      PROVE  keys' \in [Keys -> KeyRows]
  <2>1. [state |-> "live", acct |-> acct, via |-> via, old |-> old] \in KeyRows
        BY DEF KeyRows
  <2> QED BY <1>1, <1>3, <2>1 DEF Made
<1> QED BY <1>2, <1>3

LEMMA RevokeKeepsTypes ==
    ASSUME ProviderInv, SetupInv, NEW f \in Flows, Revoke(f) \/ RevokeReplyLost(f)
    PROVE  ProviderInv' /\ SetupInv' /\ clock' = clock
<1>1. PICK then \in Midway, otherwise \in Midway : RevokeHeld(f, then, otherwise)
      BY DEF Revoke, RevokeReplyLost, Midway, FlowPcs
<1>2. clock \in Nat /\ clock' = clock /\ ProviderInv'
      BY <1>1 DEF RevokeHeld, providerVars, ProviderInv, ProviderOK, ResultShape
<1>3. PICK pc \in Midway : Goes(f, pc)
      BY <1>1 DEF RevokeHeld
<1>4. PICK g \in FlowRows : /\ ShapedFlow(g) /\ g.wrote <= clock'
                            /\ flow' = [flow EXCEPT ![f] = g]
  <2> DEFINE g == [flow[f] EXCEPT !.pc = pc]
  <2>1. flow' = [flow EXCEPT ![f] = g]
        BY <1>3, FlowsAreRows DEF Goes
  <2>2. flow[f].pc \notin Before /\ flow[f].pc # "done"
        BY <1>1 DEF Before, RevokeHeld, In
  <2>3. g \in FlowRows /\ ShapedFlow(g) /\ g.wrote = flow[f].wrote
        BY <2>2, FlowsAreRows, FlowGoesOn
  <2>4. g.wrote <= clock'
        BY <1>2, <2>3, FlowsAreRows
  <2> HIDE DEF g
  <2> QED BY <2>1, <2>3, <2>4
<1>5. /\ links' \in [Links -> LinkRows] /\ LinkShape'
      /\ mapping' \in [owner : Owners, stamp : 0 .. clock', updated : 0 .. clock']
      /\ UNCHANGED <<mapReplica, bindings>>
      /\ binding' \subseteq [acct : Accounts, key : Keys]
      /\ orphans' \subseteq Keys /\ released' \subseteq Keys
      BY <1>1, <1>2 DEF RevokeHeld, SetupInv, SetupOK, LinkShape
<1>6. keys' \in [Keys -> KeyRows]
      BY <1>1, KeysAreRows DEF RevokeHeld, SetupInv, SetupOK
<1>7. clock' \in Nat /\ clock <= clock'
      BY <1>2
<1> QED BY <1>2, <1>4, <1>5, <1>6, <1>7, FlowMoves

LEMMA OrphanKeepsTypes ==
    ASSUME ProviderInv, SetupInv, NEW k \in Keys, NEW refused \in BOOLEAN,
           RevokeOrphan(k, refused)
    PROVE  ProviderInv' /\ SetupInv' /\ clock' = clock
<1>1. clock \in Nat /\ clock' = clock /\ ProviderInv'
      BY DEF RevokeOrphan, providerVars, ProviderInv, ProviderOK, ResultShape
<1>2. keys' \in [Keys -> KeyRows]
      BY KeysAreRows DEF RevokeOrphan, SetupInv, SetupOK
<1>3. orphans' \subseteq Keys /\ released' \subseteq Keys
      BY DEF RevokeOrphan, SetupInv, SetupOK
<1> QED BY <1>1, <1>2, <1>3 DEF RevokeOrphan, SetupInv, SetupOK, FlowShape,
        LinkShape

\* A mint: from where, of which key, and what qurl-service keeps of it.
LEMMA MintsKeepTypes ==
    ASSUME ProviderInv, SetupInv, NEW f \in Flows,
           Mint(f) \/ MintReplacement(f) \/ MintReplyLost(f)
    PROVE  ProviderInv' /\ SetupInv' /\ clock' = clock
<1>1. /\ clock \in Nat /\ clock' = clock /\ ProviderInv'
      /\ clock' \in Nat /\ clock <= clock'
  <2>1. UNCHANGED providerVars
        BY DEF Mint, MintReplacement, MintReplyLost
  <2>2. clock \in Nat /\ clock' = clock /\ ProviderInv'
        BY <2>1 DEF providerVars, ProviderInv, ProviderOK, ResultShape
  <2> QED BY <2>2
<1>2. /\ flow[f] \in FlowRows /\ ShapedFlow(flow[f]) /\ flow[f].wrote <= clock
      /\ flow[f].pc \in {"mint", "replace"} /\ flow[f].acct \in Accounts
      /\ flow[f].old \in 0 .. MaxKeys /\ flow[f].wrote \in Nat
      /\ flow[f].user \in Users /\ flow[f].link \in Links
      /\ flow \in [Flows -> FlowRows]
  <2>1. flow[f].pc \in {"mint", "replace"}
        BY DEF Mint, MintReplacement, MintReplyLost, Binds, MintsLegacy, Replaces,
               In
  <2>2. flow[f].user \in Users /\ flow[f].acct \in Accounts
        BY <2>1, FlowsAreRows DEF Before
  <2>3. flow[f].user # "none"
        BY <2>2, SetupAssumption
  <2> QED BY <2>1, <2>2, <2>3, FlowsAreRows DEF FlowRows, ShapedFlow
<1>3. /\ links' \in [Links -> LinkRows] /\ LinkShape'
      /\ mapping' \in [owner : Owners, stamp : 0 .. clock', updated : 0 .. clock']
      /\ UNCHANGED <<mapReplica, bindings>>
      /\ orphans' \subseteq Keys
      BY <1>1 DEF Mint, MintReplacement, MintReplyLost, SetupInv, SetupOK, LinkShape
<1> DEFINE Kept == /\ keys' \in [Keys -> KeyRows]
                   /\ binding' \subseteq [acct : Accounts, key : Keys]
<1>4. Kept
  <2>1. keys \in [Keys -> KeyRows] /\ binding \subseteq [acct : Accounts, key : Keys]
        BY DEF SetupInv, SetupOK
  <2>2. 0 \in 0 .. MaxKeys
        BY ProviderAssumption
  <2>3. ASSUME NEW k \in Keys, Binds(f, k)
        PROVE  Kept
        BY <1>2, <2>1, <2>2, <2>3, KeysAreRows DEF Binds
  <2>4. ASSUME NEW k \in Keys, MintsLegacy(f, k)
        PROVE  Kept
        BY <1>2, <2>1, <2>2, <2>4, KeysAreRows DEF MintsLegacy
  <2>5. ASSUME NEW k \in Keys, Replaces(f, k), UNCHANGED binding
        PROVE  Kept
        BY <1>2, <2>1, <2>5, KeysAreRows DEF Replaces, Held
  <2> QED BY <2>1, <2>3, <2>4, <2>5 DEF Mint, MintReplacement, MintReplyLost
<1>5. released' \subseteq Keys
      BY DEF Mint, MintReplacement, MintReplyLost, SetupInv, SetupOK
<1>6. \E g \in FlowRows : /\ ShapedFlow(g) /\ g.wrote <= clock'
                          /\ flow' = [flow EXCEPT ![f] = g]
  <2>1. CASE Ends(f)
    <3> DEFINE g == [flow[f] EXCEPT !.pc = "done"]
    <3>1. g \in FlowRows /\ ShapedFlow(g) /\ g.wrote = flow[f].wrote
          BY <1>2, FlowGoesOn DEF Before, Midway, FlowPcs
    <3>2. flow' = [flow EXCEPT ![f] = g]
          BY <1>2, <2>1 DEF Ends, Goes
    <3> HIDE DEF g
    <3> QED BY <1>1, <1>2, <3>1, <3>2
  <2>2. ASSUME NEW k \in Keys, NEW backed \in BOOLEAN, Minted(f, k, backed)
        PROVE  <1>6
    <3> DEFINE r == flow[f]
               g == [r EXCEPT !.pc = "persist", !.key = k, !.backed = backed]
    <3>0. k \in 0 .. MaxKeys /\ k # 0 /\ "persist" \in FlowPcs
          BY ProviderAssumption DEF Keys, FlowPcs
    <3>1. flow' = [flow EXCEPT ![f] = g]
          BY <1>2, <2>2 DEF Minted
    <3>a. /\ r \in FlowRows /\ r.user \in Users /\ r.acct \in Accounts
          /\ r.link \in Links /\ r.wrote <= clock
          BY <1>2
    <3> HIDE DEF r
    <3>2. g \in FlowRows
          BY <3>0, <3>a DEF FlowRows
    <3>3. /\ g.pc = "persist" /\ g.key = k /\ g.user = r.user /\ g.acct = r.acct
          /\ g.link = r.link /\ g.wrote = r.wrote
          BY <3>a DEF FlowRows
    <3> HIDE DEF g
    <3>4. ShapedFlow(g)
          BY <3>0, <3>a, <3>3 DEF ShapedFlow, Before
    <3> QED BY <1>1, <3>1, <3>2, <3>3, <3>4, <3>a
  <2> QED BY <2>1, <2>2 DEF Mint, MintReplacement, MintReplyLost, SetupInv, SetupOK
<1> QED BY <1>1, <1>3, <1>4, <1>5, <1>6, FlowMoves

LEMMA StoresKeepTypes ==
    ASSUME ProviderInv, SetupInv, NEW f \in Flows,
           Persist(f) \/ PersistFails(f) \/ Seeds(f)
    PROVE  ProviderInv' /\ SetupInv' /\ clock' \in Nat /\ clock <= clock'
<1> DEFINE r == flow[f]
<1>1. /\ clock \in Nat /\ SetupOK /\ LinkShape
      /\ flow \in [Flows -> FlowRows] /\ r \in FlowRows /\ ShapedFlow(r)
      /\ r.wrote <= clock /\ r.wrote \in Nat
      /\ r.pc \in {"persist", "seed"} /\ r.key \in Keys /\ r.acct \in Accounts
      /\ r.user \in Users
  <2>1. r.pc \in {"persist", "seed"}
        BY DEF Persist, PersistFails, Seeds, In
  <2> QED BY <2>1, FlowsAreRows DEF ProviderInv, ProviderOK, SetupInv, Before
<1>2. ASSUME StoreKey(r.key, r.acct),
             UNCHANGED <<replica, cache, strong, checking, known, lookup>>
      PROVE  ProviderInv' /\ clock' = clock + 1
  <2>1. r.key \in 0 .. MaxKeys
        BY <1>1, ProviderAssumption DEF Keys
  <2>2. /\ clock' = clock + 1 /\ row' \in Rows /\ row'.ver = clock + 1
        /\ row'.bot <= clock' /\ row'.stamp = clock + 1
        BY <1>1, <1>2, <2>1, StampsAreRows
  <2> QED BY <1>1, <1>2, <2>2, WritesKeepTypes
<1>3. ProviderInv' /\ clock' \in Nat /\ clock <= clock'
  <2>1. CASE StoreKey(r.key, r.acct) /\ PersistKept
        BY <1>1, <1>2, <2>1 DEF PersistKept
  <2>2. CASE UNCHANGED <<clock, row>> /\ PersistKept
        BY <1>1, <2>2 DEF PersistKept, ProviderInv, ProviderOK, ResultShape
  <2>3. CASE Seeds(f)
    <3>1. r.proc \in Processes /\ r.key \in 1 .. MaxKeys /\ r.wrote \in 0 .. clock
          BY <1>1 DEF FlowRows, Keys
    <3> QED BY <1>1, <2>3, <3>1, CachingKeepsTypes DEF Seeds
  <2> QED BY <2>1, <2>2, <2>3 DEF Persist, PersistFails, Stores
<1>4. /\ links' \in [Links -> LinkRows] /\ LinkShape'
      /\ UNCHANGED <<mapReplica, bindings>>
      /\ keys' \in [Keys -> KeyRows]
      /\ binding' \subseteq [acct : Accounts, key : Keys]
      BY <1>1 DEF Persist, PersistFails, Seeds, PersistKept, Unminting, SetupOK,
                  LinkShape
<1>5. mapping' \in [owner : Owners, stamp : 0 .. clock', updated : 0 .. clock']
  <2>1. /\ mapping \in [owner : Owners, stamp : 0 .. clock, updated : 0 .. clock]
        /\ mapping' = mapping
        BY <1>1 DEF Persist, PersistFails, Seeds, PersistKept, Unminting, SetupOK
  <2> QED BY <1>1, <1>3, <2>1
<1>6. orphans' \subseteq Keys /\ released' \subseteq Keys
      BY <1>1 DEF Persist, PersistFails, Seeds, Stores, Abandons, Unminting, SetupOK
<1>7. \E g \in FlowRows : /\ ShapedFlow(g) /\ g.wrote <= clock'
                          /\ flow' = [flow EXCEPT ![f] = g]
  <2>1. CASE Ends(f)
    <3> DEFINE g == [r EXCEPT !.pc = "done"]
    <3>1. g \in FlowRows /\ ShapedFlow(g) /\ g.wrote = r.wrote
          BY <1>1, FlowGoesOn DEF Before, Midway, FlowPcs
    <3>2. flow' = [flow EXCEPT ![f] = g]
          BY <1>1, <2>1 DEF Ends, Goes
    <3>3. g.wrote <= clock'
          BY <1>1, <1>3, <3>1
    <3> HIDE DEF g
    <3> QED BY <3>1, <3>2, <3>3
  <2>2. CASE /\ StoreKey(r.key, r.acct)
             /\ flow' = [flow EXCEPT ![f].pc = "seed", ![f].wrote = clock + 1]
    <3> DEFINE now == clock + 1
               g == [r EXCEPT !.pc = "seed", !.wrote = now]
    <3>1. now \in Nat /\ clock' = now /\ "seed" \in FlowPcs
          BY <1>1, <2>2 DEF StoreKey, Stamped, FlowPcs
    <3>2. flow' = [flow EXCEPT ![f] = g]
          BY <1>1, <2>2
    <3>a. /\ r \in FlowRows /\ r.user \in Users /\ r.acct \in Accounts
          /\ r.link \in Links /\ r.key # 0
          BY <1>1, SetupAssumption DEF ShapedFlow
    <3> HIDE DEF r, now
    <3>3. g \in FlowRows
          BY <3>1, <3>a DEF FlowRows
    <3>4. /\ g.pc = "seed" /\ g.key = r.key /\ g.user = r.user /\ g.acct = r.acct
          /\ g.link = r.link /\ g.wrote = now
          BY <3>a DEF FlowRows
    <3> HIDE DEF g
    <3>5. ShapedFlow(g)
          BY <3>a, <3>4 DEF ShapedFlow, Before
    <3>6. g.wrote <= clock'
          BY <3>1, <3>4
    <3> QED BY <3>2, <3>3, <3>5, <3>6
  <2> QED BY <2>1, <2>2 DEF Persist, PersistFails, Seeds, Stores, Abandons
<1> QED BY <1>1, <1>3, <1>4, <1>5, <1>6, <1>7, FlowMoves

-----------------------------------------------------------------------------
(* Teardowns.                                                              *)

\* A key given up is one the row held.
LEMMA GivenUpIsKey ==
    ASSUME ProviderInv, SetupInv, GivesUpKey
    PROVE  released' \subseteq Keys
<1>1. released \subseteq Keys /\ row.key \in 0 .. MaxKeys
      BY DEF ProviderInv, ProviderOK, Rows, SetupInv, SetupOK
<1>2. row.key # 0 => row.key \in Keys
      BY <1>1, ProviderAssumption DEF Keys
<1> QED BY <1>1, <1>2 DEF GivesUpKey

\* Nothing of a setup but what is given up.
LEMMA ReleaseKeepsTypes ==
    ASSUME SetupInv, clock \in Nat, clock' \in Nat, clock <= clock',
           UNCHANGED <<links, mapping, mapReplica, flow, keys, bindings, binding,
                       orphans>>,
           released' \subseteq Keys
    PROVE  SetupInv'
<1>1. mapping' \in [owner : Owners, stamp : 0 .. clock', updated : 0 .. clock']
      BY DEF SetupInv, SetupOK
<1>2. \A f \in Flows : flow'[f].wrote <= clock'
      BY DEF SetupInv, SetupOK, FlowRows
<1> QED BY <1>1, <1>2 DEF SetupInv, SetupOK, FlowShape, LinkShape

\* One click and one purge move.
LEMMA TeardownMoves ==
    ASSUME TeardownInv, clock \in Nat, clock' \in Nat, clock <= clock',
           tables' \in [Tables -> 0 .. clock'],
           removed' \in 0 .. clock', told' \in BOOLEAN,
           \/ UNCHANGED click
           \/ \E u \in Clicks, c \in ClickRows :
                 c.ver <= clock' /\ click' = [click EXCEPT ![u] = c],
           \/ UNCHANGED purge
           \/ \E j \in Jobs, q \in PurgeRows :
                 /\ q.cutoff <= clock' /\ q.ver <= clock'
                 /\ q.pc = "wait" => q.attempt < PurgeAttempts
                 /\ purge' = [purge EXCEPT ![j] = q]
    PROVE  TeardownInv'
<1>1. /\ click \in [Clicks -> ClickRows] /\ purge \in [Jobs -> PurgeRows]
      /\ \A u \in Clicks : click[u].ver <= clock /\ click[u].ver \in Nat
      /\ \A j \in Jobs : /\ purge[j].cutoff <= clock /\ purge[j].ver <= clock
                         /\ purge[j].cutoff \in Nat /\ purge[j].ver \in Nat
      /\ PurgeShape
      BY DEF TeardownInv, TeardownOK, ClickRows, PurgeRows
<1>2. click' \in [Clicks -> ClickRows] /\ \A u \in Clicks : click'[u].ver <= clock'
      BY <1>1
<1>3. /\ purge' \in [Jobs -> PurgeRows] /\ PurgeShape'
      /\ \A j \in Jobs : purge'[j].cutoff <= clock' /\ purge'[j].ver <= clock'
      BY <1>1 DEF PurgeShape
<1> QED BY <1>2, <1>3 DEF TeardownInv, TeardownOK

\* A purge as it is scheduled, by a click and for the event.
ByClick(p, t) == [NoPurge EXCEPT !.pc = "agent", !.proc = p, !.cutoff = t,
                                 !.attempt = 1]
ByEvent(p, t) == [NoPurge EXCEPT !.pc = "state", !.proc = p, !.full = TRUE,
                                 !.cutoff = t, !.attempt = 1]

LEMMA PurgeRowsBegin ==
    ASSUME NEW p \in Processes, NEW t \in Nat
    PROVE  /\ ByClick(p, t) \in PurgeRows /\ ByClick(p, t).ver = 0
           /\ ByClick(p, t).cutoff = t /\ ByClick(p, t).pc = "agent"
           /\ ~ByClick(p, t).full
           /\ ByEvent(p, t) \in PurgeRows /\ ByEvent(p, t).ver = 0
           /\ ByEvent(p, t).cutoff = t /\ ByEvent(p, t).pc = "state"
           /\ ByEvent(p, t).full
<1> DEFINE r == NoPurge
           x == ByClick(p, t)
           y == ByEvent(p, t)
<1>1. r \in PurgeRows /\ r.ver = 0 /\ r.full = FALSE
      BY ProviderAssumption, TeardownAssumption DEF NoPurge, PurgeRows
<1>2. PICK n \in 0 .. PurgeAttempts : n = 1
      BY TeardownAssumption
<1>3. /\ x = [r EXCEPT !.pc = "agent", !.proc = p, !.cutoff = t, !.attempt = n]
      /\ y = [r EXCEPT !.pc = "state", !.proc = p, !.full = TRUE, !.cutoff = t,
                       !.attempt = n]
      BY <1>2 DEF ByClick, ByEvent
<1> HIDE DEF r, x, y
<1>4. x \in PurgeRows /\ y \in PurgeRows
      BY <1>1, <1>3 DEF PurgeRows
<1>5. /\ x.ver = 0 /\ x.cutoff = t /\ x.pc = "agent" /\ ~x.full
      /\ y.ver = 0 /\ y.cutoff = t /\ y.pc = "state" /\ y.full
      BY <1>1, <1>3 DEF PurgeRows
<1> QED BY <1>4, <1>5 DEF x, y

\* What a click, or what fails of it, leaves behind.
LEMMA ClicksKeepTypes ==
    ASSUME ProviderInv, SetupInv, TeardownInv, NEW u \in Clicks,
           \/ \E user \in Users, p \in Processes : Confirms(u, user, p)
           \/ ClickStep(u) \/ ClickFault(u)
    PROVE  ProviderInv' /\ SetupInv' /\ TeardownInv'
<1> DEFINE c == click[u]
<1>1. /\ clock \in Nat /\ click \in [Clicks -> ClickRows] /\ c \in ClickRows
      /\ c.ver \in Nat /\ c.ver <= clock /\ c.proc \in Processes /\ u \in Actors
      /\ row.ver <= clock
      BY ActorsAssumption
         DEF ProviderInv, ProviderOK, TeardownInv, TeardownOK, ClickRows
<1>2. /\ ProviderInv' /\ clock' \in Nat /\ clock <= clock'
      /\ row'.ver \in Nat /\ row'.ver <= clock'
  <2>1. CASE ClearKey /\ UNCHANGED <<replica, cache, strong, checking, known, lookup>>
    <3>1. /\ clock' = clock + 1 /\ row' \in Rows /\ row'.ver = clock + 1
          /\ row'.bot <= clock' /\ row'.stamp = clock + 1
          BY <2>1, StampsAreRows
    <3> QED BY <1>1, <2>1, <3>1, WritesKeepTypes
  <2>2. CASE UNCHANGED providerVars
        BY <1>1, <2>2 DEF providerVars, ProviderInv, ProviderOK, ResultShape, Rows
  <2>3. CASE ReadsKeyId(u) \/ BuildsClient(u)
    <3>1. ProviderInv' /\ UNCHANGED <<clock, row>>
      <4>1. CASE LookupBegins(u, click[u].proc)
            BY <1>1, <4>1, CallsKeepTypes DEF LookupBegins
      <4>2. CASE BuildsClient(u)
            BY <1>1, <4>2, CallsKeepTypes DEF BuildsClient
      <4>3. CASE UNCHANGED providerVars
            BY <4>3 DEF providerVars, ProviderInv, ProviderOK, ResultShape
      <4> QED BY <2>3, <4>1, <4>2, <4>3 DEF ReadsKeyId
    <3> QED BY <1>1, <3>1 DEF ProviderInv, ProviderOK, Rows
  <2>4. CASE SchedulesPurge(u)
    <3>1. ProviderInv' /\ UNCHANGED <<clock, row>>
          BY <1>1, <2>4, CachingKeepsTypes DEF SchedulesPurge
    <3> QED BY <1>1, <3>1 DEF ProviderInv, ProviderOK, Rows
  <2>5. CASE DeletesKey(u) /\ UNCHANGED <<clock, row>>
        BY <1>1, <2>5 DEF DeletesKey, ProviderInv, ProviderOK, ResultShape, Rows
  <2> QED BY <2>1, <2>2, <2>3, <2>4, <2>5
          DEF Confirms, ClickStep, ClickFault, RevokesUpstream, ClickFails,
              DeletesKey, DeleteReplyLost
<1>3. SetupInv'
  <2>1. CASE UNCHANGED setupVars
        BY <1>1, <1>2, <2>1, SetupRests
  <2>2. CASE DeletesKey(u) \/ DeleteReplyLost(u)
        BY <1>1, <1>2, <2>2, GivenUpIsKey, ReleaseKeepsTypes
           DEF DeletesKey, DeleteReplyLost
  <2> QED BY <2>1, <2>2 DEF Confirms, ClickStep, ClickFault, ReadsKeyId,
          BuildsClient, RevokesUpstream, SchedulesPurge, ClickFails, ClickKept
<1>4. /\ tables' \in [Tables -> 0 .. clock']
      /\ removed' \in 0 .. clock' /\ told' \in BOOLEAN
  <2>1. UNCHANGED <<tables, removed, told>>
        BY DEF Confirms, ClickStep, ClickFault, ReadsKeyId, BuildsClient,
               RevokesUpstream, SchedulesPurge, ClickFails, ClickKept,
               DeletesKey, DeleteReplyLost
  <2>2. 0 .. clock \subseteq 0 .. clock'
        BY <1>1, <1>2
  <2> QED BY <2>1, <2>2 DEF TeardownInv, TeardownOK
<1>5. \E d \in ClickRows : d.ver <= clock' /\ click' = [click EXCEPT ![u] = d]
  <2>1. ASSUME NEW pc \in {"idle", "ident", "lookup", "revoke", "delete", "forget",
                           "done"},
               ClickGoes(u, pc)
        PROVE  <1>5
    <3> DEFINE d == [c EXCEPT !.pc = pc]
    <3>1. click' = [click EXCEPT ![u] = d]
          BY <1>1, <2>1 DEF ClickGoes
    <3>2. d \in ClickRows /\ d.ver = c.ver
      <4> HIDE DEF c
      <4> QED BY <1>1 DEF ClickRows
    <3>3. d.ver <= clock'
          BY <1>1, <1>2, <3>2
    <3> HIDE DEF d
    <3> QED BY <3>1, <3>2, <3>3
  <2>2. CASE DeletesKey(u)
    <3> DEFINE d == [c EXCEPT !.pc = "forget", !.ver = row'.ver]
    <3>1. click' = [click EXCEPT ![u] = d]
          BY <1>1, <2>2 DEF DeletesKey
    <3>2. d \in ClickRows /\ d.ver = row'.ver
      <4> DEFINE v == row'.ver
      <4> HIDE DEF c, v
      <4>1. [c EXCEPT !.pc = "forget", !.ver = v] \in ClickRows
            /\ [c EXCEPT !.pc = "forget", !.ver = v].ver = v
            BY <1>1, <1>2 DEF ClickRows, v
      <4> QED BY <4>1 DEF v
    <3> HIDE DEF d
    <3> QED BY <1>2, <3>1, <3>2
  <2>3. ASSUME NEW user \in Users, NEW p \in Processes, Confirms(u, user, p)
        PROVE  <1>5
    <3> DEFINE pc == IF user \in {mapping.owner, mapReplica} THEN "ident" ELSE "done"
               d == [NoClick EXCEPT !.proc = p, !.pc = pc]
    <3>1. click' = [click EXCEPT ![u] = d]
          BY <2>3 DEF Confirms
    <3>2. pc \in {"ident", "done"}
          OBVIOUS
    <3>3. NoClick \in ClickRows /\ NoClick.ver = 0
          BY ProviderAssumption DEF NoClick, ClickRows
    <3> HIDE DEF pc
    <3>4. d \in ClickRows /\ d.ver = 0
          BY <3>2, <3>3 DEF ClickRows
    <3>5. d.ver <= clock'
          BY <1>2, <3>4
    <3> HIDE DEF d
    <3> QED BY <3>1, <3>4, <3>5
  <2>4. CASE BuildsClient(u)
        BY <2>1, <2>4 DEF BuildsClient
  <2> QED BY <2>1, <2>2, <2>3, <2>4
          DEF ClickStep, ClickFault, ReadsKeyId, RevokesUpstream, SchedulesPurge,
              ClickFails, DeleteReplyLost
<1>6. \/ UNCHANGED purge
      \/ \E j \in Jobs, q \in PurgeRows :
            /\ q.cutoff <= clock' /\ q.ver <= clock'
            /\ q.pc = "wait" => q.attempt < PurgeAttempts
            /\ purge' = [purge EXCEPT ![j] = q]
  <2>1. CASE SchedulesPurge(u)
    <3> DEFINE p == click[u].proc
               r == ByClick(p, clock)
    <3>1. purge' = [purge EXCEPT ![u] = r] /\ clock' = clock
          BY <2>1 DEF SchedulesPurge, ByClick
    <3>2. p \in Processes /\ clock \in Nat
          BY <1>1
    <3>4. r \in PurgeRows /\ r.ver = 0 /\ r.cutoff = clock /\ r.pc = "agent"
          BY <3>2, PurgeRowsBegin
    <3> HIDE DEF p, r
    <3>6. r.cutoff <= clock' /\ r.ver <= clock' /\ r.pc # "wait" /\ u \in Jobs
          BY <1>1, <3>1, <3>2, <3>4 DEF Jobs
    <3> QED BY <3>1, <3>4, <3>6
  <2>2. CASE ~SchedulesPurge(u)
        BY <2>2 DEF Confirms, ClickStep, ClickFault, ReadsKeyId, BuildsClient,
           RevokesUpstream, ClickFails, DeletesKey, DeleteReplyLost
  <2> QED BY <2>1, <2>2
<1> QED BY <1>1, <1>2, <1>3, <1>4, <1>5, <1>6, TeardownMoves

\* How a step leaves the purge it is of.
LEMMA PurgeRowsGoOn ==
    ASSUME TeardownInv, NEW j \in Jobs, PurgeStep(j) \/ PurgeFault(j),
           row' \in Rows, row'.ver <= clock', clock \in Nat, clock' \in Nat,
           clock <= clock'
    PROVE  \E q \in PurgeRows :
              /\ q.cutoff <= clock' /\ q.ver <= clock'
              /\ q.cutoff = purge[j].cutoff /\ q.full = purge[j].full
              /\ q.pc = "wait" => q.attempt < PurgeAttempts
              /\ purge' = [purge EXCEPT ![j] = q]
<1> DEFINE r == purge[j]
<1>1. /\ purge \in [Jobs -> PurgeRows] /\ r \in PurgeRows
      /\ r.cutoff \in Nat /\ r.ver \in Nat
      /\ r.attempt \in 0 .. PurgeAttempts
      /\ r.cutoff <= clock' /\ r.ver <= clock'
      /\ r.pc = "wait" => r.attempt < PurgeAttempts
      BY DEF TeardownInv, TeardownOK, PurgeShape, PurgeRows
<1>2. ASSUME NEW pc \in {"idle", "state", "forget", "agent", "mapping", "counters",
                         "policies", "judge", "wait", "done", "cleanup", "aborted"},
             pc = "wait" => r.attempt < PurgeAttempts
      PROVE  /\ [r EXCEPT !.pc = pc] \in PurgeRows
             /\ [r EXCEPT !.pc = pc].cutoff = r.cutoff
             /\ [r EXCEPT !.pc = pc].full = r.full
             /\ [r EXCEPT !.pc = pc].ver = r.ver
             /\ [r EXCEPT !.pc = pc].pc = pc
             /\ [r EXCEPT !.pc = pc].attempt = r.attempt
  <2> HIDE DEF r
  <2> QED BY <1>1 DEF PurgeRows
<1>3. ASSUME NEW pc \in {"idle", "state", "forget", "agent", "mapping", "counters",
                         "policies", "judge", "wait", "done", "cleanup", "aborted"},
             pc = "wait" => r.attempt < PurgeAttempts, PurgeGoes(j, pc)
      PROVE  \E q \in PurgeRows :
              /\ q.cutoff <= clock' /\ q.ver <= clock'
              /\ q.cutoff = purge[j].cutoff /\ q.full = purge[j].full
              /\ q.pc = "wait" => q.attempt < PurgeAttempts
              /\ purge' = [purge EXCEPT ![j] = q]
  <2> DEFINE x == [r EXCEPT !.pc = pc]
  <2>1. purge' = [purge EXCEPT ![j] = x]
        BY <1>3 DEF PurgeGoes
  <2>2. /\ x \in PurgeRows /\ x.cutoff = r.cutoff /\ x.full = r.full
        /\ x.ver = r.ver /\ x.pc = pc /\ x.attempt = r.attempt
        BY <1>2, <1>3
  <2> HIDE DEF x
  <2> QED BY <1>1, <1>3, <2>1, <2>2
<1>4. CASE PurgesState(j)
  <2> DEFINE v == row'.ver
             x == [r EXCEPT !.pc = "forget", !.ver = v]
  <2>1. purge' = [purge EXCEPT ![j] = x]
        BY <1>1, <1>4 DEF PurgesState
  <2>2. v \in Nat /\ v <= clock'
        BY DEF Rows
  <2>3. x \in PurgeRows
    <3> HIDE DEF v, r
    <3> QED BY <1>1, <2>2 DEF PurgeRows
  <2>4. x.cutoff = r.cutoff /\ x.full = r.full /\ x.ver = v /\ x.pc = "forget"
    <3> HIDE DEF v, r
    <3> QED BY <1>1 DEF PurgeRows
  <2> HIDE DEF x, v
  <2> QED BY <1>1, <2>1, <2>2, <2>3, <2>4
<1>5. CASE PurgeFails(j)
  <2>1. PICK kind \in {"transient", "malformed"} :
           purge' = [purge EXCEPT ![j].pc = After(j), ![j].failed = @ \cup {kind}]
        BY <1>5 DEF PurgeFails
  <2> DEFINE pc == After(j)
             failed == r.failed \cup {kind}
             x == [r EXCEPT !.pc = pc, !.failed = failed]
  <2>2. purge' = [purge EXCEPT ![j] = x]
        BY <1>1, <2>1
  <2>3. /\ pc \in {"agent", "mapping", "counters", "policies", "judge"}
        /\ failed \in SUBSET {"malformed", "transient"}
        BY <1>1, <1>5 DEF PurgeFails, After, NextTable, Tables, PurgeRows
  <2>4. x \in PurgeRows
    <3> HIDE DEF pc, failed, r
    <3> QED BY <1>1, <2>3 DEF PurgeRows
  <2>5. x.cutoff = r.cutoff /\ x.full = r.full /\ x.ver = r.ver /\ x.pc = pc
    <3> HIDE DEF pc, failed, r
    <3> QED BY <1>1 DEF PurgeRows
  <2> HIDE DEF x, pc, failed
  <2> QED BY <1>1, <2>2, <2>3, <2>4, <2>5
<1>6. CASE Retries(j)
  <2> DEFINE pc == IF r.full THEN "state" ELSE "agent"
             n == r.attempt + 1
             x == [r EXCEPT !.pc = pc, !.attempt = n, !.failed = {}]
  <2>1. purge' = [purge EXCEPT ![j] = x]
        BY <1>1, <1>6 DEF Retries
  <2>2. n \in 0 .. PurgeAttempts /\ pc \in {"state", "agent"}
        BY <1>1, <1>6, TeardownAssumption DEF Retries, PurgeIn
  <2>3. x \in PurgeRows
    <3> HIDE DEF pc, n, r
    <3> QED BY <1>1, <2>2 DEF PurgeRows
  <2>4. x.cutoff = r.cutoff /\ x.full = r.full /\ x.ver = r.ver /\ x.pc = pc
    <3> HIDE DEF pc, n, r
    <3> QED BY <1>1 DEF PurgeRows
  <2> HIDE DEF x, pc, n
  <2> QED BY <1>1, <2>1, <2>2, <2>3, <2>4
<1>7. CASE JudgePurge(j)
  <2> DEFINE pc == IF r.failed = {} THEN "done"
                   ELSE IF r.failed = {"malformed"} \/ r.attempt = PurgeAttempts
                       THEN "cleanup" ELSE "wait"
  <2>1. PurgeGoes(j, pc)
        BY <1>7 DEF JudgePurge
  <2>2. pc \in {"done", "cleanup", "wait"}
        /\ (pc = "wait" => r.attempt < PurgeAttempts)
        BY <1>1, TeardownAssumption
  <2> HIDE DEF pc
  <2> QED BY <1>3, <2>1, <2>2
<1>8. CASE PurgeForgets(j) \/ PurgesMapping(j) \/ PurgeAborts(j)
      BY <1>3, <1>8 DEF PurgeForgets, PurgesMapping, PurgeAborts
<1>9. CASE \E t \in Tables : PurgesTable(j, t)
  <2>1. PICK t \in Tables : PurgesTable(j, t)
        BY <1>9
  <2>2. NextTable(t) \in {"mapping", "policies", "judge"}
        BY DEF NextTable, Tables
  <2> QED BY <1>3, <2>1, <2>2 DEF PurgesTable
<1> QED BY <1>4, <1>5, <1>6, <1>7, <1>8, <1>9 DEF PurgeStep, PurgeFault

\* A purge erases, and what it erases is no longer there.
LEMMA PurgesKeepTypes ==
    ASSUME ProviderInv, SetupInv, TeardownInv, NEW j \in Jobs,
           PurgeStep(j) \/ PurgeFault(j)
    PROVE  ProviderInv' /\ SetupInv' /\ TeardownInv'
<1> DEFINE r == purge[j]
<1>1. /\ clock \in Nat /\ r \in PurgeRows /\ row \in Rows /\ row.ver <= clock
      /\ r.cutoff \in Nat /\ r.cutoff <= clock /\ r.proc \in Processes
      /\ r.ver \in 0 .. clock
      BY DEF ProviderInv, ProviderOK, TeardownInv, TeardownOK, PurgeRows
<1>2. /\ ProviderInv' /\ clock' \in Nat /\ clock <= clock'
      /\ row' \in Rows /\ row'.ver <= clock'
  <2>1. CASE PurgesState(j)
    <3>1. CASE DeleteRow(Cutoff(j))
      <4>1. /\ clock' = clock + 1 \/ UNCHANGED <<clock, row>>
            /\ row' \in Rows
            /\ clock' = clock + 1 => /\ row'.ver = clock + 1
                                     /\ row'.bot = 0 /\ row'.stamp = 0
            BY <1>1, <3>1, StampsAreRows DEF Cutoff
      <4>2. UNCHANGED <<replica, cache, strong, checking, known, lookup>>
            BY <2>1 DEF PurgesState
      <4>3. CASE clock' = clock + 1
            BY <1>1, <4>1, <4>2, <4>3, WritesKeepTypes
      <4>4. CASE UNCHANGED <<clock, row>>
            BY <1>1, <4>2, <4>4 DEF ProviderInv, ProviderOK, ResultShape
      <4> QED BY <4>1, <4>3, <4>4
    <3>2. CASE UNCHANGED <<clock, row>>
          BY <1>1, <2>1, <3>2 DEF PurgesState, ProviderInv, ProviderOK, ResultShape
    <3> QED BY <2>1, <3>1, <3>2 DEF PurgesState
  <2>2. CASE PurgeForgets(j)
        BY <1>1, <2>2, CachingKeepsTypes DEF PurgeForgets
  <2>3. CASE UNCHANGED providerVars
        BY <1>1, <2>3 DEF providerVars, ProviderInv, ProviderOK, ResultShape
  <2> QED BY <2>1, <2>2, <2>3 DEF PurgeStep, PurgeFault, PurgesTable, PurgesMapping,
          JudgePurge, Retries, PurgeFails, PurgeAborts
<1>3. SetupInv'
  <2>1. CASE UNCHANGED setupVars
        BY <1>1, <1>2, <2>1, SetupRests
  <2>2. CASE PurgesState(j)
    <3>1. released' \subseteq Keys
          BY <2>2, GivenUpIsKey DEF PurgesState, SetupInv, SetupOK
    <3> QED BY <1>1, <1>2, <2>2, <3>1, ReleaseKeepsTypes DEF PurgesState
  <2>3. CASE PurgesMapping(j)
    <3>1. mapping' \in [owner : Owners, stamp : 0 .. clock', updated : 0 .. clock']
          BY <1>1, <1>2, <2>3 DEF PurgesMapping, Mapped, SetupInv, SetupOK, Owners
    <3>2. UNCHANGED <<links, mapReplica, flow, keys, bindings, binding, orphans,
                      released, clock>>
          BY <2>3 DEF PurgesMapping, providerVars
    <3> QED BY <3>1, <3>2 DEF SetupInv, SetupOK, FlowShape, ShapedFlow, LinkShape
  <2> QED BY <2>1, <2>2, <2>3 DEF PurgeStep, PurgeFault, PurgeForgets, PurgesTable,
          JudgePurge, Retries, PurgeFails, PurgeAborts
<1>4. UNCHANGED <<click, removed, told>>
      BY DEF PurgeStep, PurgeFault, PurgesState, PurgeForgets, PurgesTable,
             PurgesMapping, JudgePurge, Retries, PurgeFails, PurgeAborts, PurgeKept
<1>5. tables' \in [Tables -> 0 .. clock']
  <2>1. CASE UNCHANGED tables
    <3>1. 0 .. clock \subseteq 0 .. clock'
          BY <1>1, <1>2
    <3> QED BY <2>1, <3>1 DEF TeardownInv, TeardownOK
  <2>2. ASSUME NEW t \in Tables, PurgesTable(j, t)
        PROVE  <1>5
    <3>1. clock' = clock
          BY <2>2 DEF PurgesTable, providerVars
    <3>2. tables' = [tables EXCEPT ![t] =
                        IF t = "agent" \/ @ <= Cutoff(j) THEN 0 ELSE @]
          BY <2>2 DEF PurgesTable
    <3>3. tables \in [Tables -> 0 .. clock]
          BY DEF TeardownInv, TeardownOK
    <3> QED BY <1>1, <3>1, <3>2, <3>3
  <2> QED BY <2>1, <2>2
          DEF PurgeStep, PurgeFault, PurgesState, PurgeForgets,
              PurgesMapping, JudgePurge, Retries, PurgeFails, PurgeAborts
<1>6. removed' \in 0 .. clock' /\ told' \in BOOLEAN
      BY <1>1, <1>2, <1>4 DEF TeardownInv, TeardownOK
<1>7. \E q \in PurgeRows :
              /\ q.cutoff <= clock' /\ q.ver <= clock'
              /\ q.pc = "wait" => q.attempt < PurgeAttempts
              /\ purge' = [purge EXCEPT ![j] = q]
      BY <1>1, <1>2, PurgeRowsGoOn
<1> QED BY <1>1, <1>2, <1>3, <1>4, <1>5, <1>6, <1>7, TeardownMoves

-----------------------------------------------------------------------------
(* Every step.                                                             *)

\* The event of the app's removal, sent and taken.
LEMMA EventKeepsTypes ==
    ASSUME ProviderInv, TeardownInv,
           Removal \/ \E p \in Processes : ReceiveEvent(p)
    PROVE  TeardownInv'
<1>1. /\ clock \in Nat /\ clock' = clock /\ UNCHANGED <<tables, click>>
      /\ removed \in 0 .. clock /\ tables \in [Tables -> 0 .. clock]
      BY DEF ProviderInv, ProviderOK, TeardownInv, TeardownOK, Removal, ReceiveEvent,
             providerVars
<1>2. CASE Removal
  <2>1. removed' = clock /\ UNCHANGED <<told, purge>>
        BY <1>2 DEF Removal
  <2> QED BY <1>1, <2>1 DEF TeardownInv, TeardownOK, PurgeShape
<1>3. ASSUME NEW p \in Processes, ReceiveEvent(p)
      PROVE  TeardownInv'
  <2> DEFINE r == ByEvent(p, removed)
  <2>1. /\ purge' = [purge EXCEPT !["event"] = r] /\ told' = TRUE
        /\ removed' = removed
        BY <1>3 DEF ReceiveEvent, EventPurge, ByEvent
  <2>2. r \in PurgeRows /\ r.ver = 0 /\ r.cutoff = removed /\ r.pc = "state"
        BY <1>1, PurgeRowsBegin
  <2> HIDE DEF r
  <2>3. "event" \in Jobs
        BY DEF Jobs
  <2>4. /\ tables' \in [Tables -> 0 .. clock']
        /\ removed' \in 0 .. clock' /\ told' \in BOOLEAN
        BY <1>1, <2>1
  <2>5. /\ r.cutoff <= clock' /\ r.ver <= clock'
        /\ r.pc = "wait" => r.attempt < PurgeAttempts
        /\ clock' \in Nat /\ clock <= clock' /\ UNCHANGED click
        BY <1>1, <2>2
  <2> QED BY <1>1, <2>1, <2>2, <2>3, <2>4, <2>5, TeardownMoves
<1> QED BY <1>2, <1>3

\* The row, with a new stamp or a new owner.
LEMMA MappingRewritten ==
    ASSUME NEW time \in Nat, NEW u \in Owners,
           NEW m \in [owner : Owners, stamp : 0 .. time, updated : 0 .. time]
    PROVE  LET rows == [owner : Owners, stamp : 0 .. time + 1,
                        updated : 0 .. time + 1] IN
           /\ [m EXCEPT !.stamp = time + 1, !.updated = time + 1] \in rows
           /\ [m EXCEPT !.owner = u, !.updated = time + 1] \in rows
<1>1. time + 1 \in 0 .. time + 1 /\ 0 .. time \subseteq 0 .. time + 1
      OBVIOUS
<1> QED BY <1>1

\* Installs, members' writes, changes of admins and of the owner.
LEMMA MembersKeepTypes ==
    ASSUME ProviderInv, SetupInv, TeardownInv,
           \/ Reinstalled \/ ChangesAdmins \/ Transfers
           \/ \E t \in Tables : TableWritten(t)
    PROVE  ProviderInv' /\ SetupInv' /\ TeardownInv'
<1>1. clock \in Nat /\ row \in Rows /\ row.ver <= clock /\ row.bot <= clock
      /\ row.stamp <= clock
      BY DEF ProviderInv, ProviderOK
<1>2. CASE Reinstalled
  <2>1. /\ clock' = clock + 1 /\ row' \in Rows /\ row'.ver = row.ver
        /\ row'.bot = clock + 1 /\ row'.stamp = clock + 1
        BY <1>2, StampsAreRows DEF Reinstalled
  <2>2. row'.ver <= clock' /\ row'.bot <= clock' /\ row'.stamp <= clock'
        BY <1>1, <2>1 DEF Rows
  <2>3. ProviderInv'
        BY <1>2, <2>1, <2>2, WritesKeepTypes DEF Reinstalled
  <2>4. /\ clock' \in Nat /\ clock <= clock'
        /\ UNCHANGED setupVars /\ UNCHANGED teardownVars
        BY <1>1, <1>2, <2>1 DEF Reinstalled
  <2> QED BY <1>1, <2>3, <2>4, SetupRests, TeardownRests
<1>3. CASE ChangesAdmins \/ Transfers \/ \E t \in Tables : TableWritten(t)
  <2>1. /\ clock' = clock + 1 \/ clock' = clock
        /\ UNCHANGED <<row, replica, cache, strong, checking, known, lookup,
                       click, removed, told, purge>>
        BY <1>3 DEF ChangesAdmins, Transfers, TableWritten, OthersKept, Ticks
  <2>2. ProviderInv'
    <3>1. row' \in Rows /\ row'.ver <= clock' /\ row'.bot <= clock'
          /\ row'.stamp <= clock'
          BY <1>1, <2>1 DEF Rows
    <3> QED BY <1>1, <2>1, <3>1, WritesKeepTypes
  <2>3. TeardownInv'
    <3>1. tables' \in [Tables -> 0 .. clock']
      <4>1. tables \in [Tables -> 0 .. clock]
            BY DEF TeardownInv, TeardownOK
      <4>2. 0 .. clock \subseteq 0 .. clock' /\ clock' \in 0 .. clock'
            BY <1>1, <2>1
      <4>3. \/ UNCHANGED tables
            \/ \E t \in Tables : tables' = [tables EXCEPT ![t] = clock']
            BY <1>3 DEF ChangesAdmins, Transfers, TableWritten, Ticks
      <4> QED BY <4>1, <4>2, <4>3
    <3>2. removed' \in 0 .. clock' /\ told' \in BOOLEAN
          BY <1>1, <2>1 DEF TeardownInv, TeardownOK
    <3>3. clock' \in Nat /\ clock <= clock'
          BY <1>1, <2>1
    <3> QED BY <1>1, <2>1, <3>1, <3>2, <3>3, TeardownMoves
  <2>4. SetupInv'
    <3>1. CASE UNCHANGED setupVars
          BY <1>1, <2>1, <3>1, SetupRests
    <3>2. CASE ChangesAdmins \/ Transfers
      <4>1. mapping' \in [owner : Owners, stamp : 0 .. clock', updated : 0 .. clock']
        <5>1. /\ mapping \in [owner : Owners, stamp : 0 .. clock, updated : 0 .. clock]
              /\ Users \subseteq Owners
              BY DEF SetupInv, SetupOK, Owners
        <5>2. CASE ChangesAdmins
          <6>1. mapping' = [mapping EXCEPT !.stamp = clock + 1, !.updated = clock + 1]
                BY <5>2 DEF ChangesAdmins
          <6>2. clock' = clock + 1
                BY <5>2 DEF ChangesAdmins, Ticks
          <6> QED BY <1>1, <5>1, <6>1, <6>2, MappingRewritten
        <5>3. CASE Transfers
          <6>1. PICK u \in Users : mapping' = [mapping EXCEPT !.owner = u,
                                                              !.updated = clock + 1]
                BY <5>3 DEF Transfers
          <6>2. clock' = clock + 1
                BY <5>3 DEF Transfers, Ticks
          <6> QED BY <1>1, <5>1, <6>1, <6>2, MappingRewritten
        <5> QED BY <3>2, <5>2, <5>3
      <4>2. UNCHANGED <<links, mapReplica, flow, keys, bindings, binding, orphans,
                        released>>
            BY <3>2 DEF ChangesAdmins, Transfers
      <4>3. flow \in [Flows -> FlowRows]
            BY DEF SetupInv, SetupOK
      <4>4. \A f \in Flows : flow'[f].wrote <= clock'
            BY <1>1, <2>1, <4>2, <4>3 DEF SetupInv, SetupOK, FlowRows
      <4> QED BY <4>1, <4>2, <4>4 DEF SetupInv, SetupOK, FlowShape, ShapedFlow,
                                      LinkShape
    <3> QED BY <1>3, <3>1, <3>2 DEF TableWritten
  <2> QED BY <2>2, <2>3, <2>4
<1> QED BY <1>2, <1>3

LEMMA ScenarioStays ==
    ASSUME ScenarioOK, [Moves]_vars
    PROVE  ScenarioOK'
<1>1. faults \in Nat /\ scenario.faults \in Nat
      BY ScenarioAssumption DEF ScenarioOK
<1>2. CASE UNCHANGED systemVars
      BY <1>2 DEF systemVars, ScenarioOK
<1>3. CASE Faulty
      BY <1>1, <1>3 DEF Faulty, Fault, ScenarioOK
<1>4. ASSUME NEW act, Does(act)
      PROVE  ScenarioOK'
      BY <1>4 DEF Does, ScenarioOK
<1> QED BY <1>2, <1>3, <1>4
        DEF Moves, Spends, BindingWritten, TableWritten, Next, vars, NoFault,
            Replicates, Asks, LooksUp, LookupGoesWrong, Commands, Expires, Opens,
            Returns, SetsUp, SetupGoesWrong, CleansUp, Uninstalls, Disconnects,
            DisconnectGoesWrong, AppRemoved, EventArrives, Purges, PurgeGoesWrong,
            Reinstalled, Writes, ChangesAdmins, Transfers

\* Whoever signs in is someone with an account.
LEMMA ReturnsWithAccount ==
    ASSUME SetupInv, ScenarioOK, NEW f \in Flows, Returns(f)
    PROVE  \E a \in Accounts : Consume(f, a)
<1>1. links[flow[f].link].user \in Users \cup {"none"}
      BY DEF Returns, In, SetupInv, SetupOK, FlowShape, ShapedFlow, LinkRows
<1>2. scenario.signIn \in [Users \cup {"none"} -> SUBSET Accounts]
      BY ScenarioAssumption DEF ScenarioOK
<1> QED BY <1>1, <1>2 DEF Returns

LEMMA TypeKept ==
    ASSUME TypeInv, [Moves]_vars
    PROVE  TypeInv'
<1>0. clock \in Nat /\ ScenarioOK
      BY DEF TypeInv, ProviderInv, ProviderOK
<1> SUFFICES ProviderInv' /\ SetupInv' /\ TeardownInv'
    BY <1>0, ScenarioStays DEF TypeInv
<1>1. ProviderInv /\ SetupInv /\ TeardownInv
      BY DEF TypeInv
<1>2. CASE UNCHANGED <<providerVars, setupVars, teardownVars>>
      BY <1>0, <1>1, <1>2, SetupRests, TeardownRests
         DEF providerVars, ProviderInv, ProviderOK, ResultShape
<1>3. CASE Replicates
  <2>1. CASE ReplicaCatchesUp /\ UNCHANGED setupVars
        BY <1>0, <1>1, <1>3, <2>1, CallsKeepTypes, SetupRests, TeardownRests
           DEF Replicates, ReplicaCatchesUp
  <2>2. CASE MappingCatchesUp /\ UNCHANGED providerVars
        BY <1>0, <1>1, <1>3, <2>2, LinksKeepTypes, TeardownRests
           DEF Replicates, providerVars, ProviderInv, ProviderOK, ResultShape
  <2> QED BY <1>3, <2>1, <2>2 DEF Replicates
<1>4. ASSUME NEW a \in Actors,
             LooksUp(a) \/ LookupGoesWrong(a) \/ \E p \in Processes : Asks(a, p)
      PROVE  ProviderInv' /\ SetupInv' /\ TeardownInv'
  <2>1. UNCHANGED <<clock, setupVars, teardownVars>>
        BY <1>4 DEF LooksUp, LookupGoesWrong, Asks, LookupBegins, LookupStep,
           LookupFault, Look, Read, ReadFails, HasRead, Finish, Releases, Check,
           Verify, VerifyFails, HasVerified, Answer, Judge, GivesUp
  <2>2. ProviderInv'
        BY <1>1, <1>4, LookKeepsTypes, ReadsKeepTypes, ChecksKeepTypes,
           JudgeKeepsTypes, FinishKeepsTypes, CallsKeepTypes
           DEF LooksUp, LookupGoesWrong, Asks, LookupStep, LookupFault
  <2> QED BY <1>0, <1>1, <2>1, <2>2, SetupRests, TeardownRests
<1>5. ASSUME NEW l \in Links, Commands(l) \/ Expires(l)
      PROVE  ProviderInv' /\ SetupInv' /\ TeardownInv'
  <2>1. UNCHANGED <<providerVars, teardownVars>> /\ clock' = clock
        BY <1>5 DEF Commands, Expires, providerVars
  <2>2. ProviderInv'
        BY <1>1, <2>1 DEF providerVars, ProviderInv, ProviderOK, ResultShape
  <2>3. \/ \E user \in Users, mode \in Modes : MintLink(l, user, mode)
        \/ LinkExpires(l)
    <3>1. scenario.jobs[l] \subseteq Users \X Modes
          BY <1>0, ScenarioAssumption DEF ScenarioOK
    <3>2. ASSUME NEW job \in scenario.jobs[l], MintLink(l, job[1], job[2])
          PROVE  \E user \in Users, mode \in Modes : MintLink(l, user, mode)
      <4>1. job[1] \in Users /\ job[2] \in Modes
            BY <3>1
      <4> QED BY <3>2, <4>1
    <3> QED BY <1>5, <3>2 DEF Commands, Expires
  <2> QED BY <1>0, <1>1, <2>1, <2>2, <2>3, LinksKeepTypes, TeardownRests
<1>6. ASSUME NEW f \in Flows, Opens(f) \/ Returns(f)
      PROVE  ProviderInv' /\ SetupInv' /\ TeardownInv'
  <2>1. UNCHANGED <<providerVars, teardownVars>> /\ clock' = clock
        BY <1>6 DEF Opens, Returns, providerVars
  <2>2. ProviderInv'
        BY <1>1, <2>1 DEF providerVars, ProviderInv, ProviderOK, ResultShape
  <2>3. \/ \E l \in Links, p \in Processes : StartLink(f, l, p)
        \/ \E acct \in Accounts : Consume(f, acct)
    <3>1. scenario.sessions[f] \subseteq Links /\ scenario.procs \subseteq Processes
          BY <1>0, ScenarioAssumption DEF ScenarioOK
    <3> QED BY <1>0, <1>1, <1>6, <3>1, ReturnsWithAccount DEF Opens
  <2> QED BY <1>0, <1>1, <2>1, <2>2, <2>3, LinksKeepTypes, TeardownRests
<1>7. ASSUME NEW f \in Flows, SetsUp(f) \/ SetupGoesWrong(f)
      PROVE  ProviderInv' /\ SetupInv' /\ TeardownInv'
  <2>1. UNCHANGED teardownVars
        BY <1>7 DEF SetsUp, SetupGoesWrong
  <2>2. ProviderInv' /\ SetupInv' /\ clock' \in Nat /\ clock <= clock'
        BY <1>0, <1>1, <1>7, OwnerKeepsTypes, KeyStepKeepsTypes, RevokeKeepsTypes,
           MintsKeepTypes, StoresKeepTypes
           DEF SetsUp, SetupGoesWrong, KeyStep, StoreStep, FlowFault
  <2> QED BY <1>0, <1>1, <2>1, <2>2, TeardownRests
<1>8. ASSUME NEW k \in Keys, CleansUp(k)
      PROVE  ProviderInv' /\ SetupInv' /\ TeardownInv'
  <2>1. UNCHANGED teardownVars
        BY <1>8 DEF CleansUp
  <2>2. ProviderInv' /\ SetupInv' /\ clock' = clock
        BY <1>1, <1>8, OrphanKeepsTypes DEF CleansUp
  <2> QED BY <1>0, <1>1, <2>1, <2>2, TeardownRests
<1>9. ASSUME NEW u \in Clicks, Uninstalls(u) \/ Disconnects(u) \/ DisconnectGoesWrong(u)
      PROVE  ProviderInv' /\ SetupInv' /\ TeardownInv'
  <2>1. \/ \E user \in Users, p \in Processes : Confirms(u, user, p)
        \/ ClickStep(u) \/ ClickFault(u)
    <3>1. scenario.procs \subseteq Processes /\ scenario.clicks[u] \subseteq Users
          BY <1>0, ScenarioAssumption DEF ScenarioOK
    <3> QED BY <1>9, <3>1 DEF Uninstalls, Disconnects, DisconnectGoesWrong
  <2> QED BY <1>1, <2>1, ClicksKeepTypes
<1>10. CASE AppRemoved \/ EventArrives
  <2>1. Removal \/ \E p \in Processes : ReceiveEvent(p)
    <3>1. scenario.procs \subseteq Processes
          BY <1>0, ScenarioAssumption DEF ScenarioOK
    <3> QED BY <1>10, <3>1 DEF AppRemoved, EventArrives
  <2>2. UNCHANGED <<providerVars, setupVars>> /\ clock' = clock
        BY <2>1 DEF Removal, ReceiveEvent, providerVars
  <2>3. ProviderInv'
        BY <1>1, <2>2 DEF providerVars, ProviderInv, ProviderOK, ResultShape
  <2> QED BY <1>0, <1>1, <2>1, <2>2, <2>3, SetupRests, EventKeepsTypes
<1>11. ASSUME NEW j \in Jobs, Purges(j) \/ PurgeGoesWrong(j)
       PROVE  ProviderInv' /\ SetupInv' /\ TeardownInv'
       BY <1>1, <1>11, PurgesKeepTypes DEF Purges, PurgeGoesWrong
<1>12. CASE \/ Reinstalled \/ ChangesAdmins \/ Transfers
            \/ \E t \in Tables : TableWritten(t)
       BY <1>1, <1>12, MembersKeepTypes
<1>13. CASE [Spends]_vars
       BY <1>2, <1>13 DEF Spends, vars
<1>14. Readers \subseteq Actors
       BY ActorsAssumption
<1> QED BY <1>3, <1>4, <1>5, <1>6, <1>7, <1>8, <1>9, <1>10, <1>11, <1>12, <1>13,
           <1>14
        DEF Moves, BindingWritten, Writes, Next

\* Whatever is asked, set up, torn down or written, and whatever fails of it:
\* every row, lookup, setup, click and purge stays what its type says, nothing
\* is stamped after now, and a purge is attempted PurgeAttempts times at most.
THEOREM TypesHold == Spec => []TypeOK
<1>1. Init => TypeInv
      BY TypeBegins
<1>2. TypeInv /\ [Next]_vars => TypeInv'
      BY TypeKept DEF Moves
<1>3. TypeInv => TypeOK
      BY DEF TypeInv, ProviderInv, SetupInv, TeardownInv, ScenarioOK, TypeOK
<1> QED BY <1>1, <1>2, <1>3, PTL DEF Spec

-----------------------------------------------------------------------------
(* A link sets a workspace up once.                                        *)

\* What becomes of a setup's own record.
LEMMA FlowForms ==
    ASSUME NEW f \in Flows,
           OwnerStep(f) \/ KeyStep(f) \/ StoreStep(f) \/ FlowFault(f)
    PROVE  \/ \E pc : flow' = [flow EXCEPT ![f].pc = pc]
           \/ \E pc, old : flow' = [flow EXCEPT ![f].pc = pc, ![f].old = old]
           \/ \E k, b : flow' = [flow EXCEPT ![f].pc = "persist", ![f].key = k,
                                             ![f].backed = b]
           \/ /\ StoreKey(flow[f].key, flow[f].acct)
              /\ flow' = [flow EXCEPT ![f].pc = "seed", ![f].wrote = clock + 1]
<1>1. CASE OwnerStep(f)
      BY <1>1 DEF OwnerStep, Bind, Disambiguate, Reclaim, Bound, Goes, Ends
<1>2. CASE KeyStep(f)
  <2>1. CASE TakesKey(f)
        BY <2>1 DEF TakesKey
  <2>2. CASE Identity(f)
        BY <2>2 DEF Identity
  <2> QED BY <1>2, <2>1, <2>2 DEF KeyStep, Ensures, Validate, Identify, Revoke,
             RevokeHeld, Confirm, Goes
<1>3. CASE StoreStep(f)
      BY <1>3 DEF StoreStep, Mint, Minted, MintReplacement, Persist, Stores,
         Abandons, Seeds, Goes, Ends
<1>4. CASE FlowFault(f)
      BY <1>4 DEF FlowFault, FlowFails, RevokeFails, RevokeReplyLost, RevokeHeld,
         MintReplyLost, PersistFails, Abandons, Goes, Ends
<1> QED BY <1>1, <1>2, <1>3, <1>4

\* A setup that goes on stays whose it is, and leaves the others alone.
LEMMA FlowsStayWhose ==
    ASSUME SetupInv, NEW f \in Flows,
           OwnerStep(f) \/ KeyStep(f) \/ StoreStep(f) \/ FlowFault(f)
    PROVE  /\ UNCHANGED links
           /\ flow[f].pc \notin Before
           /\ \A g \in Flows : /\ flow'[g].user = flow[g].user
                               /\ flow'[g].link = flow[g].link
                               /\ flow'[g].acct = flow[g].acct
                               /\ g # f => flow'[g] = flow[g]
<1>1. flow \in [Flows -> FlowRows] /\ flow[f] \in FlowRows
      BY DEF SetupInv, SetupOK
<1>2. UNCHANGED links
      BY DEF OwnerStep, KeyStep, StoreStep, FlowFault, Bind, Disambiguate, Reclaim,
             Ensures, TakesKey, Validate, Identify, Identity, Revoke, RevokeHeld,
             Confirm, Mint, MintReplacement, Persist, PersistKept, Seeds, FlowFails,
             RevokeFails, RevokeReplyLost, MintReplyLost, PersistFails, Unminting
<1>3. flow[f].pc \notin Before
      BY DEF OwnerStep, KeyStep, StoreStep, FlowFault, Bind, Disambiguate, Reclaim,
             Ensures, TakesKey, Validate, Identify, Identity, Revoke, RevokeHeld,
             Confirm, Mint, MintReplacement, Persist, Seeds, FlowFails, Replaces,
             RevokeFails, RevokeReplyLost, MintReplyLost, PersistFails, Binds,
             MintsLegacy, In, Before
<1>4. \/ \E pc : flow' = [flow EXCEPT ![f].pc = pc]
      \/ \E pc, old : flow' = [flow EXCEPT ![f].pc = pc, ![f].old = old]
      \/ \E k, b : flow' = [flow EXCEPT ![f].pc = "persist", ![f].key = k,
                                        ![f].backed = b]
      \/ \E w : flow' = [flow EXCEPT ![f].pc = "seed", ![f].wrote = w]
      BY FlowForms
<1>5. ASSUME NEW g \in Flows
      PROVE  /\ flow'[g].user = flow[g].user
             /\ flow'[g].link = flow[g].link
             /\ flow'[g].acct = flow[g].acct
             /\ g # f => flow'[g] = flow[g]
  <2>1. g # f => flow'[g] = flow[g]
        BY <1>1, <1>4
  <2> DEFINE r == flow[f]
             same(x) == x.user = r.user /\ x.link = r.link /\ x.acct = r.acct
  <2>2. r \in FlowRows
        BY <1>1
  <2>3. /\ \A pc : same([r EXCEPT !.pc = pc])
        /\ \A pc, old : same([r EXCEPT !.pc = pc, !.old = old])
        /\ \A k, b : same([r EXCEPT !.pc = "persist", !.key = k, !.backed = b])
        /\ \A w : same([r EXCEPT !.pc = "seed", !.wrote = w])
    <3> HIDE DEF r
    <3> QED BY <2>2 DEF FlowRows
  <2>4. ASSUME NEW x, same(x), flow' = [flow EXCEPT ![f] = x]
        PROVE  /\ flow'[f].user = r.user /\ flow'[f].link = r.link
               /\ flow'[f].acct = r.acct
        BY <1>1, <2>4
  <2>5. /\ flow'[f].user = r.user /\ flow'[f].link = r.link
        /\ flow'[f].acct = r.acct
    <3>1. ASSUME NEW pc,
                flow' = [flow EXCEPT ![f].pc = pc]
          PROVE  <2>5
      <4> DEFINE x == [r EXCEPT !.pc = pc]
      <4>1. flow' = [flow EXCEPT ![f] = x]
            BY <1>1, <3>1
      <4>2. same(x)
        <5> HIDE DEF r, same
        <5> QED BY <2>3
      <4> HIDE DEF r, same, x
      <4> QED BY <2>4, <4>1, <4>2
    <3>2. ASSUME NEW pc, NEW old,
                flow' = [flow EXCEPT ![f].pc = pc, ![f].old = old]
          PROVE  <2>5
      <4> DEFINE x == [r EXCEPT !.pc = pc, !.old = old]
      <4>1. flow' = [flow EXCEPT ![f] = x]
            BY <1>1, <3>2
      <4>2. same(x)
        <5> HIDE DEF r, same
        <5> QED BY <2>3
      <4> HIDE DEF r, same, x
      <4> QED BY <2>4, <4>1, <4>2
    <3>3. ASSUME NEW k, NEW b,
                flow' = [flow EXCEPT ![f].pc = "persist", ![f].key = k,
                                                 ![f].backed = b]
          PROVE  <2>5
      <4> DEFINE x == [r EXCEPT !.pc = "persist", !.key = k, !.backed = b]
      <4>1. flow' = [flow EXCEPT ![f] = x]
            BY <1>1, <3>3
      <4>2. same(x)
        <5> HIDE DEF r, same
        <5> QED BY <2>3
      <4> HIDE DEF r, same, x
      <4> QED BY <2>4, <4>1, <4>2
    <3>4. ASSUME NEW w,
                flow' = [flow EXCEPT ![f].pc = "seed", ![f].wrote = w]
          PROVE  <2>5
      <4> DEFINE x == [r EXCEPT !.pc = "seed", !.wrote = w]
      <4>1. flow' = [flow EXCEPT ![f] = x]
            BY <1>1, <3>4
      <4>2. same(x)
        <5> HIDE DEF r, same
        <5> QED BY <2>3
      <4> HIDE DEF r, same, x
      <4> QED BY <2>4, <4>1, <4>2
    <3> QED BY <1>4, <3>1, <3>2, <3>3, <3>4
  <2> QED BY <1>1, <2>1, <2>5
<1> QED BY <1>2, <1>3, <1>5

\* Every flow that went past its callback consumed its link.
Consumption == \A f \in Flows : flow[f].user # "none"
                                    => links[flow[f].link].state = "used"
LinksOnce == OneFlowPerLink /\ Consumption

LEMMA LinkStepsConsumeOnce ==
    ASSUME SetupInv, LinksOnce,
           \/ MappingCatchesUp
           \/ \E l \in Links, user \in Users, mode \in Modes :
                  MintLink(l, user, mode)
           \/ \E l \in Links : LinkExpires(l)
           \/ \E f \in Flows, l \in Links, p \in Processes : StartLink(f, l, p)
           \/ \E f \in Flows, acct \in Accounts : Consume(f, acct)
    PROVE  LinksOnce'
<1>1. /\ flow \in [Flows -> FlowRows] /\ links \in [Links -> LinkRows]
      /\ \A f \in Flows : /\ flow[f].user # "none" => flow[f].link \in Links
                          /\ flow[f].pc = "callback" => flow[f].link \in Links
      BY DEF SetupInv, SetupOK, FlowShape, ShapedFlow
<1>2. CASE MappingCatchesUp
      BY <1>2 DEF MappingCatchesUp, LinksOnce, OneFlowPerLink, Consumption
<1>3. ASSUME NEW l \in Links, links[l].state # "used", UNCHANGED flow,
             NEW x, links' = [links EXCEPT ![l] = x]
      PROVE  LinksOnce'
      BY <1>1, <1>3 DEF LinksOnce, OneFlowPerLink, Consumption
<1>4. ASSUME NEW l \in Links, NEW user \in Users, NEW mode \in Modes,
             MintLink(l, user, mode)
      PROVE  LinksOnce'
      BY <1>3, <1>4 DEF MintLink
<1>5. ASSUME NEW l \in Links, LinkExpires(l)
      PROVE  LinksOnce'
      BY <1>3, <1>5 DEF LinkExpires
<1>6. ASSUME NEW f \in Flows, NEW l \in Links, NEW p \in Processes, StartLink(f, l, p)
      PROVE  LinksOnce'
  <2> DEFINE g == [NoFlow EXCEPT !.pc = "callback", !.proc = p, !.link = l]
  <2>1. flow' = [flow EXCEPT ![f] = g] /\ links[l].state # "used"
        /\ links' = [links EXCEPT ![l].state = "started"]
        BY <1>6 DEF StartLink
  <2>2. g.user = "none"
        BY DEF NoFlow
  <2> HIDE DEF g
  <2> QED BY <1>1, <2>1, <2>2 DEF LinksOnce, OneFlowPerLink, Consumption
<1>7. ASSUME NEW f \in Flows, NEW acct \in Accounts, Consume(f, acct)
      PROVE  LinksOnce'
  <2> DEFINE l == flow[f].link
  <2>1. l \in Links /\ flow[f].user = "none"
        BY <1>1, <1>7 DEF Consume, In, SetupInv, FlowShape, ShapedFlow, Before
  <2>2. CASE Ends(f) /\ UNCHANGED links
        BY <1>1, <2>2 DEF Ends, Goes, LinksOnce, OneFlowPerLink, Consumption, FlowRows
  <2>3. CASE /\ links[l].state = "started"
             /\ links' = [links EXCEPT ![l].state = "used"]
             /\ Consumed(f, acct) \/ Ends(f)
    <3>1. \A g \in Flows \ {f} : flow'[g] = flow[g]
          BY <1>1, <2>3 DEF Consumed, Ends, Goes
    <3>2. flow'[f].link = l
          BY <1>1, <2>3 DEF Consumed, Ends, Goes, FlowRows
    <3>3. \A g \in Flows : flow[g].user # "none" => flow[g].link # l
          BY <2>3 DEF LinksOnce, Consumption
    <3>4. links'[l].state = "used" /\ \A m \in Links \ {l} : links'[m] = links[m]
          BY <1>1, <2>1, <2>3 DEF LinkRows
    <3> QED BY <1>1, <2>1, <3>1, <3>2, <3>3, <3>4
            DEF LinksOnce, OneFlowPerLink, Consumption
  <2> QED BY <1>7, <2>2, <2>3 DEF Consume
<1> QED BY <1>2, <1>4, <1>5, <1>6, <1>7

\* The steps that are of no setup.
Elsewhere == /\ UNCHANGED <<links, flow, keys, bindings, binding, orphans>>
             /\ released \subseteq released'
LEMMA StepsOfSetup ==
    ASSUME TypeInv, [Moves]_vars
    PROVE  \/ Elsewhere
           \/ /\ UNCHANGED providerVars
              /\ \/ \E l \in Links, user \in Users, mode \in Modes :
                        MintLink(l, user, mode)
                 \/ \E l \in Links : LinkExpires(l)
                 \/ \E f \in Flows, l \in Links, p \in Processes :
                        StartLink(f, l, p)
                 \/ \E f \in Flows, acct \in Accounts : Consume(f, acct)
           \/ \E f \in Flows :
                  OwnerStep(f) \/ KeyStep(f) \/ StoreStep(f) \/ FlowFault(f)
           \/ \E k \in Keys, refused \in BOOLEAN : RevokeOrphan(k, refused)
<1>1. SetupInv /\ ScenarioOK
      BY DEF TypeInv
<1>2. CASE UNCHANGED <<providerVars, setupVars, teardownVars>>
      BY <1>2 DEF setupVars, Elsewhere
<1>3. CASE Replicates
      BY <1>3 DEF Replicates, MappingCatchesUp, setupVars, Elsewhere
<1>4. ASSUME NEW a \in Actors,
             LooksUp(a) \/ LookupGoesWrong(a) \/ \E p \in Processes : Asks(a, p)
      PROVE  Elsewhere
      BY <1>4 DEF LooksUp, LookupGoesWrong, Asks, setupVars, Elsewhere
<1>5. ASSUME NEW l \in Links, Commands(l) \/ Expires(l)
      PROVE  /\ UNCHANGED providerVars
             /\ \/ \E user \in Users, mode \in Modes : MintLink(l, user, mode)
                \/ LinkExpires(l)
  <2>1. scenario.jobs[l] \subseteq Users \X Modes
        BY <1>1, ScenarioAssumption DEF ScenarioOK
  <2>2. ASSUME NEW job \in scenario.jobs[l], MintLink(l, job[1], job[2])
        PROVE  \E user \in Users, mode \in Modes : MintLink(l, user, mode)
    <3>1. job[1] \in Users /\ job[2] \in Modes
          BY <2>1
    <3> QED BY <2>2, <3>1
  <2> QED BY <1>5, <2>2 DEF Commands, Expires
<1>6. ASSUME NEW f \in Flows, Opens(f) \/ Returns(f)
      PROVE  /\ UNCHANGED providerVars
             /\ \/ \E l \in Links, p \in Processes : StartLink(f, l, p)
                \/ \E acct \in Accounts : Consume(f, acct)
  <2>1. scenario.sessions[f] \subseteq Links /\ scenario.procs \subseteq Processes
        BY <1>1, ScenarioAssumption DEF ScenarioOK
  <2> QED BY <1>1, <1>6, <2>1, ReturnsWithAccount DEF Opens, Returns
<1>7. ASSUME NEW u \in Clicks, Uninstalls(u) \/ Disconnects(u) \/ DisconnectGoesWrong(u)
      PROVE  Elsewhere
      BY <1>7 DEF Uninstalls, Disconnects, DisconnectGoesWrong, Confirms, ClickStep,
         ClickFault, ReadsKeyId, BuildsClient, RevokesUpstream, DeletesKey,
         SchedulesPurge, ClickFails, DeleteReplyLost, ClickKept, GivesUpKey,
         setupVars, Elsewhere
<1>8. CASE AppRemoved \/ EventArrives
      BY <1>8 DEF AppRemoved, EventArrives, Removal, ReceiveEvent, setupVars, Elsewhere
<1>9. ASSUME NEW j \in Jobs, Purges(j) \/ PurgeGoesWrong(j)
      PROVE  Elsewhere
      BY <1>9 DEF Purges, PurgeGoesWrong, PurgeStep, PurgeFault, PurgesState,
         PurgeForgets, PurgesTable, PurgesMapping, JudgePurge, Retries, PurgeFails,
         PurgeAborts, GivesUpKey, setupVars, Elsewhere
<1>10. CASE \/ Reinstalled \/ ChangesAdmins \/ Transfers
            \/ \E t \in Tables : TableWritten(t)
       BY <1>10 DEF Reinstalled, ChangesAdmins, Transfers, TableWritten, setupVars,
           Elsewhere
<1>11. CASE [Spends]_vars
       BY <1>2, <1>11 DEF Spends, vars
<1>12. Readers \subseteq Actors
       BY ActorsAssumption
<1> QED BY <1>3, <1>4, <1>5, <1>6, <1>7, <1>8, <1>9, <1>10, <1>11, <1>12
        DEF Moves, BindingWritten, Writes, Next, SetsUp, SetupGoesWrong, CleansUp

LEMMA LinksOnceKept ==
    ASSUME TypeInv, LinksOnce, [Moves]_vars
    PROVE  LinksOnce'
<1>1. SetupInv
      BY DEF TypeInv
<1>2. CASE UNCHANGED <<links, flow>>
      BY <1>2 DEF LinksOnce, OneFlowPerLink, Consumption
<1>3. ASSUME NEW f \in Flows,
             OwnerStep(f) \/ KeyStep(f) \/ StoreStep(f) \/ FlowFault(f)
      PROVE  LinksOnce'
      BY <1>1, <1>3, FlowsStayWhose DEF LinksOnce, OneFlowPerLink, Consumption
<1> QED BY <1>1, <1>2, <1>3, StepsOfSetup, LinkStepsConsumeOnce
        DEF Elsewhere, RevokeOrphan

\* However many browsers open a link, and however they race and fail: one of
\* them at most gets past the link's consumption.
THEOREM LinksAreUsedOnce == Spec => []OneFlowPerLink
<1>1. Init => TypeInv /\ LinksOnce
  <2>1. ASSUME Init
        PROVE  \A f \in Flows : flow[f].user = "none"
        BY <2>1 DEF Init, NoFlow
  <2> QED BY <2>1, TypeBegins DEF LinksOnce, OneFlowPerLink, Consumption
<1>2. TypeInv /\ LinksOnce /\ [Next]_vars => (TypeInv /\ LinksOnce)'
      BY TypeKept, LinksOnceKept DEF Moves
<1> QED BY <1>1, <1>2, PTL DEF Spec, LinksOnce

-----------------------------------------------------------------------------
(* A rotation kills the old key before it makes a new one.                 *)

\* What a setup may do to qurl-service's keys.
LEMMA StepsOfKeys ==
    ASSUME NEW f \in Flows,
           OwnerStep(f) \/ KeyStep(f) \/ StoreStep(f) \/ FlowFault(f)
    PROVE  \/ UNCHANGED keys
           \/ /\ In(f, "revoke") /\ Revocable(f) /\ Revoked(Held(f))
           \/ \E k \in Keys : Replaces(f, k)
           \/ \E k \in Keys : Binds(f, k) \/ MintsLegacy(f, k)
<1>1. CASE OwnerStep(f)
      BY <1>1 DEF OwnerStep, Bind, Disambiguate, Reclaim
<1>2. CASE KeyStep(f)
      BY <1>2 DEF KeyStep, Ensures, TakesKey, Validate, Identify, Identity, Revoke,
         RevokeHeld, Confirm, Unminting
<1>3. CASE StoreStep(f)
      BY <1>3 DEF StoreStep, Mint, MintReplacement, Persist, PersistKept, Seeds,
         Unminting
<1>4. CASE FlowFault(f)
      BY <1>4 DEF FlowFault, FlowFails, RevokeFails, RevokeReplyLost, RevokeHeld,
         MintReplyLost, PersistFails, PersistKept, Unminting
<1> QED BY <1>1, <1>2, <1>3, <1>4

\* A setup replaces a key without identity, or one that is dead.
Retired == \A f \in Flows : flow[f].pc = "replace" /\ flow[f].old # 0
                                => keys[flow[f].old].state = "revoked"
OldKeysDie == NeverTwoKeys /\ Retired

\* Keys only ever die, but for the one that is made.
KeysStay(new) ==
    \A k \in Keys \ new :
        /\ keys'[k].old = keys[k].old
        /\ keys'[k].state = "live" => keys[k].state = "live"
        /\ keys[k].state = "revoked" => keys'[k].state = "revoked"

LEMMA RevokedStays ==
    ASSUME SetupInv, NEW k, Revoked(k) \/ UNCHANGED keys
    PROVE  KeysStay({}) /\ (Revoked(k) /\ k \in Keys => keys'[k].state = "revoked")
<1>1. keys \in [Keys -> KeyRows]
      BY DEF SetupInv, SetupOK
<1> QED BY <1>1 DEF Revoked, KeysStay, KeyRows

LEMMA MadeStays ==
    ASSUME SetupInv, NEW k \in Keys, NEW acct, NEW via, NEW old,
           Made(k, acct, via, old)
    PROVE  /\ KeysStay({k})
           /\ keys[k].state # "none" => keys'[k] = keys[k]
           /\ keys[k].state = "none" => keys'[k] = [state |-> "live", acct |-> acct,
                                                   via |-> via, old |-> old]
<1>1. keys \in [Keys -> KeyRows]
      BY DEF SetupInv, SetupOK
<1> QED BY <1>1 DEF Made, KeysStay, KeyRows

\* A flow that goes to replace a key holds a dead one, or none.
LEMMA FlowsReplaceDead ==
    ASSUME SetupInv, NEW f \in Flows,
           OwnerStep(f) \/ KeyStep(f) \/ StoreStep(f) \/ FlowFault(f)
    PROVE  flow'[f].pc = "replace" /\ flow'[f].old \in Keys
               => keys'[flow'[f].old].state = "revoked"
<1> DEFINE r == flow[f]
           holds == flow'[f].pc = "replace" /\ flow'[f].old \in Keys
                       => keys'[flow'[f].old].state = "revoked"
<1>1. /\ flow \in [Flows -> FlowRows] /\ r \in FlowRows /\ 0 \notin Keys
      /\ keys \in [Keys -> KeyRows]
      BY DEF SetupInv, SetupOK, Keys
<1>2. ASSUME NEW pc, Goes(f, pc)
      PROVE  flow'[f].pc = pc /\ flow'[f].old = r.old
      BY <1>1, <1>2 DEF Goes, FlowRows
<1>3. CASE OwnerStep(f)
  <2>1. \E pc \in {"key", "whose", "reclaim", "done"} : Goes(f, pc)
        BY <1>3 DEF OwnerStep, Bind, Disambiguate, Reclaim, Bound, Ends
  <2> QED BY <1>2, <2>1
<1>4. CASE Ensures(f) \/ Validate(f) \/ Identify(f) \/ Seeds(f) \/ FlowFails(f)
           \/ RevokeFails(f) \/ MintReplyLost(f) \/ PersistFails(f)
  <2>1. \E pc \in {"lookup", "identity", "done", "ident", "mint"} : Goes(f, pc)
        BY <1>4 DEF Ensures, Validate, Identify, Seeds, FlowFails, RevokeFails,
           MintReplyLost, PersistFails, Abandons, Ends
  <2> QED BY <1>2, <2>1
<1>5. CASE TakesKey(f)
  <2> DEFINE pc == CASE lookup[f].result.status = "none" -> "mint"
                     [] lookup[f].result.status = "key"  -> "validate"
                     [] OTHER                            -> "done"
             x == [r EXCEPT !.pc = pc, !.old = lookup[f].result.key]
  <2>1. flow' = [flow EXCEPT ![f] = x]
        BY <1>1, <1>5 DEF TakesKey
  <2>2. pc # "replace" /\ x.pc = pc
    <3>1. pc # "replace"
          OBVIOUS
    <3> HIDE DEF r, pc
    <3> QED BY <1>1, <3>1 DEF FlowRows
  <2> HIDE DEF x, pc
  <2> QED BY <1>1, <2>1, <2>2
<1>6. CASE Identity(f)
  <2> DEFINE mode == r.mode
             other == row.acct # "none" /\ row.acct # r.acct
             blank == mode = "repoint" /\ (row.acct = "none" \/ ~row.ident)
             refused == row.key # 0 /\ (other \/ blank)
             pc == CASE row.key = 0                           -> "mint"
                     [] refused                               -> "done"
                     [] row.key # 0 /\ row.ident /\ ~refused  -> "revoke"
                     [] OTHER                                 -> "replace"
             old == IF row.key # 0 /\ row.ident THEN row.key ELSE 0
             x == [r EXCEPT !.pc = pc, !.old = old]
  <2>1. flow' = [flow EXCEPT ![f] = x]
    <3>1. flow' = [flow EXCEPT ![f].pc = pc, ![f].old = old]
          BY <1>6 DEF Identity
    <3> HIDE DEF pc, old
    <3> QED BY <1>1, <3>1
  <2>2. pc = "replace" => old = 0
        OBVIOUS
  <2>3. x.pc = pc /\ x.old = old
    <3> HIDE DEF r, pc, old
    <3> QED BY <1>1 DEF FlowRows
  <2> HIDE DEF x, pc, old
  <2> QED BY <1>1, <2>1, <2>2, <2>3
<1>7. CASE Revoke(f) \/ RevokeReplyLost(f)
  <2>1. \/ Revoked(Held(f)) /\ \E pc \in {"replace", "done"} : Goes(f, pc)
        \/ \E pc \in {"confirm", "done"} : Goes(f, pc)
        BY <1>7 DEF Revoke, RevokeReplyLost, RevokeHeld
  <2> QED BY <1>2, <2>1, RevokedStays DEF Held
<1>8. CASE Confirm(f)
  <2>1. \/ Goes(f, "done")
        \/ Goes(f, "replace") /\ keys[Held(f)].state = "revoked" /\ UNCHANGED keys
        BY <1>8 DEF Confirm, Unminting
  <2> QED BY <1>2, <2>1 DEF Held
<1>9. CASE Mint(f) \/ MintReplacement(f)
  <2>1. CASE \E k, b : Minted(f, k, b)
    <3>1. PICK k, b : Minted(f, k, b)
          BY <2>1
    <3> DEFINE x == [r EXCEPT !.pc = "persist", !.key = k, !.backed = b]
    <3>2. flow' = [flow EXCEPT ![f] = x]
          BY <1>1, <3>1 DEF Minted
    <3>3. x.pc = "persist"
      <4> HIDE DEF r
      <4> QED BY <1>1 DEF FlowRows
    <3> HIDE DEF x
    <3> QED BY <1>1, <3>2, <3>3
  <2>2. CASE Goes(f, "done")
        BY <1>2, <2>2
  <2> QED BY <1>9, <2>1, <2>2 DEF Mint, MintReplacement, Ends
<1>10. CASE Persist(f)
  <2>1. CASE Goes(f, "done")
        BY <1>2, <2>1
  <2>2. CASE Stores(f)
    <3> DEFINE x == [r EXCEPT !.pc = "seed", !.wrote = clock + 1]
    <3>1. flow' = [flow EXCEPT ![f] = x]
          BY <1>1, <2>2 DEF Stores
    <3>2. x.pc = "seed"
      <4> HIDE DEF r
      <4> QED BY <1>1 DEF FlowRows
    <3> HIDE DEF x
    <3> QED BY <1>1, <3>1, <3>2
  <2> QED BY <1>10, <2>1, <2>2 DEF Persist, Abandons, Ends
<1> QED BY <1>3, <1>4, <1>5, <1>6, <1>7, <1>8, <1>9, <1>10
        DEF KeyStep, StoreStep, FlowFault

LEMMA OldKeysDieKept ==
    ASSUME TypeInv, OldKeysDie, [Moves]_vars
    PROVE  OldKeysDie'
<1>1. /\ SetupInv /\ flow \in [Flows -> FlowRows] /\ keys \in [Keys -> KeyRows]
      /\ \A f \in Flows : flow[f].old \in {0} \cup Keys
      /\ \A k \in Keys : keys[k].old \in {0} \cup Keys
  <2>1. /\ SetupInv /\ flow \in [Flows -> FlowRows] /\ keys \in [Keys -> KeyRows]
        BY DEF TypeInv, SetupInv, SetupOK
  <2>2. 0 .. MaxKeys = {0} \cup Keys
        BY ProviderAssumption DEF Keys
  <2>3. /\ \A f \in Flows : flow[f].old \in 0 .. MaxKeys
        /\ \A k \in Keys : keys[k].old \in 0 .. MaxKeys
        BY <2>1 DEF FlowRows, KeyRows
  <2> QED BY <2>1, <2>2, <2>3
<1>2. TypeInv'
      BY TypeKept
<1>3. /\ \A f \in Flows : flow'[f].old \in {0} \cup Keys
      /\ \A k \in Keys : keys'[k].old \in {0} \cup Keys
  <2>1. flow' \in [Flows -> FlowRows] /\ keys' \in [Keys -> KeyRows]
        BY <1>2 DEF TypeInv, SetupInv, SetupOK
  <2>2. 0 .. MaxKeys = {0} \cup Keys
        BY ProviderAssumption DEF Keys
  <2>3. /\ \A f \in Flows : flow'[f].old \in 0 .. MaxKeys
        /\ \A k \in Keys : keys'[k].old \in 0 .. MaxKeys
        BY <2>1 DEF FlowRows, KeyRows
  <2> QED BY <2>2, <2>3
<1>4. ASSUME KeysStay({})
      PROVE  NeverTwoKeys'
      BY <1>1, <1>4 DEF KeysStay, OldKeysDie, NeverTwoKeys
<1>5. CASE Elsewhere
      BY <1>5 DEF Elsewhere, OldKeysDie, NeverTwoKeys, Retired
<1>6. ASSUME NEW k \in Keys, NEW refused \in BOOLEAN, RevokeOrphan(k, refused)
      PROVE  OldKeysDie'
  <2>1. KeysStay({}) /\ UNCHANGED flow
        BY <1>1, <1>6, RevokedStays DEF RevokeOrphan
  <2> QED BY <1>1, <1>4, <2>1 DEF KeysStay, OldKeysDie, Retired
<1>7. CASE \/ \E l \in Links, user \in Users, mode \in Modes :
                  MintLink(l, user, mode)
           \/ \E l \in Links : LinkExpires(l)
           \/ \E f \in Flows, l \in Links, p \in Processes : StartLink(f, l, p)
           \/ \E f \in Flows, acct \in Accounts : Consume(f, acct)
  <2>1. UNCHANGED keys
        BY <1>7 DEF MintLink, LinkExpires, StartLink, Consume
  <2>2. ASSUME NEW f \in Flows, NEW x, flow' = [flow EXCEPT ![f] = x],
               x.pc # "replace"
        PROVE  OldKeysDie'
        BY <1>1, <2>1, <2>2 DEF OldKeysDie, NeverTwoKeys, Retired
  <2>3. ASSUME NEW f \in Flows, NEW l \in Links, NEW p \in Processes,
               StartLink(f, l, p)
        PROVE  OldKeysDie'
    <3> DEFINE x == [NoFlow EXCEPT !.pc = "callback", !.proc = p, !.link = l]
    <3>1. flow' = [flow EXCEPT ![f] = x]
          BY <2>3 DEF StartLink
    <3>2. x.pc = "callback"
          BY DEF NoFlow
    <3> HIDE DEF x
    <3> QED BY <2>2, <3>1, <3>2
  <2>4. ASSUME NEW f \in Flows, NEW acct \in Accounts, Consume(f, acct)
        PROVE  OldKeysDie'
    <3> DEFINE r == flow[f]
               m == links[r.link]
               x == [r EXCEPT !.pc = "bind", !.user = m.user, !.mode = m.mode,
                              !.acct = acct]
               y == [r EXCEPT !.pc = "done"]
    <3>1. r \in FlowRows
          BY <1>1
    <3>2. flow' = [flow EXCEPT ![f] = x] \/ flow' = [flow EXCEPT ![f] = y]
          BY <1>1, <2>4 DEF Consume, Consumed, Ends, Goes
    <3>3. x.pc = "bind" /\ y.pc = "done"
      <4> HIDE DEF r, m
      <4> QED BY <3>1 DEF FlowRows
    <3> HIDE DEF x, y
    <3> QED BY <2>2, <3>2, <3>3
  <2>5. CASE UNCHANGED flow
        BY <2>1, <2>5 DEF OldKeysDie, NeverTwoKeys, Retired
  <2> QED BY <1>7, <2>3, <2>4, <2>5 DEF MintLink, LinkExpires
<1>8. ASSUME NEW f \in Flows,
             OwnerStep(f) \/ KeyStep(f) \/ StoreStep(f) \/ FlowFault(f)
      PROVE  OldKeysDie'
  <2>1. ASSUME NEW new, KeysStay(new),
               \A k \in Keys \cap new : keys[k].state # "revoked"
        PROVE  Retired'
    <3>1. \A g \in Flows \ {f} : flow'[g] = flow[g]
          BY <1>1, <1>8, FlowsStayWhose
    <3>2. flow'[f].pc = "replace" /\ flow'[f].old \in Keys
               => keys'[flow'[f].old].state = "revoked"
          BY <1>1, <1>8, FlowsReplaceDead
    <3> QED BY <1>1, <1>3, <2>1, <3>1, <3>2 DEF KeysStay, OldKeysDie, Retired
  <2>2. CASE UNCHANGED keys \/ Revoked(Held(f))
    <3>1. KeysStay({})
          BY <1>1, <2>2, RevokedStays
    <3> QED BY <1>4, <2>1, <3>1 DEF OldKeysDie
  <2>3. ASSUME NEW k \in Keys, Made(k, flow[f].acct, "binding", 0)
                               \/ Made(k, flow[f].acct, "legacy", 0)
        PROVE  OldKeysDie'
    <3>1. CASE keys[k].state = "none"
      <4>1. KeysStay({k}) /\ keys'[k].old = 0
        <5> DEFINE acct == flow[f].acct
                   old == 0
        <5>1. Made(k, acct, "binding", old) \/ Made(k, acct, "legacy", old)
              BY <2>3
        <5> HIDE DEF acct, old
        <5>2. CASE Made(k, acct, "binding", old)
          <6>1. KeysStay({k}) /\ keys'[k] = [state |-> "live", acct |-> acct,
                                             via |-> "binding", old |-> old]
                BY <1>1, <3>1, <5>2, MadeStays
          <6> QED BY <6>1 DEF old
        <5>3. CASE Made(k, acct, "legacy", old)
          <6>1. KeysStay({k}) /\ keys'[k] = [state |-> "live", acct |-> acct,
                                             via |-> "legacy", old |-> old]
                BY <1>1, <3>1, <5>3, MadeStays
          <6> QED BY <6>1 DEF old
        <5> QED BY <5>1, <5>2, <5>3
      <4>2. \A j \in Keys : keys[j].state = "revoked" => j # k
            BY <3>1
      <4>3. NeverTwoKeys'
            BY <1>1, <1>3, <4>1, <4>2 DEF KeysStay, OldKeysDie, NeverTwoKeys
      <4>4. Retired'
            BY <2>1, <3>1, <4>1
      <4> QED BY <4>3, <4>4 DEF OldKeysDie
    <3>2. CASE keys[k].state # "none"
          BY <2>2, <2>3, <3>2 DEF Made
    <3> QED BY <3>1, <3>2
  <2>4. ASSUME NEW k \in Keys, Replaces(f, k)
        PROVE  OldKeysDie'
    <3>1. CASE keys[k].state = "none"
      <4>1. /\ KeysStay({k})
            /\ keys'[k].old = flow[f].old
            /\ flow[f].pc = "replace"
        <5> DEFINE acct == flow[f].acct
                   old == flow[f].old
        <5>1. Made(k, acct, "replacement", old) /\ flow[f].pc = "replace"
              BY <2>4 DEF Replaces, In, Held
        <5> HIDE DEF acct, old
        <5>2. KeysStay({k}) /\ keys'[k] = [state |-> "live", acct |-> acct,
                                           via |-> "replacement", old |-> old]
              BY <1>1, <3>1, <5>1, MadeStays
        <5>3. keys'[k].old = old
              BY <5>2
        <5> QED BY <5>1, <5>2, <5>3 DEF old
      <4>2. flow[f].old # 0 => keys[flow[f].old].state = "revoked"
            BY <4>1 DEF OldKeysDie, Retired
      <4>3. \A j \in Keys : keys[j].state = "revoked" => j # k
            BY <3>1
      <4>4. NeverTwoKeys'
            BY <1>1, <1>3, <4>1, <4>2, <4>3 DEF KeysStay, OldKeysDie, NeverTwoKeys
      <4>5. Retired'
            BY <2>1, <3>1, <4>1
      <4> QED BY <4>4, <4>5 DEF OldKeysDie
    <3>2. CASE keys[k].state # "none"
          BY <2>2, <2>4, <3>2 DEF Replaces, Made
    <3> QED BY <3>1, <3>2
  <2> QED BY <1>8, <2>2, <2>3, <2>4, StepsOfKeys DEF Binds, MintsLegacy
<1> QED BY <1>5, <1>6, <1>7, <1>8, StepsOfSetup

\* Whatever fails of a rotation and however often it is tried, by anyone and on
\* any process: no new key is made while the key it replaces lives.
THEOREM OldKeysDieFirst == Spec => []NeverTwoKeys
<1>1. Init => TypeInv /\ OldKeysDie
  <2>1. ASSUME Init
        PROVE  OldKeysDie
    <3>1. \A f \in Flows : flow[f].pc = "idle"
          BY <2>1 DEF Init, NoFlow
    <3>2. \A k \in Keys : keys[k].old = 0
          BY <2>1 DEF Init, Unminted
    <3> QED BY <3>1, <3>2 DEF OldKeysDie, NeverTwoKeys, Retired
  <2> QED BY <2>1, TypeBegins
<1>2. TypeInv /\ OldKeysDie /\ [Next]_vars => (TypeInv /\ OldKeysDie)'
      BY TypeKept, OldKeysDieKept DEF Moves
<1> QED BY <1>1, <1>2, PTL DEF Spec, OldKeysDie

-----------------------------------------------------------------------------
(* A purge spares what is newer than its teardown.                         *)

\* The steps that write the workspace's row.
LEMMA StepsOfRow ==
    ASSUME [Moves]_vars
    PROVE  \/ UNCHANGED row
           \/ \E f \in Flows : /\ Persist(f) \/ PersistFails(f)
                               /\ StoreKey(flow[f].key, flow[f].acct)
           \/ \E u \in Clicks : /\ DeletesKey(u) \/ DeleteReplyLost(u)
                                /\ ClearKey /\ GivesUpKey
           \/ \E j \in Jobs : PurgesState(j) /\ DeleteRow(Cutoff(j)) /\ GivesUpKey
           \/ Reinstalled /\ StoreBotToken
<1>1. CASE UNCHANGED providerVars
      BY <1>1 DEF providerVars
<1>2. CASE Replicates
      BY <1>2 DEF Replicates, ReplicaCatchesUp, providerVars
<1>3. ASSUME NEW a,
             LooksUp(a) \/ LookupGoesWrong(a) \/ \E p \in Processes : Asks(a, p)
      PROVE  UNCHANGED row
      BY <1>3 DEF LooksUp, LookupGoesWrong, Asks, LookupBegins, LookupStep,
         LookupFault, Look, Read, ReadFails, HasRead, Finish, Releases, Check,
         Verify, VerifyFails, HasVerified, Answer, Judge, GivesUp
<1>4. ASSUME NEW f \in Flows, SetsUp(f) \/ SetupGoesWrong(f)
      PROVE  \/ UNCHANGED row
             \/ /\ Persist(f) \/ PersistFails(f)
                /\ StoreKey(flow[f].key, flow[f].acct)
  <2>1. CASE OwnerStep(f)
        BY <2>1 DEF OwnerStep
  <2>2. CASE KeyStep(f)
        BY <2>2 DEF KeyStep, Ensures, TakesKey, Validate, Identify, Identity, Revoke,
           RevokeHeld, Confirm, LookupBegins, providerVars
  <2>3. CASE StoreStep(f)
        BY <2>3 DEF StoreStep, Mint, MintReplacement, Persist, Stores, Seeds,
           providerVars
  <2>4. CASE FlowFault(f)
        BY <2>4 DEF FlowFault, FlowFails, RevokeFails, RevokeReplyLost, RevokeHeld,
           MintReplyLost, PersistFails, providerVars
  <2> QED BY <1>4, <2>1, <2>2, <2>3, <2>4 DEF SetsUp, SetupGoesWrong
<1>5. ASSUME NEW u \in Clicks, Uninstalls(u) \/ Disconnects(u) \/ DisconnectGoesWrong(u)
      PROVE  \/ UNCHANGED row
             \/ /\ DeletesKey(u) \/ DeleteReplyLost(u)
                /\ ClearKey /\ GivesUpKey
      BY <1>5 DEF Uninstalls, Disconnects, DisconnectGoesWrong, Confirms, ClickStep,
         ClickFault, ReadsKeyId, BuildsClient, RevokesUpstream, DeletesKey,
         SchedulesPurge, ClickFails, DeleteReplyLost, LookupBegins, providerVars
<1>6. ASSUME NEW j \in Jobs, Purges(j) \/ PurgeGoesWrong(j)
      PROVE  \/ UNCHANGED row
             \/ PurgesState(j) /\ DeleteRow(Cutoff(j)) /\ GivesUpKey
      BY <1>6 DEF Purges, PurgeGoesWrong, PurgeStep, PurgeFault, PurgesState,
         PurgeForgets, PurgesTable, PurgesMapping, JudgePurge, Retries, PurgeFails,
         PurgeAborts, providerVars
<1>7. CASE \/ Reinstalled \/ ChangesAdmins \/ Transfers
           \/ \E t \in Tables : TableWritten(t)
      BY <1>7 DEF Reinstalled, ChangesAdmins, Transfers, TableWritten, OthersKept
<1> QED BY <1>1, <1>2, <1>3, <1>4, <1>5, <1>6, <1>7
        DEF Moves, Next, Spends, BindingWritten, Writes, vars, Commands, Expires,
            Opens, Returns, CleansUp, RevokeOrphan, AppRemoved, EventArrives, Removal,
            ReceiveEvent

\* The steps that write the owner's row.
LEMMA StepsOfMapping ==
    ASSUME [Moves]_vars
    PROVE  \/ UNCHANGED mapping
           \/ \E f \in Flows : OwnerStep(f) /\ Bound(f)
           \/ \E j \in Jobs : PurgesMapping(j)
           \/ ChangesAdmins
           \/ Transfers
<1>1. CASE UNCHANGED setupVars
      BY <1>1 DEF setupVars
<1>2. CASE Replicates
      BY <1>2 DEF Replicates, MappingCatchesUp, setupVars
<1>3. ASSUME NEW l, Commands(l) \/ Expires(l)
      PROVE  UNCHANGED mapping
      BY <1>3 DEF Commands, Expires, MintLink, LinkExpires
<1>4. ASSUME NEW f \in Flows, Opens(f) \/ Returns(f) \/ SetsUp(f) \/ SetupGoesWrong(f)
      PROVE  UNCHANGED mapping \/ (OwnerStep(f) /\ Bound(f))
  <2>1. CASE Opens(f) \/ Returns(f)
        BY <2>1 DEF Opens, Returns, StartLink, Consume
  <2>2. CASE OwnerStep(f)
        BY <2>2 DEF OwnerStep, Bind, Disambiguate, Reclaim, MappingKept
  <2>3. CASE KeyStep(f)
        BY <2>3 DEF KeyStep, Ensures, TakesKey, Validate, Identify, Identity, Revoke,
           RevokeHeld, Confirm, Unminting
  <2>4. CASE StoreStep(f)
        BY <2>4 DEF StoreStep, Mint, MintReplacement, Persist, PersistKept, Seeds,
           Unminting
  <2>5. CASE FlowFault(f)
        BY <2>5 DEF FlowFault, FlowFails, RevokeFails, RevokeReplyLost, RevokeHeld,
           MintReplyLost, PersistFails, PersistKept, Unminting
  <2> QED BY <1>4, <2>1, <2>2, <2>3, <2>4, <2>5 DEF SetsUp, SetupGoesWrong
<1>5. ASSUME NEW u, Uninstalls(u) \/ Disconnects(u) \/ DisconnectGoesWrong(u)
      PROVE  UNCHANGED mapping
      BY <1>5 DEF Uninstalls, Disconnects, DisconnectGoesWrong, Confirms, ClickStep,
         ClickFault, ReadsKeyId, BuildsClient, RevokesUpstream, DeletesKey,
         SchedulesPurge, ClickFails, DeleteReplyLost, ClickKept, setupVars
<1>6. ASSUME NEW j \in Jobs, Purges(j) \/ PurgeGoesWrong(j)
      PROVE  UNCHANGED mapping \/ PurgesMapping(j)
      BY <1>6 DEF Purges, PurgeGoesWrong, PurgeStep, PurgeFault, PurgesState,
         PurgeForgets, PurgesTable, JudgePurge, Retries, PurgeFails,
         PurgeAborts, setupVars
<1>7. CASE Reinstalled \/ \E t \in Tables : TableWritten(t)
      BY <1>7 DEF Reinstalled, TableWritten, setupVars
<1> QED BY <1>1, <1>2, <1>3, <1>4, <1>5, <1>6, <1>7
        DEF Moves, Next, Spends, BindingWritten, Writes, vars, Asks, LooksUp,
            LookupGoesWrong, CleansUp, RevokeOrphan, AppRemoved, EventArrives,
            Removal, ReceiveEvent

\* The steps that write the other tables, the removal and the purges.
LEMMA StepsOfTeardown ==
    ASSUME [Moves]_vars
    PROVE  \/ UNCHANGED <<tables, removed, purge>>
           \/ \E j \in Jobs, t \in Tables : PurgesTable(j, t)
           \/ \E j \in Jobs : /\ PurgeStep(j) \/ PurgeFault(j)
                              /\ UNCHANGED <<tables, removed>>
           \/ \E t \in Tables : TableWritten(t)
           \/ Removal
           \/ \E p : ReceiveEvent(p)
           \/ \E u \in Clicks : SchedulesPurge(u)
<1>1. CASE UNCHANGED teardownVars
      BY <1>1 DEF teardownVars
<1>2. ASSUME NEW u \in Clicks, Uninstalls(u) \/ Disconnects(u) \/ DisconnectGoesWrong(u)
      PROVE  UNCHANGED <<tables, removed, purge>> \/ SchedulesPurge(u)
      BY <1>2 DEF Uninstalls, Disconnects, DisconnectGoesWrong, Confirms, ClickStep,
         ClickFault, ReadsKeyId, BuildsClient, RevokesUpstream, DeletesKey,
         ClickFails, DeleteReplyLost, ClickKept
<1>3. ASSUME NEW j \in Jobs, Purges(j) \/ PurgeGoesWrong(j)
      PROVE  \/ \E t \in Tables : PurgesTable(j, t)
             \/ /\ PurgeStep(j) \/ PurgeFault(j)
                /\ UNCHANGED <<tables, removed>>
      BY <1>3 DEF Purges, PurgeGoesWrong, PurgeStep, PurgeFault, PurgesState,
         PurgeForgets, PurgesMapping, JudgePurge, Retries, PurgeFails,
         PurgeAborts, PurgeKept
<1>4. CASE Reinstalled \/ ChangesAdmins \/ Transfers
      BY <1>4 DEF Reinstalled, ChangesAdmins, Transfers, OthersKept, teardownVars
<1> QED BY <1>1, <1>2, <1>3, <1>4
        DEF Moves, Next, Spends, BindingWritten, Writes, vars, Replicates, Asks,
            LooksUp, LookupGoesWrong, Commands, Expires, Opens, Returns, SetsUp,
            SetupGoesWrong, CleansUp, AppRemoved, EventArrives

\* Only the event erases everything, and it does so as of the removal.
PurgeTimes ==
    /\ \A j \in Jobs : purge[j].full \/ purge[j].pc = "state" => j = "event"
    /\ purge["event"].pc # "idle" => removed > 0 /\ Cutoff("event") = removed

LEMMA PurgeStaysAsked ==
    ASSUME TypeInv, NEW j \in Jobs, PurgeStep(j) \/ PurgeFault(j)
    PROVE  \E q \in PurgeRows :
              /\ q.cutoff = purge[j].cutoff /\ q.full = purge[j].full
              /\ q.pc = "state" => purge[j].full \/ purge[j].pc = "state"
              /\ purge[j].pc # "idle"
              /\ purge' = [purge EXCEPT ![j] = q]
<1>1. /\ ProviderInv /\ SetupInv /\ TeardownInv /\ purge \in [Jobs -> PurgeRows]
      /\ clock \in Nat
      BY DEF TypeInv, TeardownInv, TeardownOK, ProviderInv, ProviderOK
<1>2. ProviderInv'
      BY <1>1, PurgesKeepTypes
<1>3. clock <= clock'
  <2>1. CASE PurgesState(j)
        BY <1>1, <2>1 DEF PurgesState, DeleteRow
  <2>2. CASE ~PurgesState(j)
    <3>1. UNCHANGED clock
          BY <2>2 DEF PurgeStep, PurgeFault, PurgeForgets, PurgesTable, PurgesMapping,
             JudgePurge, Retries, PurgeFails, PurgeAborts, providerVars
    <3> QED BY <1>1, <3>1
  <2> QED BY <2>1, <2>2
<1>4. PICK q \in PurgeRows :
              /\ q.cutoff = purge[j].cutoff /\ q.full = purge[j].full
              /\ purge' = [purge EXCEPT ![j] = q]
  <2>1. row' \in Rows /\ row'.ver <= clock' /\ clock' \in Nat
        BY <1>2 DEF ProviderInv, ProviderOK
  <2> QED BY <1>1, <1>3, <2>1, PurgeRowsGoOn
<1>5. purge[j].pc # "idle"
      BY DEF PurgeStep, PurgeFault, PurgesState, PurgeForgets, PurgesTable,
             PurgesMapping, JudgePurge, Retries, PurgeFails, PurgeAborts, PurgeIn,
             Tables
<1>6. purge'[j].pc = "state" => purge[j].full
  <2> DEFINE r == purge[j]
  <2>1. r \in PurgeRows
        BY <1>1
  <2>2. ASSUME NEW pc, PurgeGoes(j, pc)
        PROVE  purge'[j].pc = pc
        BY <1>1, <2>2 DEF PurgeGoes, PurgeRows
  <2>3. CASE PurgesState(j)
    <3> DEFINE v == row'.ver
               x == [r EXCEPT !.pc = "forget", !.ver = v]
    <3>1. purge' = [purge EXCEPT ![j] = x]
          BY <1>1, <2>3 DEF PurgesState
    <3>2. x.pc = "forget"
      <4> HIDE DEF r, v
      <4> QED BY <2>1 DEF PurgeRows
    <3> HIDE DEF x
    <3> QED BY <1>1, <3>1, <3>2
  <2>4. CASE PurgeForgets(j) \/ PurgesMapping(j) \/ PurgeAborts(j)
        BY <2>2, <2>4 DEF PurgeForgets, PurgesMapping, PurgeAborts
  <2>5. CASE \E t \in Tables : PurgesTable(j, t)
        BY <2>2, <2>5 DEF PurgesTable, NextTable, Tables
  <2>6. CASE JudgePurge(j)
    <3> DEFINE pc == IF r.failed = {} THEN "done"
                   ELSE IF r.failed = {"malformed"} \/ r.attempt = PurgeAttempts
                       THEN "cleanup" ELSE "wait"
    <3>1. PurgeGoes(j, pc)
          BY <2>6 DEF JudgePurge
    <3>2. pc # "state"
          OBVIOUS
    <3> HIDE DEF pc
    <3> QED BY <2>2, <3>1, <3>2
  <2>7. CASE Retries(j)
    <3> DEFINE pc == IF r.full THEN "state" ELSE "agent"
               n == r.attempt + 1
               x == [r EXCEPT !.pc = pc, !.attempt = n, !.failed = {}]
    <3>1. purge' = [purge EXCEPT ![j] = x]
          BY <1>1, <2>7 DEF Retries
    <3>2. x.pc = pc
      <4> HIDE DEF r, pc, n
      <4> QED BY <2>1 DEF PurgeRows
    <3>3. purge'[j] = x
      <4> HIDE DEF x
      <4> QED BY <1>1, <3>1
    <3> HIDE DEF x
    <3> QED BY <3>2, <3>3
  <2>8. CASE PurgeFails(j)
    <3>1. PICK kind \in {"transient", "malformed"} :
             purge' = [purge EXCEPT ![j].pc = After(j), ![j].failed = @ \cup {kind}]
          BY <2>8 DEF PurgeFails
    <3> DEFINE pc == After(j)
               failed == r.failed \cup {kind}
               x == [r EXCEPT !.pc = pc, !.failed = failed]
    <3>2. purge' = [purge EXCEPT ![j] = x]
          BY <1>1, <3>1
    <3>3. pc # "state"
          BY <2>8 DEF PurgeFails, After, NextTable, Tables
    <3>4. x.pc = pc
      <4> HIDE DEF r, pc, failed
      <4> QED BY <2>1 DEF PurgeRows
    <3> HIDE DEF x, pc
    <3> QED BY <1>1, <3>2, <3>3, <3>4
  <2> QED BY <2>3, <2>4, <2>5, <2>6, <2>7, <2>8 DEF PurgeStep, PurgeFault
<1> QED BY <1>1, <1>4, <1>5, <1>6

LEMMA PurgeTimesKept ==
    ASSUME TypeInv, PurgeTimes, [Moves]_vars
    PROVE  PurgeTimes'
<1>1. /\ purge \in [Jobs -> PurgeRows] /\ clock \in Nat /\ removed \in Nat
      /\ \A u \in Clicks : click[u].proc \in Processes
      /\ "event" \in Jobs
  <2>1. removed \in 0 .. clock /\ clock \in Nat
        BY DEF TypeInv, TeardownInv, TeardownOK, ProviderInv, ProviderOK
  <2>2. \A u \in Clicks : click[u].proc \in Processes
        BY DEF TypeInv, TeardownInv, TeardownOK, ClickRows
  <2> QED BY <2>1, <2>2 DEF TypeInv, TeardownInv, TeardownOK, Jobs
<1>2. CASE UNCHANGED <<removed, purge>>
      BY <1>2 DEF PurgeTimes, Cutoff
<1>3. ASSUME NEW j \in Jobs, PurgeStep(j) \/ PurgeFault(j), UNCHANGED removed
      PROVE  PurgeTimes'
  <2>1. PICK q \in PurgeRows :
              /\ q.cutoff = purge[j].cutoff /\ q.full = purge[j].full
              /\ q.pc = "state" => purge[j].full \/ purge[j].pc = "state"
              /\ purge[j].pc # "idle"
              /\ purge' = [purge EXCEPT ![j] = q]
        BY <1>3, PurgeStaysAsked
  <2> QED BY <1>1, <1>3, <2>1 DEF PurgeTimes, Cutoff
<1>4. ASSUME NEW j \in Jobs, NEW t \in Tables, PurgesTable(j, t)
      PROVE  PurgeTimes'
      BY <1>3, <1>4 DEF PurgesTable, PurgeKept, PurgeStep
<1>5. CASE Removal
      BY <1>1, <1>5 DEF Removal, PurgeTimes, Cutoff
<1>6. ASSUME NEW p, ReceiveEvent(p)
      PROVE  PurgeTimes'
  <2> DEFINE x == ByEvent(p, removed)
  <2>1. /\ purge' = [purge EXCEPT !["event"] = x]
        /\ removed' = removed /\ removed > 0
        BY <1>6 DEF ReceiveEvent, EventPurge, ByEvent
  <2>2. x.cutoff = removed
        BY DEF ByEvent, NoPurge
  <2> HIDE DEF x
  <2> QED BY <1>1, <2>1, <2>2 DEF PurgeTimes, Cutoff
<1>7. ASSUME NEW u \in Clicks, SchedulesPurge(u)
      PROVE  PurgeTimes'
  <2> DEFINE p == click[u].proc
             x == ByClick(p, clock)
  <2>1. purge' = [purge EXCEPT ![u] = x] /\ removed' = removed
        BY <1>7 DEF SchedulesPurge, ByClick, ClickKept
  <2>2. ~x.full /\ x.pc = "agent"
        BY <1>1, PurgeRowsBegin
  <2>3. u # "event"
        BY TeardownAssumption
  <2> HIDE DEF p, x
  <2> QED BY <1>1, <2>1, <2>2, <2>3 DEF PurgeTimes, Cutoff, Jobs
<1> QED BY <1>2, <1>3, <1>4, <1>5, <1>6, <1>7, StepsOfTeardown
        DEF TableWritten, OthersKept

LEMMA PurgesSpare ==
    ASSUME TypeInv, PurgeTimes, [Moves]_vars
    PROVE  /\ row.bot # 0 /\ row'.bot = 0 => removed > 0 /\ row.stamp <= removed
           /\ mapping.owner # "none" /\ mapping'.owner = "none"
                  => \E j \in Jobs : /\ purge[j].pc # "idle"
                                     /\ mapping.stamp <= TeardownTime(j)
           /\ \A t \in Tables \ {"agent"} :
                  tables[t] # 0 /\ tables'[t] = 0
                  => \E j \in Jobs : /\ purge[j].pc # "idle"
                                     /\ tables[t] <= TeardownTime(j)
<1>1. /\ ProviderInv /\ SetupInv /\ TeardownInv /\ clock \in Nat
      /\ row \in Rows /\ "event" \in Jobs
      BY DEF TypeInv, ProviderInv, ProviderOK, Jobs
<1>2. \A j \in Jobs : purge[j].pc # "idle" => TeardownTime(j) = Cutoff(j)
      BY DEF PurgeTimes, TeardownTime, Cutoff
<1>3. ASSUME row.bot # 0, row'.bot = 0
      PROVE  removed > 0 /\ row.stamp <= removed
  <2>1. ASSUME NEW f \in Flows, Persist(f) \/ PersistFails(f),
               StoreKey(flow[f].key, flow[f].acct)
        PROVE  FALSE
    <3>1. row' = [[row EXCEPT !.key = flow[f].key, !.ident = TRUE,
                              !.acct = flow[f].acct, !.ver = clock + 1]
                     EXCEPT !.stamp = clock + 1]
          BY <2>1 DEF StoreKey, Stamped
    <3> QED BY <1>1, <1>3, <3>1 DEF Rows
  <2>2. CASE ClearKey
        BY <1>1, <1>3, <2>2, StampsAreRows
  <2>3. CASE StoreBotToken
        BY <1>1, <1>3, <2>3, StampsAreRows
  <2>4. ASSUME NEW j \in Jobs, PurgesState(j), DeleteRow(Cutoff(j))
        PROVE  removed > 0 /\ row.stamp <= removed
    <3>1. purge[j].pc = "state"
          BY <2>4 DEF PurgesState, PurgeIn
    <3>2. j = "event" /\ removed > 0 /\ Cutoff(j) = removed
          BY <3>1 DEF PurgeTimes
    <3> QED BY <2>4, <3>2 DEF DeleteRow, MayDelete
  <2> QED BY <1>3, <2>1, <2>2, <2>3, <2>4, StepsOfRow
<1>4. ASSUME mapping.owner # "none", mapping'.owner = "none"
      PROVE  \E j \in Jobs : /\ purge[j].pc # "idle"
                             /\ mapping.stamp <= TeardownTime(j)
  <2>1. ASSUME NEW f \in Flows, OwnerStep(f), Bound(f)
        PROVE  FALSE
    <3>1. flow[f].user \in Users
          BY <1>1, <2>1 DEF OwnerStep, Bind, Disambiguate, Reclaim, In, SetupInv,
             FlowShape, ShapedFlow, Before
    <3> QED BY <1>4, <2>1, <3>1, SetupAssumption DEF Bound, Mapped
  <2>2. CASE ChangesAdmins
        BY <1>1, <1>4, <2>2 DEF ChangesAdmins, SetupInv, SetupOK
  <2>3. CASE Transfers
        BY <1>1, <1>4, <2>3, SetupAssumption DEF Transfers, SetupInv, SetupOK
  <2>4. ASSUME NEW j \in Jobs, PurgesMapping(j)
        PROVE  purge[j].pc # "idle" /\ mapping.stamp <= TeardownTime(j)
        BY <1>2, <1>4, <2>4 DEF PurgesMapping, PurgeIn
  <2> QED BY <1>4, <2>1, <2>2, <2>3, <2>4, StepsOfMapping
<1>5. ASSUME NEW t \in Tables, t # "agent", tables[t] # 0, tables'[t] = 0
      PROVE  \E j \in Jobs : /\ purge[j].pc # "idle"
                             /\ tables[t] <= TeardownTime(j)
  <2>1. tables \in [Tables -> 0 .. clock]
        BY <1>1 DEF TeardownInv, TeardownOK
  <2>2. UNCHANGED tables => FALSE
        BY <1>5
  <2>3. ASSUME NEW s \in Tables, TableWritten(s)
        PROVE  FALSE
        BY <1>1, <1>5, <2>1, <2>3 DEF TableWritten
  <2>4. ASSUME NEW j \in Jobs, NEW s \in Tables, PurgesTable(j, s)
        PROVE  purge[j].pc # "idle" /\ tables[t] <= TeardownTime(j)
    <3>1. /\ tables' = [tables EXCEPT ![s] =
                           IF s = "agent" \/ @ <= Cutoff(j) THEN 0 ELSE @]
          /\ purge[j].pc = s
          BY <2>4 DEF PurgesTable, PurgeIn
    <3>2. s = t
          BY <1>5, <2>1, <3>1
    <3>3. tables[t] <= Cutoff(j)
          BY <1>5, <2>1, <3>1, <3>2
    <3> QED BY <1>2, <3>1, <3>3 DEF Tables
  <2> QED BY <2>2, <2>3, <2>4, StepsOfTeardown
          DEF Removal, ReceiveEvent, SchedulesPurge, ClickKept
<1> QED BY <1>3, <1>4, <1>5

\* However late a purge runs, however often it is retried, and whatever is
\* installed, bound or written meanwhile: it erases nothing newer than the
\* teardown it is for.
THEOREM PurgesSpareFresh == Spec => PurgeSparesFresh
<1>1. Init => TypeInv /\ PurgeTimes
  <2>1. ASSUME Init
        PROVE  PurgeTimes
    <3>1. \A j \in Jobs : purge[j].pc = "idle" /\ ~purge[j].full
          BY <2>1 DEF Init, NoPurge
    <3> QED BY <3>1 DEF PurgeTimes, Jobs
  <2> QED BY <2>1, TypeBegins
<1>2. TypeInv /\ PurgeTimes /\ [Next]_vars => (TypeInv /\ PurgeTimes)'
      BY TypeKept, PurgeTimesKept DEF Moves
<1>3. TypeInv /\ PurgeTimes /\ [Next]_vars
         => [/\ row.bot # 0 /\ row'.bot = 0 => removed > 0 /\ row.stamp <= removed
             /\ mapping.owner # "none" /\ mapping'.owner = "none"
                    => \E j \in Jobs : /\ purge[j].pc # "idle"
                                       /\ mapping.stamp <= TeardownTime(j)
             /\ \A t \in Tables \ {"agent"} :
                    tables[t] # 0 /\ tables'[t] = 0
                    => \E j \in Jobs : /\ purge[j].pc # "idle"
                                       /\ tables[t] <= TeardownTime(j)]_vars
      BY PurgesSpare DEF Moves
<1> QED BY <1>1, <1>2, <1>3, PTL DEF Spec, PurgeSparesFresh

-----------------------------------------------------------------------------
(* Every key made is accounted for.                                        *)

\* A flow holds a key of its own account, made or replayed for it.
HeldKey(f) ==
    /\ keys[flow[f].key].state # "none"
    /\ keys[flow[f].key].acct = flow[f].acct
    /\ Replacement(f) => keys[flow[f].key].old = flow[f].old
    /\ flow[f].pc = "persist" => (flow[f].backed <=> keys[flow[f].key].via # "legacy")

HeldKeys ==
    \A f \in Flows :
        /\ flow[f].pc \notin {"persist", "seed", "done"} => flow[f].key = 0
        /\ flow[f].pc = "seed" => flow[f].wrote # 0
        /\ flow[f].key # 0 => HeldKey(f)

OrphansMade == \A k \in orphans : keys[k].state # "none"

\* A key has an account, and a way it was made; qurl-service binds one.
OneBinding ==
    /\ \A b \in binding : /\ keys[b.key].via = "binding"
                          /\ keys[b.key].acct = b.acct
    /\ \A k \in Keys : keys[k].via = "binding" => \E b \in binding : b.key = k
    /\ \A b, c \in binding : b = c
    /\ \A k \in Keys : keys[k].state # "none" => keys[k].acct \in Accounts
    /\ \A k \in Keys : keys[k].state = "none" => keys[k].via = "none"
    /\ \A k \in Keys : keys[k].via \in {"none", "legacy", "binding"} => keys[k].old = 0

\* The row's identity is that of its key.
RowIdentified ==
    row.ident => /\ row.key # 0 /\ keys[row.key].state # "none"
                 /\ row.acct = keys[row.key].acct

RowHolds(k) == row.ident /\ row.key = k
Replaced(k) == \E j \in Keys : keys[j].via = "replacement" /\ keys[j].old = k

\* A rotation is of the row's key, or of one that is replaced or lost.
Rotating(f) == flow[f].pc \in {"revoke", "confirm", "replace"} /\ flow[f].old # 0
Rotations ==
    \A f \in Flows :
        /\ flow[f].pc \in {"revoke", "confirm"} => flow[f].old # 0
        /\ \A o \in Keys :
               Rotating(f) /\ flow[f].old = o =>
                  /\ keys[o].state # "none"
                  /\ keys[o].acct = flow[f].acct
                  /\ RowHolds(o) \/ Replaced(o) \/ Lost(o)

\* A key is replaced once, by one of its own account.
Replacements ==
    \A k, o \in Keys :
        keys[k].via = "replacement" /\ keys[k].old = o =>
            /\ keys[o].state = "revoked"
            /\ keys[o].acct = keys[k].acct
            /\ \A j \in Keys : keys[j].via = "replacement" /\ keys[j].old = o
                                   => j = k
            /\ \/ Stored(k)
               \/ \E f \in Flows : flow[f].key = k /\ flow[f].pc = "persist"
               \/ k \in released
               \/ RowHolds(o)
               \/ Lost(o)

\* A key of the legacy endpoint is its setup's, or the workspace's first.
First(k) ==
    /\ RowHolds(k)
    /\ \A f \in Flows : /\ flow[f].key # k
                        /\ Rotating(f) \/ flow[f].pc = "replace" => flow[f].old = k
                        /\ flow[f].pc = "persist" /\ Replacement(f) => flow[f].old = k
LegacyKept ==
    \A k \in Keys :
        keys[k].via = "legacy" /\ keys[k].state = "live" =>
            \/ Stored(k)
            \/ \E f \in Flows : flow[f].key = k /\ flow[f].pc = "persist"
            \/ k \in orphans \cup released
            \/ First(k)

Custody == HeldKeys /\ OneBinding /\ RowIdentified /\ Rotations /\ Replacements
           /\ LegacyKept /\ OrphansMade

\* What the steps of a setup know of its account and its keys.
LEMMA CustodyKnows ==
    ASSUME TypeInv
    PROVE  /\ flow \in [Flows -> FlowRows] /\ keys \in [Keys -> KeyRows]
           /\ row \in Rows /\ row.key \in {0} \cup Keys
           /\ binding \subseteq [acct : Accounts, key : Keys]
           /\ \A f \in Flows : /\ flow[f].key \in {0} \cup Keys
                               /\ flow[f].old \in {0} \cup Keys
                               /\ flow[f].key = 0 => flow[f].wrote = 0
           /\ \A k \in Keys : /\ keys[k].old \in {0} \cup Keys
                              /\ keys[k].via \in {"none", "binding", "legacy",
                                                  "replacement"}
                              /\ keys[k].state \in {"none", "live", "revoked"}
           /\ 0 \notin Keys /\ "none" \notin Accounts
<1>1. /\ flow \in [Flows -> FlowRows] /\ keys \in [Keys -> KeyRows]
      /\ row \in Rows /\ binding \subseteq [acct : Accounts, key : Keys]
      /\ \A f \in Flows : flow[f].key = 0 => flow[f].wrote = 0
      BY DEF TypeInv, ProviderInv, ProviderOK, SetupInv, SetupOK, FlowShape, ShapedFlow
<1>2. 0 .. MaxKeys = {0} \cup Keys /\ 0 \notin Keys
      BY ProviderAssumption DEF Keys
<1>3. row.key \in 0 .. MaxKeys
      BY <1>1 DEF Rows
<1>4. \A f \in Flows : flow[f].key \in 0 .. MaxKeys /\ flow[f].old \in 0 .. MaxKeys
      BY <1>1 DEF FlowRows
<1>5. \A k \in Keys : /\ keys[k].old \in 0 .. MaxKeys
                      /\ keys[k].via \in {"none", "binding", "legacy", "replacement"}
                      /\ keys[k].state \in {"none", "live", "revoked"}
      BY <1>1 DEF KeyRows
<1> QED BY <1>1, <1>2, <1>3, <1>4, <1>5, ProviderAssumption

\* Keys die, setups go on, the row is given up: nothing is made or stored.
KeysAge ==
    \A k \in Keys :
        /\ keys'[k].acct = keys[k].acct /\ keys'[k].via = keys[k].via
        /\ keys'[k].old = keys[k].old
        /\ keys'[k].state = "none" <=> keys[k].state = "none"
        /\ keys'[k].state = "live" => keys[k].state = "live"
        /\ keys[k].state = "revoked" => keys'[k].state = "revoked"

FlowAges(g) ==
    /\ flow'[g].key = flow[g].key /\ flow'[g].wrote = flow[g].wrote
    /\ flow[g].key # 0 =>
          /\ flow'[g].acct = flow[g].acct /\ flow'[g].old = flow[g].old
          /\ flow'[g].backed = flow[g].backed
          /\ \/ flow'[g].pc = flow[g].pc
             \/ flow[g].pc = "seed" /\ flow'[g].pc = "done"
    /\ flow[g].key = 0 => flow'[g].pc \notin {"persist", "seed"}
    /\ flow'[g].pc \in {"revoke", "confirm"} => flow'[g].old # 0
    /\ flow'[g].pc \in {"revoke", "confirm", "replace"} =>
          \/ /\ flow[g].pc \in {"revoke", "confirm", "replace"}
             /\ flow'[g].old = flow[g].old /\ flow'[g].acct = flow[g].acct
          \/ RowHolds(flow'[g].old) /\ flow'[g].acct = row.acct
          \/ flow'[g].old = 0 /\ ~row.ident

RowAges ==
    \/ row'.key = row.key /\ row'.ident = row.ident /\ row'.acct = row.acct
    \/ row'.key = 0 /\ ~row'.ident /\ (row.key = 0 \/ row.key \in released')

LEMMA LostStays ==
    ASSUME TypeInv, KeysAge, \A g \in Flows : FlowAges(g), released \subseteq released'
    PROVE  /\ \A k : Lost(k) => Lost(k)'
           /\ \A k : Replaced(k) => Replaced(k)'
           /\ \A g \in Flows : flow[g].key # 0 => (Replacement(g)' <=> Replacement(g))
<1>1. \A g \in Flows : flow[g].key # 0 => (Replacement(g)' <=> Replacement(g))
      BY CustodyKnows DEF KeysAge, FlowAges, Replacement
<1>2. ASSUME NEW k, Lost(k)
      PROVE  Lost(k)'
  <2>1. CASE k \in released
        BY <2>1 DEF Lost
  <2>2. ASSUME NEW g \in Flows, flow[g].pc \in {"seed", "done"}, flow[g].key # 0,
               Replacement(g), flow[g].old # k
        PROVE  Lost(k)'
    <3>1. /\ flow'[g].pc \in {"seed", "done"} /\ flow'[g].key # 0
          /\ flow'[g].old # k /\ Replacement(g)'
          BY <1>1, <2>2 DEF FlowAges
    <3> QED BY <3>1 DEF Lost
  <2> QED BY <1>2, <2>1, <2>2 DEF Lost
<1>3. \A k : Replaced(k) => Replaced(k)'
      BY DEF KeysAge, Replaced
<1> QED BY <1>1, <1>2, <1>3

LEMMA CustodyAges ==
    ASSUME TypeInv, Custody, KeysAge, \A g \in Flows : FlowAges(g), RowAges,
           UNCHANGED binding, released \subseteq released',
           \A k \in orphans : \/ k \in orphans' \cup released'
                              \/ keys'[k].state # "live",
           orphans' \subseteq orphans
    PROVE  Custody'
<1>1. HeldKeys'
  <2> SUFFICES ASSUME NEW f \in Flows
               PROVE  /\ flow'[f].pc \notin {"persist", "seed", "done"} => flow'[f].key = 0
                      /\ flow'[f].pc = "seed" => flow'[f].wrote # 0
                      /\ flow'[f].key # 0 => HeldKey(f)'
      BY DEF HeldKeys
  <2>1. CASE flow[f].key = 0
        BY <2>1 DEF FlowAges
  <2>2. CASE flow[f].key # 0
    <3>1. HeldKey(f) /\ flow[f].key \in Keys
          BY <2>2, CustodyKnows DEF Custody, HeldKeys
    <3>2. Replacement(f)' <=> Replacement(f)
          BY <2>2, LostStays
    <3>3. HeldKey(f)'
          BY <2>2, <3>1, <3>2 DEF HeldKey, FlowAges, KeysAge
    <3> QED BY <2>2, <3>3 DEF FlowAges, Custody, HeldKeys
  <2> QED BY <2>1, <2>2
<1>2. OneBinding'
      BY CustodyKnows DEF Custody, OneBinding, KeysAge
<1>3. RowIdentified'
  <2>1. CASE row'.key = row.key /\ row'.ident = row.ident /\ row'.acct = row.acct
    <3>1. row.ident => row.key \in Keys
          BY CustodyKnows DEF Custody, RowIdentified
    <3> QED BY <2>1, <3>1 DEF Custody, RowIdentified, KeysAge
  <2>2. CASE ~row'.ident
        BY <2>2 DEF RowIdentified
  <2> QED BY <2>1, <2>2 DEF RowAges
<1>4. \A k \in Keys : RowHolds(k) => RowHolds(k)' \/ k \in released'
      BY CustodyKnows DEF RowHolds, RowAges
<1>5. Rotations'
  <2> SUFFICES ASSUME NEW f \in Flows
               PROVE  /\ flow'[f].pc \in {"revoke", "confirm"} => flow'[f].old # 0
                      /\ \A o \in Keys :
                             Rotating(f)' /\ flow'[f].old = o =>
                                /\ keys'[o].state # "none"
                                /\ keys'[o].acct = flow'[f].acct
                                /\ RowHolds(o)' \/ Replaced(o)' \/ Lost(o)'
      BY DEF Rotations
  <2>1. ASSUME NEW o \in Keys, Rotating(f)', flow'[f].old = o
        PROVE  /\ keys'[o].state # "none"
               /\ keys'[o].acct = flow'[f].acct
               /\ RowHolds(o)' \/ Replaced(o)' \/ Lost(o)'
    <3>1. flow'[f].old # 0 /\ flow'[f].pc \in {"revoke", "confirm", "replace"}
          BY <2>1 DEF Rotating
    <3>2. \/ /\ flow[f].pc \in {"revoke", "confirm", "replace"}
             /\ flow[f].old = o /\ flow'[f].acct = flow[f].acct
          \/ RowHolds(o) /\ flow'[f].acct = row.acct
      <4>1. \/ /\ flow[f].pc \in {"revoke", "confirm", "replace"}
               /\ flow'[f].old = flow[f].old /\ flow'[f].acct = flow[f].acct
            \/ row.ident /\ row.key = flow'[f].old /\ flow'[f].acct = row.acct
            BY <3>1 DEF FlowAges, RowHolds
      <4> QED BY <2>1, <4>1 DEF RowHolds
    <3>3. /\ keys[o].state # "none" /\ keys[o].acct = flow'[f].acct
          /\ RowHolds(o) \/ Replaced(o) \/ Lost(o)
      <4>1. CASE /\ flow[f].pc \in {"revoke", "confirm", "replace"}
                 /\ flow[f].old = o /\ flow'[f].acct = flow[f].acct
        <5>1. Rotating(f) /\ flow[f].old = o
              BY <2>1, <3>1, <4>1 DEF Rotating
        <5> QED BY <4>1, <5>1 DEF Custody, Rotations
      <4>2. CASE RowHolds(o) /\ flow'[f].acct = row.acct
            BY <4>2 DEF RowHolds, Custody, RowIdentified
      <4> QED BY <3>2, <4>1, <4>2
    <3>4. RowHolds(o)' \/ o \in released' \/ Replaced(o)' \/ Lost(o)'
          BY <1>4, <3>3, LostStays
    <3>5. RowHolds(o)' \/ Replaced(o)' \/ Lost(o)'
          BY <3>4 DEF Lost
    <3>6. keys'[o].state # "none" /\ keys'[o].acct = flow'[f].acct
          BY <3>3 DEF KeysAge
    <3> QED BY <3>5, <3>6
  <2> QED BY <2>1 DEF FlowAges
<1>6. Replacements'
  <2> SUFFICES ASSUME NEW k \in Keys, NEW o \in Keys,
                      keys'[k].via = "replacement", keys'[k].old = o
               PROVE  /\ keys'[o].state = "revoked"
                      /\ keys'[o].acct = keys'[k].acct
                      /\ \A j \in Keys : keys'[j].via = "replacement"
                                         /\ keys'[j].old = o => j = k
                      /\ \/ Stored(k)'
                         \/ \E f \in Flows : flow'[f].key = k /\ flow'[f].pc = "persist"
                         \/ k \in released'
                         \/ RowHolds(o)'
                         \/ Lost(o)'
      BY DEF Replacements
  <2>1. keys[k].via = "replacement" /\ keys[k].old = o
        BY DEF KeysAge
  <2>2. /\ keys[o].state = "revoked"
        /\ keys[o].acct = keys[k].acct
        /\ \A j \in Keys : keys[j].via = "replacement" /\ keys[j].old = o => j = k
        /\ \/ Stored(k)
           \/ \E f \in Flows : flow[f].key = k /\ flow[f].pc = "persist"
           \/ k \in released
           \/ RowHolds(o)
           \/ Lost(o)
        BY <2>1 DEF Custody, Replacements
  <2>3. Stored(k) => Stored(k)'
        BY DEF Stored, FlowAges
  <2>4. (\E f \in Flows : flow[f].key = k /\ flow[f].pc = "persist")
           => \E f \in Flows : flow'[f].key = k /\ flow'[f].pc = "persist"
        BY CustodyKnows DEF FlowAges
  <2>5. /\ RowHolds(o) => RowHolds(o)' \/ o \in released'
        /\ Lost(o) => Lost(o)'
        BY <1>4, LostStays
  <2>6. o \in released' => Lost(o)'
        BY DEF Lost
  <2>7. keys'[o].state = "revoked" /\ keys'[o].acct = keys'[k].acct
        BY <2>2 DEF KeysAge
  <2>8. \A j \in Keys : keys'[j].via = "replacement" /\ keys'[j].old = o => j = k
        BY <2>2 DEF KeysAge
  <2> QED BY <2>2, <2>3, <2>4, <2>5, <2>6, <2>7, <2>8
<1>7. LegacyKept'
  <2> SUFFICES ASSUME NEW k \in Keys, keys'[k].via = "legacy", keys'[k].state = "live"
               PROVE  \/ Stored(k)'
                      \/ \E f \in Flows : flow'[f].key = k /\ flow'[f].pc = "persist"
                      \/ k \in orphans' \cup released'
                      \/ First(k)'
      BY DEF LegacyKept
  <2>1. \/ Stored(k)
        \/ \E f \in Flows : flow[f].key = k /\ flow[f].pc = "persist"
        \/ k \in orphans \cup released
        \/ First(k)
        BY DEF KeysAge, Custody, LegacyKept
  <2>2. Stored(k) => Stored(k)'
        BY DEF Stored, FlowAges
  <2>3. (\E f \in Flows : flow[f].key = k /\ flow[f].pc = "persist")
           => \E f \in Flows : flow'[f].key = k /\ flow'[f].pc = "persist"
        BY CustodyKnows DEF FlowAges
  <2>4. ASSUME First(k), k \notin released'
        PROVE  First(k)'
    <3>1. RowHolds(k)' /\ RowHolds(k)
          BY <1>4, <2>4 DEF First
    <3>2. ASSUME NEW f \in Flows
          PROVE  /\ flow'[f].key # k
                 /\ flow'[f].pc \in {"revoke", "confirm", "replace"} => flow'[f].old = k
                 /\ flow'[f].pc = "persist" /\ Replacement(f)' => flow'[f].old = k
      <4>1. flow'[f].key # k
            BY <2>4 DEF First, FlowAges
      <4>2. flow'[f].pc \in {"revoke", "confirm", "replace"} => flow'[f].old = k
            BY <2>4, <3>1 DEF First, FlowAges, RowHolds, Rotating, Custody, Rotations
      <4>3. flow'[f].pc = "persist" /\ Replacement(f)' => flow'[f].old = k
            BY <2>4, LostStays DEF First, FlowAges
      <4> QED BY <4>1, <4>2, <4>3
    <3> QED BY <3>1, <3>2 DEF First, Rotating
  <2> QED BY <2>1, <2>2, <2>3, <2>4
<1>8. OrphansMade'
  <2>1. orphans \subseteq Keys
        BY DEF TypeInv, SetupInv, SetupOK
  <2> QED BY <2>1 DEF KeysAge, Custody, OrphansMade
<1> QED BY <1>1, <1>2, <1>3, <1>5, <1>6, <1>7, <1>8 DEF Custody

\* A setup's mint, and what becomes of the setup.
MintFor(f, k, via, old, x) ==
    /\ flow[f].pc \in {"mint", "replace"}
    /\ keys' \in [Keys -> KeyRows] /\ \A j \in Keys \ {k} : keys'[j] = keys[j]
    /\ keys[k].state # "none" => keys'[k] = keys[k]
    /\ keys[k].state = "none" /\ via # "legacy" => Replays(flow[f].acct, via, old) = {}
    /\ keys'[k].state # "none" /\ keys'[k].acct = flow[f].acct
    /\ keys'[k].via = via /\ keys'[k].old = old
    /\ \/ via = "binding" /\ old = 0 /\ Bindable(f)
          /\ binding' = {[acct |-> flow[f].acct, key |-> k]}
       \/ via = "legacy" /\ old = 0 /\ keys[k].state = "none" /\ UNCHANGED binding
       \/ via = "replacement" /\ flow[f].pc = "replace" /\ flow[f].old = old
          /\ UNCHANGED binding
    /\ flow' = [flow EXCEPT ![f] = x] /\ x.acct = flow[f].acct
    /\ x.old = flow[f].old /\ x.wrote = flow[f].wrote
    /\ \/ x.pc = "persist" /\ x.key = k /\ (x.backed <=> via # "legacy")
       \/ x.pc = "done" /\ x.key = 0 /\ (via = "legacy" => k \in released')
    /\ UNCHANGED <<row, orphans>> /\ released \subseteq released'

\* A key made for a setup, or replayed to it, is the setup's or is lost in the open.
LEMMA CustodyMade ==
    ASSUME TypeInv, OldKeysDie, Custody, NEW f \in Flows, NEW k \in Keys,
           NEW via \in {"binding", "legacy", "replacement"},
           NEW old \in {0} \cup Keys, NEW x, MintFor(f, k, via, old, x)
    PROVE  Custody'
<1> USE DEF MintFor
<1> DEFINE acct == flow[f].acct
<1>1. /\ \A g \in Flows \ {f} : flow'[g] = flow[g]
      /\ flow'[f] = x
      /\ flow[f].key = 0 /\ flow[f].wrote = 0
      BY CustodyKnows DEF Custody, HeldKeys
<1>2. acct \in Accounts /\ acct # "none"
  <2>1. acct \in Accounts
        BY DEF TypeInv, SetupInv, FlowShape, ShapedFlow, Before
  <2> QED BY <2>1, ProviderAssumption
<1>3. /\ \A j \in Keys : keys[j].state # "none" => keys'[j] = keys[j]
      /\ \A j \in Keys : keys[j].via # "none" => keys[j].state # "none"
      BY DEF Custody, OneBinding
<1>4. \A j \in Keys : j # k \/ keys[j].state # "none" => keys'[j] = keys[j]
      BY <1>3
<1>5. \A g \in Flows \ {f} : flow[g].key # 0 =>
          /\ flow[g].key \in Keys /\ HeldKey(g)
          /\ keys'[flow[g].key] = keys[flow[g].key]
          /\ Replacement(g)' <=> Replacement(g)
      BY <1>1, <1>3, CustodyKnows DEF Custody, HeldKeys, HeldKey, Replacement
<1>6. \A j : Lost(j) => Lost(j)'
  <2> SUFFICES ASSUME NEW j, Lost(j)
               PROVE  Lost(j)'
      OBVIOUS
  <2>1. CASE j \in released
        BY <2>1 DEF Lost
  <2>2. ASSUME NEW g \in Flows, flow[g].pc \in {"seed", "done"}, flow[g].key # 0,
               Replacement(g), flow[g].old # j
        PROVE  Lost(j)'
        BY <1>1, <1>5, <2>2 DEF Lost
  <2> QED BY <2>1, <2>2 DEF Lost
<1>7. /\ \A j : Replaced(j) => Replaced(j)'
      /\ \A j : RowHolds(j)' <=> RowHolds(j)
      /\ \A j \in Keys : Stored(j) => Stored(j)'
  <2>1. \A j : Replaced(j) => Replaced(j)'
        BY <1>3 DEF Replaced
  <2>2. \A j \in Keys : Stored(j) => Stored(j)'
        BY <1>1, CustodyKnows DEF Stored
  <2> QED BY <2>1, <2>2 DEF RowHolds
<1>8. HeldKeys'
  <2>1. \A g \in Flows \ {f} :
            /\ flow'[g].pc \notin {"persist", "seed", "done"} => flow'[g].key = 0
            /\ flow'[g].pc = "seed" => flow'[g].wrote # 0
            /\ flow'[g].key # 0 => HeldKey(g)'
        BY <1>1, <1>5 DEF Custody, HeldKeys, HeldKey
  <2>2. flow'[f].key # 0 => HeldKey(f)'
        BY <1>1 DEF HeldKey, Replacement
  <2>3. /\ flow'[f].pc \in {"persist", "done"}
        BY <1>1
  <2> QED BY <2>1, <2>2, <2>3 DEF HeldKeys
<1>9. OneBinding'
  <2>1. \A b \in binding' : keys'[b.key].via = "binding" /\ keys'[b.key].acct = b.acct
    <3>1. CASE UNCHANGED binding
          BY <1>3, <3>1, CustodyKnows DEF Custody, OneBinding
    <3>2. CASE via = "binding" /\ binding' = {[acct |-> flow[f].acct, key |-> k]}
          BY <3>2
    <3> QED BY <3>1, <3>2
  <2>2. \A b, c \in binding' : b = c
        BY DEF Custody, OneBinding
  <2>3. ASSUME NEW j \in Keys, keys'[j].via = "binding"
        PROVE  \E b \in binding' : b.key = j
    <3>1. CASE UNCHANGED binding /\ via # "binding"
          BY <2>3, <3>1 DEF Custody, OneBinding
    <3>2. CASE /\ via = "binding" /\ old = 0 /\ Bindable(f)
               /\ binding' = {[acct |-> flow[f].acct, key |-> k]}
      <4>1. CASE j = k
            BY <3>2, <4>1
      <4>2. CASE j # k
        <5>1. keys[j].via = "binding" /\ keys[j].old = 0 /\ keys[j].state # "none"
              BY <1>3, <2>3, <4>2 DEF Custody, OneBinding
        <5>2. PICK b \in binding : b.key = j
              BY <5>1 DEF Custody, OneBinding
        <5>3. keys[j].acct = acct
              BY <3>2, <5>2 DEF Bindable, Custody, OneBinding
        <5>4. j \in Replays(acct, via, old)
              BY <3>2, <5>1, <5>3 DEF Replays
        <5>5. keys[k].via = "binding"
              BY <1>3, <3>2, <5>4
        <5>6. PICK c \in binding : c.key = k
              BY <5>5 DEF Custody, OneBinding
        <5>7. b = c
              BY DEF Custody, OneBinding
        <5> QED BY <4>2, <5>2, <5>6, <5>7
      <4> QED BY <4>1, <4>2
    <3> QED BY <3>1, <3>2
  <2>4. \A j \in Keys :
            /\ keys'[j].state # "none" => keys'[j].acct \in Accounts
            /\ keys'[j].state = "none" => keys'[j].via = "none"
            /\ keys'[j].via \in {"none", "legacy", "binding"} => keys'[j].old = 0
        BY <1>2 DEF Custody, OneBinding
  <2> QED BY <2>1, <2>2, <2>3, <2>4 DEF OneBinding
<1>10. RowIdentified'
       BY <1>3, CustodyKnows DEF Custody, RowIdentified
<1>11. Rotations'
  <2> SUFFICES ASSUME NEW g \in Flows
               PROVE  /\ flow'[g].pc \in {"revoke", "confirm"} => flow'[g].old # 0
                      /\ \A o \in Keys :
                             Rotating(g)' /\ flow'[g].old = o =>
                                /\ keys'[o].state # "none"
                                /\ keys'[o].acct = flow'[g].acct
                                /\ RowHolds(o)' \/ Replaced(o)' \/ Lost(o)'
      BY DEF Rotations
  <2>1. CASE g = f
        BY <1>1, <2>1 DEF Rotating
  <2>2. CASE g # f
    <3>1. flow'[g] = flow[g] /\ (Rotating(g)' => Rotating(g))
          BY <1>1, <2>2 DEF Rotating
    <3>2. ASSUME NEW o \in Keys, Rotating(g), flow[g].old = o
          PROVE  /\ keys'[o].state # "none"
                 /\ keys'[o].acct = flow[g].acct
                 /\ RowHolds(o)' \/ Replaced(o)' \/ Lost(o)'
      <4>1. /\ keys[o].state # "none" /\ keys[o].acct = flow[g].acct
            /\ RowHolds(o) \/ Replaced(o) \/ Lost(o)
            BY <3>2 DEF Custody, Rotations
      <4> QED BY <1>3, <1>6, <1>7, <4>1
    <3> QED BY <3>1, <3>2 DEF Custody, Rotations
  <2> QED BY <2>1, <2>2
<1>12. ASSUME NEW o \in Keys, old = o, via = "replacement"
       PROVE  /\ keys[o].state = "revoked" /\ keys[o].acct = acct
              /\ RowHolds(o) \/ Replaced(o) \/ Lost(o)
              /\ keys[k].state = "none"
                     => \A j \in Keys : ~(keys[j].via = "replacement" /\ keys[j].old = o)
  <2>1. Rotating(f) /\ flow[f].old = o /\ flow[f].pc = "replace" /\ o # 0
        BY <1>12, CustodyKnows DEF Rotating
  <2>2. keys[o].acct = acct /\ (RowHolds(o) \/ Replaced(o) \/ Lost(o))
        BY <2>1 DEF Custody, Rotations
  <2>3. keys[o].state = "revoked"
        BY <2>1 DEF OldKeysDie, Retired
  <2>4. ASSUME keys[k].state = "none", NEW j \in Keys,
               keys[j].via = "replacement" /\ keys[j].old = o
        PROVE  FALSE
    <3>1. keys[j].acct = acct
          BY <2>2, <2>4 DEF Custody, Replacements
    <3>2. j \in Replays(acct, via, old)
          BY <1>3, <1>12, <2>4, <3>1 DEF Replays
    <3> QED BY <1>12, <2>4, <3>2
  <2> QED BY <2>2, <2>3, <2>4
<1>13. Replacements'
  <2> SUFFICES ASSUME NEW j \in Keys, NEW o \in Keys,
                      keys'[j].via = "replacement", keys'[j].old = o
               PROVE  /\ keys'[o].state = "revoked"
                      /\ keys'[o].acct = keys'[j].acct
                      /\ \A i \in Keys : keys'[i].via = "replacement"
                                         /\ keys'[i].old = o => i = j
                      /\ \/ Stored(j)'
                         \/ \E g \in Flows : flow'[g].key = j /\ flow'[g].pc = "persist"
                         \/ j \in released'
                         \/ RowHolds(o)'
                         \/ Lost(o)'
      BY DEF Replacements
  <2>1. CASE j = k /\ keys[k].state = "none"
    <3>1. old = o /\ via = "replacement" /\ keys'[j].acct = acct
          BY <2>1
    <3>2. /\ keys[o].state = "revoked" /\ keys[o].acct = acct
          /\ RowHolds(o) \/ Replaced(o) \/ Lost(o)
          /\ \A i \in Keys : ~(keys[i].via = "replacement" /\ keys[i].old = o)
          BY <1>12, <2>1, <3>1
    <3>3. keys'[o].state = "revoked" /\ keys'[o].acct = keys'[j].acct
          BY <1>3, <3>1, <3>2
    <3>4. \A i \in Keys : keys'[i].via = "replacement" /\ keys'[i].old = o => i = j
          BY <1>4, <2>1, <3>2
    <3>5. RowHolds(o) \/ Lost(o)
          BY <3>2 DEF Replaced
    <3> QED BY <1>6, <1>7, <3>3, <3>4, <3>5
  <2>2. CASE j # k \/ keys[k].state # "none"
    <3>1. keys'[j] = keys[j] /\ keys[j].via = "replacement" /\ keys[j].old = o
          BY <1>4, <2>2
    <3>2. /\ keys[o].state = "revoked"
          /\ keys[o].acct = keys[j].acct
          /\ \A i \in Keys : keys[i].via = "replacement" /\ keys[i].old = o => i = j
          /\ \/ Stored(j)
             \/ \E g \in Flows : flow[g].key = j /\ flow[g].pc = "persist"
             \/ j \in released
             \/ RowHolds(o)
             \/ Lost(o)
          BY <3>1 DEF Custody, Replacements
    <3>3. keys'[o].state = "revoked" /\ keys'[o].acct = keys'[j].acct
          BY <1>3, <3>1, <3>2
    <3>4. ASSUME NEW i \in Keys, keys'[i].via = "replacement", keys'[i].old = o
          PROVE  i = j
      <4>1. CASE keys'[i] = keys[i]
            BY <3>2, <3>4, <4>1
      <4>2. CASE i = k /\ keys[k].state = "none"
        <5>1. old = o /\ via = "replacement"
              BY <3>4, <4>2
        <5> QED BY <1>12, <3>1, <4>2, <5>1
      <4> QED BY <1>4, <4>1, <4>2
    <3>5. (\E g \in Flows : flow[g].key = j /\ flow[g].pc = "persist")
             => \E g \in Flows : flow'[g].key = j /\ flow'[g].pc = "persist"
          BY <1>1, CustodyKnows
    <3> QED BY <1>6, <1>7, <3>2, <3>3, <3>4, <3>5
  <2> QED BY <2>1, <2>2
<1>14. LegacyKept'
  <2> SUFFICES ASSUME NEW j \in Keys, keys'[j].via = "legacy", keys'[j].state = "live"
               PROVE  \/ Stored(j)'
                      \/ \E g \in Flows : flow'[g].key = j /\ flow'[g].pc = "persist"
                      \/ j \in orphans' \cup released'
                      \/ First(j)'
      BY DEF LegacyKept
  <2>1. CASE j = k /\ keys[k].state = "none"
        BY <1>1, <2>1
  <2>2. CASE j # k \/ keys[k].state # "none"
    <3>1. keys'[j] = keys[j]
          BY <1>4, <2>2
    <3>2. j # k
          BY <2>2, <3>1
    <3>3. \/ Stored(j)
          \/ \E g \in Flows : flow[g].key = j /\ flow[g].pc = "persist"
          \/ j \in orphans \cup released
          \/ First(j)
          BY <3>1 DEF Custody, LegacyKept
    <3>4. (\E g \in Flows : flow[g].key = j /\ flow[g].pc = "persist")
             => \E g \in Flows : flow'[g].key = j /\ flow'[g].pc = "persist"
          BY <1>1, CustodyKnows
    <3>5. ASSUME First(j)
          PROVE  First(j)'
      <4>1. ASSUME NEW g \in Flows
            PROVE  /\ flow'[g].key # j
                   /\ Rotating(g)' \/ flow'[g].pc = "replace" => flow'[g].old = j
                   /\ flow'[g].pc = "persist" /\ Replacement(g)' => flow'[g].old = j
        <5>1. CASE g # f
          <6>1. flow'[g] = flow[g] /\ (Rotating(g)' <=> Rotating(g))
                BY <1>1, <5>1 DEF Rotating
          <6>2. flow[g].pc = "persist" /\ Replacement(g)' => Replacement(g)
            <7>1. flow[g].pc = "persist" => flow[g].key # 0
                  BY DEF TypeInv, SetupInv, FlowShape, ShapedFlow
            <7> QED BY <1>5, <5>1, <7>1
          <6> QED BY <3>5, <6>1, <6>2 DEF First
        <5>2. CASE g = f
          <6>1. flow'[f].key # j
                BY <1>1, <3>2, CustodyKnows
          <6>2. flow'[f].pc \in {"persist", "done"} /\ flow'[f].old = flow[f].old
                BY <1>1
          <6>3. flow'[f].pc = "persist" /\ Replacement(f)'
                    => flow[f].pc = "replace"
                BY <1>1 DEF Replacement
          <6>4. flow[f].pc = "replace" => flow[f].old = j
                BY <3>5 DEF First
          <6> QED BY <5>2, <6>1, <6>2, <6>3, <6>4 DEF Rotating
        <5> QED BY <5>1, <5>2
      <4> QED BY <1>7, <3>5, <4>1 DEF First
    <3> QED BY <1>7, <3>3, <3>4, <3>5
  <2> QED BY <2>1, <2>2
<1>15. OrphansMade'
  <2>1. orphans \subseteq Keys
        BY DEF TypeInv, SetupInv, SetupOK
  <2> QED BY <1>3, <2>1 DEF Custody, OrphansMade
<1> QED BY <1>8, <1>9, <1>10, <1>11, <1>13, <1>14, <1>15 DEF Custody

\* A key that is stored, or cannot be, is in the row, given up or on its way out.
LEMMA CustodyStored ==
    ASSUME TypeInv, Custody, NEW f \in Flows, flow[f].pc = "persist",
           NEW x, flow' = [flow EXCEPT ![f] = x], x.key = flow[f].key,
           x.acct = flow[f].acct, x.old = flow[f].old,
           flow[f].wrote # 0 => x.wrote # 0,
           UNCHANGED <<keys, binding>>,
           released \subseteq released', orphans \subseteq orphans',
           orphans' \subseteq orphans \cup {flow[f].key},
           \/ row'.key = row.key /\ row'.ident = row.ident /\ row'.acct = row.acct
           \/ /\ row'.key = flow[f].key /\ row'.ident /\ row'.acct = flow[f].acct
              /\ Replacement(f) \/ MayStoreFirst(flow[f].key),
           \/ x.pc = "seed" /\ x.wrote # 0
           \/ /\ x.pc = "done"
              /\ Replacement(f) => flow[f].key \in released'
              /\ keys[flow[f].key].via = "legacy" => flow[f].key \in orphans'
    PROVE  Custody'
<1>1. PICK k \in Keys : flow[f].key = k /\ k # 0
  <2>1. flow[f].key # 0
        BY DEF TypeInv, SetupInv, FlowShape, ShapedFlow
  <2> QED BY <2>1, CustodyKnows
<1>2. /\ \A g \in Flows \ {f} : flow'[g] = flow[g]
      /\ flow'[f] = x
      /\ keys[k].state # "none" /\ keys[k].acct = flow[f].acct
      /\ keys[k].via = "replacement" <=> Replacement(f)
      /\ Replacement(f) => keys[k].old = flow[f].old
      BY <1>1, CustodyKnows DEF Custody, HeldKeys, HeldKey, Replacement
<1>3. \A g \in Flows : Replacement(g)' <=> Replacement(g)
      BY <1>1, <1>2 DEF Replacement
<1>4. /\ \A j : Lost(j) => Lost(j)'
      /\ \A j : Replacement(f) /\ flow[f].old # j => Lost(j)'
      /\ \A j : Replaced(j) => Replaced(j)'
      /\ \A j \in Keys : Stored(j) => Stored(j)'
  <2>1. ASSUME NEW j, Lost(j)
        PROVE  Lost(j)'
    <3>1. CASE j \in released
          BY <3>1 DEF Lost
    <3>2. ASSUME NEW g \in Flows, flow[g].pc \in {"seed", "done"}, flow[g].key # 0,
                 Replacement(g), flow[g].old # j
          PROVE  Lost(j)'
          BY <1>2, <1>3, <3>2 DEF Lost
    <3> QED BY <2>1, <3>1, <3>2 DEF Lost
  <2>2. ASSUME NEW j, Replacement(f), flow[f].old # j
        PROVE  Lost(j)'
        BY <1>1, <1>2, <1>3, <2>2 DEF Lost
  <2>3. \A j \in Keys : Stored(j) => Stored(j)'
        BY <1>1, <1>2 DEF Stored
  <2> QED BY <2>1, <2>2, <2>3 DEF Replaced
<1>5. ASSUME NEW o \in Keys, RowHolds(o)
      PROVE  \/ RowHolds(o)'
             \/ Replacement(f) /\ flow[f].old # o
             \/ Replacement(f) /\ flow[f].old = o
      BY <1>1, <1>5, CustodyKnows DEF RowHolds, MayStoreFirst
<1>6. Replacement(f) /\ flow[f].old \in Keys
          => keys[k].via = "replacement" /\ keys[k].old = flow[f].old
      BY <1>2
<1>7. HeldKeys'
  <2>1. \A g \in Flows \ {f} :
            /\ flow'[g].pc \notin {"persist", "seed", "done"} => flow'[g].key = 0
            /\ flow'[g].pc = "seed" => flow'[g].wrote # 0
            /\ flow'[g].key # 0 => HeldKey(g)'
        BY <1>2, <1>3 DEF Custody, HeldKeys, HeldKey
  <2>2. HeldKey(f)' /\ flow'[f].pc \in {"seed", "done"}
        /\ (flow'[f].pc = "seed" => flow'[f].wrote # 0)
        BY <1>1, <1>2, <1>3 DEF HeldKey
  <2> QED BY <2>1, <2>2 DEF HeldKeys
<1>8. OneBinding'
      BY DEF Custody, OneBinding
<1>9. RowIdentified'
      BY <1>1, <1>2 DEF Custody, RowIdentified
<1>10. Rotations'
  <2> SUFFICES ASSUME NEW g \in Flows
               PROVE  /\ flow'[g].pc \in {"revoke", "confirm"} => flow'[g].old # 0
                      /\ \A o \in Keys :
                             Rotating(g)' /\ flow'[g].old = o =>
                                /\ keys'[o].state # "none"
                                /\ keys'[o].acct = flow'[g].acct
                                /\ RowHolds(o)' \/ Replaced(o)' \/ Lost(o)'
      BY DEF Rotations
  <2>1. CASE g = f
        BY <1>2, <2>1 DEF Rotating
  <2>2. CASE g # f
    <3>1. flow'[g] = flow[g] /\ (Rotating(g)' => Rotating(g))
          BY <1>2, <2>2 DEF Rotating
    <3>2. ASSUME NEW o \in Keys, Rotating(g), flow[g].old = o
          PROVE  /\ keys[o].state # "none"
                 /\ keys[o].acct = flow[g].acct
                 /\ RowHolds(o)' \/ Replaced(o)' \/ Lost(o)'
      <4>1. /\ keys[o].state # "none" /\ keys[o].acct = flow[g].acct
            /\ RowHolds(o) \/ Replaced(o) \/ Lost(o)
            BY <3>2 DEF Custody, Rotations
      <4>2. Replacement(f) /\ flow[f].old = o => Replaced(o)
            BY <1>6 DEF Replaced
      <4> QED BY <1>4, <1>5, <4>1, <4>2
    <3> QED BY <3>1, <3>2 DEF Custody, Rotations
  <2> QED BY <2>1, <2>2
<1>11. Replacements'
  <2> SUFFICES ASSUME NEW j \in Keys, NEW o \in Keys,
                      keys[j].via = "replacement", keys[j].old = o
               PROVE  /\ keys[o].state = "revoked"
                      /\ keys[o].acct = keys[j].acct
                      /\ \A i \in Keys : keys[i].via = "replacement"
                                         /\ keys[i].old = o => i = j
                      /\ \/ Stored(j)'
                         \/ \E g \in Flows : flow'[g].key = j /\ flow'[g].pc = "persist"
                         \/ j \in released'
                         \/ RowHolds(o)'
                         \/ Lost(o)'
      BY DEF Replacements
  <2>1. /\ keys[o].state = "revoked"
        /\ keys[o].acct = keys[j].acct
        /\ \A i \in Keys : keys[i].via = "replacement" /\ keys[i].old = o => i = j
        /\ \/ Stored(j)
           \/ \E g \in Flows : flow[g].key = j /\ flow[g].pc = "persist"
           \/ j \in released
           \/ RowHolds(o)
           \/ Lost(o)
        BY DEF Custody, Replacements
  <2>2. j = k => Stored(j)' \/ j \in released'
        BY <1>1, <1>2 DEF Stored
  <2>3. ASSUME NEW g \in Flows, flow[g].key = j, flow[g].pc = "persist"
        PROVE  \/ j = k
               \/ \E h \in Flows : flow'[h].key = j /\ flow'[h].pc = "persist"
        BY <1>1, <1>2, <2>3
  <2>4. Replacement(f) /\ flow[f].old = o => j = k
        BY <1>6, <2>1
  <2> QED BY <1>4, <1>5, <2>1, <2>2, <2>3, <2>4
<1>12. LegacyKept'
  <2> SUFFICES ASSUME NEW j \in Keys, keys[j].via = "legacy", keys[j].state = "live"
               PROVE  \/ Stored(j)'
                      \/ \E g \in Flows : flow'[g].key = j /\ flow'[g].pc = "persist"
                      \/ j \in orphans' \cup released'
                      \/ First(j)'
      BY DEF LegacyKept
  <2>1. \/ Stored(j)
        \/ \E g \in Flows : flow[g].key = j /\ flow[g].pc = "persist"
        \/ j \in orphans \cup released
        \/ First(j)
        BY DEF Custody, LegacyKept
  <2>2. j = k => Stored(j)' \/ j \in orphans'
        BY <1>1, <1>2 DEF Stored
  <2>3. ASSUME NEW g \in Flows, flow[g].key = j, flow[g].pc = "persist"
        PROVE  \/ j = k
               \/ \E h \in Flows : flow'[h].key = j /\ flow'[h].pc = "persist"
        BY <1>1, <1>2, <2>3
  <2>4. ASSUME First(j)
        PROVE  First(j)'
    <3>1. RowHolds(j) /\ j # k
          BY <1>1, <2>4 DEF First
    <3>2. Replacement(f) => flow[f].old = j
          BY <2>4 DEF First
    <3>3. ~(Replacement(f) /\ flow[f].old = j)
      <4>1. ASSUME Replacement(f), flow[f].old = j
            PROVE  keys[j].state = "revoked"
            BY <1>6, <4>1 DEF Custody, Replacements
      <4> QED BY <4>1
    <3>4. RowHolds(j)'
          BY <1>5, <3>1, <3>2, <3>3
    <3>5. ASSUME NEW g \in Flows
          PROVE  /\ flow'[g].key # j
                 /\ Rotating(g)' \/ flow'[g].pc = "replace" => flow'[g].old = j
                 /\ flow'[g].pc = "persist" /\ Replacement(g)' => flow'[g].old = j
      <4>1. CASE g = f
            BY <1>1, <1>2, <3>1, <4>1 DEF Rotating
      <4>2. CASE g # f
        <5>1. flow'[g] = flow[g] /\ (Rotating(g)' <=> Rotating(g))
              BY <1>2, <4>2 DEF Rotating
        <5> QED BY <1>3, <2>4, <5>1 DEF First
      <4> QED BY <4>1, <4>2
    <3> QED BY <3>4, <3>5 DEF First
  <2> QED BY <1>4, <2>1, <2>2, <2>3, <2>4
<1>13. OrphansMade'
       BY <1>1, <1>2 DEF Custody, OrphansMade
<1> QED BY <1>7, <1>8, <1>9, <1>10, <1>11, <1>12, <1>13 DEF Custody

LEMMA FlowWaits ==
    ASSUME TypeInv, Custody, NEW g \in Flows, flow'[g] = flow[g]
    PROVE  FlowAges(g)
<1>1. /\ flow[g].key = 0 => flow[g].pc \notin {"persist", "seed"}
      BY DEF TypeInv, SetupInv, FlowShape, ShapedFlow
<1>2. flow[g].pc \in {"revoke", "confirm"} => flow[g].old # 0
      BY DEF Custody, Rotations
<1> QED BY <1>1, <1>2 DEF FlowAges

LEMMA KeysOnlyDie ==
    ASSUME TypeInv, NEW k, UNCHANGED keys \/ (Revoked(k) /\ keys[k].state # "none")
    PROVE  KeysAge /\ (Revoked(k) /\ k \in Keys => keys'[k].state = "revoked")
<1>1. keys \in [Keys -> KeyRows]
      BY CustodyKnows
<1> QED BY <1>1 DEF Revoked, KeysAge, KeyRows

\* A setup before it has a key, and after it has stored one.
LEMMA CustodyBefore ==
    ASSUME TypeInv, Custody, NEW f \in Flows,
           OwnerStep(f) \/ KeyStep(f) \/ Seeds(f) \/ FlowFails(f) \/ RevokeFails(f)
           \/ RevokeReplyLost(f)
    PROVE  Custody'
<1> DEFINE r == flow[f]
<1>1. /\ flow \in [Flows -> FlowRows] /\ r \in FlowRows
      /\ keys \in [Keys -> KeyRows]
      BY CustodyKnows
<1>2. \A g \in Flows \ {f} : flow'[g] = flow[g]
  <2>1. SetupInv
        BY DEF TypeInv
  <2> QED BY <2>1, FlowsStayWhose DEF StoreStep, FlowFault
<1>3. /\ UNCHANGED <<row, binding, orphans, released>>
      /\ \/ UNCHANGED keys
         \/ In(f, "revoke") /\ Revocable(f) /\ Revoked(Held(f))
  <2>1. CASE OwnerStep(f)
        BY <2>1 DEF OwnerStep, Bind, Disambiguate, Reclaim
  <2>2. CASE KeyStep(f)
        BY <2>2 DEF KeyStep, Ensures, TakesKey, Validate, Identify, Identity, Revoke,
           RevokeHeld, Confirm, LookupBegins, Unminting, providerVars
  <2>3. CASE Seeds(f) \/ FlowFails(f) \/ RevokeFails(f) \/ RevokeReplyLost(f)
        BY <2>3 DEF Seeds, FlowFails, RevokeFails, RevokeReplyLost, RevokeHeld,
           Unminting, providerVars
  <2> QED BY <2>1, <2>2, <2>3
<1>4. KeysAge
  <2>1. CASE UNCHANGED keys
        BY <2>1, KeysOnlyDie
  <2>2. CASE Revocable(f) /\ Revoked(Held(f))
        BY <2>2, KeysOnlyDie DEF Revocable
  <2> QED BY <1>3, <2>1, <2>2
<1>5. ASSUME NEW x, flow' = [flow EXCEPT ![f] = x], x.key = r.key, x.wrote = r.wrote,
             r.key = 0, x.pc \notin {"persist", "seed"},
             x.pc \in {"revoke", "confirm"} => x.old # 0,
             x.pc \in {"revoke", "confirm", "replace"} =>
                 \/ /\ r.pc \in {"revoke", "confirm", "replace"}
                    /\ x.old = r.old /\ x.acct = r.acct
                 \/ RowHolds(x.old) /\ x.acct = row.acct
                 \/ x.old = 0 /\ ~row.ident
      PROVE  FlowAges(f)
  <2>1. flow'[f] = x
        BY <1>1, <1>5
  <2> QED BY <1>5, <2>1 DEF FlowAges, RowHolds
<1>6. r.pc \notin {"persist", "seed", "done"} => r.key = 0
      BY DEF Custody, HeldKeys
<1>7. ASSUME NEW pc, Goes(f, pc), r.pc \notin {"persist", "seed", "done"},
             \/ pc \notin {"persist", "seed", "revoke", "confirm", "replace"}
             \/ pc \in {"confirm", "replace"} /\ r.pc \in {"revoke", "confirm"}
      PROVE  FlowAges(f)
  <2> DEFINE x == [r EXCEPT !.pc = pc]
  <2>1. flow' = [flow EXCEPT ![f] = x]
        BY <1>1, <1>7 DEF Goes
  <2>2. /\ x.pc = pc /\ x.old = r.old /\ x.acct = r.acct /\ x.key = r.key
        /\ x.wrote = r.wrote
    <3> HIDE DEF r
    <3> QED BY <1>1 DEF FlowRows
  <2>3. r.pc \in {"revoke", "confirm"} => r.old # 0
        BY DEF Custody, Rotations
  <2> HIDE DEF x, r
  <2> QED BY <1>5, <1>6, <1>7, <2>1, <2>2, <2>3
<1>8. FlowAges(f)
  <2>1. CASE OwnerStep(f)
    <3>1. /\ r.pc \in {"bind", "whose", "reclaim"}
          /\ \E pc \in {"key", "whose", "reclaim", "done"} : Goes(f, pc)
          BY <2>1 DEF OwnerStep, Bind, Disambiguate, Reclaim, Bound, Ends, In
    <3> QED BY <1>7, <3>1
  <2>2. CASE Ensures(f) \/ Validate(f) \/ Identify(f) \/ FlowFails(f) \/ RevokeFails(f)
    <3>1. /\ r.pc \notin {"persist", "seed", "done"}
          /\ \E pc \in {"lookup", "identity", "done", "ident", "mint"} : Goes(f, pc)
          BY <2>2 DEF Ensures, Validate, Identify, FlowFails, RevokeFails, Ends, In
    <3> QED BY <1>7, <3>1
  <2>3. CASE TakesKey(f)
    <3> DEFINE pc == CASE lookup[f].result.status = "none" -> "mint"
                       [] lookup[f].result.status = "key"  -> "validate"
                       [] OTHER                            -> "done"
               old == lookup[f].result.key
               x == [r EXCEPT !.pc = pc, !.old = old]
    <3>1. flow' = [flow EXCEPT ![f] = x]
          BY <1>1, <2>3 DEF TakesKey
    <3>2. pc \in {"mint", "validate", "done"} /\ r.pc = "lookup"
          BY <2>3 DEF TakesKey, In
    <3>3. x.pc = pc /\ x.key = r.key /\ x.wrote = r.wrote
      <4> HIDE DEF r, pc, old
      <4> QED BY <1>1 DEF FlowRows
    <3> HIDE DEF x, pc, r
    <3> QED BY <1>5, <1>6, <3>1, <3>2, <3>3
  <2>4. CASE Identity(f)
    <3> DEFINE mode == r.mode
               other == row.acct # "none" /\ row.acct # r.acct
               blank == mode = "repoint" /\ (row.acct = "none" \/ ~row.ident)
               refused == row.key # 0 /\ (other \/ blank)
               pc == CASE row.key = 0                           -> "mint"
                       [] refused                               -> "done"
                       [] row.key # 0 /\ row.ident /\ ~refused  -> "revoke"
                       [] OTHER                                 -> "replace"
               old == IF row.key # 0 /\ row.ident THEN row.key ELSE 0
               x == [r EXCEPT !.pc = pc, !.old = old]
    <3>1. flow' = [flow EXCEPT ![f] = x] /\ r.pc = "identity"
      <4>1. flow' = [flow EXCEPT ![f].pc = pc, ![f].old = old] /\ r.pc = "identity"
            BY <2>4 DEF Identity, In
      <4> HIDE DEF pc, old
      <4> QED BY <1>1, <4>1
    <3>2. row.ident => row.key # 0 /\ row.acct # "none"
      <4>1. row.ident => row.key \in Keys /\ row.acct \in Accounts
            BY CustodyKnows DEF Custody, RowIdentified, OneBinding
      <4> QED BY <4>1, CustodyKnows
    <3>3. /\ pc \in {"mint", "done", "revoke", "replace"}
          /\ pc = "revoke" => old = row.key /\ row.ident /\ row.acct = r.acct
                              /\ row.key # 0
          /\ pc = "replace" => old = 0 /\ ~row.ident
      <4>1. CASE row.key = 0
        <5>1. pc = "mint"
              BY <4>1
        <5> HIDE DEF pc, old, other, blank
        <5> QED BY <5>1
      <4>2. CASE row.key # 0 /\ (other \/ blank)
        <5>1. pc = "done"
              BY <4>2
        <5> HIDE DEF pc, old, other, blank
        <5> QED BY <5>1
      <4>3. CASE row.key # 0 /\ ~other /\ ~blank /\ row.ident
        <5>1. pc = "revoke" /\ old = row.key
              BY <4>3
        <5>2. row.acct = r.acct
              BY <3>2, <4>3
        <5> HIDE DEF pc, old, other, blank
        <5> QED BY <4>3, <5>1, <5>2
      <4>4. CASE row.key # 0 /\ ~other /\ ~blank /\ ~row.ident
        <5>1. pc = "replace" /\ old = 0
              BY <4>4
        <5> HIDE DEF pc, old, other, blank
        <5> QED BY <4>4, <5>1
      <4> HIDE DEF pc, old, other, blank
      <4> QED BY <4>1, <4>2, <4>3, <4>4
    <3>4. /\ x.pc = pc /\ x.old = old /\ x.key = r.key /\ x.wrote = r.wrote
          /\ x.acct = r.acct
      <4> HIDE DEF r, pc, old
      <4> QED BY <1>1 DEF FlowRows
    <3>5. pc = "revoke" => RowHolds(x.old)
          BY <3>3, <3>4 DEF RowHolds
    <3> HIDE DEF x, pc, r, old
    <3> QED BY <1>5, <1>6, <3>1, <3>3, <3>4, <3>5
  <2>5. CASE Revoke(f) \/ Confirm(f) \/ RevokeReplyLost(f)
    <3>1. /\ r.pc \in {"revoke", "confirm"}
          /\ \E pc \in {"replace", "confirm", "done"} : Goes(f, pc)
          BY <2>5 DEF Revoke, RevokeHeld, Confirm, RevokeReplyLost, In
    <3> QED BY <1>7, <3>1
  <2>6. CASE Seeds(f)
    <3> DEFINE x == [r EXCEPT !.pc = "done"]
    <3>1. flow' = [flow EXCEPT ![f] = x] /\ r.pc = "seed"
          BY <1>1, <2>6 DEF Seeds, Ends, Goes, In
    <3>2. /\ x.pc = "done" /\ x.old = r.old /\ x.acct = r.acct /\ x.key = r.key
          /\ x.wrote = r.wrote /\ x.backed = r.backed
      <4> HIDE DEF r
      <4> QED BY <1>1 DEF FlowRows
    <3>3. flow'[f] = x
          BY <1>1, <3>1
    <3> HIDE DEF x
    <3> QED BY <3>1, <3>2, <3>3 DEF FlowAges
  <2> QED BY <2>1, <2>2, <2>3, <2>4, <2>5, <2>6 DEF KeyStep
<1>9. RowAges
      BY <1>3 DEF RowAges
<1>10. \A g \in Flows : FlowAges(g)
       BY <1>2, <1>8, FlowWaits
<1> QED BY <1>3, <1>4, <1>9, <1>10, CustodyAges

\* What a mint makes, or replays.
LEMMA MadeOrReplayed ==
    ASSUME TypeInv, NEW k \in Keys, NEW acct, NEW via, NEW old,
           Made(k, acct, via, old), k \in Replayed(acct, via, old) \cup Fresh
    PROVE  /\ \A j \in Keys \ {k} : keys'[j] = keys[j]
           /\ keys[k].state # "none" => keys'[k] = keys[k]
           /\ keys[k].state = "none" /\ k \in Replayed(acct, via, old)
                  => Replays(acct, via, old) = {}
           /\ keys'[k].state # "none" /\ keys'[k].acct = acct
           /\ keys'[k].via = via /\ keys'[k].old = old
<1>1. keys \in [Keys -> KeyRows]
      BY CustodyKnows
<1>2. CASE keys[k].state # "none"
  <2>1. k \in Replays(acct, via, old)
        BY <1>2 DEF Replayed, Fresh
  <2> QED BY <1>2, <2>1 DEF Made, Replays
<1>3. CASE keys[k].state = "none"
  <2> DEFINE x == [state |-> "live", acct |-> acct, via |-> via, old |-> old]
  <2>1. keys' = [keys EXCEPT ![k] = x]
        BY <1>3 DEF Made
  <2>2. /\ x.state = "live" /\ x.acct = acct /\ x.via = via /\ x.old = old
        OBVIOUS
  <2>3. k \in Replayed(acct, via, old) => Replays(acct, via, old) = {}
        BY <1>3 DEF Replayed, Replays
  <2> HIDE DEF x
  <2> QED BY <1>1, <1>3, <2>1, <2>2, <2>3
<1> QED BY <1>2, <1>3

\* A setup gets its key, or its mint's answer is lost.
LEMMA CustodyMints ==
    ASSUME TypeInv, OldKeysDie, Custody, NEW f \in Flows,
           Mint(f) \/ MintReplacement(f) \/ MintReplyLost(f)
    PROVE  Custody'
<1> DEFINE r == flow[f]
           acct == r.acct
           no == 0
<1>1. /\ flow \in [Flows -> FlowRows] /\ r \in FlowRows
      /\ r.old \in {0} \cup Keys
      BY CustodyKnows
<1>2. /\ UNCHANGED <<row, orphans>> /\ released \subseteq released'
      /\ r.pc \in {"mint", "replace"} /\ bindings \in BOOLEAN
  <2>1. UNCHANGED <<row, orphans>>
        BY DEF Mint, MintReplacement, MintReplyLost, providerVars
  <2>2. released \subseteq released'
        BY DEF Mint, MintReplacement, MintReplyLost
  <2>3. r.pc \in {"mint", "replace"}
        BY DEF Mint, MintReplacement, MintReplyLost, Replaces, Binds, MintsLegacy, In
  <2> QED BY <2>1, <2>2, <2>3 DEF TypeInv, SetupInv, SetupOK
<1>3. keys' \in [Keys -> KeyRows]
      BY MintsKeepTypes DEF TypeInv, SetupInv, SetupOK
<1>4. ASSUME NEW k, Minted(f, k, TRUE)
      PROVE  \E x : /\ flow' = [flow EXCEPT ![f] = x]
                    /\ x.acct = r.acct /\ x.old = r.old /\ x.wrote = r.wrote
                    /\ x.pc = "persist" /\ x.key = k /\ x.backed = TRUE
  <2> DEFINE x == [r EXCEPT !.pc = "persist", !.key = k, !.backed = TRUE]
  <2>1. flow' = [flow EXCEPT ![f] = x]
        BY <1>1, <1>4 DEF Minted
  <2>2. /\ x.acct = r.acct /\ x.old = r.old /\ x.wrote = r.wrote
        /\ x.pc = "persist" /\ x.key = k /\ x.backed = TRUE
    <3> HIDE DEF r
    <3> QED BY <1>1 DEF FlowRows
  <2> HIDE DEF x
  <2> QED BY <2>1, <2>2
<1>10. ASSUME NEW k, Minted(f, k, FALSE)
      PROVE  \E x : /\ flow' = [flow EXCEPT ![f] = x]
                    /\ x.acct = r.acct /\ x.old = r.old /\ x.wrote = r.wrote
                    /\ x.pc = "persist" /\ x.key = k /\ x.backed = FALSE
  <2> DEFINE x == [r EXCEPT !.pc = "persist", !.key = k, !.backed = FALSE]
  <2>1. flow' = [flow EXCEPT ![f] = x]
        BY <1>1, <1>10 DEF Minted
  <2>2. /\ x.acct = r.acct /\ x.old = r.old /\ x.wrote = r.wrote
        /\ x.pc = "persist" /\ x.key = k /\ x.backed = FALSE
    <3> HIDE DEF r
    <3> QED BY <1>1 DEF FlowRows
  <2> HIDE DEF x
  <2> QED BY <2>1, <2>2
<1>5. ASSUME Ends(f)
      PROVE  \E x : /\ flow' = [flow EXCEPT ![f] = x]
                    /\ x.acct = r.acct /\ x.old = r.old /\ x.wrote = r.wrote
                    /\ x.pc = "done" /\ x.key = 0
  <2> DEFINE x == [r EXCEPT !.pc = "done"]
  <2>1. flow' = [flow EXCEPT ![f] = x]
        BY <1>1, <1>5 DEF Ends, Goes
  <2>2. /\ x.acct = r.acct /\ x.old = r.old /\ x.wrote = r.wrote
        /\ x.pc = "done" /\ x.key = r.key
    <3> HIDE DEF r
    <3> QED BY <1>1 DEF FlowRows
  <2>3. r.key = 0
        BY <1>2 DEF Custody, HeldKeys
  <2> HIDE DEF x
  <2> QED BY <2>1, <2>2, <2>3
<1> HIDE DEF no
<1>6. ASSUME NEW k \in Keys, Binds(f, k), Minted(f, k, TRUE) \/ Ends(f)
      PROVE  Custody'
  <2> DEFINE via == "binding"
  <2>1. /\ Made(k, acct, via, no) /\ k \in Replayed(acct, via, no) \cup Fresh
        /\ k \in Replayed(acct, via, no)
        /\ Bindable(f) /\ binding' = {[acct |-> flow[f].acct, key |-> k]}
        BY <1>6 DEF Binds, BindingKeys, no
  <2>2. /\ \A j \in Keys \ {k} : keys'[j] = keys[j]
        /\ keys[k].state # "none" => keys'[k] = keys[k]
        /\ keys[k].state = "none" => Replays(acct, via, no) = {}
        /\ keys'[k].state # "none" /\ keys'[k].acct = acct
        /\ keys'[k].via = via /\ keys'[k].old = no
    <3> HIDE DEF via
    <3> QED BY <2>1, MadeOrReplayed
  <2>3. PICK x : /\ flow' = [flow EXCEPT ![f] = x]
                 /\ x.acct = r.acct /\ x.old = r.old /\ x.wrote = r.wrote
                 /\ \/ x.pc = "persist" /\ x.key = k /\ x.backed = TRUE
                    \/ x.pc = "done" /\ x.key = 0
    <3>1. CASE Minted(f, k, TRUE)
      <4>1. PICK x : /\ flow' = [flow EXCEPT ![f] = x]
                     /\ x.acct = r.acct /\ x.old = r.old /\ x.wrote = r.wrote
                     /\ x.pc = "persist" /\ x.key = k /\ x.backed = TRUE
            BY <1>4, <3>1, Zenon
      <4> QED BY <4>1
    <3>2. CASE Ends(f)
      <4>1. PICK x : /\ flow' = [flow EXCEPT ![f] = x]
                     /\ x.acct = r.acct /\ x.old = r.old /\ x.wrote = r.wrote
                     /\ x.pc = "done" /\ x.key = 0
            BY <1>5, <3>2
      <4> QED BY <3>2, <4>1
    <3> QED BY <1>6, <3>1, <3>2
  <2>4. MintFor(f, k, via, no, x)
    <3>1. /\ keys[k].state = "none" /\ via # "legacy"
                 => Replays(flow[f].acct, via, no) = {}
          /\ keys[k].state # "none" => keys'[k] = keys[k]
          /\ keys'[k].state # "none" /\ keys'[k].acct = flow[f].acct
          /\ keys'[k].via = via /\ keys'[k].old = no
          BY <2>1, <2>2
    <3>2. via = "binding" /\ no = 0 /\ Bindable(f)
          /\ binding' = {[acct |-> flow[f].acct, key |-> k]}
          BY <2>1 DEF no
    <3>3. \/ x.pc = "persist" /\ x.key = k /\ (x.backed <=> via # "legacy")
          \/ x.pc = "done" /\ x.key = 0 /\ via # "legacy"
          BY <2>3
    <3> HIDE DEF via
    <3> QED BY <1>2, <1>3, <2>2, <2>3, <3>1, <3>2, <3>3 DEF MintFor
  <2>5. via \in {"binding", "legacy", "replacement"} /\ no \in {0} \cup Keys
        BY DEF no
  <2> HIDE DEF via
  <2> QED BY <2>4, <2>5, CustodyMade
<1>7. ASSUME NEW k \in Keys, MintsLegacy(f, k),
             Minted(f, k, FALSE) \/ (Ends(f) /\ k \in released')
      PROVE  Custody'
  <2> DEFINE via == "legacy"
  <2>1. /\ Made(k, acct, via, no) /\ k \in Replayed(acct, via, no) \cup Fresh
        /\ keys[k].state = "none" /\ UNCHANGED binding
        BY <1>7 DEF MintsLegacy, Fresh, no
  <2>2. /\ \A j \in Keys \ {k} : keys'[j] = keys[j]
        /\ keys'[k].state # "none" /\ keys'[k].acct = acct
        /\ keys'[k].via = via /\ keys'[k].old = no
    <3> HIDE DEF via
    <3> QED BY <2>1, MadeOrReplayed
  <2>3. PICK x : /\ flow' = [flow EXCEPT ![f] = x]
                 /\ x.acct = r.acct /\ x.old = r.old /\ x.wrote = r.wrote
                 /\ \/ x.pc = "persist" /\ x.key = k /\ x.backed = FALSE
                    \/ x.pc = "done" /\ x.key = 0 /\ k \in released'
    <3>1. CASE Minted(f, k, FALSE)
      <4>1. PICK x : /\ flow' = [flow EXCEPT ![f] = x]
                     /\ x.acct = r.acct /\ x.old = r.old /\ x.wrote = r.wrote
                     /\ x.pc = "persist" /\ x.key = k /\ x.backed = FALSE
            BY <1>10, <3>1, Zenon
      <4> QED BY <4>1
    <3>2. CASE Ends(f) /\ k \in released'
      <4>1. PICK x : /\ flow' = [flow EXCEPT ![f] = x]
                     /\ x.acct = r.acct /\ x.old = r.old /\ x.wrote = r.wrote
                     /\ x.pc = "done" /\ x.key = 0
            BY <1>5, <3>2
      <4> QED BY <3>2, <4>1
    <3> QED BY <1>7, <3>1, <3>2
  <2>4. MintFor(f, k, via, no, x)
    <3>1. /\ keys[k].state = "none" /\ via # "legacy"
                 => Replays(flow[f].acct, via, no) = {}
          /\ keys[k].state # "none" => keys'[k] = keys[k]
          /\ keys'[k].state # "none" /\ keys'[k].acct = flow[f].acct
          /\ keys'[k].via = via /\ keys'[k].old = no
          BY <2>1, <2>2
    <3>2. via = "legacy" /\ no = 0 /\ keys[k].state = "none" /\ UNCHANGED binding
          BY <2>1 DEF no
    <3>3. \/ x.pc = "persist" /\ x.key = k /\ (x.backed <=> via # "legacy")
          \/ x.pc = "done" /\ x.key = 0 /\ k \in released'
          BY <2>3
    <3> HIDE DEF via
    <3> QED BY <1>2, <1>3, <2>2, <2>3, <3>1, <3>2, <3>3 DEF MintFor
  <2>5. via \in {"binding", "legacy", "replacement"} /\ no \in {0} \cup Keys
        BY DEF no
  <2> HIDE DEF via
  <2> QED BY <2>4, <2>5, CustodyMade
<1>8. ASSUME NEW k \in Keys, Replaces(f, k), UNCHANGED binding,
             Minted(f, k, TRUE) \/ Ends(f)
      PROVE  Custody'
  <2> DEFINE via == "replacement"
             old == r.old
  <2>1. /\ Made(k, acct, via, old) /\ k \in Replayed(acct, via, old) \cup Fresh
        /\ k \in Replayed(acct, via, old) /\ r.pc = "replace"
        BY <1>8 DEF Replaces, Held, In
  <2>2. /\ \A j \in Keys \ {k} : keys'[j] = keys[j]
        /\ keys[k].state # "none" => keys'[k] = keys[k]
        /\ keys[k].state = "none" => Replays(acct, via, old) = {}
        /\ keys'[k].state # "none" /\ keys'[k].acct = acct
        /\ keys'[k].via = via /\ keys'[k].old = old
    <3> HIDE DEF via, old
    <3> QED BY <2>1, MadeOrReplayed
  <2>3. PICK x : /\ flow' = [flow EXCEPT ![f] = x]
                 /\ x.acct = r.acct /\ x.old = r.old /\ x.wrote = r.wrote
                 /\ \/ x.pc = "persist" /\ x.key = k /\ x.backed = TRUE
                    \/ x.pc = "done" /\ x.key = 0
    <3>1. CASE Minted(f, k, TRUE)
      <4>1. PICK x : /\ flow' = [flow EXCEPT ![f] = x]
                     /\ x.acct = r.acct /\ x.old = r.old /\ x.wrote = r.wrote
                     /\ x.pc = "persist" /\ x.key = k /\ x.backed = TRUE
            BY <1>4, <3>1, Zenon
      <4> QED BY <4>1
    <3>2. CASE Ends(f)
      <4>1. PICK x : /\ flow' = [flow EXCEPT ![f] = x]
                     /\ x.acct = r.acct /\ x.old = r.old /\ x.wrote = r.wrote
                     /\ x.pc = "done" /\ x.key = 0
            BY <1>5, <3>2
      <4> QED BY <3>2, <4>1
    <3> QED BY <1>8, <3>1, <3>2
  <2>4. MintFor(f, k, via, old, x)
    <3>1. /\ keys[k].state = "none" /\ via # "legacy"
                 => Replays(flow[f].acct, via, old) = {}
          /\ keys[k].state # "none" => keys'[k] = keys[k]
          /\ keys'[k].state # "none" /\ keys'[k].acct = flow[f].acct
          /\ keys'[k].via = via /\ keys'[k].old = old
          BY <2>1, <2>2
    <3>2. via = "replacement" /\ flow[f].pc = "replace" /\ flow[f].old = old
          /\ UNCHANGED binding
          BY <2>1, <1>8
    <3>3. \/ x.pc = "persist" /\ x.key = k /\ (x.backed <=> via # "legacy")
          \/ x.pc = "done" /\ x.key = 0 /\ via # "legacy"
          BY <2>3
    <3> HIDE DEF via
    <3> QED BY <1>2, <1>3, <2>2, <2>3, <3>1, <3>2, <3>3 DEF MintFor
  <2>5. via \in {"binding", "legacy", "replacement"} /\ old \in {0} \cup Keys
        BY <1>1
  <2> HIDE DEF via, old
  <2> QED BY <2>4, <2>5, CustodyMade
<1>9. CASE In(f, "mint") /\ Ends(f) /\ UNCHANGED <<keys, binding, released>>
  <2>1. PICK x : /\ flow' = [flow EXCEPT ![f] = x]
                 /\ x.acct = r.acct /\ x.old = r.old /\ x.wrote = r.wrote
                 /\ x.pc = "done" /\ x.key = 0
        BY <1>5, <1>9
  <2>2. r.key = 0
        BY <1>2 DEF Custody, HeldKeys
  <2>3. \A g \in Flows : FlowAges(g)
    <3>1. FlowAges(f)
      <4>1. flow'[f] = x
            BY <1>1, <2>1
      <4> QED BY <2>1, <2>2, <4>1 DEF FlowAges
    <3>2. \A g \in Flows \ {f} : flow'[g] = flow[g]
          BY <1>1, <2>1
    <3> QED BY <3>1, <3>2, FlowWaits
  <2>4. KeysAge /\ RowAges
        BY <1>2, <1>9, KeysOnlyDie DEF RowAges
  <2> QED BY <1>2, <1>9, <2>3, <2>4, CustodyAges
<1> QED BY <1>2, <1>6, <1>7, <1>8, <1>9 DEF Mint, MintReplacement, MintReplyLost

\* A setup stores its key, or fails to.
LEMMA CustodyStores ==
    ASSUME TypeInv, Custody, NEW f \in Flows, Persist(f) \/ PersistFails(f)
    PROVE  Custody'
<1> DEFINE r == flow[f]
           k == r.key
<1>1. /\ flow \in [Flows -> FlowRows] /\ r \in FlowRows /\ r.pc = "persist"
      /\ row \in Rows /\ clock \in Nat
      BY CustodyKnows DEF Persist, PersistFails, In, TypeInv, ProviderInv, ProviderOK
<1>2. /\ UNCHANGED <<keys, binding>>
      /\ released \subseteq released' /\ orphans \subseteq orphans'
      /\ orphans' \subseteq orphans \cup {k}
      BY DEF Persist, PersistFails, PersistKept, Stores, Abandons
<1>3. ASSUME StoreKey(k, r.acct)
      PROVE  row'.key = k /\ row'.ident /\ row'.acct = r.acct
  <2> DEFINE w == clock + 1
             acct == r.acct
  <2>1. row' = [[row EXCEPT !.key = k, !.ident = TRUE, !.acct = acct, !.ver = w]
                    EXCEPT !.stamp = w]
        BY <1>3 DEF StoreKey, Stamped
  <2> HIDE DEF w, k, acct
  <2>2. row'.key = k /\ row'.ident /\ row'.acct = acct
        BY <1>1, <2>1 DEF Rows
  <2> QED BY <2>2 DEF acct
<1>4. \/ row'.key = row.key /\ row'.ident = row.ident /\ row'.acct = row.acct
      \/ /\ row'.key = k /\ row'.ident /\ row'.acct = r.acct
         /\ Replacement(f) \/ MayStoreFirst(k)
  <2>1. \/ UNCHANGED row
        \/ StoreKey(k, r.acct) /\ (Replacement(f) \/ MayStoreFirst(k))
        BY DEF Persist, PersistFails, Stores
  <2> QED BY <1>3, <2>1
<1>5. k # 0 /\ (r.backed <=> keys[k].via # "legacy")
  <2>1. k # 0
        BY <1>1 DEF TypeInv, SetupInv, FlowShape, ShapedFlow
  <2> QED BY <1>1, <2>1 DEF Custody, HeldKeys, HeldKey
<1>6. CASE Stores(f)
  <2> DEFINE w == clock + 1
             x == [r EXCEPT !.pc = "seed", !.wrote = w]
  <2>1. flow' = [flow EXCEPT ![f] = x] /\ w # 0
    <3>1. flow' = [flow EXCEPT ![f].pc = "seed", ![f].wrote = w]
          BY <1>6 DEF Stores
    <3>2. w # 0
          BY <1>1
    <3> HIDE DEF w
    <3> QED BY <1>1, <3>1, <3>2
  <2>2. /\ x.acct = r.acct /\ x.old = r.old /\ x.wrote = w
        /\ x.pc = "seed" /\ x.key = r.key
    <3> HIDE DEF r, w
    <3> QED BY <1>1 DEF FlowRows
  <2> HIDE DEF x, w
  <2> QED BY <1>1, <1>2, <1>4, <2>1, <2>2, CustodyStored
<1>7. CASE /\ Ends(f)
           /\ Replacement(f) => k \in released'
           /\ keys[k].via = "legacy" => k \in orphans'
  <2> DEFINE x == [r EXCEPT !.pc = "done"]
  <2>1. flow' = [flow EXCEPT ![f] = x]
        BY <1>1, <1>7 DEF Ends, Goes
  <2>2. /\ x.acct = r.acct /\ x.old = r.old /\ x.wrote = r.wrote
        /\ x.pc = "done" /\ x.key = r.key
    <3> HIDE DEF r
    <3> QED BY <1>1 DEF FlowRows
  <2> HIDE DEF x
  <2> QED BY <1>1, <1>2, <1>4, <1>7, <2>1, <2>2, CustodyStored
<1>8. CASE Abandons(f) /\ ~Replacement(f)
  <2>1. keys[k].via = "legacy" => k \in orphans'
        BY <1>5, <1>8 DEF Abandons
  <2> QED BY <1>7, <1>8, <2>1 DEF Abandons
<1>9. CASE PersistFails(f)
  <2>1. keys[k].via = "legacy" => k \in orphans'
        BY <1>5, <1>9 DEF PersistFails, Abandons
  <2>2. Replacement(f) => k \in released'
        BY <1>5, <1>9 DEF PersistFails, Replacement
  <2> QED BY <1>7, <1>9, <2>1, <2>2 DEF PersistFails, Abandons
<1> QED BY <1>6, <1>8, <1>9 DEF Persist

\* Others give up the row, and their steps change nothing else of this.
LEMMA CustodyElsewhere ==
    ASSUME TypeInv, Custody, [Moves]_vars, Elsewhere
    PROVE  Custody'
<1>1. row \in Rows /\ clock \in Nat /\ flow \in [Flows -> FlowRows]
      BY CustodyKnows DEF TypeInv, ProviderInv, ProviderOK
<1>2. RowAges
  <2>1. CASE UNCHANGED row
        BY <2>1 DEF RowAges
  <2>2. ASSUME NEW f \in Flows, Persist(f) \/ PersistFails(f)
        PROVE  FALSE
    <3> DEFINE r == flow[f]
    <3>1. r \in FlowRows /\ r.pc = "persist"
          BY <1>1, <2>2 DEF Persist, PersistFails, In
    <3>2. \/ flow' = [flow EXCEPT ![f].pc = "done"]
          \/ \E w : flow' = [flow EXCEPT ![f].pc = "seed", ![f].wrote = w]
          BY <2>2 DEF Persist, PersistFails, Stores, Abandons, Ends, Goes
    <3>3. flow'[f].pc # "persist"
          BY <1>1, <3>2 DEF FlowRows
    <3> QED BY <3>1, <3>3 DEF Elsewhere
  <2>3. CASE ClearKey /\ GivesUpKey
    <3> DEFINE w == clock + 1
    <3>1. row' = [[row EXCEPT !.key = 0, !.ident = FALSE, !.acct = "none", !.ver = w]
                      EXCEPT !.stamp = w]
          BY <2>3 DEF ClearKey, Stamped
    <3> HIDE DEF w
    <3>2. row'.key = 0 /\ ~row'.ident
          BY <1>1, <3>1 DEF Rows
    <3> QED BY <2>3, <3>2 DEF RowAges, GivesUpKey
  <2>4. ASSUME NEW cutoff, DeleteRow(cutoff), GivesUpKey
        PROVE  RowAges
    <3> DEFINE w == clock + 1
    <3>1. UNCHANGED row \/ row' = [NoRow EXCEPT !.ver = w]
          BY <2>4 DEF DeleteRow
    <3>2. row' = [NoRow EXCEPT !.ver = w] => row'.key = 0 /\ ~row'.ident
          BY DEF NoRow
    <3> QED BY <2>1, <2>4, <3>1, <3>2 DEF RowAges, GivesUpKey
  <2>5. CASE StoreBotToken
    <3> DEFINE w == clock + 1
    <3>1. row' = [[row EXCEPT !.bot = w] EXCEPT !.stamp = w]
          BY <2>5 DEF StoreBotToken, Stamped
    <3> HIDE DEF w
    <3>2. row'.key = row.key /\ row'.ident = row.ident /\ row'.acct = row.acct
          BY <1>1, <3>1 DEF Rows
    <3> QED BY <3>2 DEF RowAges
  <2> QED BY <2>1, <2>2, <2>3, <2>4, <2>5, StepsOfRow
<1>3. \A g \in Flows : FlowAges(g)
      BY FlowWaits DEF Elsewhere
<1>4. KeysAge
      BY KeysOnlyDie DEF Elsewhere
<1> QED BY <1>2, <1>3, <1>4, CustodyAges DEF Elsewhere

\* A setup is begun, and a callback consumes its link.
LEMMA CustodyLinks ==
    ASSUME TypeInv, Custody, UNCHANGED providerVars,
           \/ \E l \in Links, user \in Users, mode \in Modes :
                  MintLink(l, user, mode)
           \/ \E l \in Links : LinkExpires(l)
           \/ \E f \in Flows, l \in Links, p \in Processes : StartLink(f, l, p)
           \/ \E f \in Flows, acct \in Accounts : Consume(f, acct)
    PROVE  Custody'
<1>1. flow \in [Flows -> FlowRows]
      BY CustodyKnows
<1>2. UNCHANGED <<row, keys, binding, orphans, released>>
      BY DEF MintLink, LinkExpires, StartLink, Consume, providerVars
<1>3. KeysAge /\ RowAges
      BY <1>2, KeysOnlyDie DEF RowAges
<1>4. ASSUME UNCHANGED flow
      PROVE  Custody'
      BY <1>2, <1>3, <1>4, FlowWaits, CustodyAges
<1>5. ASSUME NEW f \in Flows, flow[f].key = 0, flow[f].wrote = 0,
             NEW x, flow' = [flow EXCEPT ![f] = x], x.key = 0, x.wrote = 0,
             x.pc \in {"callback", "bind", "done"}
      PROVE  Custody'
  <2>1. flow'[f] = x /\ \A g \in Flows \ {f} : flow'[g] = flow[g]
        BY <1>1, <1>5
  <2>2. FlowAges(f)
        BY <1>5, <2>1 DEF FlowAges
  <2>3. \A g \in Flows : FlowAges(g)
        BY <2>1, <2>2, FlowWaits
  <2> QED BY <1>2, <1>3, <2>3, CustodyAges
<1>6. ASSUME NEW f \in Flows, flow[f].pc \in Before
      PROVE  flow[f].key = 0 /\ flow[f].wrote = 0
      BY <1>6 DEF TypeInv, SetupInv, FlowShape, ShapedFlow
<1>7. ASSUME NEW f \in Flows, NEW l \in Links, NEW p \in Processes,
             StartLink(f, l, p)
      PROVE  Custody'
  <2> DEFINE x == [NoFlow EXCEPT !.pc = "callback", !.proc = p, !.link = l]
  <2>1. flow' = [flow EXCEPT ![f] = x] /\ flow[f].pc \in Before
        BY <1>7 DEF StartLink, In, Before
  <2>2. x.pc = "callback" /\ x.key = 0 /\ x.wrote = 0
        BY DEF NoFlow
  <2> HIDE DEF x
  <2> QED BY <1>5, <1>6, <2>1, <2>2
<1>8. ASSUME NEW f \in Flows, NEW acct \in Accounts, Consume(f, acct)
      PROVE  Custody'
  <2> DEFINE r == flow[f]
             m == links[r.link]
             x == [r EXCEPT !.pc = "bind", !.user = m.user, !.mode = m.mode,
                            !.acct = acct]
             y == [r EXCEPT !.pc = "done"]
  <2>1. r \in FlowRows /\ r.pc \in Before
        BY <1>1, <1>8 DEF Consume, In, Before
  <2>2. flow' = [flow EXCEPT ![f] = x] \/ flow' = [flow EXCEPT ![f] = y]
        BY <1>1, <1>8 DEF Consume, Consumed, Ends, Goes
  <2>3. /\ x.pc = "bind" /\ x.key = r.key /\ x.wrote = r.wrote
        /\ y.pc = "done" /\ y.key = r.key /\ y.wrote = r.wrote
    <3> HIDE DEF r, m
    <3> QED BY <2>1 DEF FlowRows
  <2>4. r.key = 0 /\ r.wrote = 0
        BY <1>6, <2>1
  <2> HIDE DEF x, y
  <2> QED BY <1>5, <2>2, <2>3, <2>4
<1> QED BY <1>4, <1>7, <1>8 DEF MintLink, LinkExpires

LEMMA CustodyKept ==
    ASSUME TypeInv, OldKeysDie, Custody, [Moves]_vars
    PROVE  Custody'
<1>1. ASSUME NEW f \in Flows,
             OwnerStep(f) \/ KeyStep(f) \/ StoreStep(f) \/ FlowFault(f)
      PROVE  Custody'
      BY <1>1, CustodyBefore, CustodyMints, CustodyStores DEF StoreStep, FlowFault
<1>2. ASSUME NEW k \in Keys, NEW refused \in BOOLEAN, RevokeOrphan(k, refused)
      PROVE  Custody'
  <2>1. keys[k].state # "none" /\ k \in orphans
        BY <1>2 DEF RevokeOrphan, Custody, OrphansMade
  <2>2. KeysAge /\ (Revoked(k) => keys'[k].state = "revoked")
        BY <1>2, <2>1, KeysOnlyDie DEF RevokeOrphan
  <2>3. UNCHANGED <<row, flow, binding>> /\ released \subseteq released'
        BY <1>2 DEF RevokeOrphan, providerVars
  <2>4. (\A g \in Flows : FlowAges(g)) /\ RowAges
        BY <2>3, FlowWaits DEF RowAges
  <2>5. /\ orphans' \subseteq orphans
        /\ \A j \in orphans : j \in orphans' \cup released' \/ keys'[j].state # "live"
        BY <1>2, <2>2 DEF RevokeOrphan
  <2> QED BY <2>2, <2>3, <2>4, <2>5, CustodyAges
<1> QED BY <1>1, <1>2, StepsOfSetup, CustodyElsewhere, CustodyLinks

LEMMA CustodyBegins ==
    ASSUME Init
    PROVE  Custody
<1>1. /\ flow = [f \in Flows |-> NoFlow] /\ orphans = {} /\ released = {}
      /\ NoFlow.pc = "idle" /\ NoFlow.key = 0 /\ NoFlow.wrote = 0
      BY DEF Init, NoFlow
<1>2. FirstAccount \in Accounts
  <2>1. scenario \in Scenarios
        BY DEF Init
  <2>2. scenario.signIn[scenario.owner] \subseteq Accounts
        BY <2>1, ScenarioAssumption
  <2>3. FirstAccount \in scenario.signIn[scenario.owner]
        BY <2>1, ScenarioAssumption DEF FirstAccount
  <2> QED BY <2>2, <2>3
<1>3. /\ 1 \in Keys /\ (Identified => Configured)
      /\ bindings = scenario.bindings /\ bindings \in BOOLEAN
      BY ProviderAssumption, ScenarioAssumption DEF Init, Keys, Identified, Configured
<1>4. /\ \A k \in Keys \ {1} : keys[k] = Unminted
      /\ ~Configured => keys[1] = Unminted
      /\ Configured =>
             /\ keys[1].state \in {"live", "revoked"} /\ keys[1].acct = FirstAccount
             /\ keys[1].old = 0
             /\ keys[1].via = IF ~Identified THEN "none"
                              ELSE IF bindings THEN "binding" ELSE "legacy"
      BY <1>3 DEF Init
<1>5. /\ row.ident <=> Identified
      /\ Identified => row.key = 1 /\ row.acct = FirstAccount
      /\ binding = IF Identified /\ bindings THEN {[acct |-> FirstAccount, key |-> 1]}
                                             ELSE {}
      BY <1>3 DEF Init, NoRow
<1>6. HeldKeys /\ Rotations /\ OrphansMade
      BY <1>1 DEF HeldKeys, Rotations, Rotating, OrphansMade
<1>7. OneBinding
  <2>1. Unminted.state = "none" /\ Unminted.via = "none" /\ Unminted.old = 0
        BY DEF Unminted
  <2>2. /\ \A b \in binding : /\ keys[b.key].via = "binding"
                              /\ keys[b.key].acct = b.acct
        /\ \A b, c \in binding : b = c
        BY <1>3, <1>4, <1>5
  <2>3. \A k \in Keys : keys[k].via = "binding" => \E b \in binding : b.key = k
        BY <1>3, <1>4, <1>5, <2>1
  <2>4. \A k \in Keys :
            /\ keys[k].state # "none" => keys[k].acct \in Accounts
            /\ keys[k].state = "none" => keys[k].via = "none"
            /\ keys[k].via \in {"none", "legacy", "binding"} => keys[k].old = 0
        BY <1>2, <1>4, <2>1
  <2> QED BY <2>2, <2>3, <2>4 DEF OneBinding
<1>8. RowIdentified
      BY <1>3, <1>4, <1>5 DEF RowIdentified
<1>9. Replacements
  <2>1. \A k \in Keys : keys[k].via # "replacement"
        BY <1>4 DEF Unminted
  <2> QED BY <2>1 DEF Replacements
<1>10. LegacyKept
  <2> SUFFICES ASSUME NEW k \in Keys, keys[k].via = "legacy"
               PROVE  First(k)
      BY DEF LegacyKept
  <2>1. k = 1 /\ Identified
        BY <1>3, <1>4 DEF Unminted
  <2>2. RowHolds(k)
        BY <1>5, <2>1 DEF RowHolds
  <2> QED BY <1>1, <2>1, <2>2 DEF First, Rotating
<1> QED BY <1>6, <1>7, <1>8, <1>9, <1>10 DEF Custody

LEMMA CustodyAccounts ==
    ASSUME TypeInv, Custody
    PROVE  KeysAccountedFor
<1> SUFFICES ASSUME NEW k \in Keys, keys[k].state = "live", keys[k].via # "none",
                    ~Stored(k)
             PROVE  Accounted(k) \/ Outrun(k)
    BY DEF KeysAccountedFor
<1>1. CASE keys[k].via = "binding"
      BY <1>1 DEF Custody, OneBinding, Accounted
<1>2. CASE keys[k].via = "legacy"
      BY <1>2 DEF Custody, LegacyKept, First, RowHolds, Accounted
<1>3. CASE keys[k].via = "replacement"
  <2>1. CASE keys[k].old = 0
        BY <1>3, <2>1 DEF Accounted
  <2>2. CASE keys[k].old \in Keys
    <3>1. PICK o \in Keys : o = keys[k].old
          BY <2>2
    <3>2. \/ \E f \in Flows : flow[f].key = k /\ flow[f].pc = "persist"
          \/ k \in released
          \/ RowHolds(o)
          \/ Lost(o)
          BY <1>3, <3>1 DEF Custody, Replacements
    <3>3. RowHolds(o) => Accounted(k)
          BY <1>3, <3>1 DEF RowHolds, Accounted
    <3>4. Lost(o) => Outrun(k)
          BY <1>3, <3>1 DEF Outrun
    <3>5. (\E f \in Flows : flow[f].key = k /\ flow[f].pc = "persist")
          \/ k \in released => Accounted(k)
          BY DEF Accounted
    <3> QED BY <3>2, <3>3, <3>4, <3>5
  <2> QED BY <2>1, <2>2, CustodyKnows
<1> QED BY <1>1, <1>2, <1>3, CustodyKnows

\* Whatever fails or is answered too late, no setup makes a live key that is
\* stored nowhere and that nothing would find again.
THEOREM KeysStayAccountedFor == Spec => []KeysAccountedFor
<1>1. Init => TypeInv /\ OldKeysDie /\ Custody
  <2>1. ASSUME Init
        PROVE  OldKeysDie
    <3>1. \A f \in Flows : flow[f].pc = "idle"
          BY <2>1 DEF Init, NoFlow
    <3>2. \A k \in Keys : keys[k].old = 0
          BY <2>1 DEF Init, Unminted
    <3> QED BY <3>1, <3>2 DEF OldKeysDie, NeverTwoKeys, Retired
  <2> QED BY <2>1, TypeBegins, CustodyBegins
<1>2. TypeInv /\ OldKeysDie /\ Custody /\ [Next]_vars => (TypeInv /\ OldKeysDie /\ Custody)'
      BY TypeKept, OldKeysDieKept, CustodyKept DEF Moves
<1>3. TypeInv /\ Custody => KeysAccountedFor
      BY CustodyAccounts
<1> QED BY <1>1, <1>2, <1>3, PTL DEF Spec

-----------------------------------------------------------------------------
(* A lookup is never answered from before it asked.                        *)

\* What lookup l reads, or has read, is no older than ver, when a stale read
\* returns latest.
Answers(l, ver, latest) ==
    /\ l.pc \in {"read", "finish"}
    /\ l.pc = "read" /\ ~l.strong => ver <= latest
    /\ l.pc = "finish" /\ l.result.status \in {"key", "none"} => ver <= l.result.ver

\* What lookup l checks is no older than ver, once found current.
Gives(l, ver) ==
    /\ l.pc \in {"verify", "answer"}
    /\ l.pc = "answer" /\ l.verdict = "current" => ver <= l.token

\* What lookup l has found by itself is no older than its floor.
SoundAlone(l, latest) ==
    /\ l.pc \in {"read", "finish"} => Answers(l, l.floor, latest)
    /\ l.pc \in {"check", "join", "verify", "answer", "judge"}
           => l.result.ver = l.token
    /\ l.pc \in {"verify", "answer"} => Gives(l, l.floor)
    /\ l.pc = "judge" /\ l.verdict = "current" /\ ~l.stray => l.floor <= l.token
    /\ l.pc = "done" /\ l.result.status \in {"key", "none"} /\ ~l.fell /\ ~l.stray
           => l.floor <= l.result.ver

\* What lookup l waits for, of lookup o, is no older than the floor of l.
Awaits(l, o, latest) ==
    /\ l.pc = "wait" => Answers(o, l.floor, latest)
    /\ l.pc = "join" => /\ o.pc \in {"verify", "answer"} /\ o.token = l.token
                        /\ l.stray \/ Gives(o, l.floor)

Sound(b) ==
    /\ lookup[b].floor <= known[lookup[b].proc]
    /\ SoundAlone(lookup[b], replica.ver)
    /\ lookup[b].pc \in {"wait", "join"}
           => \E a \in Actors : /\ lookup[b].on = {a}
                                /\ Awaits(lookup[b], lookup[a], replica.ver)

Singly(p) ==
    /\ \A e, g \in cache[p].entry : e = g
    /\ \A a, b \in cache[p].call : a = b
    /\ \A v, w \in strong[p] : v = w
    /\ \A v, w \in checking[p] : v = w

\* A process reads the last write it has finished: from a replica that has it,
\* by a strong read, or as a cached key read since.
Covered(p) ==
    \/ known[p] <= replica.ver
    \/ \E v \in strong[p] : known[p] <= v
    \/ \E e \in cache[p].entry : known[p] <= e.at

\* The read in flight can be joined by any lookup of its process.
CallFine(p, o) == /\ lookup[o].proc = p
                  /\ Answers(lookup[o], known[p], replica.ver)

\* So can a check, while the entry it is of is there.
CheckFine(p, v) ==
    /\ lookup[v.owner].proc = p
    /\ lookup[v.owner].pc \in {"verify", "answer"}
    /\ lookup[v.owner].token = v.ver
    /\ v.held => Gives(lookup[v.owner], known[p])

EntryHeld(p) == \A v \in checking[p] :
                    v.held => \E e \in cache[p].entry : e.ver = v.ver

CacheSound(p) ==
    /\ known[p] <= row.ver
    /\ Singly(p)
    /\ Covered(p)
    /\ EntryHeld(p)
    /\ \A o \in cache[p].call : CallFine(p, o)
    /\ \A v \in checking[p] : CheckFine(p, v)

Stamps == /\ replica.ver <= row.ver
          /\ \A f \in Flows : flow[f].wrote <= row.ver
          /\ \A u \in Clicks : click[u].ver <= row.ver
          /\ \A j \in Jobs : purge[j].ver <= row.ver

AllSound == /\ \A p \in Processes : CacheSound(p)
            /\ \A b \in Actors : Sound(b)

NoStale == Stamps /\ AllSound

\* Whoever relies on lookup r can rely on x instead.
Carries(r, x) ==
    /\ r.pc \in {"read", "finish", "verify", "answer"} => x.proc = r.proc
    /\ \A n \in Nat : /\ n <= row.ver /\ Answers(r, n, replica.ver)
                             => Answers(x, n, replica.ver)
                      /\ n <= row.ver /\ Gives(r, n) => Gives(x, n)
    /\ r.pc \in {"verify", "answer"} => /\ x.pc \in {"verify", "answer"}
                                        /\ x.token = r.token

LEMMA OthersStaySound ==
    ASSUME ProviderInv, AllSound, NEW a \in Actors, NEW x \in Lookups,
           lookup' = [lookup EXCEPT ![a] = x], Carries(lookup[a], x),
           UNCHANGED <<row, replica, known>>
    PROVE  /\ \A b \in Actors \ {a} : Sound(b)'
           /\ \A p \in Processes : /\ \A o \in cache[p].call : CallFine(p, o)'
                                   /\ \A v \in checking[p] : CheckFine(p, v)'
<1>1. /\ lookup \in [Actors -> Lookups] /\ row.ver \in Nat
      /\ known \in [Processes -> Nat]
      /\ \A b \in Actors : /\ lookup[b].proc \in Processes
                           /\ lookup[b].floor \in Nat
      /\ \A p \in Processes : cache[p].call \subseteq Actors
                              /\ checking[p] \subseteq Checks
      BY DEF ProviderInv, ProviderOK, Lookups, Rows
<1>2. /\ lookup'[a] = x
      /\ \A b \in Actors \ {a} : lookup'[b] = lookup[b]
      BY <1>1
<1>3. /\ \A p \in Processes : known[p] <= row.ver
      /\ \A b \in Actors : lookup[b].floor <= row.ver
  <2>1. \A p \in Processes : known[p] <= row.ver
        BY DEF AllSound, CacheSound
  <2>2. \A b \in Actors : lookup[b].floor <= known[lookup[b].proc]
        BY DEF AllSound, Sound
  <2> QED BY <1>1, <2>1, <2>2
<1>4. ASSUME NEW b \in Actors \ {a}
      PROVE  Sound(b)'
  <2>1. Sound(b)
        BY DEF AllSound
  <2>2. ASSUME NEW o \in Actors, Awaits(lookup[b], lookup[o], replica.ver)
        PROVE  Awaits(lookup[b], lookup'[o], replica.ver)
    <3>1. CASE o # a
          BY <1>2, <2>2, <3>1
    <3>2. CASE o = a
          BY <1>1, <1>2, <1>3, <2>2, <3>2 DEF Awaits, Carries
    <3> QED BY <3>1, <3>2
  <2> QED BY <1>2, <2>1, <2>2 DEF Sound
<1>5. ASSUME NEW p \in Processes, NEW o \in cache[p].call
      PROVE  CallFine(p, o)'
  <2>1. CallFine(p, o) /\ o \in Actors
        BY <1>1 DEF AllSound, CacheSound
  <2>2. CASE o # a
        BY <1>2, <2>1, <2>2 DEF CallFine
  <2>3. CASE o = a
        BY <1>1, <1>2, <1>3, <2>1, <2>3 DEF CallFine, Carries, Answers
  <2> QED BY <2>2, <2>3
<1>6. ASSUME NEW p \in Processes, NEW v \in checking[p]
      PROVE  CheckFine(p, v)'
  <2>1. CheckFine(p, v) /\ v.owner \in Actors
        BY <1>1 DEF AllSound, CacheSound, Checks
  <2>2. CASE v.owner # a
        BY <1>2, <2>1, <2>2 DEF CheckFine
  <2>3. CASE v.owner = a
        BY <1>1, <1>2, <1>3, <2>1, <2>3 DEF CheckFine, Carries
  <2> QED BY <2>2, <2>3
<1> QED BY <1>4, <1>5, <1>6

LEMMA AloneStaysSound ==
    ASSUME ProviderInv, AllSound, NEW a \in Actors, NEW x \in Lookups,
           lookup' = [lookup EXCEPT ![a] = x], Carries(lookup[a], x),
           UNCHANGED <<row, replica, known, cache, strong, checking>>,
           x.floor <= known[x.proc], SoundAlone(x, replica.ver),
           x.pc \notin {"wait", "join"}
    PROVE  AllSound'
<1>1. lookup'[a] = x
      BY DEF ProviderInv, ProviderOK
<1>2. Sound(a)'
      BY <1>1 DEF Sound
<1>3. \A b \in Actors : Sound(b)'
      BY <1>2, OthersStaySound
<1>4. \A p \in Processes : CacheSound(p)'
  <2> TAKE p \in Processes
  <2>1. /\ \A o \in cache[p].call : CallFine(p, o)'
        /\ \A v \in checking[p] : CheckFine(p, v)'
        BY OthersStaySound
  <2>2. CacheSound(p)
        BY DEF AllSound
  <2>3. Singly(p)' /\ Covered(p)' /\ EntryHeld(p)'
        BY <2>2 DEF CacheSound, Singly, Covered, EntryHeld
  <2> QED BY <2>1, <2>2, <2>3 DEF CacheSound
<1> QED BY <1>3, <1>4 DEF AllSound

\* A lookup that begins, reads, checks or gives up.
LEMMA LooksStaySound ==
    ASSUME ProviderInv, AllSound, replica.ver <= row.ver, NEW a \in Actors,
           \/ \E p \in Processes : LookupBegins(a, p)
           \/ /\ LookedUp(a) /\ LookupTaken(a)
              /\ UNCHANGED <<clock, row, replica, cache, strong, checking, known>>
           \/ Read(a) \/ LookupFault(a) \/ Verify(a)
    PROVE  AllSound'
<1> DEFINE r == lookup[a]
<1>1. /\ lookup \in [Actors -> Lookups] /\ r \in Lookups
      /\ row \in Rows /\ row.ver \in Nat /\ replica.ver \in Nat
      /\ replica.key \in 0 .. MaxKeys
      /\ known \in [Processes -> Nat]
      BY DEF ProviderInv, ProviderOK, Rows
<1>2. /\ r.proc \in Processes /\ r.floor \in Nat /\ r.token \in Nat
      /\ r.floor <= known[r.proc] /\ known[r.proc] <= row.ver
      BY <1>1 DEF AllSound, Sound, CacheSound, Lookups
<1>3. SoundAlone(r, replica.ver)
      BY DEF AllSound, Sound
<1>4. ASSUME NEW p \in Processes, LookupBegins(a, p)
      PROVE  AllSound'
  <2> DEFINE x == [NoLookup(p) EXCEPT !.pc = "look", !.floor = known[p]]
  <2>0. NoLookup(p) \in Lookups /\ known[p] \in Nat
        BY <1>1, ProviderAssumption DEF NoLookup, Lookups, Failure, Results
  <2>1. x \in Lookups
        BY <2>0 DEF Lookups
  <2>2. x.proc = p /\ x.floor = known[p] /\ x.pc = "look"
        BY DEF NoLookup
  <2>3. lookup' = [lookup EXCEPT ![a] = x] /\ r.pc = "idle"
        /\ UNCHANGED <<row, replica, known, cache, strong, checking>>
        BY <1>4 DEF LookupBegins
  <2> HIDE DEF x
  <2>4. Carries(r, x) /\ SoundAlone(x, replica.ver)
        BY <2>2, <2>3 DEF Carries, Answers, Gives, SoundAlone
  <2>5. x.floor <= known[x.proc]
        BY <2>0, <2>2
  <2> QED BY <2>1, <2>2, <2>3, <2>4, <2>5, AloneStaysSound
<1>5. CASE /\ LookedUp(a) /\ LookupTaken(a)
           /\ UNCHANGED <<clock, row, replica, cache, strong, checking, known>>
  <2> DEFINE x == NoLookup(Proc(a))
  <2>1. x \in Lookups
        BY <1>2, ProviderAssumption DEF NoLookup, Lookups, Failure, Results, Proc
  <2>2. x.proc = r.proc /\ x.floor = 0 /\ x.pc = "idle"
        BY DEF NoLookup, Proc
  <2>3. lookup' = [lookup EXCEPT ![a] = x] /\ r.pc = "done"
        BY <1>5 DEF LookupTaken, LookedUp
  <2> HIDE DEF x
  <2>4. Carries(r, x) /\ SoundAlone(x, replica.ver) /\ x.floor <= known[x.proc]
        BY <1>1, <1>2, <2>2, <2>3 DEF Carries, Answers, Gives, SoundAlone
  <2> QED BY <1>5, <2>1, <2>2, <2>3, <2>4, AloneStaysSound
<1>6. ASSUME NEW k \in Results, HasRead(a, k), r.pc = "read",
             \/ k.status \in {"error", "ctx"}
             \/ k.ver = row.ver
             \/ ~r.strong /\ k.ver = replica.ver
      PROVE  AllSound'
  <2> DEFINE x == [r EXCEPT !.pc = "finish", !.result = k]
  <2>1. /\ x \in Lookups /\ x.pc = "finish" /\ x.result = k
        /\ x.proc = r.proc /\ x.floor = r.floor
    <3> HIDE DEF r
    <3> QED BY <1>1 DEF Lookups
  <2>2. /\ lookup' = [lookup EXCEPT ![a] = x]
        /\ UNCHANGED <<row, replica, known, cache, strong, checking>>
        BY <1>1, <1>6 DEF HasRead
  <2> HIDE DEF x
  <2>3. \A n \in Nat : n <= row.ver /\ Answers(r, n, replica.ver)
                           => Answers(x, n, replica.ver)
        BY <1>6, <2>1 DEF Answers
  <2>4. Carries(r, x)
        BY <1>6, <2>1, <2>3 DEF Carries, Gives
  <2>5. Answers(x, x.floor, replica.ver)
        BY <1>1, <1>2, <1>3, <1>6, <2>1, <2>3 DEF SoundAlone
  <2>6. SoundAlone(x, replica.ver)
        BY <2>1, <2>5 DEF SoundAlone
  <2> QED BY <1>2, <2>1, <2>2, <2>4, <2>6, AloneStaysSound
<1>7. ASSUME NEW s, s \in {"current", "stale", "error", "ctx"}, HasVerified(a, s),
             r.pc = "verify", s = "current" => row.ver = r.token
      PROVE  AllSound'
  <2> DEFINE x == [r EXCEPT !.pc = "answer", !.verdict = s]
  <2>1. /\ x \in Lookups /\ x.pc = "answer" /\ x.verdict = s
        /\ x.proc = r.proc /\ x.floor = r.floor /\ x.token = r.token
        /\ x.result = r.result
    <3> HIDE DEF r
    <3> QED BY <1>1, <1>7 DEF Lookups
  <2>2. /\ lookup' = [lookup EXCEPT ![a] = x]
        /\ UNCHANGED <<row, replica, known, cache, strong, checking>>
        BY <1>1, <1>7 DEF HasVerified
  <2> HIDE DEF x
  <2>3. \A n \in Nat : n <= row.ver => Gives(x, n)
        BY <1>7, <2>1 DEF Gives
  <2>4. Carries(r, x)
        BY <1>7, <2>1, <2>3 DEF Carries, Answers
  <2>5. SoundAlone(x, replica.ver)
        BY <1>1, <1>2, <1>3, <1>7, <2>1, <2>3 DEF SoundAlone
  <2> QED BY <1>2, <2>1, <2>2, <2>4, <2>5, AloneStaysSound
<1>8. ASSUME GivesUp(a)
      PROVE  AllSound'
  <2> DEFINE x == [r EXCEPT !.pc = "done", !.on = {}, !.result = Failure]
  <2>1. /\ x \in Lookups /\ x.pc = "done" /\ x.result.status = "error"
        /\ x.proc = r.proc /\ x.floor = r.floor
    <3>1. Failure \in Results /\ Failure.status = "error"
          BY ProviderAssumption DEF Failure, Results
    <3> HIDE DEF r
    <3> QED BY <1>1, <3>1 DEF Lookups
  <2>2. /\ lookup' = [lookup EXCEPT ![a] = x] /\ r.pc \in {"wait", "join"}
        /\ UNCHANGED <<row, replica, known, cache, strong, checking>>
        BY <1>1, <1>8 DEF GivesUp
  <2> HIDE DEF x
  <2>3. Carries(r, x) /\ SoundAlone(x, replica.ver)
        BY <2>1, <2>2 DEF Carries, Answers, Gives, SoundAlone
  <2> QED BY <1>2, <2>1, <2>2, <2>3, AloneStaysSound
<1>9. CASE Read(a)
  <2>1. /\ Outcome(row.key, row.ver) \in Results
        /\ Outcome(row.key, row.ver).ver = row.ver
        /\ Outcome(replica.key, replica.ver) \in Results
        /\ Outcome(replica.key, replica.ver).ver = replica.ver
        BY <1>1 DEF Outcome, Results, Rows
  <2> QED BY <1>6, <1>9, <2>1 DEF Read, At
<1>10. CASE ReadFails(a)
  <2>1. ASSUME NEW s \in {"error", "ctx"}
        PROVE  /\ [Failure EXCEPT !.status = s] \in Results
               /\ [Failure EXCEPT !.status = s].status = s
        BY ProviderAssumption DEF Failure, Results
  <2> QED BY <1>6, <1>10, <2>1 DEF ReadFails, At
<1>11. CASE Verify(a)
       BY <1>7, <1>11 DEF Verify, At
<1>12. CASE VerifyFails(a)
       BY <1>7, <1>12 DEF VerifyFails, At
<1> QED BY <1>4, <1>5, <1>8, <1>9, <1>10, <1>11, <1>12 DEF LookupFault
\* A step of lookup a, in process p.
LEMMA OneCacheStaysSound ==
    ASSUME ProviderInv, AllSound, NEW a \in Actors, NEW x \in Lookups,
           NEW p \in Processes,
           lookup' = [lookup EXCEPT ![a] = x], Carries(lookup[a], x),
           UNCHANGED <<row, replica, known>>,
           \A q \in Processes \ {p} : /\ cache'[q] = cache[q]
                                      /\ strong'[q] = strong[q]
                                      /\ checking'[q] = checking[q],
           Singly(p)', Covered(p)', EntryHeld(p)',
           \A o \in cache'[p].call : o \in cache[p].call \/ CallFine(p, o)',
           \A v \in checking'[p] : v \in checking[p] \/ CheckFine(p, v)',
           Sound(a)'
    PROVE  AllSound'
<1>1. \A b \in Actors : Sound(b)'
      BY OthersStaySound
<1>2. ASSUME NEW q \in Processes
      PROVE  CacheSound(q)'
  <2>1. /\ \A o \in cache[q].call : CallFine(q, o)'
        /\ \A v \in checking[q] : CheckFine(q, v)'
        BY OthersStaySound
  <2>2. CacheSound(q)
        BY DEF AllSound
  <2>3. known'[q] <= row'.ver
        BY <2>2 DEF CacheSound
  <2>4. CASE q = p
        BY <2>1, <2>3, <2>4 DEF CacheSound
  <2>5. CASE q # p
    <3>1. Singly(q)' /\ Covered(q)' /\ EntryHeld(q)'
          BY <2>2, <2>5 DEF CacheSound, Singly, Covered, EntryHeld
    <3> QED BY <2>1, <2>3, <2>5, <3>1 DEF CacheSound
  <2> QED BY <2>4, <2>5
<1> QED BY <1>1, <1>2 DEF AllSound

LEMMA LookStaysSound ==
    ASSUME ProviderInv, AllSound, NEW a \in Actors, Look(a)
    PROVE  AllSound'
<1>p. PICK p \in Processes : p = Proc(a)
      BY DEF ProviderInv, ProviderOK, Lookups, Proc
<1> DEFINE r == lookup[a]
<1>1. /\ lookup \in [Actors -> Lookups] /\ r \in Lookups /\ p \in Processes
      /\ r.proc = p /\ r.floor \in Nat /\ known[p] \in Nat
      /\ replica.ver \in Nat
      /\ cache \in [Processes -> Caches] /\ cache[p] \in Caches
      /\ strong \in [Processes -> SUBSET Nat] /\ strong[p] \subseteq Nat
      /\ checking \in [Processes -> SUBSET Checks]
      BY <1>p DEF ProviderInv, ProviderOK, Lookups, Proc, Caches
<1>2. PICK expired \in BOOLEAN, lapsed \in BOOLEAN :
        /\ expired => \E e \in cache[p].entry : Caught(e.at)
        /\ lapsed => \E v \in strong[p] : Caught(v)
        /\ LET c == Swept(cache[p], expired)
               marker == IF lapsed THEN {} ELSE strong[p]
           IN /\ strong' = [strong EXCEPT ![p] = marker]
              /\ checking' = [checking EXCEPT ![p] = IF expired THEN {} ELSE @]
              /\ \/ /\ c.entry # {}
                    /\ cache' = [cache EXCEPT ![p] = c]
                    /\ lookup' = [lookup EXCEPT ![a].pc = "check",
                                     ![a].token = Cached(c).ver,
                                     ![a].result = Outcome(Cached(c).key,
                                                           Cached(c).ver)]
                 \/ /\ c.entry = {} /\ c.call # {}
                    /\ cache' = [cache EXCEPT ![p] = c]
                    /\ lookup' = [lookup EXCEPT ![a].pc = "wait",
                                                ![a].on = c.call]
                 \/ /\ c.entry = {} /\ c.call = {}
                    /\ cache' = [cache EXCEPT ![p] = Started(c, a)]
                    /\ lookup' = [lookup EXCEPT ![a].pc = "read",
                                                ![a].gen = c.gen,
                                                ![a].strong = (marker # {})]
      BY ZenonT(30), <1>p DEF Look
<1> DEFINE c == Swept(cache[p], expired)
           marker == IF lapsed THEN {} ELSE strong[p]
<1>3. /\ c \in Caches /\ c.call = cache[p].call
      /\ c.entry = IF expired THEN {} ELSE cache[p].entry
      BY <1>1 DEF Swept, Caches
<1>4. /\ strong' = [strong EXCEPT ![p] = marker] /\ strong'[p] = marker
      /\ checking' = [checking EXCEPT ![p] = IF expired THEN {} ELSE @]
      /\ checking'[p] = IF expired THEN {} ELSE checking[p]
      /\ UNCHANGED <<row, replica, known>>
      /\ r.pc = "look"
      BY <1>1, <1>2 DEF Look, At
<1>5. /\ Singly(p) /\ Covered(p) /\ EntryHeld(p) /\ r.floor <= known[p]
      /\ \A o \in cache[p].call : CallFine(p, o)
      BY <1>1 DEF AllSound, CacheSound, Sound
<1>6. /\ (c.entry = {} /\ marker = {}) => known[p] <= replica.ver
      /\ \/ known[p] <= replica.ver
         \/ \E v \in marker : known[p] <= v
         \/ \E e \in c.entry : known[p] <= e.at
  <2>1. CASE \E v \in strong[p] : known[p] <= v
        BY <1>1, <1>2, <1>5, <2>1 DEF Singly, Caught
  <2>2. ASSUME NEW e \in cache[p].entry, known[p] <= e.at
        PROVE  expired => known[p] <= replica.ver
    <3>1. e.at \in Nat
          BY <1>1 DEF Caches, Entries
    <3> QED BY <1>1, <1>2, <1>5, <2>2, <3>1 DEF Singly, Caught
  <2>3. CASE known[p] <= replica.ver
        BY <2>3
  <2> QED BY <1>3, <1>5, <2>1, <2>2, <2>3 DEF Covered
<1>7. cache'[p].entry = c.entry /\ (\A e, g \in c.entry : e = g)
      /\ (cache'[p].call = c.call \/ (c.call = {} /\ cache'[p].call = {a}))
      /\ (\A q \in Processes \ {p} : cache'[q] = cache[q])
  <2>1. \A e, g \in c.entry : e = g
        BY <1>3, <1>5 DEF Singly
  <2>2. /\ Started(c, a).entry = c.entry /\ Started(c, a).call = {a}
        BY <1>3 DEF Started, Caches
  <2> HIDE DEF c
  <2> QED BY <1>1, <1>2, <2>1, <2>2 DEF c
<1>8. Singly(p)' /\ Covered(p)' /\ EntryHeld(p)'
  <2>1. Singly(p)'
    <3>1. \A n, o \in cache'[p].call : n = o
          BY <1>3, <1>5, <1>7 DEF Singly
    <3>2. \A v, w \in strong'[p] : v = w
          BY <1>4, <1>5 DEF Singly
    <3>3. \A v, w \in checking'[p] : v = w
          BY <1>4, <1>5 DEF Singly
    <3> QED BY <1>7, <3>1, <3>2, <3>3 DEF Singly
  <2>2. Covered(p)'
        BY <1>4, <1>6, <1>7 DEF Covered
  <2>3. EntryHeld(p)'
        BY <1>3, <1>4, <1>5, <1>7 DEF EntryHeld
  <2> QED BY <2>1, <2>2, <2>3
<1>9. \A q \in Processes \ {p} : /\ cache'[q] = cache[q]
                                 /\ strong'[q] = strong[q]
                                 /\ checking'[q] = checking[q]
      BY <1>1, <1>4, <1>7
<1>10. ASSUME NEW x \in Lookups, lookup' = [lookup EXCEPT ![a] = x],
              x.floor = r.floor, x.proc = p, SoundAlone(x, replica.ver),
              cache'[p].call = c.call \/ Answers(x, known[p], replica.ver),
              x.pc = "wait" => x.on = c.call /\ c.call # {},
              x.pc # "join"
       PROVE  AllSound'
  <2>1. Carries(r, x)
        BY <1>4 DEF Carries, Answers, Gives
  <2>2. /\ lookup'[a] = x
        /\ \A b \in Actors \ {a} : lookup'[b] = lookup[b]
        BY <1>1, <1>10
  <2>3. ASSUME NEW o \in cache'[p].call
        PROVE  o \in cache[p].call \/ CallFine(p, o)'
        BY <1>3, <1>4, <1>7, <1>10, <2>2 DEF CallFine
  <2>4. ASSUME x.pc = "wait"
        PROVE  \E o \in Actors : /\ x.on = {o}
                                 /\ Awaits(x, lookup'[o], replica.ver)
    <3>1. PICK o \in cache[p].call : TRUE
          BY <1>3, <1>10, <2>4
    <3>2. x.on = {o} /\ o \in Actors
          BY <1>1, <1>3, <1>5, <1>10, <2>4, <3>1 DEF Singly, Caches
    <3>3. Answers(lookup[o], known[p], replica.ver) /\ lookup[o] \in Lookups
          BY <1>1, <1>5, <3>1, <3>2 DEF CallFine
    <3>4. o # a
          BY <1>4, <3>3 DEF Answers
    <3>5. lookup[o].result.ver \in Nat
          BY <3>3 DEF Lookups, Results
    <3>6. Answers(lookup[o], r.floor, replica.ver)
          BY <1>1, <1>5, <3>3, <3>5 DEF Answers
    <3> QED BY <1>10, <2>2, <2>4, <3>2, <3>4, <3>6 DEF Awaits
  <2>5. Sound(a)'
        BY <1>4, <1>5, <1>10, <2>2, <2>4 DEF Sound
  <2>6. \A v \in checking'[p] : v \in checking[p]
        BY <1>4
  <2> HIDE DEF c, marker
  <2> QED BY <1>1, <1>4, <1>8, <1>9, <1>10, <2>1, <2>3, <2>5, <2>6,
             OneCacheStaysSound
<1>11. CASE /\ c.entry # {}
            /\ cache' = [cache EXCEPT ![p] = c]
            /\ lookup' = [lookup EXCEPT ![a].pc = "check",
                             ![a].token = Cached(c).ver,
                             ![a].result = Outcome(Cached(c).key, Cached(c).ver)]
  <2> DEFINE token == Cached(c).ver
             found == Outcome(Cached(c).key, token)
             x == [r EXCEPT !.pc = "check", !.token = token, !.result = found]
  <2>1. found \in Results /\ token \in Nat /\ found.ver = token
    <3>1. Cached(c) \in Entries
          BY <1>3, <1>11 DEF Cached, Caches
    <3>2. Cached(c).key \in 0 .. MaxKeys /\ Cached(c).ver \in Nat
          BY <3>1, ProviderAssumption DEF Entries
    <3> HIDE DEF c
    <3> QED BY <3>2 DEF Outcome, Results
  <2>2. lookup' = [lookup EXCEPT ![a] = x] /\ cache'[p].call = c.call
    <3> HIDE DEF c
    <3> QED BY <1>1, <1>11
  <2>3. /\ x \in Lookups /\ x.pc = "check" /\ x.token = token /\ x.result = found
        /\ x.floor = r.floor /\ x.proc = p
    <3> HIDE DEF found, token, r
    <3> QED BY <1>1, <2>1 DEF Lookups
  <2>4. SoundAlone(x, replica.ver)
    <3> HIDE DEF x, found, token
    <3> QED BY <2>1, <2>3 DEF SoundAlone
  <2> HIDE DEF x, found, token, c
  <2> QED BY <1>10, <2>2, <2>3, <2>4
<1>12. CASE /\ c.entry = {} /\ c.call # {}
            /\ cache' = [cache EXCEPT ![p] = c]
            /\ lookup' = [lookup EXCEPT ![a].pc = "wait", ![a].on = c.call]
  <2> DEFINE owners == c.call
             x == [r EXCEPT !.pc = "wait", !.on = owners]
  <2>1. owners \subseteq Actors
        BY <1>3 DEF Caches
  <2>2. lookup' = [lookup EXCEPT ![a] = x] /\ cache'[p].call = c.call
    <3> HIDE DEF c
    <3> QED BY <1>1, <1>12
  <2>3. /\ x \in Lookups /\ x.pc = "wait" /\ x.on = owners
        /\ x.floor = r.floor /\ x.proc = p
    <3> HIDE DEF owners, r
    <3> QED BY <1>1, <2>1 DEF Lookups
  <2>4. SoundAlone(x, replica.ver)
    <3> HIDE DEF x
    <3> QED BY <2>3 DEF SoundAlone
  <2> HIDE DEF x, c
  <2> QED BY <1>10, <1>12, <2>2, <2>3, <2>4
<1>13. CASE /\ c.entry = {} /\ c.call = {}
            /\ cache' = [cache EXCEPT ![p] = Started(c, a)]
            /\ lookup' = [lookup EXCEPT ![a].pc = "read", ![a].gen = c.gen,
                                        ![a].strong = (marker # {})]
  <2> DEFINE direct == marker # {}
             gen == c.gen
             x == [r EXCEPT !.pc = "read", !.gen = gen, !.strong = direct]
  <2>1. direct \in BOOLEAN /\ gen \in Nat
        BY <1>3 DEF Caches
  <2>2. lookup' = [lookup EXCEPT ![a] = x]
    <3> HIDE DEF c, marker
    <3> QED BY <1>1, <1>13
  <2>3. /\ x \in Lookups /\ x.pc = "read" /\ x.strong = direct
        /\ x.floor = r.floor /\ x.proc = p
    <3> HIDE DEF gen, direct, r
    <3> QED BY <1>1, <2>1 DEF Lookups
  <2>4. Answers(x, known[p], replica.ver)
    <3>1. ~direct => known[p] <= replica.ver
          BY <1>6, <1>13
    <3> HIDE DEF x
    <3> QED BY <2>3, <3>1 DEF Answers
  <2>5. SoundAlone(x, replica.ver)
    <3> HIDE DEF x
    <3> QED BY <1>1, <1>5, <2>3, <2>4 DEF SoundAlone, Answers
  <2> HIDE DEF x, c
  <2> QED BY <1>10, <2>2, <2>3, <2>4, <2>5
<1> HIDE DEF c, marker
<1> QED BY <1>2, <1>11, <1>12, <1>13 DEF c, marker
LEMMA CheckStaysSound ==
    ASSUME ProviderInv, AllSound, NEW a \in Actors, Check(a)
    PROVE  AllSound'
<1>p. PICK p \in Processes : p = Proc(a)
      BY DEF ProviderInv, ProviderOK, Lookups, Proc
<1> DEFINE r == lookup[a]
           token == r.token
           same == {v \in checking[p] : v.ver = token}
           strays == \E v \in same : Strays(v)
           owners == {v.owner : v \in same}
           held == Matches(cache[p], token)
<1>1. /\ lookup \in [Actors -> Lookups] /\ r \in Lookups
      /\ r.proc = p /\ r.floor \in Nat /\ known[p] \in Nat /\ token \in Nat
      /\ checking \in [Processes -> SUBSET Checks]
      BY <1>p DEF ProviderInv, ProviderOK, Lookups, Proc
<1>2. /\ CacheSound(p) /\ r.floor <= known[p] /\ r.pc = "check"
      /\ r.result.ver = token
  <2>1. Sound(a) /\ CacheSound(p) /\ r.pc = "check"
        BY DEF AllSound, Check, At
  <2> QED BY <1>1, <2>1 DEF Sound, SoundAlone
<1>3. UNCHANGED <<row, replica, known, cache, strong>>
      BY DEF Check
<1>4. ASSUME NEW x \in Lookups, x.proc = p
      PROVE  Carries(r, x)
      BY <1>2 DEF Carries, Answers, Gives
<1>5. CASE /\ same # {}
           /\ lookup' = [lookup EXCEPT ![a].pc = "join", ![a].on = owners,
                                       ![a].stray = strays]
           /\ UNCHANGED checking
  <2> DEFINE x == [r EXCEPT !.pc = "join", !.on = owners, !.stray = strays]
  <2>1. PICK v \in same : TRUE
        BY <1>5
  <2>2. /\ v \in checking[p] /\ v.ver = token /\ v.owner \in Actors
        /\ owners = {v.owner} /\ (strays <=> Strays(v))
    <3>1. v \in checking[p] /\ \A w \in same : w = v
          BY <1>2, <2>1 DEF CacheSound, Singly
    <3> QED BY <1>1, <3>1 DEF Checks
  <2>3. lookup' = [lookup EXCEPT ![a] = x] /\ strays \in BOOLEAN
    <3>1. strays \in BOOLEAN
          OBVIOUS
    <3> HIDE DEF owners, strays
    <3> QED BY <1>1, <1>5, <3>1
  <2>4. /\ x \in Lookups /\ x.pc = "join" /\ x.on = {v.owner}
        /\ (x.stray <=> Strays(v))
        /\ x.floor = r.floor /\ x.proc = p /\ x.token = token /\ x.result = r.result
    <3>1. owners \in SUBSET Actors /\ r \in Lookups
          BY <1>1, <2>2
    <3> HIDE DEF owners, strays, r, Strays
    <3> QED BY <1>1, <2>2, <2>3, <3>1 DEF Lookups, token
  <2> HIDE DEF x, owners, strays, same
  <2>5. CheckFine(p, v)
        BY <1>2, <2>2 DEF CacheSound
  <2>6. Awaits(x, lookup[v.owner], replica.ver)
    <3>1. CASE v.held
      <4>1. Gives(lookup[v.owner], known[p]) /\ lookup[v.owner] \in Lookups
            BY <1>1, <2>2, <2>5, <3>1 DEF CheckFine
      <4>2. Gives(lookup[v.owner], r.floor)
        <5>1. lookup[v.owner].token \in Nat
              BY <4>1 DEF Lookups
        <5> QED BY <1>1, <1>2, <4>1, <5>1 DEF Gives
      <4> QED BY <2>2, <2>4, <2>5, <4>2 DEF Awaits, CheckFine
    <3>2. CASE ~v.held /\ lookup[v.owner].pc = "verify"
          BY <2>2, <2>4, <2>5, <3>2 DEF Awaits, CheckFine, Gives
    <3>3. CASE ~v.held /\ lookup[v.owner].pc = "answer"
          BY <2>2, <2>4, <2>5, <3>3 DEF Awaits, CheckFine, Strays, At
    <3> QED BY <2>5, <3>1, <3>2, <3>3 DEF CheckFine
  <2>7. v.owner # a /\ lookup'[v.owner] = lookup[v.owner] /\ lookup'[a] = x
        BY <1>1, <1>2, <2>2, <2>3, <2>5 DEF CheckFine
  <2>8. SoundAlone(x, replica.ver)
        BY <1>2, <2>4 DEF SoundAlone
  <2>9. Sound(a)'
        BY <1>2, <1>3, <2>2, <2>4, <2>6, <2>7, <2>8 DEF Sound
  <2>10. Singly(p)' /\ Covered(p)' /\ EntryHeld(p)'
         BY <1>2, <1>3, <1>5 DEF CacheSound, Singly, Covered, EntryHeld
  <2> QED BY <1>3, <1>4, <1>5, <2>3, <2>4, <2>9, <2>10, OneCacheStaysSound
<1>6. CASE /\ checking' = [checking EXCEPT ![p] =
                              {[ver |-> token, owner |-> a, held |-> held]}]
           /\ lookup' = [lookup EXCEPT ![a].pc = "verify"]
  <2> DEFINE x == [r EXCEPT !.pc = "verify"]
             v == [ver |-> token, owner |-> a, held |-> held]
  <2>1. lookup' = [lookup EXCEPT ![a] = x] /\ lookup'[a] = x
        BY <1>1, <1>6
  <2>2. /\ x \in Lookups /\ x.pc = "verify" /\ x.token = token
        /\ x.floor = r.floor /\ x.proc = p /\ x.result = r.result
    <3> HIDE DEF r
    <3> QED BY <1>1 DEF Lookups, token
  <2>3. checking'[p] = {v} /\ \A q \in Processes \ {p} : checking'[q] = checking[q]
        BY <1>1, <1>6
  <2>4. v.ver = token /\ v.owner = a /\ v.held = held
        OBVIOUS
  <2>5. EntryHeld(p)'
    <3>1. held => \E e \in cache[p].entry : e.ver = token
          BY DEF Matches
    <3> HIDE DEF v, held
    <3> QED BY <1>3, <2>3, <2>4, <3>1 DEF EntryHeld
  <2> HIDE DEF x, v, held
  <2>6. SoundAlone(x, replica.ver) /\ \A n \in Nat : Gives(x, n)
        BY <1>2, <2>2 DEF SoundAlone, Gives
  <2>7. Sound(a)'
        BY <1>2, <1>3, <2>1, <2>2, <2>6 DEF Sound
  <2>8. Singly(p)' /\ Covered(p)'
        BY <1>2, <1>3, <2>3 DEF CacheSound, Singly, Covered
  <2>9. \A w \in checking'[p] : CheckFine(p, w)'
        BY <1>1, <1>3, <2>1, <2>2, <2>3, <2>4, <2>6 DEF CheckFine
  <2> QED BY <1>3, <1>4, <2>1, <2>2, <2>3, <2>5, <2>7, <2>8, <2>9,
             OneCacheStaysSound
<1> QED BY <1>p, <1>5, <1>6 DEF Check

LEMMA JudgeStaysSound ==
    ASSUME ProviderInv, AllSound, NEW a \in Actors, Judge(a)
    PROVE  AllSound'
<1>p. PICK p \in Processes : p = Proc(a)
      BY DEF ProviderInv, ProviderOK, Lookups, Proc
<1> DEFINE l == lookup[a]
           local == Matches(cache[p], l.token)
           evicts == l.verdict = "stale" /\ local
           again == [l EXCEPT !.verdict = "none"]
           retries == l.verdict = "ctx" /\ l.retried = 0
           next == CASE retries -> [again EXCEPT !.pc = "look", !.retried = 1,
                                                 !.stray = FALSE]
                     [] l.verdict = "current" /\ local -> [l EXCEPT !.pc = "done"]
                     [] l.verdict \in {"ctx", "error"} /\ local /\ ~retries
                          -> [l EXCEPT !.pc = "done", !.fell = TRUE]
                     [] OTHER -> Recheck(again)
<1>1. /\ lookup \in [Actors -> Lookups] /\ l \in Lookups
      /\ l.proc = p /\ l.floor \in Nat /\ known[p] \in Nat
      /\ cache \in [Processes -> Caches] /\ cache[p] \in Caches
      /\ strong \in [Processes -> SUBSET (0 .. clock)]
      /\ checking \in [Processes -> SUBSET Checks]
      BY <1>p DEF ProviderInv, ProviderOK, Proc, Lookups, Caches
<1>2. /\ cache' = [cache EXCEPT ![p] = IF evicts THEN InvalidatedIf(@, l.token)
                                                 ELSE @]
      /\ strong' = [strong EXCEPT ![p] = IF evicts THEN {row.ver} ELSE @]
      /\ checking' = [checking EXCEPT ![p] = IF evicts THEN {} ELSE @]
      /\ lookup' = [lookup EXCEPT ![a] = next]
      /\ UNCHANGED <<row, replica, known>>
      /\ l.pc = "judge"
      BY <1>p DEF Judge, At
<1>3. /\ CacheSound(p) /\ l.floor <= known[p] /\ SoundAlone(l, replica.ver)
      BY <1>1 DEF AllSound, Sound
<1>4. /\ next.floor = l.floor /\ next.proc = p
      /\ next.pc \in {"look", "done"}
      /\ next.pc = "done" => \/ next.result.status = "error"
                             \/ next.fell
                             \/ /\ l.verdict = "current"
                                /\ next.result = l.result /\ next.stray = l.stray
  <2>1. \A x \in Lookups :
            /\ [x EXCEPT !.pc = "look", !.retried = 1, !.stray = FALSE].floor
                   = x.floor
            /\ [x EXCEPT !.pc = "look", !.retried = 1, !.stray = FALSE].proc
                   = x.proc
            /\ [x EXCEPT !.pc = "look", !.retried = 1, !.stray = FALSE].pc = "look"
            /\ [x EXCEPT !.pc = "done"].floor = x.floor
            /\ [x EXCEPT !.pc = "done"].proc = x.proc
            /\ [x EXCEPT !.pc = "done"].pc = "done"
            /\ [x EXCEPT !.pc = "done"].result = x.result
            /\ [x EXCEPT !.pc = "done"].stray = x.stray
            /\ [x EXCEPT !.pc = "done", !.fell = TRUE].floor = x.floor
            /\ [x EXCEPT !.pc = "done", !.fell = TRUE].proc = x.proc
            /\ [x EXCEPT !.pc = "done", !.fell = TRUE].pc = "done"
            /\ [x EXCEPT !.pc = "done", !.fell = TRUE].fell = TRUE
        BY DEF Lookups
  <2>2. /\ again \in Lookups /\ again.floor = l.floor /\ again.proc = p
    <3> HIDE DEF l
    <3> QED BY <1>1 DEF Lookups
  <2>3. /\ Recheck(again).floor = l.floor /\ Recheck(again).proc = p
        /\ Recheck(again).pc \in {"look", "done"}
        /\ Recheck(again).pc = "done" => Recheck(again).result.status = "error"
    <3> HIDE DEF again, l
    <3> QED BY <2>2 DEF Recheck, Lookups, Failure
  <2> HIDE DEF l, again, local
  <2> QED BY <1>1, <2>1, <2>2, <2>3
<1>5. next \in Lookups /\ lookup'[a] = next
  <2>1. ProviderInv'
        BY JudgeKeepsTypes
  <2>2. lookup'[a] \in Lookups
        BY <2>1 DEF ProviderInv, ProviderOK
  <2> HIDE DEF next
  <2> QED BY <1>1, <1>2, <2>2
<1> HIDE DEF next
<1>6. Carries(l, next)
      BY <1>2, <1>4 DEF Carries, Answers, Gives
<1>7. SoundAlone(next, replica.ver)
      BY <1>2, <1>3, <1>4 DEF SoundAlone
<1>8. Sound(a)'
      BY <1>2, <1>3, <1>4, <1>5, <1>7 DEF Sound
<1>9. \A q \in Processes \ {p} : /\ cache'[q] = cache[q]
                                 /\ strong'[q] = strong[q]
                                 /\ checking'[q] = checking[q]
  <2> HIDE DEF evicts, l
  <2> QED BY <1>1, <1>2
<1>10. CASE ~evicts
  <2>1. /\ cache'[p] = cache[p] /\ strong'[p] = strong[p]
        /\ checking'[p] = checking[p]
    <3> HIDE DEF evicts, l
    <3> QED BY <1>1, <1>2, <1>10
  <2>2. Singly(p)' /\ Covered(p)' /\ EntryHeld(p)'
        BY <1>2, <1>3, <2>1 DEF CacheSound, Singly, Covered, EntryHeld
  <2> HIDE DEF evicts, local
  <2> QED BY <1>2, <1>5, <1>6, <1>8, <1>9, <2>1, <2>2, OneCacheStaysSound
<1>11. CASE evicts
  <2>1. /\ cache'[p].entry = {} /\ cache'[p].call = {} /\ strong'[p] = {row.ver}
        /\ checking'[p] = {}
    <3>1. InvalidatedIf(cache[p], l.token) = Invalidated(cache[p])
          BY <1>11 DEF InvalidatedIf
    <3>2. cache'[p] = Invalidated(cache[p]) /\ strong'[p] = {row.ver}
          /\ checking'[p] = {}
      <4> HIDE DEF evicts, l
      <4> QED BY <1>1, <1>2, <1>11, <3>1
    <3> QED BY <3>2 DEF Invalidated
  <2>2. Singly(p)' /\ Covered(p)' /\ EntryHeld(p)'
        BY <1>2, <1>3, <2>1 DEF CacheSound, Singly, Covered, EntryHeld
  <2> HIDE DEF evicts, local
  <2> QED BY <1>2, <1>5, <1>6, <1>8, <1>9, <2>1, <2>2, OneCacheStaysSound
<1> QED BY <1>10, <1>11
\* Lookup a, in process p, ends its read or its check, and lets those go on who
\* wait for it.
LEMMA ReleaseStaysSound ==
    ASSUME ProviderInv, AllSound, NEW a \in Actors, NEW p \in Processes,
           lookup[a].proc = p, lookup[a].pc \in {"finish", "answer"},
           \A b \in Actors : /\ ~(b = a \/ Waiting(a, b)) => lookup'[b] = lookup[b]
                             /\ lookup'[b].floor = lookup[b].floor
                             /\ lookup'[b].proc = lookup[b].proc,
           \A b \in Actors : b = a \/ Waiting(a, b)
               => /\ lookup'[b].pc \in {"look", "done", "judge"}
                  /\ SoundAlone(lookup'[b], replica.ver),
           UNCHANGED <<row, replica, known>>,
           \A q \in Processes \ {p} : /\ cache'[q] = cache[q]
                                      /\ strong'[q] = strong[q]
                                      /\ checking'[q] = checking[q],
           Singly(p)', Covered(p)', EntryHeld(p)',
           cache'[p].call \subseteq cache[p].call \ {a},
           \A v \in checking'[p] : v \in checking[p] /\ v.owner # a
    PROVE  AllSound'
<1>1. \A q \in Processes : /\ cache[q].call \subseteq Actors
                           /\ checking[q] \subseteq Checks
      BY DEF ProviderInv, ProviderOK
<1>2. ASSUME NEW o \in Actors,
             o # a, lookup[o].pc \in {"read", "finish", "verify", "answer"}
      PROVE  lookup'[o] = lookup[o]
      BY <1>2 DEF Waiting
<1>3. ASSUME NEW b \in Actors
      PROVE  Sound(b)'
  <2>1. Sound(b)
        BY DEF AllSound
  <2>2. lookup'[b].floor <= known'[lookup'[b].proc]
        BY <2>1 DEF Sound
  <2>3. CASE b = a \/ Waiting(a, b)
        BY <2>2, <2>3 DEF Sound
  <2>4. CASE ~(b = a \/ Waiting(a, b))
    <3>1. lookup'[b] = lookup[b]
          BY <2>4
    <3>2. ASSUME NEW o \in Actors, lookup[b].on = {o},
                 lookup[b].pc \in {"wait", "join"},
                 Awaits(lookup[b], lookup[o], replica.ver)
          PROVE  Awaits(lookup[b], lookup'[o], replica.ver)
      <4>1. o # a
            BY <2>4, <3>2 DEF Waiting
      <4>2. lookup[o].pc \in {"read", "finish", "verify", "answer"}
            BY <3>2 DEF Awaits, Answers
      <4> QED BY <1>2, <3>2, <4>1, <4>2
    <3> QED BY <2>1, <2>2, <3>1, <3>2 DEF Sound
  <2> QED BY <2>3, <2>4
<1>4. ASSUME NEW q \in Processes
      PROVE  CacheSound(q)'
  <2>1. CacheSound(q)
        BY DEF AllSound
  <2>2. known'[q] <= row'.ver
        BY <2>1 DEF CacheSound
  <2>3. Singly(q)' /\ Covered(q)' /\ EntryHeld(q)'
    <3>1. CASE q = p
          BY <3>1
    <3>2. CASE q # p
          BY <2>1, <3>2 DEF CacheSound, Singly, Covered, EntryHeld
    <3> QED BY <3>1, <3>2
  <2>4. ASSUME NEW o \in cache'[q].call
        PROVE  CallFine(q, o)'
    <3>1. o \in cache[q].call /\ o \in Actors
          BY <1>1
    <3>2. CallFine(q, o)
          BY <2>1, <3>1 DEF CacheSound
    <3>3. o # a
          BY <3>2 DEF CallFine
    <3>4. lookup'[o] = lookup[o]
          BY <1>2, <3>1, <3>2, <3>3 DEF CallFine, Answers
    <3> QED BY <3>2, <3>4 DEF CallFine
  <2>5. ASSUME NEW v \in checking'[q]
        PROVE  CheckFine(q, v)'
    <3>1. v \in checking[q] /\ v.owner \in Actors
          BY <1>1 DEF Checks
    <3>2. CheckFine(q, v)
          BY <2>1, <3>1 DEF CacheSound
    <3>3. v.owner # a
          BY <3>2 DEF CheckFine
    <3>4. lookup'[v.owner] = lookup[v.owner]
          BY <1>2, <3>1, <3>2, <3>3 DEF CheckFine
    <3> QED BY <3>2, <3>4 DEF CheckFine
  <2> QED BY <2>2, <2>3, <2>4, <2>5 DEF CacheSound
<1> QED BY <1>3, <1>4 DEF AllSound

LEMMA AnswerStaysSound ==
    ASSUME ProviderInv, AllSound, NEW a \in Actors, Answer(a)
    PROVE  AllSound'
<1>p. PICK p \in Processes : p = Proc(a)
      BY DEF ProviderInv, ProviderOK, Lookups, Proc
<1> DEFINE l == lookup[a]
<1>1. /\ lookup \in [Actors -> Lookups] /\ l \in Lookups /\ l.proc = p
      /\ checking \in [Processes -> SUBSET Checks]
      BY <1>p DEF ProviderInv, ProviderOK, Proc, Lookups
<1>2. /\ checking' = [checking EXCEPT ![p] = {v \in @ : v.owner # a}]
      /\ lookup' = [b \in Actors |->
                     IF b = a \/ Waiting(a, b)
                         THEN [lookup[b] EXCEPT !.pc = "judge", !.on = {},
                                  !.verdict = l.verdict]
                         ELSE lookup[b]]
      /\ UNCHANGED <<row, replica, cache, strong, known>>
      /\ l.pc = "answer"
      BY <1>p DEF Answer, At
<1>3. ASSUME NEW b \in Actors
      PROVE  /\ ~(b = a \/ Waiting(a, b)) => lookup'[b] = lookup[b]
             /\ lookup'[b].floor = lookup[b].floor
             /\ lookup'[b].proc = lookup[b].proc
             /\ b = a \/ Waiting(a, b)
                => /\ lookup'[b].pc = "judge" /\ lookup'[b].verdict = l.verdict
                   /\ lookup'[b].stray = lookup[b].stray
                   /\ lookup'[b].token = lookup[b].token
                   /\ lookup'[b].result = lookup[b].result
  <2> DEFINE r == lookup[b]
             x == [r EXCEPT !.pc = "judge", !.on = {}, !.verdict = l.verdict]
  <2>1. r \in Lookups
        BY <1>1
  <2>2. /\ x.floor = r.floor /\ x.proc = r.proc /\ x.pc = "judge"
        /\ x.verdict = l.verdict /\ x.stray = r.stray /\ x.token = r.token
        /\ x.result = r.result
    <3> HIDE DEF r, l
    <3> QED BY <2>1 DEF Lookups
  <2>3. lookup'[b] = IF b = a \/ Waiting(a, b) THEN x ELSE r
        BY <1>2
  <2> HIDE DEF x, l
  <2> QED BY <2>2, <2>3
<1>4. ASSUME NEW b \in Actors, b = a \/ Waiting(a, b)
      PROVE  SoundAlone(lookup'[b], replica.ver)
  <2>1. Sound(b) /\ Sound(a)
        BY DEF AllSound
  <2>2. lookup[b].result.ver = lookup[b].token
        BY <1>2, <1>4, <2>1 DEF Sound, SoundAlone, Waiting, Awaits, Answers
  <2>3. l.verdict = "current" /\ ~lookup[b].stray
            => lookup[b].floor <= lookup[b].token
    <3>1. CASE b = a
          BY <1>2, <2>1, <3>1 DEF Sound, SoundAlone, Gives
    <3>2. CASE Waiting(a, b)
          BY <1>2, <2>1, <3>2 DEF Sound, Waiting, Awaits, Gives, Answers
    <3> QED BY <1>4, <3>1, <3>2
  <2> QED BY <1>3, <1>4, <2>2, <2>3 DEF SoundAlone
<1>5. CacheSound(p)
      BY DEF AllSound
<1>6. /\ checking'[p] = {v \in checking[p] : v.owner # a}
      /\ \A q \in Processes \ {p} : checking'[q] = checking[q]
      BY <1>1, <1>2
<1>7. Singly(p)' /\ Covered(p)' /\ EntryHeld(p)'
      BY <1>2, <1>5, <1>6 DEF CacheSound, Singly, Covered, EntryHeld
<1>8. a \notin cache[p].call
      BY <1>2, <1>5 DEF CacheSound, CallFine, Answers
<1>9. /\ cache'[p].call \subseteq cache[p].call \ {a}
      /\ \A v \in checking'[p] : v \in checking[p] /\ v.owner # a
      /\ \A q \in Processes \ {p} : /\ cache'[q] = cache[q]
                                    /\ strong'[q] = strong[q]
                                    /\ checking'[q] = checking[q]
      BY <1>2, <1>6, <1>8
<1>10. /\ lookup[a].proc = p /\ lookup[a].pc \in {"finish", "answer"}
       /\ UNCHANGED <<row, replica, known>>
       BY <1>1, <1>2
<1> QED BY <1>3, <1>4, <1>7, <1>9, <1>10, ReleaseStaysSound

LEMMA FinishStaysSound ==
    ASSUME ProviderInv, AllSound, NEW a \in Actors, Finish(a)
    PROVE  AllSound'
<1>p. PICK p \in Processes : p = Proc(a)
      BY DEF ProviderInv, ProviderOK, Lookups, Proc
<1> DEFINE l == lookup[a]
           kept == IF l.result.status = "key"
                       THEN {[key |-> l.result.key, ver |-> l.result.ver,
                              at |-> row.ver]}
                       ELSE {}
<1>1. /\ lookup \in [Actors -> Lookups] /\ l \in Lookups /\ l.proc = p
      /\ cache \in [Processes -> Caches] /\ cache[p] \in Caches
      /\ checking \in [Processes -> SUBSET Checks]
      BY <1>p DEF ProviderInv, ProviderOK, Proc, Lookups, Caches
<1>2. /\ cache' = [cache EXCEPT ![p] = Finished(@, a, kept, l.gen)]
      /\ lookup' = [b \in Actors |->
                       CASE b = a         -> [l EXCEPT !.pc = "done"]
                         [] b \in {c \in Actors : Waiting(a, c)}
                                          -> Shared(lookup[b], l.result)
                         [] OTHER         -> lookup[b]]
      /\ checking' = [checking EXCEPT ![p] =
                         IF cache'[p].entry # cache[p].entry THEN Unchecked(p)
                                                             ELSE @]
      /\ UNCHANGED <<row, replica, strong, known>>
      /\ l.pc = "finish"
      BY <1>p DEF Finish, Releases, At
<1>3. /\ cache'[p].call = cache[p].call \ {a}
      /\ cache'[p].entry \in {kept, cache[p].entry}
      /\ cache'[p].entry = kept => kept # {} \/ cache[p].entry = {}
      /\ \A q \in Processes \ {p} : cache'[q] = cache[q]
  <2> DEFINE x == Finished(cache[p], a, kept, l.gen)
  <2>1. /\ x.call = cache[p].call \ {a}
        /\ x.entry \in {kept, cache[p].entry}
        /\ x.entry = kept => kept # {} \/ cache[p].entry = {}
    <3> HIDE DEF kept, l
    <3> QED BY <1>1 DEF Finished, Caches
  <2>2. cache' = [cache EXCEPT ![p] = x]
        BY <1>2
  <2> HIDE DEF x, kept
  <2> QED BY <1>1, <2>1, <2>2
<1>4. /\ checking'[p] = IF cache'[p].entry # cache[p].entry
                            THEN IF cache[p].entry = {} THEN checking[p] ELSE {}
                            ELSE checking[p]
      /\ \A q \in Processes \ {p} : checking'[q] = checking[q]
  <2> HIDE DEF kept, l
  <2> QED BY <1>1, <1>2 DEF Unchecked
<1>5. CacheSound(p) /\ Sound(a)
      BY DEF AllSound
<1>6. Singly(p)' /\ Covered(p)' /\ EntryHeld(p)'
  <2>1. /\ \A e, g \in kept : e = g
        /\ \A e \in kept : e.at = row.ver
        OBVIOUS
  <2> HIDE DEF kept, l
  <2>2. Singly(p)'
    <3>1. \A e, g \in cache'[p].entry : e = g
          BY <1>3, <1>5, <2>1 DEF CacheSound, Singly
    <3>2. \A v, w \in checking'[p] : v = w
          BY <1>4, <1>5 DEF CacheSound, Singly
    <3> QED BY <1>2, <1>3, <1>5, <3>1, <3>2 DEF CacheSound, Singly
  <2>3. Covered(p)'
    <3>1. CASE cache'[p].entry = cache[p].entry
          BY <1>2, <1>5, <3>1 DEF CacheSound, Covered
    <3>2. CASE cache'[p].entry = kept /\ kept # {}
          BY <1>2, <1>5, <2>1, <3>2 DEF CacheSound, Covered
    <3> QED BY <1>3, <3>1, <3>2
  <2>4. EntryHeld(p)'
    <3>1. CASE cache'[p].entry = cache[p].entry
          BY <1>4, <1>5, <3>1 DEF CacheSound, EntryHeld
    <3>2. CASE cache'[p].entry # cache[p].entry
          BY <1>4, <1>5, <3>2 DEF CacheSound, EntryHeld
    <3> QED BY <3>1, <3>2
  <2> QED BY <2>2, <2>3, <2>4
<1>7. \A v \in checking'[p] : v \in checking[p] /\ v.owner # a
      BY <1>2, <1>4, <1>5 DEF CacheSound, CheckFine
<1>8. ASSUME NEW b \in Actors
      PROVE  /\ ~(b = a \/ Waiting(a, b)) => lookup'[b] = lookup[b]
             /\ lookup'[b].floor = lookup[b].floor
             /\ lookup'[b].proc = lookup[b].proc
             /\ b = a \/ Waiting(a, b)
                => /\ lookup'[b].pc \in {"look", "done"}
                   /\ lookup'[b].pc = "done" => lookup'[b].result = l.result
  <2> DEFINE r == lookup[b]
  <2>1. r \in Lookups
        BY <1>1
  <2>2. ASSUME NEW x \in Lookups, x = [r EXCEPT !.pc = "done"]
        PROVE  x.floor = r.floor /\ x.proc = r.proc /\ x.pc = "done"
               /\ x.result = r.result
        BY <2>1, <2>2 DEF Lookups
  <2>3. [r EXCEPT !.pc = "done"] \in Lookups
    <3>1. r.result \in Results
          BY <2>1 DEF Lookups
    <3> QED BY <2>1, <3>1, LookupEdits
  <2>4. ASSUME NEW res, NEW x, x = Shared(r, res)
        PROVE  /\ x.floor = r.floor /\ x.proc = r.proc /\ x.pc \in {"look", "done"}
               /\ x.pc = "done" => x.result = res
    <3> HIDE DEF r
    <3> QED BY <2>1, <2>4 DEF Lookups, Shared
  <2>5. CASE b = a
    <3>1. lookup'[b] = [r EXCEPT !.pc = "done"]
          BY <1>2, <2>5 DEF Waiting
    <3> QED BY <2>2, <2>3, <2>5, <3>1
  <2>6. CASE b # a /\ Waiting(a, b)
    <3>1. lookup'[b] = Shared(r, l.result)
          BY <1>2, <2>6
    <3> HIDE DEF r, l
    <3> QED BY <2>4, <2>6, <3>1 DEF r
  <2>7. CASE b # a /\ ~Waiting(a, b)
        BY <1>2, <2>7
  <2> QED BY <2>5, <2>6, <2>7
<1>9. ASSUME NEW b \in Actors, b = a \/ Waiting(a, b)
      PROVE  SoundAlone(lookup'[b], replica.ver)
  <2>1. Sound(b)
        BY DEF AllSound
  <2>2. l.result.status \in {"key", "none"} => lookup[b].floor <= l.result.ver
    <3>1. CASE b = a
          BY <1>2, <1>5, <3>1 DEF Sound, SoundAlone, Answers
    <3>2. CASE Waiting(a, b)
          BY <1>2, <2>1, <3>2 DEF Sound, Waiting, Awaits, Answers
    <3> QED BY <1>9, <3>1, <3>2
  <2> QED BY <1>8, <1>9, <2>2 DEF SoundAlone
<1> HIDE DEF l, kept
<1> QED BY <1>1, <1>2, <1>3, <1>4, <1>6, <1>7, <1>8, <1>9, ReleaseStaysSound DEF l
\* A process that has finished a write, of ver or of what it saw the row at,
\* drops what it had cached and joined before.
LEMMA CachingStaysSound ==
    ASSUME ProviderInv, AllSound, NEW p \in Processes, NEW ver \in Nat,
           ver <= row.ver, UNCHANGED <<row, replica, lookup>>,
           ForgetKey(p, ver) \/ \E k : SeedKey(p, k, ver)
    PROVE  AllSound'
<1>1. /\ cache \in [Processes -> Caches] /\ cache[p] \in Caches
      /\ strong \in [Processes -> SUBSET (0 .. clock)]
      /\ checking \in [Processes -> SUBSET Checks]
      /\ known \in [Processes -> Nat] /\ row.ver \in Nat
      /\ lookup \in [Actors -> Lookups]
      BY DEF ProviderInv, ProviderOK, Caches, Rows
<1>2. /\ known'[p] = IF ver > known[p] THEN ver ELSE known[p]
      /\ checking'[p] = Unchecked(p)
      /\ \A q \in Processes \ {p} : /\ cache'[q] = cache[q]
                                    /\ strong'[q] = strong[q]
                                    /\ checking'[q] = checking[q]
                                    /\ known'[q] = known[q]
      BY <1>1 DEF ForgetKey, SeedKey
<1>3. /\ cache'[p].call = {}
      /\ \/ cache'[p].entry = {} /\ strong'[p] = {row.ver}
         \/ strong'[p] = {} /\ \E e : cache'[p].entry = {e} /\ e.at = row.ver
  <2>1. Invalidated(cache[p]).call = {} /\ Invalidated(cache[p]).entry = {}
        BY DEF Invalidated
  <2>2. CASE ForgetKey(p, ver)
        BY <1>1, <2>1, <2>2 DEF ForgetKey
  <2>3. ASSUME NEW k, SeedKey(p, k, ver)
        PROVE  /\ cache'[p].call = {} /\ strong'[p] = {}
               /\ \E e : cache'[p].entry = {e} /\ e.at = row.ver
    <3> DEFINE e == [key |-> k, ver |-> ver, at |-> row.ver]
    <3>1. /\ Seeded(cache[p], e).call = {} /\ Seeded(cache[p], e).entry = {e}
      <4> HIDE DEF e
      <4> QED BY DEF Seeded, Invalidated
    <3>2. cache'[p] = Seeded(cache[p], e) /\ strong'[p] = {}
          BY <1>1, <2>3 DEF SeedKey
    <3>3. e.at = row.ver
          OBVIOUS
    <3> HIDE DEF e
    <3> QED BY <3>1, <3>2, <3>3
  <2> QED BY <2>2, <2>3
<1>4. CacheSound(p) /\ known[p] \in Nat /\ known[p] <= row.ver
      BY <1>1 DEF AllSound, CacheSound
<1>5. known[p] <= known'[p] /\ known'[p] <= row'.ver /\ known'[p] \in Nat
      BY <1>1, <1>2, <1>4
<1>6. ASSUME NEW b \in Actors
      PROVE  Sound(b)'
  <2>1. Sound(b) /\ lookup[b] \in Lookups
        BY <1>1 DEF AllSound
  <2>2. lookup[b].floor \in Nat /\ lookup[b].proc \in Processes
        BY <2>1 DEF Lookups
  <2>3. lookup[b].floor <= known'[lookup[b].proc]
    <3>1. CASE lookup[b].proc = p
          BY <1>4, <1>5, <2>1, <2>2, <3>1 DEF Sound
    <3>2. CASE lookup[b].proc # p
          BY <1>2, <2>1, <2>2, <3>2 DEF Sound
    <3> QED BY <3>1, <3>2
  <2> QED BY <2>1, <2>3 DEF Sound
<1>7. CacheSound(p)'
  <2>1. checking'[p] = IF cache[p].entry = {} THEN checking[p] ELSE {}
        BY <1>2 DEF Unchecked
  <2>2. \A v \in checking'[p] : ~v.held /\ v \in checking[p]
        BY <1>4, <2>1 DEF CacheSound, EntryHeld
  <2>3. Singly(p)'
        BY <1>3, <1>4, <2>2 DEF CacheSound, Singly
  <2>4. Covered(p)'
        BY <1>3, <1>5 DEF Covered
  <2>5. EntryHeld(p)'
        BY <2>2 DEF EntryHeld
  <2>6. \A v \in checking'[p] : CheckFine(p, v)'
        BY <1>4, <2>2 DEF CacheSound, CheckFine
  <2> QED BY <1>3, <1>5, <2>3, <2>4, <2>5, <2>6 DEF CacheSound
<1>8. ASSUME NEW q \in Processes, q # p
      PROVE  CacheSound(q)'
  <2>1. CacheSound(q)
        BY DEF AllSound
  <2>2. Singly(q)' /\ Covered(q)' /\ EntryHeld(q)'
        BY <1>2, <1>8, <2>1 DEF CacheSound, Singly, Covered, EntryHeld
  <2>3. /\ \A o \in cache'[q].call : CallFine(q, o)'
        /\ \A v \in checking'[q] : CheckFine(q, v)'
        BY <1>2, <1>8, <2>1 DEF CacheSound, CallFine, CheckFine
  <2>4. known'[q] <= row'.ver
        BY <1>2, <1>8, <2>1 DEF CacheSound
  <2> QED BY <2>2, <2>3, <2>4 DEF CacheSound
<1> QED BY <1>6, <1>7, <1>8 DEF AllSound

\* The row, and the replica, only become newer.
LEMMA RowStaysSound ==
    ASSUME ProviderInv, AllSound, row.ver <= row'.ver, row'.ver \in Nat,
           replica.ver <= replica'.ver, replica'.ver \in Nat,
           UNCHANGED <<cache, strong, checking, known, lookup>>
    PROVE  AllSound'
<1>1. /\ known \in [Processes -> Nat] /\ row.ver \in Nat /\ replica.ver \in Nat
      /\ lookup \in [Actors -> Lookups]
      /\ \A q \in Processes : /\ cache[q].call \subseteq Actors
                              /\ checking[q] \subseteq Checks
      BY DEF ProviderInv, ProviderOK, Rows
<1>2. ASSUME NEW l \in Lookups, NEW n \in Nat, Answers(l, n, replica.ver)
      PROVE  Answers(l, n, replica'.ver)
      BY <1>1, <1>2 DEF Answers
<1>3. ASSUME NEW b \in Actors
      PROVE  Sound(b)'
  <2>1. Sound(b) /\ lookup[b] \in Lookups /\ lookup[b].floor \in Nat
        BY <1>1 DEF AllSound, Lookups
  <2>2. SoundAlone(lookup[b], replica'.ver)
        BY <1>2, <2>1 DEF Sound, SoundAlone
  <2>3. \A o \in Actors : Awaits(lookup[b], lookup[o], replica.ver)
                              => Awaits(lookup[b], lookup[o], replica'.ver)
        BY <1>1, <1>2, <2>1 DEF Awaits
  <2> QED BY <2>1, <2>2, <2>3 DEF Sound
<1>4. ASSUME NEW q \in Processes
      PROVE  CacheSound(q)'
  <2>1. CacheSound(q) /\ known[q] \in Nat
        BY <1>1 DEF AllSound
  <2>2. Singly(q)' /\ EntryHeld(q)'
        BY <2>1 DEF CacheSound, Singly, EntryHeld
  <2>3. Covered(q)'
        BY <1>1, <2>1 DEF CacheSound, Covered
  <2>4. \A o \in cache[q].call : CallFine(q, o)'
        BY <1>1, <1>2, <2>1 DEF CacheSound, CallFine
  <2>5. \A v \in checking[q] : CheckFine(q, v)'
        BY <2>1 DEF CacheSound, CheckFine
  <2>6. known'[q] <= row'.ver
        BY <1>1, <2>1 DEF CacheSound
  <2> QED BY <2>2, <2>3, <2>4, <2>5, <2>6 DEF CacheSound
<1> QED BY <1>3, <1>4 DEF AllSound

\* What a step does to the caches and lookups.
LEMMA StepsOfProvider ==
    ASSUME TypeInv, Stamps, [Moves]_vars
    PROVE  \/ UNCHANGED <<replica, cache, strong, checking, known, lookup>>
           \/ ReplicaCatchesUp
           \/ \E a \in Actors :
                 /\ \/ \E p \in Processes : LookupBegins(a, p)
                    \/ /\ LookedUp(a) /\ LookupTaken(a)
                       /\ UNCHANGED <<clock, row, replica, cache, strong, checking,
                                      known>>
                    \/ LookupStep(a) \/ LookupFault(a)
                 /\ UNCHANGED <<row, replica>>
           \/ \E p \in Processes, ver \in Nat :
                 /\ ver <= row.ver
                 /\ UNCHANGED <<row, replica, lookup>>
                 /\ ForgetKey(p, ver) \/ \E k : SeedKey(p, k, ver)
<1>1. /\ flow \in [Flows -> FlowRows] /\ click \in [Clicks -> ClickRows]
      /\ purge \in [Jobs -> PurgeRows] /\ Readers \subseteq Actors
      /\ Flows \subseteq Actors /\ Clicks \subseteq Actors
      BY ActorsAssumption DEF TypeInv, SetupInv, SetupOK, TeardownInv, TeardownOK
<1>2. CASE UNCHANGED providerVars
      BY <1>2 DEF providerVars
<1>3. CASE Replicates
      BY <1>2, <1>3 DEF Replicates
<1>4. ASSUME NEW a \in Actors, LooksUp(a) \/ LookupGoesWrong(a)
      PROVE  /\ LookupStep(a) \/ LookupFault(a)
             /\ UNCHANGED <<row, replica>>
      BY <1>4 DEF LooksUp, LookupGoesWrong, LookupStep, LookupFault, Look, Read,
         ReadFails, HasRead, Finish, Releases, Check, Verify, VerifyFails, HasVerified,
         Answer, Judge, GivesUp
<1>5. ASSUME NEW f \in Flows, SetsUp(f) \/ SetupGoesWrong(f)
      PROVE  \/ UNCHANGED <<replica, cache, strong, checking, known, lookup>>
             \/ LookupBegins(f, flow[f].proc)
             \/ /\ LookedUp(f) /\ LookupTaken(f)
                /\ UNCHANGED <<clock, row, replica, cache, strong, checking, known>>
             \/ /\ SeedKey(flow[f].proc, flow[f].key, flow[f].wrote)
                /\ UNCHANGED <<row, replica, lookup>>
  <2>1. CASE OwnerStep(f)
        BY <2>1 DEF OwnerStep
  <2>2. CASE KeyStep(f)
        BY <2>2 DEF KeyStep, Ensures, TakesKey, Validate, Identify, Identity, Revoke,
           RevokeHeld, Confirm, providerVars
  <2>3. CASE StoreStep(f)
        BY <2>3 DEF StoreStep, Mint, MintReplacement, Persist, PersistKept, Seeds,
           providerVars
  <2>4. CASE FlowFault(f)
        BY <2>4 DEF FlowFault, FlowFails, RevokeFails, RevokeReplyLost, RevokeHeld,
           MintReplyLost, PersistFails, PersistKept, providerVars
  <2> QED BY <1>5, <2>1, <2>2, <2>3, <2>4 DEF SetsUp, SetupGoesWrong
<1>6. ASSUME NEW u \in Clicks, Uninstalls(u) \/ Disconnects(u) \/ DisconnectGoesWrong(u)
      PROVE  \/ UNCHANGED <<replica, cache, strong, checking, known, lookup>>
             \/ LookupBegins(u, click[u].proc)
             \/ /\ LookedUp(u) /\ LookupTaken(u)
                /\ UNCHANGED <<clock, row, replica, cache, strong, checking, known>>
             \/ /\ ForgetKey(click[u].proc, click[u].ver)
                /\ UNCHANGED <<row, replica, lookup>>
  <2>1. CASE Uninstalls(u)
        BY <2>1 DEF Uninstalls, Confirms, providerVars
  <2>2. CASE Disconnects(u)
        BY <2>2 DEF Disconnects, ClickStep, ReadsKeyId, BuildsClient, RevokesUpstream,
           DeletesKey, SchedulesPurge, providerVars
  <2>3. CASE DisconnectGoesWrong(u)
        BY <2>3 DEF DisconnectGoesWrong, ClickFault, ClickFails, DeleteReplyLost,
           providerVars
  <2> QED BY <1>6, <2>1, <2>2, <2>3
<1>7. ASSUME NEW j \in Jobs, Purges(j) \/ PurgeGoesWrong(j)
      PROVE  \/ UNCHANGED <<replica, cache, strong, checking, known, lookup>>
             \/ /\ ForgetKey(purge[j].proc, purge[j].ver)
                /\ UNCHANGED <<row, replica, lookup>>
      BY <1>7 DEF Purges, PurgeGoesWrong, PurgeStep, PurgeFault, PurgesState,
         PurgeForgets, PurgesTable, PurgesMapping, JudgePurge, Retries, PurgeFails,
         PurgeAborts, providerVars
<1>8. CASE \/ Reinstalled \/ ChangesAdmins \/ Transfers
           \/ \E t \in Tables : TableWritten(t)
      BY <1>8 DEF Reinstalled, ChangesAdmins, Transfers, TableWritten, OthersKept
<1>9. ASSUME NEW a \in Readers, NEW p \in Processes, Asks(a, p)
      PROVE  LookupBegins(a, p) /\ UNCHANGED <<row, replica>>
      BY <1>9 DEF Asks, LookupBegins
<1>10. ASSUME NEW a \in Actors, NEW p \in Processes, LookupBegins(a, p)
       PROVE  UNCHANGED <<row, replica>>
       BY <1>10 DEF LookupBegins
<1>11. /\ \A f \in Flows : /\ flow[f].proc \in Processes /\ flow[f].wrote \in Nat
                           /\ flow[f].wrote <= row.ver
       /\ \A u \in Clicks : /\ click[u].proc \in Processes /\ click[u].ver \in Nat
                            /\ click[u].ver <= row.ver
       /\ \A j \in Jobs : /\ purge[j].proc \in Processes /\ purge[j].ver \in Nat
                          /\ purge[j].ver <= row.ver
       BY <1>1 DEF Stamps, FlowRows, ClickRows, PurgeRows
<1> QED BY <1>1, <1>2, <1>3, <1>4, <1>5, <1>6, <1>7, <1>8, <1>9, <1>10, <1>11
        DEF Moves, Next, Spends, BindingWritten, Writes, vars, Commands, Expires,
            Opens, Returns, CleansUp, RevokeOrphan, AppRemoved, EventArrives, Removal,
            ReceiveEvent

\* The row's version only grows.
LEMMA RowGrows ==
    ASSUME ProviderInv, [Moves]_vars
    PROVE  row'.ver \in Nat /\ row.ver <= row'.ver
<1>1. clock \in Nat /\ row \in Rows /\ row.ver \in Nat /\ row.ver <= clock
      BY DEF ProviderInv, ProviderOK, Rows
<1>2. ASSUME NEW k, NEW acct, StoreKey(k, acct)
      PROVE  row'.ver = clock + 1
      BY <1>1, <1>2 DEF StoreKey, Stamped, Rows
<1>3. ASSUME ClearKey
      PROVE  row'.ver = clock + 1
      BY <1>1, <1>3 DEF ClearKey, Stamped, Rows
<1>4. ASSUME NEW t, DeleteRow(t)
      PROVE  row'.ver \in {row.ver, clock + 1}
      BY <1>1, <1>4 DEF DeleteRow, NoRow
<1>5. ASSUME StoreBotToken
      PROVE  row'.ver = row.ver
      BY <1>1, <1>5 DEF StoreBotToken, Stamped, Rows
<1> QED BY <1>1, <1>2, <1>3, <1>4, <1>5, StepsOfRow

LEMMA FlowStampsKept ==
    ASSUME TypeInv, Stamps, [Moves]_vars
    PROVE  \A g \in Flows : flow'[g].wrote <= row'.ver
<1>1. /\ flow \in [Flows -> FlowRows] /\ SetupInv /\ ProviderInv
      /\ row'.ver \in Nat /\ row.ver <= row'.ver /\ clock \in Nat /\ row \in Rows
      /\ row.ver \in Nat
      /\ \A g \in Flows : flow[g].wrote \in Nat /\ flow[g].wrote <= row.ver
      BY RowGrows DEF TypeInv, SetupInv, SetupOK, ProviderInv, ProviderOK, FlowRows,
         Rows, Stamps
<1>2. ASSUME UNCHANGED flow
      PROVE  \A g \in Flows : flow'[g].wrote <= row'.ver
      BY <1>1, <1>2
<1>3. ASSUME NEW f \in Flows, NEW x, flow' = [flow EXCEPT ![f] = x],
             x.wrote \in {flow[f].wrote, 0, row'.ver}
      PROVE  \A g \in Flows : flow'[g].wrote <= row'.ver
      BY <1>1, <1>3
<1>4. ASSUME NEW f \in Flows, NEW l, NEW p, StartLink(f, l, p)
      PROVE  \A g \in Flows : flow'[g].wrote <= row'.ver
  <2> DEFINE x == [NoFlow EXCEPT !.pc = "callback", !.proc = p, !.link = l]
  <2>1. x.wrote = 0
        BY DEF NoFlow
  <2>2. flow' = [flow EXCEPT ![f] = x]
        BY <1>4 DEF StartLink
  <2> HIDE DEF x
  <2> QED BY <1>3, <2>1, <2>2
<1>5. ASSUME NEW f \in Flows, NEW pc,
             flow' = [flow EXCEPT ![f].pc = pc]
      PROVE  \A g \in Flows : flow'[g].wrote <= row'.ver
  <2> DEFINE r == flow[f]
             x == [r EXCEPT !.pc = pc]
  <2>1. flow' = [flow EXCEPT ![f] = x] /\ r \in FlowRows
        BY <1>1, <1>5
  <2>2. x.wrote = r.wrote
    <3> HIDE DEF r
    <3> QED BY <2>1 DEF FlowRows
  <2> HIDE DEF x
  <2> QED BY <1>3, <2>1, <2>2
<1>6. ASSUME NEW f \in Flows, NEW acct, Consume(f, acct)
      PROVE  \A g \in Flows : flow'[g].wrote <= row'.ver
  <2>1. CASE Ends(f)
        BY <1>5, <2>1 DEF Ends, Goes
  <2>2. CASE Consumed(f, acct)
    <3> DEFINE r == flow[f]
               user == links[r.link].user
               mode == links[r.link].mode
               x == [r EXCEPT !.pc = "bind", !.user = user, !.mode = mode,
                              !.acct = acct]
    <3>1. flow' = [flow EXCEPT ![f].pc = "bind", ![f].user = user,
                               ![f].mode = mode, ![f].acct = acct]
          BY <2>2 DEF Consumed
    <3>2. flow' = [flow EXCEPT ![f] = x] /\ r \in FlowRows
      <4> HIDE DEF user, mode
      <4> QED BY <1>1, <3>1
    <3>3. x.wrote = r.wrote
      <4> HIDE DEF r, user, mode
      <4> QED BY <3>2 DEF FlowRows
    <3> HIDE DEF x
    <3> QED BY <1>3, <3>2, <3>3
  <2> QED BY <1>6, <2>1, <2>2 DEF Consume
<1>7. ASSUME NEW f \in Flows,
             OwnerStep(f) \/ KeyStep(f) \/ StoreStep(f) \/ FlowFault(f)
      PROVE  \A g \in Flows : flow'[g].wrote <= row'.ver
  <2> DEFINE r == flow[f]
  <2>1. r \in FlowRows
        BY <1>1
  <2>2. ASSUME NEW pc, NEW old,
               flow' = [flow EXCEPT ![f].pc = pc, ![f].old = old]
        PROVE  \A g \in Flows : flow'[g].wrote <= row'.ver
    <3> DEFINE x == [r EXCEPT !.pc = pc, !.old = old]
    <3>1. flow' = [flow EXCEPT ![f] = x]
          BY <1>1, <2>2
    <3>2. x.wrote = r.wrote
      <4> HIDE DEF r
      <4> QED BY <2>1 DEF FlowRows
    <3> HIDE DEF x
    <3> QED BY <1>3, <3>1, <3>2
  <2>3. ASSUME NEW k, NEW b,
               flow' = [flow EXCEPT ![f].pc = "persist", ![f].key = k,
                                    ![f].backed = b]
        PROVE  \A g \in Flows : flow'[g].wrote <= row'.ver
    <3> DEFINE x == [r EXCEPT !.pc = "persist", !.key = k, !.backed = b]
    <3>1. flow' = [flow EXCEPT ![f] = x]
          BY <1>1, <2>3
    <3>2. x.wrote = r.wrote
      <4> HIDE DEF r
      <4> QED BY <2>1 DEF FlowRows
    <3> HIDE DEF x
    <3> QED BY <1>3, <3>1, <3>2
  <2>4. ASSUME StoreKey(flow[f].key, flow[f].acct),
               flow' = [flow EXCEPT ![f].pc = "seed", ![f].wrote = clock + 1]
        PROVE  \A g \in Flows : flow'[g].wrote <= row'.ver
    <3> DEFINE now == clock + 1
               x == [r EXCEPT !.pc = "seed", !.wrote = now]
    <3>1. flow' = [flow EXCEPT ![f] = x]
          BY <1>1, <2>4
    <3>2. row'.ver = now
          BY <1>1, <2>4 DEF StoreKey, Stamped, Rows
    <3>3. x.wrote = now
      <4> HIDE DEF r, now
      <4> QED BY <2>1 DEF FlowRows
    <3> HIDE DEF x, now
    <3> QED BY <1>3, <3>1, <3>2, <3>3
  <2> QED BY <1>2, <1>5, <1>7, <2>2, <2>3, <2>4, FlowForms
<1>8. ASSUME NEW k, NEW refused, RevokeOrphan(k, refused)
      PROVE  UNCHANGED flow
      BY <1>8 DEF RevokeOrphan
<1>9. ASSUME NEW l, LinkExpires(l) \/ \E user, mode : MintLink(l, user, mode)
      PROVE  UNCHANGED flow
      BY <1>9 DEF LinkExpires, MintLink
<1> QED BY <1>2, <1>4, <1>6, <1>7, <1>8, <1>9, StepsOfSetup DEF Elsewhere
LEMMA ClickStampsKept ==
    ASSUME TypeInv, Stamps, [Moves]_vars
    PROVE  \A u \in Clicks : click'[u].ver <= row'.ver
<1>1. /\ click \in [Clicks -> ClickRows] /\ row'.ver \in Nat /\ row.ver \in Nat
      /\ row.ver <= row'.ver
      /\ \A u \in Clicks : /\ click[u] \in ClickRows /\ click[u].ver \in Nat
                           /\ click[u].ver <= row.ver
      BY RowGrows DEF TypeInv, TeardownInv, TeardownOK, ProviderInv, ProviderOK,
         ClickRows, Rows, Stamps
<1>2. ASSUME UNCHANGED click
      PROVE  \A u \in Clicks : click'[u].ver <= row'.ver
      BY <1>1, <1>2
<1>3. ASSUME NEW c \in Clicks, NEW x, click' = [click EXCEPT ![c] = x],
             x.ver \in {click[c].ver, 0, row'.ver}
      PROVE  \A u \in Clicks : click'[u].ver <= row'.ver
      BY <1>1, <1>3
<1>4. ASSUME NEW c \in Clicks, NEW pc, ClickGoes(c, pc)
      PROVE  \A u \in Clicks : click'[u].ver <= row'.ver
  <2> DEFINE r == click[c]
             x == [r EXCEPT !.pc = pc]
  <2>1. click' = [click EXCEPT ![c] = x] /\ r \in ClickRows
        BY <1>1, <1>4 DEF ClickGoes
  <2>2. x.ver = r.ver
    <3> HIDE DEF r
    <3> QED BY <2>1 DEF ClickRows
  <2> HIDE DEF x
  <2> QED BY <1>3, <2>1, <2>2
<1>5. ASSUME NEW c \in Clicks, NEW user, NEW p, Confirms(c, user, p)
      PROVE  \A u \in Clicks : click'[u].ver <= row'.ver
  <2> DEFINE pc == IF user \in {mapping.owner, mapReplica} THEN "ident" ELSE "done"
             x == [NoClick EXCEPT !.proc = p, !.pc = pc]
  <2>1. click' = [click EXCEPT ![c] = x]
        BY <1>5 DEF Confirms
  <2>2. x.ver = 0
    <3> HIDE DEF pc
    <3> QED BY DEF NoClick
  <2> HIDE DEF x
  <2> QED BY <1>3, <2>1, <2>2
<1>6. ASSUME NEW c \in Clicks, DeletesKey(c)
      PROVE  \A u \in Clicks : click'[u].ver <= row'.ver
  <2> DEFINE r == click[c]
             v == row'.ver
             x == [r EXCEPT !.pc = "forget", !.ver = v]
  <2>1. click' = [click EXCEPT ![c] = x] /\ r \in ClickRows
        BY <1>1, <1>6 DEF DeletesKey
  <2>2. x.ver = v
    <3> HIDE DEF r, v
    <3> QED BY <2>1 DEF ClickRows
  <2> HIDE DEF x
  <2> QED BY <1>3, <2>1, <2>2
<1>7. ASSUME NEW c \in Clicks, ClickStep(c) \/ ClickFault(c)
      PROVE  \A u \in Clicks : click'[u].ver <= row'.ver
  <2>1. CASE BuildsClient(c)
        BY <1>4, <2>1 DEF BuildsClient
  <2>2. CASE ~BuildsClient(c)
        BY <1>4, <1>6, <1>7, <2>2 DEF ClickStep, ClickFault, ReadsKeyId,
           RevokesUpstream, SchedulesPurge, ClickFails, DeleteReplyLost
  <2> QED BY <2>1, <2>2
<1>8. ASSUME NEW c \in Clicks, Uninstalls(c) \/ Disconnects(c) \/ DisconnectGoesWrong(c)
      PROVE  \A u \in Clicks : click'[u].ver <= row'.ver
      BY <1>5, <1>7, <1>8 DEF Uninstalls, Disconnects, DisconnectGoesWrong
<1>9. CASE UNCHANGED teardownVars
      BY <1>2, <1>9 DEF teardownVars
<1>10. ASSUME NEW j \in Jobs, Purges(j) \/ PurgeGoesWrong(j)
       PROVE  UNCHANGED click
       BY <1>10 DEF Purges, PurgeGoesWrong, PurgeStep, PurgeFault, PurgesState,
          PurgeForgets, PurgesTable, PurgesMapping, JudgePurge, Retries, PurgeFails,
          PurgeAborts, PurgeKept
<1>11. CASE \/ Reinstalled \/ ChangesAdmins \/ Transfers
            \/ \E t \in Tables : TableWritten(t)
       BY <1>2, <1>11 DEF Reinstalled, ChangesAdmins, Transfers, TableWritten, OthersKept,
          teardownVars
<1>12. CASE AppRemoved \/ EventArrives
       BY <1>2, <1>12 DEF AppRemoved, EventArrives, Removal, ReceiveEvent
<1> QED BY <1>2, <1>8, <1>9, <1>10, <1>11, <1>12
        DEF Moves, Next, Spends, BindingWritten, Writes, vars, Replicates, Asks,
            LooksUp, LookupGoesWrong, Commands, Expires, Opens, Returns, SetsUp,
            SetupGoesWrong, CleansUp

LEMMA PurgeStampsKept ==
    ASSUME TypeInv, Stamps, [Moves]_vars
    PROVE  \A j \in Jobs : purge'[j].ver <= row'.ver
<1>1. /\ purge \in [Jobs -> PurgeRows] /\ row'.ver \in Nat /\ row.ver \in Nat
      /\ row.ver <= row'.ver /\ clock \in Nat /\ removed \in Nat
      /\ \A j \in Jobs : /\ purge[j] \in PurgeRows /\ purge[j].ver \in Nat
                         /\ purge[j].ver <= row.ver
      /\ \A u \in Clicks : click[u].proc \in Processes
      BY RowGrows DEF TypeInv, TeardownInv, TeardownOK, ProviderInv, ProviderOK,
         PurgeRows, ClickRows, Rows, Stamps
<1>2. ASSUME UNCHANGED purge
      PROVE  \A j \in Jobs : purge'[j].ver <= row'.ver
      BY <1>1, <1>2
<1>3. ASSUME NEW i \in Jobs, NEW x, purge' = [purge EXCEPT ![i] = x],
             x.ver \in {purge[i].ver, 0, row'.ver}
      PROVE  \A j \in Jobs : purge'[j].ver <= row'.ver
      BY <1>1, <1>3
<1>4. ASSUME NEW i \in Jobs, NEW pc, PurgeGoes(i, pc)
      PROVE  \A j \in Jobs : purge'[j].ver <= row'.ver
  <2> DEFINE r == purge[i]
             x == [r EXCEPT !.pc = pc]
  <2>1. purge' = [purge EXCEPT ![i] = x] /\ r \in PurgeRows
        BY <1>1, <1>4 DEF PurgeGoes
  <2>2. x.ver = r.ver
    <3> HIDE DEF r
    <3> QED BY <2>1 DEF PurgeRows
  <2> HIDE DEF x
  <2> QED BY <1>3, <2>1, <2>2
<1>5. ASSUME NEW i \in Jobs, PurgesState(i)
      PROVE  \A j \in Jobs : purge'[j].ver <= row'.ver
  <2> DEFINE r == purge[i]
             v == row'.ver
             x == [r EXCEPT !.pc = "forget", !.ver = v]
  <2>1. purge' = [purge EXCEPT ![i] = x] /\ r \in PurgeRows
        BY <1>1, <1>5 DEF PurgesState
  <2>2. x.ver = v
    <3> HIDE DEF r, v
    <3> QED BY <2>1 DEF PurgeRows
  <2> HIDE DEF x
  <2> QED BY <1>3, <2>1, <2>2
<1>6. ASSUME NEW i \in Jobs, Retries(i)
      PROVE  \A j \in Jobs : purge'[j].ver <= row'.ver
  <2> DEFINE r == purge[i]
             pc == IF r.full THEN "state" ELSE "agent"
             n == r.attempt + 1
             x == [r EXCEPT !.pc = pc, !.attempt = n, !.failed = {}]
  <2>1. purge' = [purge EXCEPT ![i] = x] /\ r \in PurgeRows
        BY <1>1, <1>6 DEF Retries
  <2>2. x.ver = r.ver
    <3> HIDE DEF r, pc, n
    <3> QED BY <2>1 DEF PurgeRows
  <2> HIDE DEF x
  <2> QED BY <1>3, <2>1, <2>2
<1>7. ASSUME NEW i \in Jobs, PurgeFails(i)
      PROVE  \A j \in Jobs : purge'[j].ver <= row'.ver
  <2>1. PICK kind \in {"transient", "malformed"} :
           purge' = [purge EXCEPT ![i].pc = After(i), ![i].failed = @ \cup {kind}]
        BY <1>7 DEF PurgeFails
  <2> DEFINE r == purge[i]
             pc == After(i)
             failed == r.failed \cup {kind}
             x == [r EXCEPT !.pc = pc, !.failed = failed]
  <2>2. purge' = [purge EXCEPT ![i] = x] /\ r \in PurgeRows
        BY <1>1, <2>1
  <2>3. x.ver = r.ver
    <3> HIDE DEF r, pc, failed
    <3> QED BY <2>2 DEF PurgeRows
  <2> HIDE DEF x
  <2> QED BY <1>3, <2>2, <2>3
<1>8. ASSUME NEW i \in Jobs, PurgeStep(i) \/ PurgeFault(i)
      PROVE  \A j \in Jobs : purge'[j].ver <= row'.ver
  <2>1. CASE \E t \in Tables : PurgesTable(i, t)
        BY <1>4, <2>1 DEF PurgesTable
  <2>2. CASE PurgeForgets(i) \/ PurgesMapping(i) \/ JudgePurge(i) \/ PurgeAborts(i)
        BY <1>4, <2>2 DEF PurgeForgets, PurgesMapping, JudgePurge, PurgeAborts
  <2> QED BY <1>5, <1>6, <1>7, <1>8, <2>1, <2>2 DEF PurgeStep, PurgeFault
<1>9. ASSUME NEW u \in Clicks, SchedulesPurge(u)
      PROVE  \A j \in Jobs : purge'[j].ver <= row'.ver
  <2> DEFINE p == click[u].proc
             x == ByClick(p, clock)
  <2>1. purge' = [purge EXCEPT ![u] = x] /\ u \in Jobs
        BY <1>9 DEF SchedulesPurge, ByClick, Jobs
  <2>2. x.ver = 0
        BY <1>1, PurgeRowsBegin
  <2> HIDE DEF x
  <2> QED BY <1>3, <2>1, <2>2
<1>10. ASSUME NEW p, ReceiveEvent(p)
       PROVE  \A j \in Jobs : purge'[j].ver <= row'.ver
  <2> DEFINE x == ByEvent(p, removed)
  <2>1. purge' = [purge EXCEPT !["event"] = x] /\ "event" \in Jobs
        BY <1>10 DEF ReceiveEvent, EventPurge, ByEvent, Jobs
  <2>2. x.ver = 0
        BY DEF ByEvent, NoPurge
  <2> HIDE DEF x
  <2> QED BY <1>3, <2>1, <2>2
<1>11. ASSUME UNCHANGED purge \/ Removal \/ \E t \in Tables : TableWritten(t)
       PROVE  \A j \in Jobs : purge'[j].ver <= row'.ver
       BY <1>2, <1>11 DEF Removal, TableWritten, OthersKept
<1>12. ASSUME NEW i \in Jobs, NEW t \in Tables, PurgesTable(i, t)
       PROVE  PurgeStep(i)
       BY <1>12 DEF PurgeStep
<1> QED BY <1>8, <1>9, <1>10, <1>11, <1>12, StepsOfTeardown

LEMMA NoStaleKept ==
    ASSUME TypeInv, NoStale, [Moves]_vars
    PROVE  NoStale'
<1>1. /\ ProviderInv /\ ProviderInv' /\ Stamps /\ AllSound
      /\ replica.ver \in Nat /\ replica'.ver \in Nat /\ row.ver \in Nat
      /\ row'.ver \in Nat /\ row.ver <= row'.ver /\ replica.ver <= row.ver
      BY TypeKept, RowGrows DEF TypeInv, ProviderInv, ProviderOK, Rows, NoStale, Stamps
<1>2. /\ \A f \in Flows : flow'[f].wrote <= row'.ver
      /\ \A u \in Clicks : click'[u].ver <= row'.ver
      /\ \A j \in Jobs : purge'[j].ver <= row'.ver
      BY <1>1, FlowStampsKept, ClickStampsKept, PurgeStampsKept
<1>3. ASSUME replica'.ver <= row'.ver, AllSound'
      PROVE  NoStale'
      BY <1>2, <1>3 DEF NoStale, Stamps
<1>4. CASE UNCHANGED <<replica, cache, strong, checking, known, lookup>>
      BY <1>1, <1>3, <1>4, RowStaysSound
<1>5. CASE ReplicaCatchesUp
  <2>1. /\ replica'.ver = row.ver /\ UNCHANGED row
        /\ UNCHANGED <<cache, strong, checking, known, lookup>>
        BY <1>5 DEF ReplicaCatchesUp, Catches
  <2> QED BY <1>1, <1>3, <2>1, RowStaysSound
<1>6. ASSUME NEW a \in Actors,
             \/ \E p \in Processes : LookupBegins(a, p)
             \/ /\ LookedUp(a) /\ LookupTaken(a)
                /\ UNCHANGED <<clock, row, replica, cache, strong, checking, known>>
             \/ LookupStep(a) \/ LookupFault(a),
             UNCHANGED <<row, replica>>
      PROVE  NoStale'
  <2>1. AllSound'
        BY <1>1, <1>6, LooksStaySound, LookStaysSound, FinishStaysSound,
           CheckStaysSound, AnswerStaysSound, JudgeStaysSound DEF LookupStep
  <2> QED BY <1>1, <1>3, <1>6, <2>1
<1>7. ASSUME NEW p \in Processes, NEW ver \in Nat, ver <= row.ver,
             UNCHANGED <<row, replica, lookup>>,
             ForgetKey(p, ver) \/ \E k : SeedKey(p, k, ver)
      PROVE  NoStale'
      BY <1>1, <1>3, <1>7, CachingStaysSound
<1> QED BY <1>1, <1>4, <1>5, <1>6, <1>7, StepsOfProvider

LEMMA NoStaleBegins ==
    ASSUME Init
    PROVE  NoStale
<1>1. TypeInv
      BY TypeBegins
<1>2. /\ row.ver \in Nat /\ replica.ver = row.ver
      /\ \A p \in Processes : /\ cache[p] = EmptyCache /\ strong[p] = {}
                              /\ checking[p] = {} /\ known[p] = 0
      /\ \A f \in Flows : flow[f] = NoFlow
      /\ \A u \in Clicks : click[u] = NoClick
      /\ \A j \in Jobs : purge[j] = NoPurge
      /\ \A a \in Actors : lookup[a] = NoLookup(CHOOSE p \in Processes : TRUE)
      BY <1>1 DEF Init, TypeInv, ProviderInv, ProviderOK, Rows
<1>3. /\ NoFlow.wrote = 0 /\ NoClick.ver = 0 /\ NoPurge.ver = 0
      /\ EmptyCache.entry = {} /\ EmptyCache.call = {}
      BY DEF NoFlow, NoClick, NoPurge, EmptyCache
<1>4. Stamps
      BY <1>2, <1>3 DEF Stamps
<1>5. ASSUME NEW p \in Processes
      PROVE  CacheSound(p)
      BY <1>2, <1>3 DEF CacheSound, Singly, Covered, EntryHeld
<1>6. ASSUME NEW a \in Actors
      PROVE  Sound(a)
  <2> DEFINE p0 == CHOOSE p \in Processes : TRUE
  <2>2. lookup[a] = NoLookup(p0) /\ p0 \in Processes
        BY <1>2, ProviderAssumption
  <2> HIDE DEF p0
  <2>1. /\ lookup[a].pc = "idle" /\ lookup[a].floor = 0
        /\ lookup[a].proc \in Processes
        BY <2>2 DEF NoLookup
  <2> QED BY <1>2, <2>1 DEF Sound, SoundAlone
<1> QED BY <1>4, <1>5, <1>6 DEF NoStale, AllSound

\* However stale the replica, however the readers of a process share their
\* reads and checks, and however setups, uninstalls and purges cut across them:
\* no lookup answers with less than its process had written when it began,
\* but for those NoOlderKey names.
THEOREM LookupsAreFresh == Spec => []NoOlderKey
<1>1. Init => TypeInv /\ NoStale
      BY TypeBegins, NoStaleBegins
<1>2. TypeInv /\ NoStale /\ [Next]_vars => (TypeInv /\ NoStale)'
      BY TypeKept, NoStaleKept DEF Moves
<1>3. TypeInv /\ NoStale => NoOlderKey
      BY DEF TypeInv, ProviderInv, ProviderOK, Lookups, Results, NoStale, AllSound,
             Sound, SoundAlone, NoOlderKey
<1> QED BY <1>1, <1>2, <1>3, PTL DEF Spec

-----------------------------------------------------------------------------
(* All of it, for whatever else happens beside the workspace.              *)

WorkspaceInv ==
    TypeInv /\ LinksOnce /\ OldKeysDie /\ PurgeTimes /\ Custody /\ NoStale

LEMMA WorkspaceBegins ==
    ASSUME Init
    PROVE  WorkspaceInv
<1>1. /\ \A f \in Flows : flow[f].user = "none" /\ flow[f].pc = "idle"
      /\ \A k \in Keys : keys[k].old = 0
      /\ \A j \in Jobs : purge[j].pc = "idle" /\ ~purge[j].full
      BY DEF Init, NoFlow, Unminted, NoPurge
<1>2. LinksOnce
      BY <1>1 DEF LinksOnce, OneFlowPerLink, Consumption
<1>3. OldKeysDie
      BY <1>1 DEF OldKeysDie, NeverTwoKeys, Retired
<1>4. PurgeTimes
      BY <1>1 DEF PurgeTimes, Jobs
<1> QED BY <1>2, <1>3, <1>4, TypeBegins, CustodyBegins, NoStaleBegins
        DEF WorkspaceInv

LEMMA WorkspaceInvKept ==
    ASSUME WorkspaceInv, [Moves]_vars
    PROVE  WorkspaceInv'
BY TypeKept, LinksOnceKept, OldKeysDieKept, PurgeTimesKept, CustodyKept, NoStaleKept
   DEF WorkspaceInv

LEMMA WorkspaceSuffices ==
    ASSUME WorkspaceInv
    PROVE  TypeOK /\ NoOlderKey /\ OneFlowPerLink /\ NeverTwoKeys /\ KeysAccountedFor
<1>1. TypeOK
      BY DEF WorkspaceInv, TypeInv, ProviderInv, SetupInv, TeardownInv, ScenarioOK,
             TypeOK
<1>2. NoOlderKey
      BY DEF WorkspaceInv, TypeInv, ProviderInv, ProviderOK, Lookups, Results, NoStale,
             AllSound, Sound, SoundAlone, NoOlderKey
<1> QED BY <1>1, <1>2, CustodyAccounts DEF WorkspaceInv, LinksOnce, OldKeysDie

=============================================================================
