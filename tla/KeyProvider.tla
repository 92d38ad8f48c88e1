----------------------------- MODULE KeyProvider -----------------------------
(***************************************************************************)
(* The workspace_state row and the key lookups of auth.DDBProvider, for    *)
(* one workspace and several server processes.  An ordinary read of the    *)
(* table may be stale; a lookup is joined by others of its process, and a  *)
(* cached key is checked against the table before it is used.              *)
(*                                                                         *)
(* Time is the number of stamped writes so far.  A key is identified in    *)
(* the cache by the write of its ciphertext, ver; a deletion has one too.  *)
(* The cache and the strong-read marker live for five minutes, longer than *)
(* a replica lags: neither lapses before the replica has caught up.        *)
(***************************************************************************)
EXTENDS TtlCache

CONSTANTS
    Processes,
    Actors,         \* who looks a key up
    MaxKeys,        \* bound: keys are 1 .. MaxKeys, 0 is no key
    Accounts,
    RecheckLimit    \* apiKeyValidationRecheckLimit

VARIABLES
    clock,       \* the time of the latest stamped write
    row,         \* the workspace_state row
    replica,     \* the row as a stale read returns it
    cache,       \* per process
    strong,      \* {} or {ver}: reads are strong until the replica has ver
    checking,    \* {} or the validation in flight, [ver, owner, held]
    known,       \* the latest write this process finished making
    lookup       \* per actor

providerVars == <<clock, row, replica, cache, strong, checking, known, lookup>>

ASSUME ProviderAssumption ==
    /\ Processes # {}
    /\ MaxKeys \in Nat \ {0} /\ RecheckLimit \in Nat
    /\ "none" \notin Accounts

NoRow == [key |-> 0, ident |-> FALSE, acct |-> "none", ver |-> 0, bot |-> 0,
          stamp |-> 0]
Failure == [status |-> "error", key |-> 0, ver |-> 0]
Outcome(key, ver) ==
    [status |-> IF key = 0 THEN "none" ELSE "key", key |-> key, ver |-> ver]

\* held and stray are for the properties alone: a check is held when the entry
\* it is of was still there as it began, and a lookup strays when it joins,
\* after its verdict, a check that was not.
NoLookup(p) ==
    [pc |-> "idle", proc |-> p, on |-> {}, gen |-> 0, strong |-> FALSE,
     token |-> 0, verdict |-> "none", result |-> Failure, rechecks |-> 0,
     shared |-> 0, retried |-> 0, floor |-> 0, fell |-> FALSE, stray |-> FALSE]

Rows == [key : 0 .. MaxKeys, ident : BOOLEAN, acct : Accounts \cup {"none"},
         ver : Nat, bot : Nat, stamp : Nat]
Entries == [key : 1 .. MaxKeys, ver : Nat, at : Nat]
Checks == [ver : Nat, owner : Actors, held : BOOLEAN]
Results == [status : {"key", "none", "ctx", "error"}, key : 0 .. MaxKeys,
            ver : Nat]
Lookups ==
    [pc : {"idle", "look", "wait", "read", "finish", "check", "join", "verify",
           "answer", "judge", "done"},
     proc : Processes, on : SUBSET Actors, gen : Nat, strong : BOOLEAN,
     token : Nat, verdict : {"none", "current", "stale", "error", "ctx"},
     result : Results,
     rechecks : 0 .. RecheckLimit, shared : 0 .. 1, retried : 0 .. 1,
     floor : Nat, fell : BOOLEAN, stray : BOOLEAN]

\* Nothing is stamped, and no version made, after now.
ProviderOK ==
    /\ clock \in Nat
    /\ row \in Rows
    /\ row.ver <= clock /\ row.bot <= clock /\ row.stamp <= clock
    /\ replica \in [key : 0 .. MaxKeys, ver : 0 .. clock]
    /\ cache \in [Processes -> [entry : SUBSET Entries, call : SUBSET Actors,
                               gen : Nat]]
    /\ strong \in [Processes -> SUBSET (0 .. clock)]
    /\ checking \in [Processes -> SUBSET Checks]
    /\ known \in [Processes -> 0 .. clock]
    /\ lookup \in [Actors -> Lookups]

Catches == replica' = [key |-> row.key, ver |-> row.ver]

ReplicaCatchesUp ==
    /\ Catches
    /\ replica' # replica
    /\ UNCHANGED <<clock, row, cache, strong, checking, known, lookup>>

Caught(ver) == replica.ver >= ver

-----------------------------------------------------------------------------
(* A lookup: DDBProvider.APIKey.                                           *)

LookupBegins(a, p) ==
    /\ lookup[a].pc = "idle"
    /\ lookup' = [lookup EXCEPT ![a] = [NoLookup(p) EXCEPT !.pc = "look",
                                                           !.floor = known[p]]]
    /\ UNCHANGED <<clock, row, replica, cache, strong, checking, known>>

At(a, pc) == lookup[a].pc = pc
Proc(a) == lookup[a].proc

\* Dropping an entry drops the validation of it.
Unchecked(p) == IF cache[p].entry = {} THEN checking[p] ELSE {}

Recheck(l) ==
    IF l.rechecks >= RecheckLimit
        THEN [l EXCEPT !.pc = "done", !.result = Failure]
        ELSE [l EXCEPT !.pc = "look", !.rechecks = @ + 1, !.stray = FALSE]

\* getOrStartAPIKeyLookup; an entry or a marker may have outlived its term.
Look(a) ==
    LET p == Proc(a) IN
    /\ At(a, "look")
    /\ \E expired \in BOOLEAN, lapsed \in BOOLEAN :
        /\ expired => \E e \in cache[p].entry : Caught(e.at)
        /\ lapsed => \E v \in strong[p] : Caught(v)
        /\ LET c == Swept(cache[p], expired)
               marker == IF lapsed THEN {} ELSE strong[p]
           IN /\ strong' = [strong EXCEPT ![p] = marker]
              /\ checking' = [checking EXCEPT ![p] = IF expired THEN {} ELSE @]
              /\ \/ /\ c.entry # {}
                    /\ cache' = [cache EXCEPT ![p] = c]
                    /\ lookup' = [lookup EXCEPT ![a].pc = "check",
                                     ![a].token = Cached(c).ver,
                                     ![a].result = Outcome(Cached(c).key,
                                                           Cached(c).ver)]
                 \/ /\ c.entry = {} /\ c.call # {}
                    /\ cache' = [cache EXCEPT ![p] = c]
                    /\ lookup' = [lookup EXCEPT ![a].pc = "wait",
                                                ![a].on = c.call]
                 \/ /\ c.entry = {} /\ c.call = {}
                    /\ cache' = [cache EXCEPT ![p] = Started(c, a)]
                    /\ lookup' = [lookup EXCEPT ![a].pc = "read",
                                                ![a].gen = c.gen,
                                                ![a].strong = (marker # {})]
    /\ UNCHANGED <<clock, row, replica, known>>

HasRead(a, outcome) ==
    /\ lookup' = [lookup EXCEPT ![a].pc = "finish", ![a].result = outcome]
    /\ UNCHANGED <<clock, row, replica, cache, strong, checking, known>>

Read(a) ==
    /\ At(a, "read")
    /\ \/ HasRead(a, Outcome(row.key, row.ver))
       \/ ~lookup[a].strong /\ HasRead(a, Outcome(replica.key, replica.ver))

\* The read or the decryption fails, or its caller's context ended.
ReadFails(a) ==
    /\ At(a, "read")
    /\ \E s \in {"error", "ctx"} :
           HasRead(a, [Failure EXCEPT !.status = s])

Waiting(a, b) == lookup[b].on = {a} /\ lookup[b].pc \in {"wait", "join"}

\* What the owner found, as one who waited for it takes it.
Shared(l, result) ==
    IF result.status = "ctx" /\ l.shared = 0
        THEN [l EXCEPT !.pc = "look", !.on = {}, !.shared = 1]
        ELSE [l EXCEPT !.pc = "done", !.on = {}, !.result = result]

Releases(a, waiters) ==
    LET p == Proc(a)
        l == lookup[a]
        kept == IF l.result.status = "key"
                    THEN {[key |-> l.result.key, ver |-> l.result.ver,
                           at |-> row.ver]}
                    ELSE {}
    IN
    /\ At(a, "finish")
    /\ cache' = [cache EXCEPT ![p] = Finished(@, a, kept, l.gen)]
    /\ lookup' = [b \in Actors |->
                     CASE b = a        -> [l EXCEPT !.pc = "done"]
                       [] b \in waiters -> Shared(lookup[b], l.result)
                       [] OTHER        -> lookup[b]]
    /\ checking' = [checking EXCEPT ![p] =
                       IF cache'[p].entry # cache[p].entry THEN Unchecked(p)
                                                           ELSE @]
    /\ UNCHANGED <<clock, row, replica, strong, known>>

\* Mutant: only the fill still in flight releases those who wait for it.
FinishIfInFlight(a) ==
    Releases(a, {b \in Actors : Waiting(a, b) /\ a \in cache[Proc(a)].call})

Finish(a) == Releases(a, {b \in Actors : Waiting(a, b)})

-----------------------------------------------------------------------------
(* A hit: the cached key is checked against the table, once for all who    *)
(* ask about the same ciphertext.                                          *)

Strays(v) == ~v.held /\ At(v.owner, "answer")

Check(a) ==
    LET p == Proc(a)
        token == lookup[a].token
        same == {v \in checking[p] : v.ver = token}
    IN
    /\ At(a, "check")
    /\ \/ /\ same # {}
          /\ lookup' = [lookup EXCEPT ![a].pc = "join",
                           ![a].on = {v.owner : v \in same},
                           ![a].stray = \E v \in same : Strays(v)]
          /\ UNCHANGED checking
       \/ /\ same = {}
          /\ checking' = [checking EXCEPT ![p] =
                             {[ver |-> token, owner |-> a,
                               held |-> Matches(cache[p], token)]}]
          /\ lookup' = [lookup EXCEPT ![a].pc = "verify"]
    /\ UNCHANGED <<clock, row, replica, cache, strong, known>>

HasVerified(a, verdict) ==
    /\ lookup' = [lookup EXCEPT ![a].pc = "answer", ![a].verdict = verdict]
    /\ UNCHANGED <<clock, row, replica, cache, strong, checking, known>>

Verify(a) ==
    /\ At(a, "verify")
    /\ HasVerified(a, IF row.key # 0 /\ row.ver = lookup[a].token
                          THEN "current" ELSE "stale")

VerifyFails(a) ==
    /\ At(a, "verify")
    /\ \E s \in {"error", "ctx"} : HasVerified(a, s)

Answer(a) ==
    LET p == Proc(a) IN
    /\ At(a, "answer")
    /\ checking' = [checking EXCEPT ![p] = {v \in @ : v.owner # a}]
    /\ lookup' = [b \in Actors |->
                     IF b = a \/ Waiting(a, b)
                         THEN [lookup[b] EXCEPT !.pc = "judge", !.on = {},
                                  !.verdict = lookup[a].verdict]
                         ELSE lookup[b]]
    /\ UNCHANGED <<clock, row, replica, cache, strong, known>>

\* apiKeyFromValidatedCache, from the verdict to the answer or the next try.
Judge(a) ==
    LET p == Proc(a)
        l == lookup[a]
        local == Matches(cache[p], l.token)
        evicts == l.verdict = "stale" /\ local
        again == [l EXCEPT !.verdict = "none"]
        retries == l.verdict = "ctx" /\ l.retried = 0
        next == CASE retries -> [again EXCEPT !.pc = "look", !.retried = 1,
                                              !.stray = FALSE]
                  [] l.verdict = "current" /\ local -> [l EXCEPT !.pc = "done"]
                  [] l.verdict \in {"ctx", "error"} /\ local /\ ~retries
                          -> [l EXCEPT !.pc = "done", !.fell = TRUE]
                  [] OTHER -> Recheck(again)
    IN
    /\ At(a, "judge")
    /\ cache' = [cache EXCEPT ![p] = IF evicts THEN InvalidatedIf(@, l.token)
                                               ELSE @]
    /\ strong' = [strong EXCEPT ![p] = IF evicts THEN {row.ver} ELSE @]
    /\ checking' = [checking EXCEPT ![p] = IF evicts THEN {} ELSE @]
    /\ lookup' = [lookup EXCEPT ![a] = next]
    /\ UNCHANGED <<clock, row, replica, known>>

\* The caller's own context ends while it waits.
GivesUp(a) ==
    /\ lookup[a].pc \in {"wait", "join"}
    /\ lookup' = [lookup EXCEPT ![a].pc = "done", ![a].on = {},
                                ![a].result = Failure]
    /\ UNCHANGED <<clock, row, replica, cache, strong, checking, known>>

LookupStep(a) ==
    \/ Look(a) \/ Read(a) \/ Finish(a)
    \/ Check(a) \/ Verify(a) \/ Answer(a) \/ Judge(a)

LookupFault(a) == ReadFails(a) \/ VerifyFails(a) \/ GivesUp(a)

-----------------------------------------------------------------------------
(* The writes of the row, and what the writing process then does to its    *)
(* cache.  The two are apart: others act in between.                       *)

Stamped(r) ==
    /\ clock' = clock + 1
    /\ row' = [r EXCEPT !.stamp = clock + 1]

\* setAPIKey: the key columns, the rest of the row kept.
StoreKey(k, acct) ==
    Stamped([row EXCEPT !.key = k, !.ident = TRUE, !.acct = acct,
                        !.ver = clock + 1])

\* SetInitialAPIKeyWithMetadata's condition.
MayStoreFirst(k) == row.key = 0 \/ ~row.ident \/ row.key = k

\* DeleteAPIKey, whose condition is that there is something to remove.
ClearKey ==
    /\ row.key # 0
    /\ Stamped([row EXCEPT !.key = 0, !.ident = FALSE, !.acct = "none",
                           !.ver = clock + 1])

\* SetSlackBotToken.
StoreBotToken == Stamped([row EXCEPT !.bot = clock + 1])

MayDelete(cutoff) == row.stamp <= cutoff

\* deleteWorkspaceState, guarded by the purge's cutoff.
DeleteRow(cutoff) ==
    /\ MayDelete(cutoff)
    /\ IF row.stamp = 0
           THEN UNCHANGED <<clock, row>>
           ELSE /\ clock' = clock + 1
                /\ row' = [NoRow EXCEPT !.ver = clock + 1]

\* seedAPIKeyCache, by the process that wrote ver.
SeedKey(p, k, ver) ==
    /\ cache' = [cache EXCEPT ![p] =
                    Seeded(@, [key |-> k, ver |-> ver, at |-> row.ver])]
    /\ strong' = [strong EXCEPT ![p] = {}]
    /\ checking' = [checking EXCEPT ![p] = Unchecked(p)]
    /\ known' = [known EXCEPT ![p] = IF ver > @ THEN ver ELSE @]

\* invalidateAPIKeyCache, by the process that saw the row at ver.
ForgetKey(p, ver) ==
    /\ cache' = [cache EXCEPT ![p] = Invalidated(@)]
    /\ strong' = [strong EXCEPT ![p] = {row.ver}]
    /\ checking' = [checking EXCEPT ![p] = Unchecked(p)]
    /\ known' = [known EXCEPT ![p] = IF ver > @ THEN ver ELSE @]

LookedUp(a) == lookup[a].pc = "done"
LookupTaken(a) == lookup' = [lookup EXCEPT ![a] = NoLookup(Proc(a))]
=============================================================================
