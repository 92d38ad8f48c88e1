---------------------------- MODULE WorkspaceSetup ----------------------------
(***************************************************************************)
(* /qurl setup: the slash command that mints a link, the OAuth callback    *)
(* that consumes it, binds the workspace to its caller, and reuses, mints  *)
(* or rotates the workspace's qURL key.  The keys themselves live at       *)
(* qurl-service, which is modelled from what the code asks of it: a mint   *)
(* may be replayed by its idempotency key, which is scoped to an account.  *)
(***************************************************************************)
EXTENDS KeyProvider

CONSTANTS
    Flows,    \* browser sessions
    Links,
    Users

VARIABLES
    links,      \* the stored OAuth states
    mapping,    \* the workspace_mappings row
    mapReplica, \* its owner as a stale read returns it
    flow,
    keys,       \* qurl-service's keys
    bindings,   \* qurl-service has external bindings; fixed
    binding,    \* {} or qurl-service's external binding, [acct, key]
    orphans,    \* keys whose revocation was started and not waited for
    released    \* keys given up in the open: by an event, a log or a reply

ASSUME SetupAssumption == /\ "none" \notin Links
                          /\ "none" \notin Users /\ "legacy" \notin Users

setupVars == <<links, mapping, mapReplica, flow, keys, bindings, binding,
               orphans, released>>

Modes == {"reuse", "rotate", "repoint"}
Keys == 1 .. MaxKeys
Owners == Users \cup {"none", "legacy"}

\* The row, written now: its owner, the stamp purges go by (attrUpdatedAtNano) and
\* the time of its last write (attrUpdatedAt).
Mapped(owner, now) == [owner |-> owner, stamp |-> now, updated |-> now]
Unminted == [state |-> "none", acct |-> "none", via |-> "none", old |-> 0]
NoLink == [state |-> "none", user |-> "none", mode |-> "reuse"]

FlowPcs == {"idle", "start", "callback", "bind", "whose", "reclaim", "key",
            "lookup", "validate", "ident", "identity", "revoke", "confirm",
            "replace", "mint", "persist", "seed", "done"}

\* done tells whether the flow ended in the success page.
NoFlow == [pc |-> "idle", proc |-> CHOOSE p \in Processes : TRUE,
           link |-> "none", user |-> "none", mode |-> "reuse",
           acct |-> "none", key |-> 0, old |-> 0, backed |-> FALSE, wrote |-> 0]

LinkRows == [state : {"none", "minted", "started", "used", "expired"},
             user : Users \cup {"none"}, mode : Modes]
FlowRows ==
    [pc : FlowPcs, proc : Processes, link : Links \cup {"none"},
     user : Users \cup {"none"}, mode : Modes, acct : Accounts \cup {"none"},
     key : 0 .. MaxKeys, old : 0 .. MaxKeys, backed : BOOLEAN, wrote : Nat]
KeyRows == [state : {"none", "live", "revoked"}, acct : Accounts \cup {"none"},
            via : {"none", "binding", "legacy", "replacement"},
            old : 0 .. MaxKeys]

SetupOK ==
    /\ links \in [Links -> LinkRows]
    /\ mapping \in [owner : Owners, stamp : 0 .. clock, updated : 0 .. clock]
    /\ mapReplica \in Owners
    /\ flow \in [Flows -> FlowRows]
    /\ \A f \in Flows : flow[f].wrote <= clock
    /\ keys \in [Keys -> KeyRows]
    /\ bindings \in BOOLEAN
    /\ binding \subseteq [acct : Accounts, key : Keys]
    /\ orphans \subseteq Keys
    /\ released \subseteq Keys

MappingCatchesUp ==
    /\ mapReplica' = mapping.owner
    /\ mapReplica' # mapReplica
    /\ UNCHANGED <<links, mapping, flow, keys, bindings,
                   binding, orphans, released>>

-----------------------------------------------------------------------------
(* The link.                                                               *)

\* handleSetup: the owner gate reads a stale owner and is only a first sieve.
MintLink(l, user, mode) ==
    /\ links[l].state = "none"
    /\ \E owner \in {mapping.owner, mapReplica} :
           \/ owner \in {"none", user}
           \/ owner = "legacy" /\ mode = "reuse"
    /\ links' = [links EXCEPT ![l] = [state |-> "minted", user |-> user,
                                      mode |-> mode]]
    /\ UNCHANGED <<mapping, mapReplica, flow, keys, bindings,
                   binding, orphans, released>>

LinkExpires(l) ==
    /\ links[l].state \in {"minted", "started"}
    /\ links' = [links EXCEPT ![l].state = "expired"]
    /\ UNCHANGED <<mapping, mapReplica, flow, keys, bindings,
                   binding, orphans, released>>

Goes(f, pc) == flow' = [flow EXCEPT ![f].pc = pc]
Ends(f) == Goes(f, "done")
In(f, pc) == flow[f].pc = pc

\* Start and StartState: more than one browser may start a link.
StartLink(f, l, p) ==
    /\ In(f, "idle")
    /\ links[l].state \in {"minted", "started"}
    /\ links' = [links EXCEPT ![l].state = "started"]
    /\ flow' = [flow EXCEPT ![f] = [NoFlow EXCEPT !.pc = "callback",
                                                  !.proc = p, !.link = l]]
    /\ UNCHANGED <<mapping, mapReplica, keys, bindings,
                   binding, orphans, released>>

Consumed(f, acct) ==
    LET l == links[flow[f].link] IN
    flow' = [flow EXCEPT ![f].pc = "bind", ![f].user = l.user,
                         ![f].mode = l.mode, ![f].acct = acct]

\* Mutant: the state is read and not deleted.
ConsumeKeeping(f, acct) ==
    /\ In(f, "callback")
    /\ IF links[flow[f].link].state = "started"
           THEN Consumed(f, acct)
           ELSE Ends(f)
    /\ UNCHANGED <<links, mapping, mapReplica, keys, bindings,
                   binding, orphans, released>>

\* ConsumeState deletes the state before anything else is done, and then the
\* code is exchanged, or refused, for an account signed in with the link's email.
Consume(f, acct) ==
    /\ In(f, "callback")
    /\ IF links[flow[f].link].state = "started"
           THEN /\ links' = [links EXCEPT ![flow[f].link].state = "used"]
                /\ Consumed(f, acct) \/ Ends(f)
           ELSE /\ Ends(f)
                /\ UNCHANGED links
    /\ UNCHANGED <<mapping, mapReplica, keys, bindings,
                   binding, orphans, released>>

-----------------------------------------------------------------------------
(* The owner.                                                              *)

Bound(f) ==
    /\ clock' = clock + 1
    /\ mapping' = Mapped(flow[f].user, clock + 1)
    /\ Goes(f, "key")

MappingKept == UNCHANGED <<clock, mapping>>

\* BindWorkspace, to its conditional put.
Bind(f) ==
    /\ In(f, "bind")
    /\ IF mapping.owner = "none" THEN Bound(f)
                                 ELSE Goes(f, "whose") /\ MappingKept
    /\ UNCHANGED <<links, mapReplica, keys, bindings,
                   binding, orphans, released>>

\* The row is there: whose is it?
Disambiguate(f) ==
    /\ In(f, "whose")
    /\ Goes(f, CASE mapping.owner = flow[f].user -> "key"
                 [] mapping.owner = "legacy"     -> "reclaim"
                 [] OTHER                        -> "done")
    /\ MappingKept
    /\ UNCHANGED <<links, mapReplica, keys, bindings,
                   binding, orphans, released>>

\* reclaimLegacyWorkspace.
Reclaim(f) ==
    /\ In(f, "reclaim")
    /\ IF mapping.owner = "legacy" THEN Bound(f)
                                   ELSE Ends(f) /\ MappingKept
    /\ UNCHANGED <<links, mapReplica, keys, bindings,
                   binding, orphans, released>>

OwnerStep(f) ==
    /\ Bind(f) \/ Disambiguate(f) \/ Reclaim(f)
    /\ UNCHANGED <<row, replica, cache, strong, checking, known, lookup>>

-----------------------------------------------------------------------------
(* The key: what is done before one is minted.                             *)

Unminting == UNCHANGED <<links, mapping, mapReplica, keys, bindings, binding,
                         orphans, released>>

\* ensureWorkspaceAPIKey, to the first read of the row.
Ensures(f) ==
    /\ In(f, "key")
    /\ IF flow[f].mode = "reuse"
           THEN LookupBegins(f, flow[f].proc) /\ Goes(f, "lookup")
           ELSE UNCHANGED providerVars /\ Goes(f, "identity")
    /\ Unminting

\* reuseStoredWorkspaceKey, once APIKey has answered.
TakesKey(f) ==
    LET found == lookup[f].result IN
    /\ In(f, "lookup")
    /\ LookedUp(f)
    /\ LookupTaken(f)
    /\ flow' = [flow EXCEPT ![f].pc = CASE found.status = "none" -> "mint"
                                        [] found.status = "key"  -> "validate"
                                        [] OTHER                 -> "done",
                            ![f].old = found.key]
    /\ Unminting
    /\ UNCHANGED <<clock, row, replica, cache, strong, checking, known>>

Validate(f) ==
    /\ In(f, "validate")
    /\ Goes(f, IF keys[flow[f].old].state = "live" THEN "done" ELSE "ident")
    /\ Unminting
    /\ UNCHANGED providerVars

\* A key refused upstream is minted around only while it has no identity.
Identify(f) ==
    /\ In(f, "ident")
    /\ Goes(f, IF row.key # 0 /\ row.ident THEN "done" ELSE "mint")
    /\ Unminting
    /\ UNCHANGED providerVars

\* replaceWorkspaceAPIKey, on the row's identity.
Identity(f) ==
    LET mode == flow[f].mode
        other == row.acct # "none" /\ row.acct # flow[f].acct
        blank == mode = "repoint" /\ (row.acct = "none" \/ ~row.ident)
        refused == row.key # 0 /\ (other \/ blank)
        pc == CASE row.key = 0                           -> "mint"
                [] refused                               -> "done"
                [] row.key # 0 /\ row.ident /\ ~refused  -> "revoke"
                [] OTHER                                 -> "replace"
    IN
    /\ In(f, "identity")
    /\ flow' = [flow EXCEPT ![f].pc = pc,
                   ![f].old = IF row.key # 0 /\ row.ident THEN row.key ELSE 0]
    /\ Unminting
    /\ UNCHANGED providerVars

Held(f) == flow[f].old

\* qurl-service answers 404 for a dead key and for another account's.
Revocable(f) == /\ keys[Held(f)].state = "live"
                /\ keys[Held(f)].acct = flow[f].acct

Revoked(k) == keys' = [keys EXCEPT ![k].state = "revoked"]

RevokeHeld(f, then, otherwise) ==
    /\ In(f, "revoke")
    /\ IF Revocable(f) THEN Revoked(Held(f)) /\ Goes(f, then)
                       ELSE UNCHANGED keys /\ Goes(f, otherwise)
    /\ UNCHANGED <<links, mapping, mapReplica, bindings, binding, orphans,
                   released>>
    /\ UNCHANGED providerVars

Revoke(f) == RevokeHeld(f, "replace", "confirm")

\* confirmStoredKeyAlreadyRevoked: APIKeyRevoked lists the owner's own keys.
Confirm(f) ==
    /\ In(f, "confirm")
    /\ Goes(f, IF /\ keys[Held(f)].state = "revoked"
                  /\ keys[Held(f)].acct = flow[f].acct
                   THEN "replace" ELSE "done")
    /\ Unminting
    /\ UNCHANGED providerVars

KeyStep(f) == \/ Ensures(f) \/ TakesKey(f) \/ Validate(f) \/ Identify(f)
              \/ Identity(f) \/ Revoke(f) \/ Confirm(f)

-----------------------------------------------------------------------------
(* The key: minted and stored.                                             *)

Fresh == {k \in Keys : /\ keys[k].state = "none"
                       /\ \A j \in 1 .. (k - 1) : keys[j].state # "none"}

\* qurl-service makes key k, or replays it.
Made(k, acct, via, old) ==
    keys' = IF keys[k].state # "none" THEN keys
                ELSE [keys EXCEPT ![k] = [state |-> "live", acct |-> acct,
                                          via |-> via, old |-> old]]

Replays(acct, via, old) ==
    {k \in Keys : /\ keys[k].state # "none" /\ keys[k].acct = acct
                  /\ keys[k].via = via /\ keys[k].old = old}

\* The keys a replayable mint can return: at most one.
Replayed(acct, via, old) ==
    IF Replays(acct, via, old) # {} THEN Replays(acct, via, old) ELSE Fresh

Minted(f, k, backed) ==
    flow' = [flow EXCEPT ![f].pc = "persist", ![f].key = k, ![f].backed = backed]

\* The binding is the caller's own, or there is none yet.
Bindable(f) == \A b \in binding : b.acct = flow[f].acct

BindingKeys(f) ==
    IF Bindable(f) THEN Replayed(flow[f].acct, "binding", 0) ELSE {}

Binds(f, k) ==
    /\ In(f, "mint")
    /\ k \in BindingKeys(f)
    /\ Made(k, flow[f].acct, "binding", 0)
    /\ binding' = {[acct |-> flow[f].acct, key |-> k]}

\* A fresh key each time, with nothing to replay it.
MintsLegacy(f, k) ==
    /\ In(f, "mint")
    /\ k \in Fresh
    /\ Made(k, flow[f].acct, "legacy", 0)
    /\ UNCHANGED binding

\* MintWorkspaceAPIKey: bindings where qurl-service has them, refused when the
\* workspace is bound to another account.
Mint(f) ==
    /\ \/ \E k \in Keys : /\ IF bindings THEN Binds(f, k) ELSE MintsLegacy(f, k)
                          /\ Minted(f, k, bindings)
       \/ /\ In(f, "mint") /\ bindings /\ ~Bindable(f)
          /\ Ends(f)
          /\ UNCHANGED <<keys, binding>>
    /\ UNCHANGED <<links, mapping, mapReplica, bindings, orphans, released>>
    /\ UNCHANGED providerVars

Replaces(f, k) ==
    /\ In(f, "replace")
    /\ k \in Replayed(flow[f].acct, "replacement", Held(f))
    /\ Made(k, flow[f].acct, "replacement", Held(f))

\* MintWorkspaceReplacementAPIKey, replayed by the key it replaces.
MintReplacement(f) ==
    /\ \E k \in Keys : Replaces(f, k) /\ Minted(f, k, TRUE)
    /\ UNCHANGED <<links, mapping, mapReplica, bindings, binding, orphans,
                   released>>
    /\ UNCHANGED providerVars

Replacement(f) == keys[flow[f].key].via = "replacement"

Stores(f) ==
    /\ StoreKey(flow[f].key, flow[f].acct)
    /\ flow' = [flow EXCEPT ![f].pc = "seed", ![f].wrote = clock + 1]
    /\ UNCHANGED <<orphans, released>>

\* Mutant: a key that nothing replays is left behind.
AbandonsQuietly(f) == Ends(f) /\ UNCHANGED orphans

\* What becomes of a key that could not be stored: one that a retry replays
\* is kept, any other is revoked in the background.
Abandons(f) ==
    /\ orphans' = IF flow[f].backed THEN orphans
                                    ELSE orphans \cup {flow[f].key}
    /\ Ends(f)

PersistKept == /\ UNCHANGED <<links, mapping, mapReplica, keys, bindings, binding>>
               /\ UNCHANGED <<replica, cache, strong, checking, known, lookup>>

\* SetInitialAPIKeyWithMetadata, SetAPIKeyWithMetadata: only the first is
\* conditional.
Persist(f) ==
    /\ In(f, "persist")
    /\ IF Replacement(f) \/ MayStoreFirst(flow[f].key)
           THEN Stores(f)
           ELSE Abandons(f) /\ UNCHANGED <<clock, row, released>>
    /\ PersistKept

\* The process that stored the key caches it under the write it made.
Seeds(f) ==
    /\ In(f, "seed")
    /\ SeedKey(flow[f].proc, flow[f].key, flow[f].wrote)
    /\ Ends(f)
    /\ Unminting
    /\ UNCHANGED <<clock, row, replica, lookup>>

StoreStep(f) == Mint(f) \/ MintReplacement(f) \/ Persist(f) \/ Seeds(f)

-----------------------------------------------------------------------------
(* What may fail.                                                          *)

\* The call fails, for a mint at the account's key limit too, and nothing was
\* done; a link once consumed stays consumed.
FlowFails(f) ==
    /\ flow[f].pc \in {"bind", "whose", "reclaim", "validate", "ident",
                       "identity", "confirm", "mint", "replace"}
    /\ Ends(f)
    /\ Unminting
    /\ UNCHANGED providerVars

\* Mutant: a failed revocation does not stop the rotation.
RevokeFailsOn(f) ==
    /\ In(f, "revoke")
    /\ Goes(f, "replace")
    /\ Unminting
    /\ UNCHANGED providerVars

RevokeFails(f) ==
    /\ In(f, "revoke")
    /\ Ends(f)
    /\ Unminting
    /\ UNCHANGED providerVars

\* The call was served and its answer lost.
RevokeReplyLost(f) ==
    /\ In(f, "revoke")
    /\ Revocable(f)
    /\ RevokeHeld(f, "done", "done")

\* Nothing replays a key of the legacy endpoint: it is lost.
MintReplyLost(f) ==
    /\ \E k \in Keys :
           \/ Replaces(f, k) /\ UNCHANGED <<binding, released>>
           \/ bindings /\ Binds(f, k) /\ UNCHANGED released
           \/ ~bindings /\ MintsLegacy(f, k) /\ released' = released \cup {k}
    /\ Ends(f)
    /\ UNCHANGED <<links, mapping, mapReplica, bindings, orphans>>
    /\ UNCHANGED providerVars

\* The failed write may have been applied; either way it is taken for failed,
\* and a key kept for a replay is named in an event.
PersistFails(f) ==
    /\ In(f, "persist")
    /\ \/ UNCHANGED <<clock, row>>
       \/ /\ Replacement(f) \/ MayStoreFirst(flow[f].key)
          /\ StoreKey(flow[f].key, flow[f].acct)
    /\ Abandons(f)
    /\ released' = IF flow[f].backed THEN released \cup {flow[f].key}
                                     ELSE released
    /\ PersistKept

FlowFault(f) == \/ FlowFails(f) \/ RevokeFails(f) \/ RevokeReplyLost(f)
                \/ MintReplyLost(f) \/ PersistFails(f)

\* revokeOrphanKeyAsync, its one attempt: refused, it is logged.
RevokeOrphan(k, refused) ==
    /\ k \in orphans
    /\ orphans' = orphans \ {k}
    /\ IF refused THEN released' = released \cup {k} /\ UNCHANGED keys
                  ELSE Revoked(k) /\ UNCHANGED released
    /\ UNCHANGED <<links, mapping, mapReplica, flow, bindings, binding>>
    /\ UNCHANGED providerVars
=============================================================================
