------------------------------- MODULE TtlCache -------------------------------
(***************************************************************************)
(* The TTL cache with single flight of internal/ttlcache, seen at one key. *)
(* An entry and a call in flight are each {} or one element; a call is     *)
(* known by who owns it.  The generation is what keeps a fill that was     *)
(* detached by an invalidation from being cached when it ends.             *)
(***************************************************************************)
EXTENDS Naturals

EmptyCache == [entry |-> {}, call |-> {}, gen |-> 0]

Cached(c) == CHOOSE e \in c.entry : TRUE
CallOwner(c) == CHOOSE a \in c.call : TRUE

\* The sweep of an expired entry.
Swept(c, expired) == IF expired THEN [c EXCEPT !.entry = {}] ELSE c

Started(c, a) == [c EXCEPT !.call = {a}]

\* result is {} when it is not to be cached.
Finished(c, a, result, gen) ==
    [c EXCEPT !.entry = IF result # {} /\ c.gen = gen THEN result ELSE @,
              !.call = @ \ {a}]

\* Mutant: the fill in flight stays joinable.
InvalidatedKeepingCall(c) ==
    [entry |-> {}, call |-> c.call, gen |-> c.gen + 1]

Invalidated(c) == [entry |-> {}, call |-> {}, gen |-> c.gen + 1]

Matches(c, token) == \E e \in c.entry : e.ver = token

InvalidatedIf(c, token) == IF Matches(c, token) THEN Invalidated(c) ELSE c

Seeded(c, e) == [Invalidated(c) EXCEPT !.entry = {e}]
=============================================================================
