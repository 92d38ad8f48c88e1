---------------------------- MODULE SessionStore ----------------------------
(***************************************************************************)
(* The Discord session store (gateway-session-store.js) of the gateway     *)
(* replicas and the one row they share.  Each process keeps a mirror it    *)
(* reads from the row once, at boot.  The replica that has the WebSocket   *)
(* updates its mirror with every dispatch and writes it to the row without *)
(* waiting, at most once per throttle window; DynamoDB applies the writes  *)
(* that are in flight in any order.  A process ends with a final flush     *)
(* (graceful shutdown) or without one (push handoff, crash).               *)
(***************************************************************************)
EXTENDS Naturals, Sequences, SequencesExt

CONSTANTS
    Replica,
    None,          \* no replica
    NoSession,     \* no row, an empty mirror, the write that deletes the row
    MaxSession,    \* bound: sessions Discord gives out
    MaxSequence,   \* bound: dispatches of a session
    MaxWrites      \* bound: writes a process has in flight

Session == [id : 1 .. MaxSession, seq : 1 .. MaxSequence]

ASSUME ReplicaAssumption == None \notin Replica
ASSUME SessionAssumption == NoSession \notin Session
ASSUME BoundAssumption ==
    {MaxSession, MaxWrites} \subseteq Nat /\ MaxSequence \in Nat \ {0}

VARIABLES
    life,        \* stage of each process
    mirror,
    written,     \* lastWrittenSessionId; 0 is null
    throttled,   \* less than writeThrottleMs since lastWriteAt
    timer,       \* pendingFlush
    writes,      \* inFlightWrites
    row,         \* the session row
    connected,   \* the replica with the WebSocket
    session,     \* id of the session Discord would resume; 0 before any
    saved,       \* history: what each process last set out to write
    alone        \* history: no other process has been up since it booted

store == <<mirror, written, throttled, timer, saved>>
vars == <<life, store, writes, row, connected, session, alone>>

TypeOK ==
    /\ life \in [Replica -> {"off", "up", "flushing", "final", "flushed"}]
    /\ mirror \in [Replica -> Session \cup {NoSession}]
    /\ written \in [Replica -> 0 .. MaxSession]
    /\ throttled \in [Replica -> BOOLEAN]
    /\ timer \in [Replica -> {"none", "armed", "due"}]
    /\ writes \in [Replica -> Seq(Session \cup {NoSession})]
    /\ \A r \in Replica : Len(writes[r]) <= MaxWrites
    /\ row \in Session \cup {NoSession}
    /\ connected \in Replica \cup {None}
    /\ session \in 0 .. MaxSession
    /\ saved \in [Replica -> Session \cup {NoSession}]
    /\ alone \in [Replica -> BOOLEAN]

Init ==
    /\ life = [r \in Replica |-> "off"]
    /\ mirror = [r \in Replica |-> NoSession]
    /\ written = [r \in Replica |-> 0]
    /\ throttled = [r \in Replica |-> FALSE]
    /\ timer = [r \in Replica |-> "none"]
    /\ writes = [r \in Replica |-> <<>>]
    /\ row = NoSession
    /\ connected = None
    /\ session = 0
    /\ saved = [r \in Replica |-> NoSession]
    /\ alone = [r \in Replica |-> FALSE]

Down(r) == life[r] \in {"off", "flushed"}

Quiet(r) == Down(r) /\ writes[r] = <<>>

-----------------------------------------------------------------------------
(* The store's operations, as the process that runs them.                  *)

\* hydrate: the row, or a cold start if it is absent, malformed or cannot be
\* read.  lastWriteAt is 0, so the first update is written at once.
Boot(r) ==
    /\ Quiet(r)
    /\ life' = [life EXCEPT ![r] = "up"]
    /\ \E found \in {row, NoSession} :
           /\ mirror' = [mirror EXCEPT ![r] = found]
           /\ saved' = [saved EXCEPT ![r] = found]
           /\ written' = [written EXCEPT
                  ![r] = IF found = NoSession THEN 0 ELSE found.id]
    /\ throttled' = [throttled EXCEPT ![r] = FALSE]
    /\ timer' = [timer EXCEPT ![r] = "none"]
    /\ alone' = [q \in Replica |-> q = r /\ \A p \in Replica : Quiet(p)]
    /\ UNCHANGED <<writes, row, connected, session>>

\* A write is fired and not awaited.
Fire(r, write) ==
    /\ Len(writes[r]) < MaxWrites
    /\ writes' = [writes EXCEPT ![r] = Append(@, write)]
    /\ saved' = [saved EXCEPT ![r] = write]
    /\ throttled' = [throttled EXCEPT ![r] = TRUE]
    /\ written' = [written EXCEPT
           ![r] = IF write = NoSession THEN 0 ELSE write.id]

\* Mutant: an immediate write leaves the pending flush timer running.
UpdateKeepsTimer(r, info) ==
    /\ life[r] = "up"
    /\ mirror' = [mirror EXCEPT ![r] = info]
    /\ \/ /\ info.id # written[r] \/ ~throttled[r]
          /\ UNCHANGED timer
          /\ Fire(r, info)
       \/ /\ info.id = written[r] /\ throttled[r]
          /\ timer' = [timer EXCEPT ![r] = IF @ = "none" THEN "armed" ELSE @]
          /\ UNCHANGED <<writes, saved, throttled, written>>

\* Mutant: an update inside the throttle window schedules nothing.
UpdateForgets(r, info) ==
    /\ life[r] = "up"
    /\ mirror' = [mirror EXCEPT ![r] = info]
    /\ \/ /\ info.id # written[r] \/ ~throttled[r]
          /\ timer' = [timer EXCEPT ![r] = "none"]
          /\ Fire(r, info)
       \/ /\ info.id = written[r] /\ throttled[r]
          /\ UNCHANGED <<timer, writes, saved, throttled, written>>

\* updateSessionInfo(info): at once for a new session or outside the
\* throttle window, else by the flush timer.
Update(r, info) ==
    /\ life[r] = "up"
    /\ mirror' = [mirror EXCEPT ![r] = info]
    /\ \/ /\ info.id # written[r] \/ ~throttled[r]
          /\ timer' = [timer EXCEPT ![r] = "none"]
          /\ Fire(r, info)
       \/ /\ info.id = written[r] /\ throttled[r]
          /\ timer' = [timer EXCEPT ![r] = IF @ = "none" THEN "armed" ELSE @]
          /\ UNCHANGED <<writes, saved, throttled, written>>

\* updateSessionInfo(null): Discord rejected the RESUME.
NullClear(r) ==
    /\ life[r] = "up"
    /\ mirror' = [mirror EXCEPT ![r] = NoSession]
    /\ timer' = [timer EXCEPT ![r] = "none"]
    /\ Fire(r, NoSession)

\* The timer is set to the end of the window of the last write.
ThrottleExpires(r) ==
    /\ life[r] = "up"
    /\ throttled[r]
    /\ throttled' = [throttled EXCEPT ![r] = FALSE]
    /\ timer' = [timer EXCEPT ![r] = IF @ = "armed" THEN "due" ELSE @]
    /\ UNCHANGED <<life, mirror, written, saved, writes, row, connected,
                   session, alone>>

FlushTimerFires(r) ==
    /\ life[r] = "up"
    /\ timer[r] = "due"
    /\ timer' = [timer EXCEPT ![r] = "none"]
    /\ IF mirror[r] = NoSession
       THEN UNCHANGED <<writes, saved, throttled, written>>
       ELSE Fire(r, mirror[r])
    /\ UNCHANGED <<life, mirror, row, connected, session, alone>>

Lost(r) == IF connected = r THEN None ELSE connected

\* flushFinal, through the shim's stop(): no update is taken any more.
FlushFinal(r) ==
    /\ life[r] = "up"
    /\ life' = [life EXCEPT ![r] = "flushing"]
    /\ timer' = [timer EXCEPT ![r] = "none"]
    /\ UNCHANGED <<mirror, written, throttled, saved, writes, row, connected,
                   session, alone>>

\* Mutant: the final write does not wait for those in flight.
WritesSettledNow(r) ==
    /\ life[r] = "flushing"
    /\ life' = [life EXCEPT
           ![r] = IF mirror[r] = NoSession THEN "flushed" ELSE "final"]
    /\ connected' = IF mirror[r] = NoSession THEN Lost(r) ELSE connected
    /\ UNCHANGED <<store, writes, row, session, alone>>

\* All writes in flight have settled; an empty mirror is not written.
WritesSettled(r) ==
    /\ life[r] = "flushing"
    /\ writes[r] = <<>>
    /\ life' = [life EXCEPT
           ![r] = IF mirror[r] = NoSession THEN "flushed" ELSE "final"]
    /\ connected' = IF mirror[r] = NoSession THEN Lost(r) ELSE connected
    /\ UNCHANGED <<store, writes, row, session, alone>>

\* The final put succeeds, or fails and is logged; then the process exits.
FinalPutReturns(r) ==
    /\ life[r] = "final"
    /\ \/ row' = mirror[r] /\ life' = [life EXCEPT ![r] = "flushed"]
       \/ UNCHANGED row /\ life' = [life EXCEPT ![r] = "off"]
    /\ connected' = Lost(r)
    /\ UNCHANGED <<store, writes, session, alone>>

\* The push handoff exits without a flush; so does a crash, a hard exit.
ExitsUnflushed(r) ==
    /\ ~Down(r)
    /\ life' = [life EXCEPT ![r] = "off"]
    /\ connected' = Lost(r)
    /\ UNCHANGED <<store, writes, row, session, alone>>

-----------------------------------------------------------------------------
(* DynamoDB and Discord.                                                   *)

\* Writes in flight are applied in any order, after the process has gone too.
WriteApplies(r) ==
    \E k \in DOMAIN writes[r] :
        /\ row' = writes[r][k]
        /\ writes' = [writes EXCEPT ![r] = RemoveAt(@, k)]
        /\ UNCHANGED <<life, store, connected, session, alone>>

WriteFails(r) ==
    \E k \in DOMAIN writes[r] :
        /\ writes' = [writes EXCEPT ![r] = RemoveAt(@, k)]
        /\ UNCHANGED <<life, store, row, connected, session, alone>>

\* The replica with the lock opens the WebSocket.
Connects(r) ==
    /\ life[r] = "up"
    /\ connected = None
    /\ connected' = r
    /\ UNCHANGED <<life, store, writes, row, session, alone>>

\* Mutant: the sequence of READY itself is not counted.
ReadyUncounted(r) ==
    /\ connected = r
    /\ mirror[r] = NoSession
    /\ session < MaxSession
    /\ session' = session + 1
    /\ Update(r, [id |-> session + 1, seq |-> 0])
    /\ UNCHANGED <<life, row, connected, alone>>

\* IDENTIFY, when the mirror is empty: READY opens a new session.
Ready(r) ==
    /\ connected = r
    /\ mirror[r] = NoSession
    /\ session < MaxSession
    /\ session' = session + 1
    /\ Update(r, [id |-> session + 1, seq |-> 1])
    /\ UNCHANGED <<life, row, connected, alone>>

\* RESUMED, a replayed or a live dispatch.
Dispatch(r) ==
    /\ connected = r
    /\ mirror[r] # NoSession
    /\ mirror[r].id = session
    /\ mirror[r].seq < MaxSequence
    /\ Update(r, [mirror[r] EXCEPT !.seq = @ + 1])
    /\ UNCHANGED <<life, row, connected, session, alone>>

ResumeRejected(r) ==
    /\ connected = r
    /\ mirror[r] # NoSession
    /\ NullClear(r)
    /\ UNCHANGED <<life, row, connected, session, alone>>

Next ==
    \E r \in Replica :
        \/ Boot(r) \/ ThrottleExpires(r) \/ FlushTimerFires(r)
        \/ FlushFinal(r) \/ WritesSettled(r) \/ FinalPutReturns(r)
        \/ ExitsUnflushed(r)
        \/ WriteApplies(r) \/ WriteFails(r)
        \/ Connects(r) \/ Ready(r) \/ Dispatch(r) \/ ResumeRejected(r)

Spec == Init /\ [][Next]_vars

-----------------------------------------------------------------------------
(* Properties.                                                             *)

\* No update is forgotten: what the mirror has and no write was fired for
\* is waiting for the flush timer, however updates, null-clears, timers and
\* immediate writes follow each other (contract 3, lines 30-35).
UnsavedHasTimer ==
    \A r \in Replica :
        life[r] = "up" => mirror[r] = saved[r] \/ timer[r] # "none"

\* Inside a throttle window nothing of the session last written is written
\* again (contract 3: a scheduled flush is cancelled by an immediate write,
\* so the dispatch rate never becomes the write rate).
ThrottleHolds ==
    [][\A r \in Replica :
           Len(writes'[r]) > Len(writes[r]) /\ throttled[r]
               => LET write == Last(writes'[r])
                  IN  write = NoSession \/ write.id # written[r]]_vars

\* After the final flush of a process that was alone, the row is its mirror
\* and stays so: none of its earlier writes is applied later (contract 4,
\* flushFinal's wait for the writes in flight).
FlushedRowIsMirror ==
    \A r \in Replica :
        life[r] = "flushed" /\ alone[r] /\ mirror[r] # NoSession
            => row = mirror[r]

\* gateway-session-store.js lines 37-39: the final flush writes the current
\* state so the next process's hydrate sees the latest sequence; it never
\* puts an older session or sequence over a newer one.
Older(s, t) ==
    /\ t # NoSession
    /\ s = NoSession \/ s.id < t.id \/ (s.id = t.id /\ s.seq < t.seq)

FlushKeepsLatest ==
    [][\A r \in Replica :
           life[r] = "final" /\ life'[r] = "flushed" => ~Older(row', row)]_vars
=============================================================================
