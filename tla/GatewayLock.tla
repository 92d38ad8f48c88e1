---------------------------- MODULE GatewayLock ----------------------------
(***************************************************************************)
(* The DynamoDB leader lock of the gateway tier: gateway-lock.js as its    *)
(* one serialized caller per replica (gateway-leader.js) drives it.        *)
(*                                                                         *)
(* A lock call is three steps, because three parties order them: the       *)
(* replica reads its wall clock and sends a conditional write, DynamoDB    *)
(* evaluates it atomically against the row, and the replica handles the    *)
(* outcome.  In between other replicas act, time passes, and the response  *)
(* may be lost: the SDK then sends the same write again, or gives up and   *)
(* the call throws.                                                        *)
(***************************************************************************)
EXTENDS Integers

CONSTANTS
    Instance,    \* replicas, one instance_id per process
    NoRow,       \* the lock table has no row for the shard
    None,        \* no instance
    TTL,         \* lease length in seconds (DEFAULT_TTL_SECONDS)
    Skew,        \* how far each replica's wall clock is off, in seconds
    MaxClock,    \* bound: seconds a behaviour lasts
    MaxVersion   \* bound: versions a tenancy counts up to

Row == [instance : Instance, version : Nat \ {0}, expires : Int]

ASSUME RowAssumption == NoRow \notin Row
ASSUME NoneInstance == None \notin Instance
ASSUME TTLAssumption == TTL \in Nat
ASSUME SkewAssumption == Skew \in [Instance -> Int]
ASSUME BoundAssumption == MaxClock \in Nat /\ MaxVersion \in Nat

VARIABLES
    clock,     \* true time, in seconds
    row,       \* the shard's row in the lock table
    cursor,    \* currentVersion of each replica; 0 is null
    call,      \* the lock call each replica has outstanding
    retired,   \* the replica has begun the exit path (pushHandoff, exit)
    offers,    \* POST /control/yours in flight: <<peer, expected_version>>
    until      \* history: the expiry of the last write DynamoDB confirmed
               \* to the replica; in the past while there is none

vars == <<clock, row, cursor, call, retired, offers, until>>

Idle == [op |-> "idle", now |-> 0, expected |-> 0, target |-> None,
         phase |-> "none"]

Call == [op : {"acquire", "renew", "transfer", "release"},
         now : Int,                       \* wall clock read by the caller
         expected : Nat,                  \* currentVersion when it was read
         target : Instance \cup {None},   \* peer of a transfer
         phase : {"sent", "ok", "ccf"}]   \* ccf: ConditionalCheckFailed

TypeOK ==
    /\ clock \in Nat
    /\ row \in Row \cup {NoRow}
    /\ cursor \in [Instance -> Nat]
    /\ call \in [Instance -> Call \cup {Idle}]
    /\ retired \in [Instance -> BOOLEAN]
    /\ offers \subseteq Instance \X (Nat \ {0})
    /\ until \in [Instance -> Int]

LocalNow(i) == clock + Skew[i]

Init ==
    /\ clock = 0
    /\ row = NoRow
    /\ cursor = [i \in Instance |-> 0]
    /\ call = [i \in Instance |-> Idle]
    /\ retired = [i \in Instance |-> FALSE]
    /\ offers = {}
    /\ until = [i \in Instance |-> Skew[i] - 1]

-----------------------------------------------------------------------------
(* What DynamoDB does with a write: ConditionExpression and new item.      *)

\* Mutant: the acquire condition reads expires_at <= :now.
ConditionExpiredTooEarly(i, c) ==
    \/ c.op = "acquire" /\ (row = NoRow \/ row.expires <= c.now)
    \/ /\ c.op # "acquire" /\ row # NoRow /\ row.instance = i
       /\ c.op = "release" \/ row.version = c.expected

\* Mutant: a release deletes the row whoever owns it.
ConditionReleasesAny(i, c) ==
    \/ c.op = "acquire" /\ (row = NoRow \/ row.expires < c.now)
    \/ c.op = "release" /\ row # NoRow
    \/ /\ c.op \in {"renew", "transfer"} /\ row # NoRow
       /\ row.instance = i /\ row.version = c.expected

Condition(i, c) ==
    \/ /\ c.op = "acquire"
       /\ row = NoRow \/ row.expires < c.now
    \/ /\ c.op \in {"renew", "transfer"}
       /\ row # NoRow
       /\ row.instance = i
       /\ row.version = c.expected
    \/ /\ c.op = "release"
       /\ row # NoRow
       /\ row.instance = i

\* Mutant: acquire starts the tenancy at version 0, the cursor's null.
WrittenFromZero(i, c) ==
    IF c.op = "release" THEN NoRow
    ELSE [instance |-> IF c.op = "transfer" THEN c.target ELSE i,
          version  |-> IF c.op = "acquire" THEN 0 ELSE c.expected + 1,
          expires  |-> c.now + TTL]

Written(i, c) ==
    IF c.op = "release" THEN NoRow
    ELSE [instance |-> IF c.op = "transfer" THEN c.target ELSE i,
          version  |-> IF c.op = "acquire" THEN 1 ELSE c.expected + 1,
          expires  |-> c.now + TTL]

-----------------------------------------------------------------------------
(* The replica starts a call.                                              *)

Send(i, op, target) ==
    /\ call[i] = Idle
    /\ call' = [call EXCEPT ![i] = [op |-> op, now |-> LocalNow(i),
                                    expected |-> cursor[i],
                                    target |-> target, phase |-> "sent"]]
    /\ UNCHANGED <<clock, row, cursor, offers, until>>

\* A leader tick without the lock.
AcquireLock(i) ==
    /\ ~retired[i]
    /\ cursor[i] = 0
    /\ Send(i, "acquire", None)
    /\ UNCHANGED retired

\* A leader tick with the lock.  The row's own expiry is not looked at: a
\* lapsed lease nobody took is renewed.
RenewLock(i) ==
    /\ ~retired[i]
    /\ cursor[i] \in 1 .. MaxVersion - 1
    /\ Send(i, "renew", None)
    /\ UNCHANGED retired

\* SIGTERM on the holder with a fresh peer at hand; nothing but the exit
\* path follows.
TransferLock(i, peer) ==
    /\ ~retired[i]
    /\ cursor[i] \in 1 .. MaxVersion - 1
    /\ peer # i
    /\ Send(i, "transfer", peer)
    /\ retired' = [retired EXCEPT ![i] = TRUE]

\* Exit with no peer, after a transfer that threw, or by the watchdog.
ReleaseLock(i) ==
    /\ cursor[i] # 0
    /\ Send(i, "release", None)
    /\ retired' = [retired EXCEPT ![i] = TRUE]

\* The peer's control channel delivers a handoff; no row is read.
AdoptLockFromHandoff(i, version) ==
    /\ ~retired[i]
    /\ call[i] = Idle
    /\ <<i, version>> \in offers
    /\ offers' = offers \ {<<i, version>>}
    /\ cursor' = [cursor EXCEPT ![i] = version]
    /\ UNCHANGED <<clock, row, call, retired, until>>

-----------------------------------------------------------------------------
(* DynamoDB, the network and the SDK.                                      *)

Deliver(i) ==
    /\ call[i].phase = "sent"
    /\ IF Condition(i, call[i])
       THEN /\ row' = Written(i, call[i])
            /\ call' = [call EXCEPT ![i].phase = "ok"]
       ELSE /\ call' = [call EXCEPT ![i].phase = "ccf"]
            /\ UNCHANGED row
    /\ UNCHANGED <<clock, cursor, retired, offers, until>>

\* The response is lost and the SDK repeats the write as it was.
SdkRetry(i) ==
    /\ call[i].phase \in {"ok", "ccf"}
    /\ call' = [call EXCEPT ![i].phase = "sent"]
    /\ UNCHANGED <<clock, row, cursor, retired, offers, until>>

-----------------------------------------------------------------------------
(* The replica handles the outcome.                                        *)

Finish(i) == call' = [call EXCEPT ![i] = Idle]

Confirm(i, version) ==
    /\ cursor' = [cursor EXCEPT ![i] = version]
    /\ until' = [until EXCEPT ![i] = call[i].now + TTL]

Forget(i) == cursor' = [cursor EXCEPT ![i] = 0]

AcquireReturns(i) ==
    /\ call[i].op = "acquire"
    /\ \/ call[i].phase = "ok" /\ Confirm(i, 1)
       \/ call[i].phase = "ccf" /\ UNCHANGED <<cursor, until>>
    /\ Finish(i)
    /\ UNCHANGED <<clock, row, retired, offers>>

RenewReturns(i) ==
    /\ call[i].op = "renew"
    /\ \/ call[i].phase = "ok" /\ Confirm(i, call[i].expected + 1)
       \/ call[i].phase = "ccf" /\ Forget(i) /\ UNCHANGED until
    /\ Finish(i)
    /\ UNCHANGED <<clock, row, retired, offers>>

\* A failed CAS leaves the cursor as it was; the replica is exiting.
TransferReturns(i) ==
    /\ call[i].op = "transfer"
    /\ \/ /\ call[i].phase = "ok"
          /\ offers' = offers \cup {<<call[i].target, call[i].expected + 1>>}
          /\ Forget(i)
       \/ call[i].phase = "ccf" /\ UNCHANGED <<cursor, offers>>
    /\ Finish(i)
    /\ UNCHANGED <<clock, row, retired, until>>

ReleaseReturns(i) ==
    /\ call[i].op = "release"
    /\ call[i].phase \in {"ok", "ccf"}
    /\ Forget(i)
    /\ Finish(i)
    /\ UNCHANGED <<clock, row, retired, offers, until>>

\* A transport error, whether or not the write was applied.  Only release
\* swallows it and clears the cursor.
CallThrows(i) ==
    /\ call[i] # Idle
    /\ IF call[i].op = "release" THEN Forget(i) ELSE UNCHANGED cursor
    /\ Finish(i)
    /\ UNCHANGED <<clock, row, retired, offers, until>>

Tick ==
    /\ clock < MaxClock
    /\ clock' = clock + 1
    /\ UNCHANGED <<row, cursor, call, retired, offers, until>>

Caller(i) ==
    \/ AcquireLock(i)
    \/ RenewLock(i)
    \/ \E peer \in Instance : TransferLock(i, peer)
    \/ ReleaseLock(i)
    \/ \E o \in offers : AdoptLockFromHandoff(i, o[2])

Outcome(i) ==
    \/ AcquireReturns(i)
    \/ RenewReturns(i)
    \/ TransferReturns(i)
    \/ ReleaseReturns(i)
    \/ CallThrows(i)

Next ==
    \/ \E i \in Instance : Caller(i) \/ Deliver(i) \/ SdkRetry(i) \/ Outcome(i)
    \/ Tick

Spec == Init /\ [][Next]_vars

-----------------------------------------------------------------------------
(* Properties.                                                             *)

\* The lease expiry a replica last wrote has not passed on any replica's
\* clock, and it has not begun to give the lock up.
InConfirmedLease(i) ==
    /\ ~retired[i]
    /\ cursor[i] # 0
    /\ \A j \in Instance : LocalNow(j) <= until[i]

\* While a replica is inside a lease DynamoDB confirmed to it, the row is
\* its own, whatever calls of other replicas are in flight or were delayed,
\* repeated or lost; so at most one replica is ever inside such a lease and
\* may run the shard's WebSocket (gateway-lock.js, the acquire, renew and
\* transfer conditions).
ConfirmedLeaseIsOwned ==
    \A i \in Instance :
        InConfirmedLease(i) => row # NoRow /\ row.instance = i

\* gateway-lock.js lines 57-64 and zero-downtime-design.md lines 372-381: a
\* clock-skewed peer cannot take the lock while the holder is heartbeating,
\* that is, within TTL of the holder's last confirmed renewal in true time.
SkewedPeerCannotTake ==
    \A i \in Instance :
        /\ ~retired[i]
        /\ cursor[i] # 0
        /\ clock <= until[i]
        => row # NoRow /\ row.instance = i

\* The lock implements the abstract lease: a live lease leaves its owner
\* only by that owner's transfer or release.
LeaseOwner == IF row = NoRow THEN None ELSE row.instance

LeaseLive ==
    row # NoRow /\ \A j \in Instance : LocalNow(j) <= row.expires

LeaseSuccessors ==
    [i \in Instance |-> IF call[i].op \in {"transfer", "release"}
                        THEN {call[i].target} ELSE {}]

Lease == INSTANCE ShardLease WITH
    owner <- LeaseOwner, live <- LeaseLive, successors <- LeaseSuccessors

\* Every behaviour of the lock is a behaviour of the abstract lease.
ImplementsLease == Lease!Spec
=============================================================================
