------------------------- MODULE GatewayLockProofs -------------------------
(***************************************************************************)
(* Theorems about GatewayLock, for any set of replicas, any lease length   *)
(* and any clock skews.                                                    *)
(***************************************************************************)
EXTENDS GatewayLock, TLAPS

\* The expiry e has not passed on any replica's clock.
Unexpired(e) == \A j \in Instance : LocalNow(j) <= e

\* The row is i's and lasts at least until e.
Owned(i, e) == row # NoRow /\ row.instance = i /\ row.expires >= e

\* A transfer names a peer and a release nobody, and only the exit path
\* transfers or releases.
ExitCall(i) ==
    /\ call[i].op = "transfer" => call[i].target \in Instance
    /\ call[i].op = "release" => call[i].target = None
    /\ call[i].op \in {"transfer", "release"} => retired[i]

\* The clock reading of a call is not in the future, and no confirmed
\* expiry is beyond what the call or a later one will write.
Monotone(i) ==
    /\ until[i] <= LocalNow(i) + TTL
    /\ call[i] # Idle => /\ call[i].now <= LocalNow(i)
                         /\ until[i] <= call[i].now + TTL

\* A confirmed lease is in the row until it runs out.
Confirmed(i) ==
    ~retired[i] /\ Unexpired(until[i]) => Owned(i, until[i])

\* So is one that was written but whose outcome the replica has not seen.
Unseen(i) ==
    /\ ~retired[i]
    /\ call[i].phase = "ok"
    /\ Unexpired(call[i].now + TTL)
    => Owned(i, call[i].now + TTL)

LockInv ==
    \A i \in Instance : ExitCall(i) /\ Monotone(i) /\ Confirmed(i) /\ Unseen(i)

IInv == TypeOK /\ LockInv

-----------------------------------------------------------------------------

USE RowAssumption, NoneInstance, TTLAssumption, SkewAssumption,
    BoundAssumption

\* An idle replica's call record is none of the calls in flight.
LEMMA IdleType ==
    /\ Idle.op = "idle" /\ Idle.phase = "none"
    /\ Idle \notin Call
BY DEF Idle, Call

\* The item a satisfied conditional write stores is a well-formed row that
\* names the writer or, after a transfer, its peer.
LEMMA WrittenType ==
    ASSUME TypeOK, LockInv, NEW i \in Instance, call[i].phase = "sent"
    PROVE  /\ Written(i, call[i]) \in Row \cup {NoRow}
           /\ call[i].op # "release" =>
                 /\ Written(i, call[i]) \in Row
                 /\ Written(i, call[i]) # NoRow
                 /\ Written(i, call[i]).expires = call[i].now + TTL
                 /\ Written(i, call[i]).instance =
                       IF call[i].op = "transfer" THEN call[i].target ELSE i
<1>1. call[i] \in Call
    BY IdleType DEF TypeOK
<1>2. call[i].op = "transfer" => call[i].target \in Instance
    BY DEF LockInv, ExitCall
<1>3. CASE call[i].op = "release"
    BY <1>3 DEF Written
<1>4. CASE call[i].op # "release"
    <2> DEFINE inst == IF call[i].op = "transfer" THEN call[i].target ELSE i
               ver == IF call[i].op = "acquire" THEN 1
                      ELSE call[i].expected + 1
               w == [instance |-> inst, version |-> ver,
                     expires |-> call[i].now + TTL]
    <2>1. /\ inst \in Instance /\ ver \in Nat \ {0}
          /\ call[i].now + TTL \in Int
        BY <1>1, <1>2 DEF Call
    <2>2. w \in Row
        BY <2>1 DEF Row
    <2>3. Written(i, call[i]) = w
        BY <1>4 DEF Written
    <2>4. QED
        BY <1>4, <2>2, <2>3, RowAssumption
<1>5. QED
    BY <1>3, <1>4

\* The invariant holds of a lock table without a row (a first deployment).
LEMMA InitIInv == Init => IInv
<1> SUFFICES ASSUME Init PROVE IInv
    OBVIOUS
<1>1. TypeOK
    BY DEF Init, TypeOK, Row
<1>2. ASSUME NEW i \in Instance
      PROVE  ExitCall(i) /\ Monotone(i) /\ Confirmed(i) /\ Unseen(i)
    <2>1. ~Unexpired(until[i])
        BY DEF Init, Unexpired, LocalNow
    <2>2. Monotone(i)
        BY DEF Init, Monotone, LocalNow
    <2>3. QED
        BY <2>1, <2>2, IdleType DEF Init, ExitCall, Confirmed, Unseen
<1>3. QED
    BY <1>1, <1>2 DEF IInv, LockInv

\* Sending a call, of whatever kind, preserves the invariant.
LEMMA SendIInv ==
    ASSUME IInv, NEW i \in Instance,
           NEW op \in {"acquire", "renew", "transfer", "release"},
           NEW target \in Instance \cup {None},
           Send(i, op, target),
           retired' = retired \/ retired' = [retired EXCEPT ![i] = TRUE],
           op = "transfer" => target \in Instance,
           op = "release" => target = None,
           op \in {"transfer", "release"} => retired'[i]
    PROVE  IInv'
<1> DEFINE c == [op |-> op, now |-> LocalNow(i), expected |-> cursor[i],
                 target |-> target, phase |-> "sent"]
<1>1. c \in Call /\ c # Idle
    BY IdleType DEF IInv, TypeOK, Call, LocalNow
<1>2. call' = [call EXCEPT ![i] = c]
    BY DEF Send
<1>3. TypeOK'
    BY ZenonT(30), <1>1, <1>2 DEF IInv, TypeOK, Send
<1>4. ASSUME NEW k \in Instance
      PROVE  ExitCall(k)' /\ Monotone(k)' /\ Confirmed(k)' /\ Unseen(k)'
    <2>1. call'[k] = IF k = i THEN c ELSE call[k]
        BY <1>2 DEF IInv, TypeOK
    <2>2. /\ UNCHANGED <<clock, row, until>>
          /\ retired'[k] \/ retired'[k] = retired[k]
          /\ k # i => retired'[k] = retired[k]
        BY DEF IInv, TypeOK, Send
    <2>3. ExitCall(k)'
        BY <2>1, <2>2 DEF IInv, LockInv, ExitCall
    <2>4. Monotone(k)'
        BY <2>1, <2>2 DEF IInv, LockInv, Monotone, LocalNow, TypeOK
    <2>5. Confirmed(k)'
        BY <2>2 DEF IInv, LockInv, Confirmed, Unexpired, Owned, LocalNow,
                    TypeOK
    <2>6. Unseen(k)'
        BY <2>1, <2>2 DEF IInv, LockInv, Unseen, Unexpired, Owned, LocalNow,
                          TypeOK
    <2>7. QED
        BY <2>3, <2>4, <2>5, <2>6
<1>5. QED
    BY <1>3, <1>4 DEF IInv, LockInv

\* DynamoDB evaluates a write: the heart of the matter.  A write that takes
\* effect on the row of another replica is an acquire, and an acquire needs
\* a row whose expiry is behind its clock reading.
LEMMA DeliverIInv ==
    ASSUME IInv, NEW i \in Instance, Deliver(i)
    PROVE  IInv'
<1>1. call[i] \in Call /\ call[i].phase = "sent" /\ call[i] # Idle
    BY IdleType DEF IInv, TypeOK, Deliver
<1>2. /\ Written(i, call[i]) \in Row \cup {NoRow}
      /\ call[i].op # "release" =>
            /\ Written(i, call[i]) \in Row
            /\ Written(i, call[i]) # NoRow
            /\ Written(i, call[i]).expires = call[i].now + TTL
            /\ Written(i, call[i]).instance =
                  IF call[i].op = "transfer" THEN call[i].target ELSE i
    BY WrittenType DEF IInv, Deliver
<1>3. PICK p \in {"ok", "ccf"} :
          /\ call' = [call EXCEPT ![i].phase = p]
          /\ p = "ok" => Condition(i, call[i]) /\ row' = Written(i, call[i])
          /\ p = "ccf" => row' = row
    BY DEF Deliver
<1> DEFINE c == [call[i] EXCEPT !.phase = p]
<1>4. c \in Call /\ c # Idle /\ call' = [call EXCEPT ![i] = c]
    BY <1>1, <1>3, IdleType DEF Call, IInv, TypeOK
<1>5. TypeOK'
    BY <1>2, <1>3, <1>4 DEF IInv, TypeOK, Deliver
<1>6. ASSUME NEW k \in Instance
      PROVE  ExitCall(k)' /\ Monotone(k)' /\ Confirmed(k)' /\ Unseen(k)'
    <2>1. call'[k] = IF k = i THEN c ELSE call[k]
        BY <1>4 DEF IInv, TypeOK
    <2>2. /\ c.op = call[i].op /\ c.now = call[i].now
          /\ c.target = call[i].target /\ c.phase = p
        BY <1>1 DEF Call
    <2>3. UNCHANGED <<clock, retired, until>>
        BY DEF Deliver
    <2>4. ExitCall(k)'
        BY <2>1, <2>2, <2>3 DEF IInv, LockInv, ExitCall
    <2>5. Monotone(k)'
        BY <1>1, <1>4, <2>1, <2>2, <2>3
        DEF IInv, LockInv, Monotone, LocalNow
    <2>6. ASSUME NEW e \in Int, Unexpired(e), Owned(k, e), ~retired[k],
                 p = "ok", k = i => e <= call[i].now + TTL
          PROVE  Owned(k, e)'
        <3>1. call[i].now <= LocalNow(i) /\ LocalNow(i) <= e
            BY <1>1, <2>6 DEF IInv, LockInv, Monotone, Unexpired
        <3>2. row \in Row /\ row.instance = k /\ row.expires >= e
            BY <2>6 DEF Owned, IInv, TypeOK
        <3>3. call[i].op # "acquire"
            <4>1. call[i].now \in Int /\ LocalNow(i) \in Int
                  /\ row.expires \in Int
                BY <1>1, <3>2 DEF Call, Row, LocalNow, IInv, TypeOK
            <4>2. QED
                BY <1>3, <2>6, <3>1, <3>2, <4>1, RowAssumption DEF Condition
        <3>4. k = i /\ call[i].op = "renew"
            <4>1. row.instance = i
                BY <1>1, <1>3, <2>6, <3>3 DEF Condition, Call
            <4>2. call[i].op \notin {"transfer", "release"}
                BY <2>6, <3>2, <4>1 DEF IInv, LockInv, ExitCall
            <4>3. QED
                BY <1>1, <3>2, <3>3, <4>1, <4>2 DEF Call
        <3>5. row'.instance = i /\ row'.expires = call[i].now + TTL
              /\ row' \in Row
            BY <1>2, <1>3, <2>6, <3>4
        <3>6. QED
            BY <2>6, <3>4, <3>5, RowAssumption DEF Owned, Row
    <2>7. Confirmed(k)'
        <3>1. until[k] \in Int /\ (k = i => until[k] <= call[i].now + TTL)
            BY <1>1 DEF IInv, TypeOK, LockInv, Monotone
        <3>2. CASE p = "ok"
            BY <2>3, <2>6, <3>1, <3>2
            DEF IInv, LockInv, Confirmed, Unexpired, LocalNow, Owned
        <3>3. CASE p = "ccf"
            BY <1>3, <2>3, <3>3
            DEF IInv, LockInv, Confirmed, Unexpired, LocalNow, Owned
        <3>4. QED
            BY <3>2, <3>3
    <2>8. CASE k # i
        <3>1. Unseen(k)'
            <4>1. CASE p = "ccf"
                BY <1>3, <2>1, <2>3, <2>8, <4>1
                DEF IInv, LockInv, Unseen, Unexpired, LocalNow, Owned
            <4>2. CASE p = "ok" /\ call[k].phase = "ok"
                <5>1. call[k].now + TTL \in Int
                    BY <4>2, IdleType DEF IInv, TypeOK, Call
                <5>2. QED
                    BY <2>1, <2>3, <2>6, <2>8, <4>2, <5>1
                    DEF IInv, LockInv, Unseen, Unexpired, LocalNow, Owned
            <4>3. CASE call[k].phase # "ok"
                BY <2>1, <2>8, <4>3 DEF Unseen
            <4>4. QED
                BY <4>1, <4>2, <4>3
        <3>2. QED
            BY <2>4, <2>5, <2>7, <3>1
    <2>9. CASE k = i
        <3>1. Unseen(k)'
            <4>1. CASE p = "ccf"
                BY <2>1, <2>2, <2>9, <4>1 DEF Unseen
            <4>2. CASE p = "ok" /\ ~retired[i]
                <5>1. call[i].op \in {"acquire", "renew"}
                    BY <1>1, <4>2 DEF Call, IInv, LockInv, ExitCall
                <5>2. row'.instance = i /\ row'.expires = call[i].now + TTL
                      /\ row' \in Row
                    BY <1>2, <1>3, <4>2, <5>1
                <5>3. QED
                    BY <2>1, <2>2, <2>9, <5>2, RowAssumption
                    DEF Unseen, Owned, Row
            <4>3. CASE retired[i]
                BY <2>3, <2>9, <4>3 DEF Unseen
            <4>4. QED
                BY <4>1, <4>2, <4>3
        <3>2. QED
            BY <2>4, <2>5, <2>7, <3>1
    <2>10. QED
        BY <2>8, <2>9
<1>7. QED
    BY <1>5, <1>6 DEF IInv, LockInv

\* Handling an outcome preserves the invariant: the replica believes in a
\* lease only if DynamoDB answered that it wrote it.
LEMMA FinishIInv ==
    ASSUME IInv, NEW i \in Instance, call[i] # Idle,
           Finish(i),
           UNCHANGED <<clock, row, retired>>,
           cursor' \in [Instance -> Nat],
           offers' \subseteq Instance \X (Nat \ {0}),
           \/ until' = until
           \/ /\ call[i].phase = "ok"
              /\ until' = [until EXCEPT ![i] = call[i].now + TTL]
    PROVE  IInv'
<1>1. call[i] \in Call /\ call[i].now + TTL \in Int
    BY DEF IInv, TypeOK, Call
<1>2. call' = [call EXCEPT ![i] = Idle]
    BY DEF Finish
<1>3. TypeOK'
    BY <1>1, <1>2 DEF IInv, TypeOK
<1>4. ASSUME NEW k \in Instance
      PROVE  ExitCall(k)' /\ Monotone(k)' /\ Confirmed(k)' /\ Unseen(k)'
    <2>1. call'[k] = IF k = i THEN Idle ELSE call[k]
        BY <1>2 DEF IInv, TypeOK
    <2>2. \/ until'[k] = until[k]
          \/ /\ k = i /\ call[i].phase = "ok"
             /\ until'[k] = call[i].now + TTL
        BY DEF IInv, TypeOK
    <2>3. ExitCall(k)'
        BY <2>1, IdleType DEF IInv, LockInv, ExitCall
    <2>4. Monotone(k)'
        BY <1>1, <2>1, <2>2 DEF IInv, LockInv, Monotone, LocalNow, TypeOK, Call
    <2>5. Confirmed(k)'
        BY <2>2 DEF IInv, LockInv, Confirmed, Unseen, Unexpired, Owned, LocalNow
    <2>6. Unseen(k)'
        BY <2>1, IdleType DEF IInv, LockInv, Unseen, Unexpired, Owned, LocalNow
    <2>7. QED
        BY <2>3, <2>4, <2>5, <2>6
<1>5. QED
    BY <1>3, <1>4 DEF IInv, LockInv

\* acquireLock's and renewLock's outcomes preserve it: a success confirms the
\* expiry that was written, a failed condition confirms nothing.
LEMMA ReturnIInv ==
    ASSUME IInv, NEW i \in Instance,
           AcquireReturns(i) \/ RenewReturns(i)
    PROVE  IInv'
<1>1. call[i] # Idle /\ call[i] \in Call
    BY IdleType DEF AcquireReturns, RenewReturns, IInv, TypeOK
<1>2. call[i].expected + 1 \in Nat
    BY <1>1 DEF Call
<1>3. cursor' \in [Instance -> Nat]
    BY <1>2 DEF AcquireReturns, RenewReturns, Confirm, Forget, IInv, TypeOK
<1>4. \/ until' = until
      \/ /\ call[i].phase = "ok"
         /\ until' = [until EXCEPT ![i] = call[i].now + TTL]
    BY DEF AcquireReturns, RenewReturns, Confirm
<1>5. /\ Finish(i)
      /\ UNCHANGED <<clock, row, retired>>
      /\ offers' \subseteq Instance \X (Nat \ {0})
    BY DEF AcquireReturns, RenewReturns, IInv, TypeOK
<1>6. QED
    BY <1>1, <1>3, <1>4, <1>5, FinishIInv

\* The outcomes of transferLock and releaseLock, and a call that throws,
\* preserve it: they only take belief away from the replica.
LEMMA ExitReturnIInv ==
    ASSUME IInv, NEW i \in Instance,
           TransferReturns(i) \/ ReleaseReturns(i) \/ CallThrows(i)
    PROVE  IInv'
<1>1. call[i] # Idle /\ call[i] \in Call
    BY IdleType DEF TransferReturns, ReleaseReturns, CallThrows, IInv, TypeOK
<1>2. cursor' \in [Instance -> Nat]
    BY DEF TransferReturns, ReleaseReturns, CallThrows, Forget, IInv, TypeOK
<1>3. offers' \subseteq Instance \X (Nat \ {0})
    <2>1. CASE TransferReturns(i)
        <3>1. call[i].target \in Instance /\ call[i].expected + 1 \in Nat \ {0}
            BY <1>1, <2>1 DEF TransferReturns, IInv, LockInv, ExitCall, Call
        <3>2. QED
            BY <2>1, <3>1 DEF TransferReturns, IInv, TypeOK
    <2>2. CASE ReleaseReturns(i) \/ CallThrows(i)
        BY <2>2 DEF ReleaseReturns, CallThrows, IInv, TypeOK
    <2>3. QED
        BY <2>1, <2>2
<1>4. Finish(i) /\ UNCHANGED <<clock, row, retired, until>>
    BY DEF TransferReturns, ReleaseReturns, CallThrows
<1>5. QED
    BY <1>1, <1>2, <1>3, <1>4, FinishIInv

\* Repeating a write the client has not seen answered preserves it.
LEMMA RetryIInv ==
    ASSUME IInv, NEW i \in Instance, SdkRetry(i)
    PROVE  IInv'
<1> DEFINE c == [call[i] EXCEPT !.phase = "sent"]
<1>1. /\ call[i] \in Call /\ call[i] # Idle
      /\ c \in Call /\ c # Idle
      /\ c.op = call[i].op /\ c.now = call[i].now
      /\ c.target = call[i].target /\ c.phase = "sent"
    BY IdleType DEF SdkRetry, IInv, TypeOK, Call
<1>2. call' = [call EXCEPT ![i] = c]
    BY DEF SdkRetry, IInv, TypeOK
<1>3. TypeOK'
    BY <1>1, <1>2 DEF IInv, TypeOK, SdkRetry
<1>4. ASSUME NEW k \in Instance
      PROVE  ExitCall(k)' /\ Monotone(k)' /\ Confirmed(k)' /\ Unseen(k)'
    <2>1. call'[k] = IF k = i THEN c ELSE call[k]
        BY <1>2 DEF IInv, TypeOK
    <2>2. UNCHANGED <<clock, row, retired, until>>
        BY DEF SdkRetry
    <2>3. QED
        BY <1>1, <2>1, <2>2
        DEF IInv, LockInv, ExitCall, Monotone, Confirmed, Unseen, Unexpired,
            Owned, LocalNow
<1>5. QED
    BY <1>3, <1>4 DEF IInv, LockInv

\* Adopting a handed-over version preserves it: the peer sets its cursor from
\* the message and believes in no lease before its own renewal succeeds.
LEMMA AdoptIInv ==
    ASSUME IInv, NEW i \in Instance, NEW o \in offers,
           AdoptLockFromHandoff(i, o[2])
    PROVE  IInv'
<1>1. o[2] \in Nat
    BY DEF IInv, TypeOK
<1>2. TypeOK'
    BY <1>1 DEF IInv, TypeOK, AdoptLockFromHandoff
<1>3. UNCHANGED <<clock, row, call, retired, until>>
    BY DEF AdoptLockFromHandoff
<1>4. LockInv'
    BY <1>3 DEF IInv, LockInv, ExitCall, Monotone, Confirmed, Unseen,
                Unexpired, Owned, LocalNow
<1>5. QED
    BY <1>2, <1>4 DEF IInv

\* Time only ends leases.
LEMMA TickIInv ==
    ASSUME IInv, Tick
    PROVE  IInv'
<1>1. clock \in Int /\ clock' = clock + 1
    BY DEF IInv, TypeOK, Tick
<1>2. UNCHANGED <<row, cursor, call, retired, offers, until>>
    BY DEF Tick
<1>3. TypeOK'
    BY <1>1, <1>2 DEF IInv, TypeOK
<1>4. ASSUME NEW k \in Instance
      PROVE  ExitCall(k)' /\ Monotone(k)' /\ Confirmed(k)' /\ Unseen(k)'
    <2>1. \A j \in Instance : LocalNow(j) \in Int /\ LocalNow(j)' = LocalNow(j) + 1
        BY <1>1 DEF LocalNow
    <2>2. ASSUME NEW e \in Int, Unexpired(e)'
          PROVE  Unexpired(e)
        <3>1. ASSUME NEW j \in Instance PROVE LocalNow(j) <= e
            BY <2>1, <2>2 DEF Unexpired
        <3>2. QED
            BY <3>1 DEF Unexpired
    <2>3. until[k] \in Int /\ (call[k] # Idle => call[k].now \in Int)
        BY DEF IInv, TypeOK, Call
    <2>4. ExitCall(k)'
        BY <1>2 DEF IInv, LockInv, ExitCall
    <2>5. Monotone(k)'
        <3>1. until[k] <= LocalNow(k)' + TTL
            BY <2>1, <2>3 DEF IInv, LockInv, Monotone
        <3>2. call[k] # Idle => call[k].now <= LocalNow(k)'
            BY <2>1, <2>3 DEF IInv, LockInv, Monotone
        <3>3. QED
            BY <1>2, <3>1, <3>2 DEF IInv, LockInv, Monotone
    <2>6. Confirmed(k)'
        BY <1>2, <2>2, <2>3 DEF IInv, LockInv, Confirmed, Owned
    <2>7. Unseen(k)'
        <3>1. call[k].phase = "ok" => call[k].now + TTL \in Int
            BY <2>3, IdleType
        <3>2. QED
            BY <1>2, <2>2, <3>1 DEF IInv, LockInv, Unseen, Owned
    <2>8. QED
        BY <2>4, <2>5, <2>6, <2>7
<1>5. QED
    BY <1>3, <1>4 DEF IInv, LockInv

\* Every step of the lock preserves the invariant.
LEMMA NextIInv == IInv /\ [Next]_vars => IInv'
<1> SUFFICES ASSUME IInv, [Next]_vars PROVE IInv'
    OBVIOUS
<1>1. ASSUME NEW i \in Instance, AcquireLock(i) PROVE IInv'
    BY <1>1, SendIInv DEF AcquireLock
<1>2. ASSUME NEW i \in Instance, RenewLock(i) PROVE IInv'
    BY <1>2, SendIInv DEF RenewLock
<1>3. ASSUME NEW i \in Instance, NEW peer \in Instance, TransferLock(i, peer)
      PROVE  IInv'
    <2>1. retired'[i]
        BY <1>3 DEF TransferLock, IInv, TypeOK
    <2>2. QED
        BY <1>3, <2>1, SendIInv DEF TransferLock
<1>4. ASSUME NEW i \in Instance, ReleaseLock(i) PROVE IInv'
    <2>1. retired'[i]
        BY <1>4 DEF ReleaseLock, IInv, TypeOK
    <2>2. QED
        BY <1>4, <2>1, SendIInv DEF ReleaseLock
<1>5. ASSUME NEW i \in Instance, NEW o \in offers,
             AdoptLockFromHandoff(i, o[2])
      PROVE  IInv'
    BY <1>5, AdoptIInv
<1>6. ASSUME NEW i \in Instance, Deliver(i) PROVE IInv'
    BY <1>6, DeliverIInv
<1>7. ASSUME NEW i \in Instance, SdkRetry(i) PROVE IInv'
    BY <1>7, RetryIInv
<1>8. ASSUME NEW i \in Instance, Outcome(i) PROVE IInv'
    BY <1>8, ReturnIInv, ExitReturnIInv DEF Outcome
<1>9. ASSUME Tick PROVE IInv'
    BY <1>9, TickIInv
<1>10. CASE UNCHANGED vars
    BY <1>10 DEF vars, IInv, TypeOK, LockInv, ExitCall, Monotone, Confirmed,
                 Unseen, Unexpired, Owned, LocalNow
<1>11. QED
    BY <1>1, <1>2, <1>3, <1>4, <1>5, <1>6, <1>7, <1>8, <1>9, <1>10
    DEF Next, Caller

\* The inductive invariant holds throughout: a lease DynamoDB confirmed, or
\* wrote without the replica having seen it, is in the row until it runs
\* out (gateway-lock.js, every conditional write).
THEOREM Invariance == Spec => []IInv
BY InitIInv, NextIInv, PTL DEF Spec

\* Every reachable state of the lock is well typed.
THEOREM TypeCorrect == Spec => []TypeOK
BY Invariance, PTL DEF IInv

\* Mutual exclusion of the leader lock, for any number of replicas, any
\* lease length and any clock skews: a replica inside a lease that DynamoDB
\* confirmed to it, and that has run out on nobody's clock, owns the row.
THEOREM LeaseExclusion == Spec => []ConfirmedLeaseIsOwned
<1>1. IInv => ConfirmedLeaseIsOwned
    BY DEF IInv, LockInv, Confirmed, Unexpired, Owned, ConfirmedLeaseIsOwned,
           InConfirmedLease
<1>2. QED
    BY <1>1, Invariance, PTL

-----------------------------------------------------------------------------
(* The lock implements the abstract lease.                                 *)

\* Steps that touch neither the row nor the clock are decisions.
LEMMA DecideStep ==
    ASSUME IInv, NEW i \in Instance,
           NEW c \in Call \cup {Idle},
           call' = [call EXCEPT ![i] = c],
           UNCHANGED <<row, clock>>
    PROVE  Lease!Decide(i)
<1> DEFINE s == IF c.op \in {"transfer", "release"} THEN {c.target} ELSE {}
<1>1. s \in SUBSET (Instance \cup {None})
    BY IdleType DEF Call
<1>2. LeaseSuccessors' = [LeaseSuccessors EXCEPT ![i] = s]
    <2>1. \A k \in Instance : call'[k] = IF k = i THEN c ELSE call[k]
        BY DEF IInv, TypeOK
    <2>2. QED
        BY <2>1 DEF LeaseSuccessors
<1>3. LeaseOwner' = LeaseOwner
    BY DEF LeaseOwner
<1>4. LeaseLive' = LeaseLive
    BY DEF LeaseLive, LocalNow
<1>5. QED
    BY <1>1, <1>2, <1>3, <1>4 DEF Lease!Decide

\* A write DynamoDB evaluates is a take-over, a renewal, a hand-over, or
\* nothing.
LEMMA DeliverStep ==
    ASSUME IInv, NEW i \in Instance, Deliver(i)
    PROVE  Lease!Next \/ UNCHANGED Lease!vars
<1>1. call[i] \in Call /\ call[i] # Idle /\ call[i].now \in Int
    BY IdleType DEF IInv, TypeOK, Deliver, Call
<1>2. \A k \in Instance : /\ call'[k].op = call[k].op
                          /\ call'[k].target = call[k].target
    BY <1>1 DEF Deliver, IInv, TypeOK, Call
<1>3. LeaseSuccessors' = LeaseSuccessors
    BY <1>2 DEF LeaseSuccessors
<1>4. LeaseLive' \in BOOLEAN
    BY DEF LeaseLive
<1>5. CASE row' = row
    <2>1. LeaseOwner' = LeaseOwner /\ LeaseLive' = LeaseLive
        BY <1>5 DEF LeaseOwner, LeaseLive, LocalNow, Deliver
    <2>2. QED
        BY <1>3, <2>1 DEF Lease!vars
<1>6. CASE Condition(i, call[i]) /\ row' = Written(i, call[i])
    <2>1. call[i].op # "release" =>
             /\ row' # NoRow
             /\ row'.instance =
                   IF call[i].op = "transfer" THEN call[i].target ELSE i
        BY <1>6, WrittenType DEF IInv, Deliver
    <2>2. CASE call[i].op = "acquire"
        <3>1. row' # NoRow /\ row'.instance = i
            BY <2>1, <2>2
        <3>2. row = NoRow \/ row.expires < call[i].now
            BY <1>6, <2>2 DEF Condition
        <3>3. LeaseOwner = None \/ ~LeaseLive
            <4>1. CASE row = NoRow
                BY <4>1 DEF LeaseOwner
            <4>2. CASE row # NoRow /\ row.expires < call[i].now
                <5>1. row.expires \in Int /\ LocalNow(i) \in Int
                    BY <4>2 DEF IInv, TypeOK, Row, LocalNow
                <5>2. call[i].now <= LocalNow(i)
                    BY <1>1 DEF IInv, LockInv, Monotone
                <5>3. ~(LocalNow(i) <= row.expires)
                    BY <1>1, <4>2, <5>1, <5>2
                <5>4. QED
                    BY <5>3 DEF LeaseLive
            <4>3. QED
                BY <3>2, <4>1, <4>2
        <3>4. Lease!Take(i)
            BY <1>3, <1>4, <3>1, <3>3 DEF Lease!Take, LeaseOwner
        <3>5. QED
            BY <3>4 DEF Lease!Next
    <2>3. CASE call[i].op = "renew"
        <3>1. row' # NoRow /\ row'.instance = i
            BY <2>1, <2>3
        <3>2. row # NoRow /\ row.instance = i
            BY <1>6, <2>3 DEF Condition
        <3>3. Lease!Refresh
            BY <1>3, <1>4, <3>1, <3>2 DEF Lease!Refresh, LeaseOwner
        <3>4. QED
            BY <3>3 DEF Lease!Next
    <2>4. CASE call[i].op \in {"transfer", "release"}
        <3>1. LeaseOwner = i /\ LeaseOwner # None
            BY <1>6, <2>4, NoneInstance DEF Condition, LeaseOwner
        <3>2. LeaseOwner' = call[i].target
            <4>1. CASE call[i].op = "transfer"
                <5>1. row' # NoRow /\ row'.instance = call[i].target
                    BY <2>1, <4>1
                <5>2. QED
                    BY <5>1 DEF LeaseOwner
            <4>2. CASE call[i].op = "release"
                <5>1. row' = NoRow /\ call[i].target = None
                    BY <1>6, <4>2 DEF Written, IInv, LockInv, ExitCall
                <5>2. QED
                    BY <5>1 DEF LeaseOwner
            <4>3. QED
                BY <2>4, <4>1, <4>2
        <3>3. LeaseSuccessors[i] = {call[i].target}
            BY <2>4 DEF LeaseSuccessors
        <3>4. Lease!Pass
            BY <1>3, <1>4, <3>1, <3>2, <3>3 DEF Lease!Pass
        <3>5. QED
            BY <3>4 DEF Lease!Next
    <2>5. QED
        BY <1>1, <2>2, <2>3, <2>4 DEF Call
<1>7. QED
    BY <1>5, <1>6 DEF Deliver

\* Every step of the lock is a step of the abstract lease, or none: only
\* DynamoDB's evaluation of a write and the passing of time touch the lease.
LEMMA NextLease ==
    IInv /\ [Next]_vars => [Lease!Next]_(Lease!vars)
<1> SUFFICES ASSUME IInv, [Next]_vars
             PROVE  Lease!Next \/ UNCHANGED Lease!vars
    OBVIOUS
<1>1. ASSUME NEW i \in Instance, Caller(i)
      PROVE  Lease!Next \/ UNCHANGED Lease!vars
    <2>1. ASSUME NEW op \in {"acquire", "renew", "transfer", "release"},
                 NEW target \in Instance \cup {None}, Send(i, op, target)
          PROVE  Lease!Next
        <3> DEFINE c == [op |-> op, now |-> LocalNow(i),
                         expected |-> cursor[i], target |-> target,
                         phase |-> "sent"]
        <3>1. c \in Call
            BY DEF Call, LocalNow, IInv, TypeOK
        <3>2. call' = [call EXCEPT ![i] = c] /\ UNCHANGED <<row, clock>>
            BY <2>1 DEF Send
        <3>3. Lease!Decide(i)
            BY <3>1, <3>2, DecideStep
        <3>4. QED
            BY <3>3 DEF Lease!Next
    <2>2. ASSUME NEW o \in offers, AdoptLockFromHandoff(i, o[2])
          PROVE  UNCHANGED Lease!vars
        BY <2>2 DEF AdoptLockFromHandoff, Lease!vars, LeaseOwner, LeaseLive,
                    LeaseSuccessors, LocalNow
    <2>3. QED
        BY <1>1, <2>1, <2>2
        DEF Caller, AcquireLock, RenewLock, TransferLock, ReleaseLock
<1>2. ASSUME NEW i \in Instance, Deliver(i)
      PROVE  Lease!Next \/ UNCHANGED Lease!vars
    BY <1>2, DeliverStep
<1>3. ASSUME NEW i \in Instance, SdkRetry(i)
      PROVE  Lease!Next
    <2> DEFINE c == [call[i] EXCEPT !.phase = "sent"]
    <2>1. c \in Call
        BY <1>3, IdleType DEF SdkRetry, IInv, TypeOK, Call
    <2>2. call' = [call EXCEPT ![i] = c] /\ UNCHANGED <<row, clock>>
        BY <1>3 DEF SdkRetry, IInv, TypeOK
    <2>3. QED
        BY <2>1, <2>2, DecideStep DEF Lease!Next
<1>4. ASSUME NEW i \in Instance, Outcome(i)
      PROVE  Lease!Next
    <2>1. call' = [call EXCEPT ![i] = Idle] /\ UNCHANGED <<row, clock>>
        BY <1>4 DEF Outcome, AcquireReturns, RenewReturns, TransferReturns,
                    ReleaseReturns, CallThrows, Finish
    <2>2. QED
        BY <2>1, DecideStep DEF Lease!Next
<1>5. ASSUME Tick
      PROVE  Lease!Next
    <2>1. Lease!Refresh
        BY <1>5 DEF Tick, Lease!Refresh, LeaseOwner, LeaseLive,
                    LeaseSuccessors
    <2>2. QED
        BY <2>1 DEF Lease!Next
<1>6. CASE UNCHANGED vars
    BY <1>6 DEF vars, Lease!vars, LeaseOwner, LeaseLive, LeaseSuccessors,
                LocalNow
<1>7. QED
    BY <1>1, <1>2, <1>3, <1>4, <1>5, <1>6 DEF Next

\* The lock implements the abstract lease (ShardLease): while the lease is
\* live it leaves its owner only by that owner's transfer or release.
THEOREM LockImplementsLease == Spec => ImplementsLease
<1>1. Init => Lease!Init
    <2>1. ASSUME Init PROVE Lease!Init
        BY <2>1, IdleType DEF Init, Lease!Init, LeaseOwner, LeaseLive, LeaseSuccessors
    <2>2. QED
        BY <2>1
<1>2. QED
    BY <1>1, Invariance, NextLease, PTL DEF Spec, ImplementsLease, Lease!Spec
=============================================================================
