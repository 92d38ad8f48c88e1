------------------------ MODULE GatewayReplicaProofs ------------------------
(***************************************************************************)
(* Theorems about GatewayReplica, for any number of attempts, recovery     *)
(* ticks and disturbances.                                                 *)
(***************************************************************************)
EXTENDS GatewayReplica, TLAPS

\* Every work is queued at most once.
Unique == \A j, k \in DOMAIN chain : chain[j] = chain[k] => j = k

\* What a queued work says about the rest of the process.
WorkInv ==
    /\ Queued("push") => closed
    /\ Queued("release") => wd \in {"release", "leave"}
    /\ closed => shutdown # "no"

\* What the await of the running work says.
StageInv ==
    /\ chain = <<>> => stage = "wait"
    /\ stage = "beat" => Head(chain) = "tick" /\ (closed => held)
    /\ stage = "acquire" => Head(chain) = "tick" /\ ~held /\ ~closed
    /\ stage = "release" => \/ Head(chain) = "push"
                            \/ Head(chain) = "release" /\ ~held
    /\ pending["handoff"] = IF stage = "connect" THEN 1 ELSE 0

\* The watchdog has an attempt left whenever it may start one, and awaits one
\* connect() at a time.
LadderInv ==
    /\ wd \in {"sleep", "read"} /\ ~stopping => attempts < MaxAttempts
    /\ pending["watchdog"] = IF wd = "connect" THEN 1 ELSE 0

IInv ==
    /\ TypeOK
    /\ Unique
    /\ WorkInv
    /\ StageInv
    /\ LadderInv
    /\ HeldHasCursor

-----------------------------------------------------------------------------
(* The serial chain.                                                       *)

USE BoundAssumption

\* What the lemmas below leave of the chain after a step.
ChainInv ==
    /\ chain \in Seq(Works) /\ Len(chain) <= 4
    /\ Unique

\* Four different works are all there are.
LEMMA UniqueIsShort ==
    ASSUME NEW s \in Seq(Works),
           \A j, k \in DOMAIN s : s[j] = s[k] => j = k
    PROVE  Len(s) <= 4
<1>1. SUFFICES ASSUME Len(s) >= 5 PROVE FALSE
    OBVIOUS
<1>2. 1 \in DOMAIN s /\ 2 \in DOMAIN s /\ 3 \in DOMAIN s /\ 4 \in DOMAIN s
          /\ 5 \in DOMAIN s
    BY <1>1
<1>3. s[1] \in Works /\ s[2] \in Works /\ s[3] \in Works /\ s[4] \in Works
          /\ s[5] \in Works
    BY <1>2
<1>4. /\ s[1] # s[2] /\ s[1] # s[3] /\ s[1] # s[4] /\ s[1] # s[5]
      /\ s[2] # s[3] /\ s[2] # s[4] /\ s[2] # s[5]
      /\ s[3] # s[4] /\ s[3] # s[5] /\ s[4] # s[5]
    BY <1>2
<1>5. QED
    BY <1>3, <1>4 DEF Works

\* A work joins the chain behind the others.
LEMMA AppendChain ==
    ASSUME ChainInv, NEW w \in Works, ~Queued(w), chain' = Append(chain, w)
    PROVE  /\ ChainInv' /\ chain' # <<>>
           /\ \A v : Queued(v)' <=> Queued(v) \/ v = w
           /\ chain # <<>> => Head(chain') = Head(chain)
<1>1. /\ chain \in Seq(Works) /\ chain' \in Seq(Works)
      /\ Len(chain') = Len(chain) + 1 /\ chain' # <<>>
      /\ DOMAIN chain = 1 .. Len(chain)
      /\ DOMAIN chain' = 1 .. (Len(chain) + 1)
      /\ Len(chain) \in Nat
    BY DEF ChainInv
<1>2. /\ \A k \in DOMAIN chain : chain'[k] = chain[k]
      /\ chain'[Len(chain) + 1] = w
    BY <1>1
<1>3. \A v : Queued(v)' <=> Queued(v) \/ v = w
    BY <1>1, <1>2 DEF Queued
<1>4. Unique'
    BY <1>1, <1>2 DEF Unique, Queued, ChainInv
<1>5. Len(chain') <= 4
    BY <1>1, <1>4, UniqueIsShort DEF Unique
<1>6. chain # <<>> => Head(chain') = Head(chain)
    BY <1>1, <1>2
<1>7. QED
    BY <1>1, <1>3, <1>4, <1>5, <1>6 DEF ChainInv

\* The running work leaves the chain.
LEMMA TailChain ==
    ASSUME ChainInv, chain # <<>>, chain' = Tail(chain)
    PROVE  ChainInv' /\ \A v : Queued(v)' => Queued(v)
<1>1. /\ chain \in Seq(Works) /\ chain' \in Seq(Works)
      /\ Len(chain) \in Nat /\ Len(chain) > 0
      /\ Len(chain') = Len(chain) - 1
      /\ DOMAIN chain = 1 .. Len(chain)
      /\ DOMAIN chain' = 1 .. (Len(chain) - 1)
    BY DEF ChainInv
<1>2. \A k \in DOMAIN chain' : chain'[k] = chain[k + 1] /\ k + 1 \in DOMAIN chain
    BY <1>1
<1>3. \A v : Queued(v)' => Queued(v)
    BY <1>2 DEF Queued
<1>4. Unique'
    BY <1>1, <1>2 DEF Unique, ChainInv
<1>5. QED
    BY <1>1, <1>3, <1>4 DEF ChainInv

\* The running work is queued.
LEMMA HeadQueued ==
    ASSUME chain \in Seq(Works), chain # <<>>
    PROVE  Queued(Head(chain))
<1>1. 1 \in DOMAIN chain /\ chain[1] = Head(chain)
    OBVIOUS
<1>2. QED
    BY <1>1 DEF Queued

\* When the running work is over, nothing is left of it.
LEMMA DoneInv ==
    ASSUME IInv, chain # <<>>, Done, UNCHANGED <<closed, wd, shutdown>>,
           pending'["handoff"] = 0
    PROVE  ChainInv' /\ WorkInv' /\ StageInv' /\ stage' = "wait" /\ phase' = "none"
<1>1. ChainInv
    BY DEF IInv, TypeOK, ChainInv
<1>2. chain' = Tail(chain) /\ stage' = "wait" /\ phase' = "none"
    BY DEF Done
<1>3. ChainInv' /\ \A v : Queued(v)' => Queued(v)
    BY <1>1, <1>2, TailChain
<1>4. WorkInv'
    BY <1>3 DEF IInv, WorkInv
<1>5. StageInv'
    BY <1>2 DEF StageInv
<1>6. QED
    BY <1>2, <1>3, <1>4, <1>5

\* A work joins the chain while the running one waits on.
LEMMA AppendInv ==
    ASSUME IInv, NEW w \in Works, ~Queued(w), chain' = Append(chain, w),
           stage' = stage, pending'["handoff"] = pending["handoff"],
           \/ UNCHANGED <<held, closed>>
           \/ held /\ UNCHANGED held
    PROVE  ChainInv' /\ StageInv' /\ \A v : Queued(v)' <=> Queued(v) \/ v = w
<1>1. ChainInv
    BY DEF IInv, TypeOK, ChainInv
<1>2. /\ ChainInv' /\ chain' # <<>>
      /\ \A v : Queued(v)' <=> Queued(v) \/ v = w
      /\ chain # <<>> => Head(chain') = Head(chain)
    BY <1>1, AppendChain
<1>3. StageInv'
    BY <1>2 DEF IInv, StageInv
<1>4. QED
    BY <1>2, <1>3

\* Where the chain and what it depends on stay as they are, so does its part
\* of the invariant.
LEMMA KeepInv ==
    ASSUME IInv, UNCHANGED <<chain, stage, held, closed>>,
           pending'["handoff"] = pending["handoff"]
    PROVE  ChainInv' /\ StageInv' /\ \A v : Queued(v)' <=> Queued(v)
<1>1. ChainInv'
    BY DEF IInv, TypeOK, ChainInv, Unique
<1>2. StageInv'
    BY DEF IInv, StageInv
<1>3. \A v : Queued(v)' <=> Queued(v)
    BY DEF Queued
<1>4. QED
    BY <1>1, <1>2, <1>3

\* The running work reaches its next await.
LEMMA AwaitInv ==
    ASSUME IInv, NEW at \in LockCalls \cup {"beat", "peers", "post", "connect"},
           Await(at), UNCHANGED <<closed, wd, shutdown>>
    PROVE  /\ ChainInv' /\ WorkInv' /\ chain' = chain
           /\ stage' = at /\ phase' \in {"sent", "none"}
<1>1. chain' = chain /\ stage' = at /\ phase' \in {"sent", "none"}
    BY DEF Await
<1>2. ChainInv' /\ \A v : Queued(v)' <=> Queued(v)
    BY <1>1 DEF IInv, TypeOK, ChainInv, Unique, Queued
<1>3. WorkInv'
    BY <1>2 DEF IInv, WorkInv
<1>4. QED
    BY <1>1, <1>2, <1>3

-----------------------------------------------------------------------------
(* The leader's steps.                                                     *)

\* What the end of a work has to show besides.
LEMMA LeaderDone ==
    ASSUME IInv, chain # <<>>, Done, pending' = pending,
           UNCHANGED <<closed, connecting, watchdog, ws, process, row, live>>,
           offer' \in {"none", "current", "stale"},
           stage # "connect",
           held' \in BOOLEAN, cursor' \in {"null", "fits", "behind"},
           disturbances' \in 0 .. MaxDisturbances,
           held' /\ ~closed => cursor' # "null"
    PROVE  IInv'
<1>1. pending'["handoff"] = 0
    BY DEF IInv, StageInv
<1>2. /\ ChainInv' /\ WorkInv' /\ StageInv' /\ stage' = "wait"
      /\ phase' = "none"
    BY <1>1, DoneInv DEF watchdog, process
<1>3. TypeOK'
    BY <1>2 DEF IInv, TypeOK, ChainInv, watchdog, process
<1>4. LadderInv' /\ HeldHasCursor'
    BY DEF IInv, LadderInv, HeldHasCursor, watchdog
<1>5. QED
    BY <1>2, <1>3, <1>4 DEF IInv, ChainInv

\* And a work that goes on to another await.
LEMMA LeaderAwait ==
    ASSUME IInv, NEW at \in LockCalls \cup {"beat", "peers", "post"},
           Await(at), pending' = pending, stage # "connect",
           UNCHANGED <<closed, connecting, watchdog, ws, process, lock>>,
           held' \in BOOLEAN, cursor' \in {"null", "fits", "behind"},
           disturbances' \in 0 .. MaxDisturbances,
           held' /\ ~closed => cursor' # "null",
           chain # <<>>,
           at = "beat" => Head(chain) = "tick" /\ (closed => held'),
           at = "acquire" => Head(chain) = "tick" /\ ~held' /\ ~closed,
           at = "release" => \/ Head(chain) = "push"
                             \/ Head(chain) = "release" /\ ~held'
    PROVE  IInv'
<1>1. pending'["handoff"] = 0
    BY DEF IInv, StageInv
<1>2. /\ ChainInv' /\ WorkInv' /\ chain' = chain
      /\ stage' = at /\ phase' \in {"sent", "none"}
    BY AwaitInv DEF watchdog, process
<1>3. at # "connect" /\ at # "wait"
    BY DEF LockCalls
<1>4. StageInv'
    BY <1>1, <1>2, <1>3 DEF StageInv
<1>5. TypeOK'
    BY <1>2 DEF IInv, TypeOK, ChainInv, watchdog, process, lock
<1>6. LadderInv' /\ HeldHasCursor'
    BY DEF IInv, LadderInv, HeldHasCursor, watchdog
<1>7. QED
    BY <1>2, <1>4, <1>5, <1>6 DEF IInv, ChainInv

\* The tick: step up to the lock call and after it.
LEMMA TickInv ==
    ASSUME IInv,
           TickBegins \/ TickCallsLock \/ AcquireReturns \/ RenewReturns
               \/ TickThrows
    PROVE  IInv'
<1>1. /\ chain # <<>> /\ Head(chain) = "tick" /\ stage # "connect"
      /\ pending' = pending
      /\ UNCHANGED <<closed, connecting, watchdog, ws, process, lock>>
    BY DEF TickBegins, TickCallsLock, AcquireReturns, RenewReturns, TickThrows,
           Running, discord
<1>2. /\ held \in BOOLEAN /\ cursor \in {"null", "fits", "behind"}
      /\ disturbances \in 0 .. MaxDisturbances
      /\ offer \in {"none", "current", "stale"}
      /\ held /\ ~closed => cursor # "null"
    BY DEF IInv, TypeOK, HeldHasCursor
<1>3. Confirmed \in {"fits", "behind"}
    BY DEF Confirmed
<1>4. CASE TickBegins
    <2>1. UNCHANGED <<held, cursor, disturbances>>
        BY <1>4 DEF TickBegins
    <2>2. CASE closed
        <3>1. Done
            BY <1>4, <2>2 DEF TickBegins
        <3>2. QED
            BY <1>1, <1>2, <2>1, <3>1, LeaderDone DEF lock
    <2>3. CASE ~closed
        <3>1. Await("beat")
            BY <1>4, <2>3 DEF TickBegins
        <3>2. QED
            BY <1>1, <1>2, <2>1, <2>3, <3>1, LeaderAwait
    <2>4. QED
        BY <2>2, <2>3
<1>5. CASE TickCallsLock
    <2>1. UNCHANGED <<cursor, disturbances>> /\ (closed => held)
        BY <1>5 DEF TickCallsLock, Running, IInv, StageInv
    <2>2. CASE held /\ Await("renew") /\ UNCHANGED held
        BY <1>1, <1>2, <2>1, <2>2, LeaderAwait DEF LockCalls
    <2>3. CASE Done /\ held' = FALSE
        BY <1>1, <1>2, <2>1, <2>3, LeaderDone DEF lock
    <2>4. CASE ~held /\ Await("acquire") /\ UNCHANGED held
        BY <1>1, <1>2, <2>1, <2>4, LeaderAwait DEF LockCalls
    <2>5. QED
        BY <1>5, <2>2, <2>3, <2>4 DEF TickCallsLock
<1>6. CASE AcquireReturns
    <2>1. /\ Done /\ disturbances' = disturbances
          /\ \/ held' = TRUE /\ cursor' = Confirmed
             \/ UNCHANGED <<held, cursor>>
        BY <1>6 DEF AcquireReturns
    <2>2. /\ held' \in BOOLEAN /\ cursor' \in {"null", "fits", "behind"}
          /\ held' /\ ~closed => cursor' # "null"
        <3>1. CASE held' = TRUE /\ cursor' = Confirmed
            BY <1>3, <3>1
        <3>2. CASE UNCHANGED <<held, cursor>>
            BY <1>2, <3>2
        <3>3. QED
            BY <2>1, <3>1, <3>2
    <2>3. QED
        BY <1>1, <1>2, <2>1, <2>2, LeaderDone DEF lock
<1>7. CASE RenewReturns
    <2>1. /\ Done /\ disturbances' = disturbances
          /\ \/ held' = held /\ cursor' = Confirmed
             \/ held' = FALSE /\ cursor' = "null"
        BY <1>7 DEF RenewReturns
    <2>2. QED
        BY <1>1, <1>2, <1>3, <2>1, LeaderDone DEF lock
<1>8. CASE TickThrows
    <2>1. /\ Done /\ UNCHANGED <<held, cursor>>
          /\ disturbances' \in 0 .. MaxDisturbances
        BY <1>2, <1>8 DEF TickThrows, Disturb
    <2>2. QED
        BY <1>1, <1>2, <2>1, LeaderDone DEF lock
<1>9. QED
    BY <1>4, <1>5, <1>6, <1>7, <1>8

\* pushHandoff and the watchdog's release.
LEMMA GiveUpInv ==
    ASSUME IInv,
           PushBegins \/ PushFindsPeer \/ TransferReturns \/ TransferThrows
               \/ PostReturns \/ ReleaseBegins \/ ReleaseReturns
    PROVE  IInv'
<1>1. /\ chain # <<>> /\ Head(chain) \in {"push", "release"}
      /\ stage # "connect" /\ pending' = pending
      /\ UNCHANGED <<closed, connecting, watchdog, ws, process, lock>>
    BY DEF PushBegins, PushFindsPeer, TransferReturns, TransferThrows,
           PostReturns, ReleaseBegins, ReleaseReturns, Running, discord
<1>2. /\ held \in BOOLEAN /\ cursor \in {"null", "fits", "behind"}
      /\ disturbances \in 0 .. MaxDisturbances
      /\ offer \in {"none", "current", "stale"}
      /\ held /\ ~closed => cursor # "null"
    BY DEF IInv, TypeOK, HeldHasCursor
<1>3. Head(chain) = "push" => closed
    BY <1>1, HeadQueued DEF IInv, TypeOK, WorkInv
<1>4. ASSUME Done, cursor' = cursor, held' \in BOOLEAN, held' => held,
             disturbances' \in 0 .. MaxDisturbances
      PROVE  IInv'
    BY <1>1, <1>2, <1>4, LeaderDone DEF lock
<1>5. ASSUME NEW at \in LockCalls \cup {"peers", "post"}, Await(at),
             at # "acquire", held' \in BOOLEAN, held' => held,
             cursor' = cursor \/ (closed /\ cursor' = "null"),
             at = "release" => Head(chain) = "push" \/ ~held',
             disturbances' \in 0 .. MaxDisturbances
      PROVE  IInv'
    BY <1>1, <1>2, <1>5, LeaderAwait DEF LockCalls
<1>6. /\ "transfer" \in LockCalls /\ "release" \in LockCalls
    BY DEF LockCalls
<1>7. CASE PushBegins
    <2>1. UNCHANGED <<held, cursor, disturbances>>
        BY <1>7 DEF PushBegins
    <2>2. Done \/ Await("peers")
        BY <1>7 DEF PushBegins
    <2>3. QED
        BY <1>2, <1>4, <1>5, <2>1, <2>2
<1>8. CASE PushFindsPeer
    <2>1. Head(chain) = "push" /\ UNCHANGED <<cursor, disturbances>>
        BY <1>8 DEF PushFindsPeer, Running
    <2>2. CASE ReleaseOrDone /\ UNCHANGED held
        BY <1>2, <1>4, <1>5, <1>6, <2>1, <2>2 DEF ReleaseOrDone
    <2>3. CASE Await("transfer") /\ UNCHANGED held
        BY <1>2, <1>5, <1>6, <2>1, <2>3
    <2>4. CASE Done /\ held' = FALSE
        BY <1>2, <1>4, <2>1, <2>4
    <2>5. QED
        BY <1>8, <2>2, <2>3, <2>4 DEF PushFindsPeer
<1>9. CASE TransferReturns
    <2>1. /\ Head(chain) = "push" /\ held' = FALSE
          /\ disturbances' = disturbances
        BY <1>9 DEF TransferReturns, Running
    <2>2. CASE Await("post") /\ cursor' = "null"
        BY <1>2, <1>3, <1>5, <2>1, <2>2
    <2>3. CASE Done /\ cursor' = cursor
        BY <1>2, <1>4, <2>1, <2>3
    <2>4. QED
        BY <1>9, <2>2, <2>3 DEF TransferReturns
<1>10. CASE TransferThrows
    <2>1. /\ Head(chain) = "push" /\ UNCHANGED <<held, cursor>>
          /\ ReleaseOrDone /\ disturbances' \in 0 .. MaxDisturbances
        BY <1>2, <1>10 DEF TransferThrows, Running, Disturb
    <2>2. QED
        BY <1>2, <1>4, <1>5, <1>6, <2>1 DEF ReleaseOrDone
<1>11. CASE PostReturns
    BY <1>2, <1>4, <1>11 DEF PostReturns
<1>12. CASE ReleaseBegins
    <2>1. UNCHANGED <<cursor, disturbances>>
        BY <1>12 DEF ReleaseBegins
    <2>2. CASE Done /\ UNCHANGED held
        BY <1>2, <1>4, <2>1, <2>2
    <2>3. CASE ReleaseOrDone /\ held' = FALSE
        BY <1>2, <1>4, <1>5, <1>6, <2>1, <2>3 DEF ReleaseOrDone
    <2>4. QED
        BY <1>12, <2>2, <2>3 DEF ReleaseBegins
<1>13. CASE ReleaseReturns
    <2>1. /\ Done /\ held' = held /\ cursor' = "null"
          /\ disturbances' \in 0 .. MaxDisturbances
        BY <1>2, <1>13 DEF ReleaseReturns, Disturb
    <2>2. stage = "release" /\ (Head(chain) = "release" => ~held)
        BY <1>13 DEF ReleaseReturns, Running, IInv, StageInv
    <2>3. held' => closed
        BY <1>1, <1>3, <2>1, <2>2
    <2>4. QED
        BY <1>1, <1>2, <2>1, <2>3, LeaderDone DEF lock
<1>14. QED
    BY <1>7, <1>8, <1>9, <1>10, <1>11, <1>12, <1>13

\* Inbound handoff: it is queued, refused, adopted, given up on by its timer,
\* or connected.
LEMMA HandoffInv ==
    ASSUME IInv,
           \/ HandoffArrives \/ HandoffRefused \/ HandoffAdopts
           \/ HandoffTimesOut \/ \E ok \in BOOLEAN : HandoffConnectSettles(ok)
    PROVE  IInv'
<1>1. /\ TypeOK /\ Unique /\ WorkInv /\ StageInv /\ LadderInv
      /\ HeldHasCursor /\ ChainInv
    BY DEF IInv, TypeOK, ChainInv
<1>2. CASE HandoffArrives
    <2>1. /\ UNCHANGED <<held, cursor, closed, stage, phase, connecting,
                         watchdog, discord, process, row, live, disturbances>>
          /\ offer' \in {"none", "current", "stale"}
          /\ ~Queued("handoff")
          /\ chain' = Append(chain, "handoff") \/ chain' = chain
        BY <1>1, <1>2 DEF HandoffArrives, TypeOK
    <2>2. "handoff" \in Works
        BY DEF Works
    <2>3. /\ ChainInv' /\ StageInv'
          /\ \A v : Queued(v)' => Queued(v) \/ v = "handoff"
        <3>1. pending' = pending
            BY <2>1 DEF discord
        <3>2. CASE chain' = Append(chain, "handoff")
            BY <2>1, <2>2, <3>1, <3>2, AppendInv
        <3>3. CASE chain' = chain
            BY <2>1, <3>1, <3>3, KeepInv
        <3>4. QED
            BY <2>1, <3>2, <3>3
    <2>4. WorkInv'
        BY <1>1, <2>1, <2>3 DEF WorkInv, watchdog, process
    <2>5. TypeOK' /\ LadderInv' /\ HeldHasCursor'
        BY <1>1, <2>1, <2>3 DEF TypeOK, ChainInv, LadderInv, HeldHasCursor,
                                watchdog, discord, process
    <2>6. QED
        BY <2>3, <2>4, <2>5 DEF IInv, ChainInv
<1>3. CASE HandoffRefused
    <2>1. /\ chain # <<>> /\ stage # "connect" /\ Done
          /\ offer' \in {"none", "current", "stale"}
          /\ pending' = pending
          /\ UNCHANGED <<held, cursor, closed, connecting, watchdog, ws,
                         process, row, live, disturbances>>
        BY <1>3 DEF HandoffRefused, Running, discord
    <2>2. QED
        BY <1>1, <2>1, LeaderDone DEF TypeOK, HeldHasCursor
<1>4. CASE HandoffAdopts
    <2>1. /\ chain # <<>> /\ stage = "wait" /\ ~closed
          /\ cursor' \in {"fits", "behind"} /\ held' = TRUE /\ offer' = "none"
          /\ UNCHANGED <<closed, watchdog, ws, process, row, live,
                         disturbances>>
        BY <1>4 DEF HandoffAdopts, Running
    <2>2. CASE Done /\ UNCHANGED <<connecting, pending>>
        BY <1>1, <2>1, <2>2, LeaderDone DEF TypeOK
    <2>3. CASE /\ Await("connect")
               /\ connecting' = TRUE
               /\ pending' = [pending EXCEPT !["handoff"] = @ + 1]
        <3>1. /\ ChainInv' /\ WorkInv' /\ chain' = chain
              /\ stage' = "connect" /\ phase' \in {"sent", "none"}
            BY <2>1, <2>3, AwaitInv DEF watchdog, process
        <3>2. /\ pending' \in [Callers -> Nat]
              /\ pending'["handoff"] = 1
              /\ pending'["watchdog"] = pending["watchdog"]
            BY <1>1, <2>1, <2>3 DEF TypeOK, Callers, StageInv
        <3>3. StageInv'
            BY <2>1, <3>1, <3>2 DEF StageInv
        <3>4. TypeOK' /\ LadderInv' /\ HeldHasCursor'
            BY <1>1, <2>1, <2>3, <3>1, <3>2
            DEF TypeOK, ChainInv, LadderInv, HeldHasCursor, watchdog, process
        <3>5. QED
            BY <3>1, <3>3, <3>4 DEF IInv, ChainInv
    <2>4. QED
        BY <1>4, <2>2, <2>3 DEF HandoffAdopts
<1>5. ASSUME chain # <<>>, Done, pending' \in [Callers -> Nat],
             pending'["handoff"] = 0, connecting' \in BOOLEAN,
             pending'["watchdog"] = pending["watchdog"],
             ws' \in {"idle", "connected", "recovering"},
             UNCHANGED <<held, cursor, closed, watchdog, process, lock,
                         disturbances>>
      PROVE  IInv'
    <2>1. /\ ChainInv' /\ WorkInv' /\ StageInv' /\ stage' = "wait"
          /\ phase' = "none"
        BY <1>5, DoneInv DEF watchdog, process
    <2>2. TypeOK' /\ LadderInv' /\ HeldHasCursor'
        BY <1>1, <1>5, <2>1
        DEF TypeOK, ChainInv, LadderInv, HeldHasCursor, watchdog, process, lock
    <2>3. QED
        BY <2>1, <2>2 DEF IInv, ChainInv
<1>6. CASE HandoffTimesOut
    <2>1. /\ chain # <<>> /\ stage = "connect" /\ pending["handoff"] = 1
        BY <1>1, <1>6 DEF HandoffTimesOut, Running, StageInv
    <2>2. pending' = [pending EXCEPT !["handoff"] = @ - 1,
                                     !["leftHandoff"] = @ + 1]
        BY <1>6 DEF HandoffTimesOut
    <2>3. /\ pending' \in [Callers -> Nat]
          /\ pending'["handoff"] = 0
          /\ pending'["watchdog"] = pending["watchdog"]
        BY <1>1, <2>1, <2>2 DEF TypeOK, Callers
    <2>4. QED
        BY <1>1, <1>5, <1>6, <2>1, <2>3 DEF HandoffTimesOut, TypeOK
<1>7. ASSUME NEW ok \in BOOLEAN, HandoffConnectSettles(ok) PROVE IInv'
    <2>1. /\ pending["handoff"] > 0
          /\ pending' = [pending EXCEPT !["handoff"] = @ - 1]
          /\ ws' = IF ok THEN "connected" ELSE ws
        BY <1>7 DEF HandoffConnectSettles, Settle
    <2>2. stage = "connect" /\ chain # <<>> /\ pending["handoff"] = 1
        BY <1>1, <2>1 DEF StageInv
    <2>3. /\ pending' \in [Callers -> Nat]
          /\ pending'["handoff"] = 0
          /\ pending'["watchdog"] = pending["watchdog"]
          /\ ws' \in {"idle", "connected", "recovering"}
        BY <1>1, <2>1, <2>2 DEF TypeOK, Callers
    <2>4. QED
        BY <1>5, <1>7, <2>2, <2>3 DEF HandoffConnectSettles
<1>8. QED
    BY <1>2, <1>3, <1>4, <1>6, <1>7

-----------------------------------------------------------------------------
(* The watchdog's steps.                                                   *)

\* What a step of the watchdog, or of a connect() it started or left, does
\* not touch.
WatchdogFrame ==
    /\ UNCHANGED <<held, cursor, closed, stage, phase, stopping, signal, row,
                   live, offer>>
    /\ pending' \in [Callers -> Nat]
    /\ pending'["handoff"] = pending["handoff"]
    /\ connecting' \in BOOLEAN
    /\ ws' \in {"idle", "connected", "recovering"}
    /\ attempts' \in 0 .. MaxAttempts
    /\ recovery' \in 0 .. MaxRecovery
    /\ disturbances' \in 0 .. MaxDisturbances

\* The watchdog queues its release, or leaves without one.
LEMMA LeaveInv ==
    ASSUME IInv, wd \in {"sleep", "connect"}, NEW release, Leave(release),
           WatchdogFrame, pending'["watchdog"] = 0, UNCHANGED shutdown
    PROVE  IInv'
<1>1. /\ TypeOK /\ WorkInv /\ HeldHasCursor /\ ~Queued("release")
    BY DEF IInv, WorkInv
<1>2. CASE wd' = "release" /\ chain' = Append(chain, "release")
    <2>1. "release" \in Works
        BY DEF Works
    <2>2. /\ ChainInv' /\ StageInv'
          /\ \A v : Queued(v)' <=> Queued(v) \/ v = "release"
        BY <1>1, <1>2, <2>1, AppendInv DEF WatchdogFrame
    <2>3. WorkInv'
        BY <1>1, <1>2, <2>2 DEF WorkInv, WatchdogFrame
    <2>4. TypeOK' /\ LadderInv' /\ HeldHasCursor'
        BY <1>1, <1>2, <2>2 DEF TypeOK, ChainInv, LadderInv, HeldHasCursor,
                                WatchdogFrame
    <2>5. QED
        BY <2>2, <2>3, <2>4 DEF IInv, ChainInv
<1>3. CASE wd' = "leave" /\ chain' = chain
    <2>1. /\ ChainInv' /\ StageInv' /\ \A v : Queued(v)' <=> Queued(v)
        BY <1>3, KeepInv DEF WatchdogFrame
    <2>2. WorkInv'
        BY <1>1, <2>1 DEF WorkInv, WatchdogFrame
    <2>3. TypeOK' /\ LadderInv' /\ HeldHasCursor'
        BY <1>1, <1>3, <2>1 DEF TypeOK, ChainInv, LadderInv, HeldHasCursor,
                                WatchdogFrame
    <2>4. QED
        BY <2>1, <2>2, <2>3 DEF IInv, ChainInv
<1>4. QED
    BY <1>2, <1>3 DEF Leave

\* The watchdog stays, with an attempt left if it may start one.
LEMMA StayInv ==
    ASSUME IInv, WatchdogFrame, chain' = chain,
           wd' \in {"sleep", "read", "connect", "release", "leave"},
           Queued("release") => wd' \in {"release", "leave"},
           LadderInv',
           shutdown' \in {"no", "closing", "watchdog", "leader", "push"}
                             \cup Exits,
           closed => shutdown' # "no"
    PROVE  IInv'
<1>1. TypeOK /\ WorkInv /\ HeldHasCursor
    BY DEF IInv
<1>2. /\ ChainInv' /\ StageInv' /\ \A v : Queued(v)' <=> Queued(v)
    BY KeepInv DEF WatchdogFrame
<1>3. WorkInv'
    BY <1>1, <1>2 DEF WorkInv, WatchdogFrame
<1>4. TypeOK' /\ HeldHasCursor'
    BY <1>1, <1>2 DEF TypeOK, ChainInv, HeldHasCursor, WatchdogFrame
<1>5. QED
    BY <1>2, <1>3, <1>4 DEF IInv, ChainInv

\* connectFailed leaves, or sleeps with an attempt left.
LEMMA ConnectFailedInv ==
    ASSUME IInv, wd = "connect", ConnectFailed, attempts' = attempts,
           WatchdogFrame, pending'["watchdog"] = 0, UNCHANGED shutdown
    PROVE  IInv'
<1>1. TypeOK /\ WorkInv /\ ~Queued("release")
    BY DEF IInv, WorkInv
<1>2. CASE ~stopping /\ attempts = MaxAttempts
    BY <1>2, LeaveInv DEF ConnectFailed
<1>3. CASE ~(~stopping /\ attempts = MaxAttempts)
    <2>1. wd' = "sleep" /\ chain' = chain
        BY <1>3 DEF ConnectFailed
    <2>2. LadderInv'
        BY <1>1, <1>3, <2>1 DEF LadderInv, WatchdogFrame, TypeOK
    <2>3. QED
        BY <1>1, <2>1, <2>2, StayInv DEF TypeOK, WorkInv
<1>4. QED
    BY <1>2, <1>3

\* The steps of the watchdog, and the connect() calls it awaits or that were
\* left behind.
LEMMA WatchdogInv ==
    ASSUME IInv,
           \/ StepConnected \/ StepRecovering \/ StepIdle \/ ReadReturns
           \/ ReadThrows \/ ConnectCeiling
           \/ \E ceiling \in BOOLEAN : ReleaseAwaited(ceiling)
           \/ WatchdogExits
           \/ \E ok \in BOOLEAN : WatchdogConnectSettles(ok)
           \/ \E ok \in BOOLEAN, c \in {"leftHandoff", "leftWatchdog"} :
                  LeftConnectSettles(c, ok)
    PROVE  IInv'
<1>1. /\ TypeOK /\ WorkInv /\ LadderInv
      /\ wd \in {"sleep", "read", "connect"} => ~Queued("release")
    BY DEF IInv, WorkInv
<1>2. CASE StepConnected
    <2>1. /\ wd = "sleep" /\ chain' = chain /\ shutdown' = shutdown
          /\ wd' \in {"sleep", "read"} /\ attempts' = 0 /\ pending' = pending
        BY <1>2 DEF StepConnected, WatchdogIdle, At, leader, process, discord
    <2>2. WatchdogFrame
        BY <1>1, <1>2 DEF StepConnected, WatchdogFrame, TypeOK, leader,
                          discord, process, lock
    <2>3. LadderInv'
        BY <1>1, <2>1 DEF LadderInv
    <2>4. QED
        BY <1>1, <2>1, <2>2, <2>3, StayInv DEF TypeOK, WorkInv
<1>3. CASE StepRecovering
    <2>1. /\ wd = "sleep" /\ shutdown' = shutdown /\ attempts' = 0
          /\ pending' = pending /\ pending["watchdog"] = 0
        BY <1>1, <1>3 DEF StepRecovering, WatchdogIdle, At, process, discord,
                          LadderInv
    <2>2. WatchdogFrame
        BY <1>1, <1>3 DEF StepRecovering, WatchdogFrame, TypeOK, discord,
                          process, lock
    <2>3. CASE recovery = MaxRecovery
        BY <1>3, <2>1, <2>2, <2>3, LeaveInv DEF StepRecovering
    <2>4. CASE recovery # MaxRecovery
        <3>1. wd' = wd /\ chain' = chain
            BY <1>3, <2>4 DEF StepRecovering
        <3>2. LadderInv'
            BY <1>1, <2>1, <3>1 DEF LadderInv
        <3>3. QED
            BY <1>1, <2>1, <2>2, <3>1, <3>2, StayInv DEF TypeOK, WorkInv
    <2>5. QED
        BY <2>3, <2>4
<1>4. CASE StepIdle
    <2>1. /\ wd = "sleep" /\ ~stopping /\ attempts < MaxAttempts
          /\ chain' = chain /\ shutdown' = shutdown
        BY <1>1, <1>4 DEF StepIdle, WatchdogIdle, At, leader, process,
                          LadderInv
    <2>2. /\ wd' \in {"sleep", "connect"}
          /\ wd' = "sleep" => attempts' = 0
          /\ attempts' \in 0 .. MaxAttempts
          /\ pending' \in [Callers -> Nat]
          /\ pending'["handoff"] = pending["handoff"]
          /\ pending'["watchdog"] = IF wd' = "connect" THEN 1 ELSE 0
        BY <1>1, <1>4, <2>1 DEF StepIdle, TypeOK, Callers, LadderInv
    <2>3. WatchdogFrame
        BY <1>1, <1>4, <2>2 DEF StepIdle, WatchdogFrame, TypeOK, leader,
                                process, lock
    <2>4. LadderInv'
        BY <1>1, <2>2 DEF LadderInv
    <2>5. QED
        BY <1>1, <2>1, <2>2, <2>3, <2>4, StayInv DEF TypeOK, WorkInv
<1>5. CASE ReadReturns \/ ReadThrows
    <2>1. /\ wd = "read" /\ wd' \in {"sleep", "leave"} /\ chain' = chain
          /\ UNCHANGED <<shutdown, attempts, stopping, pending>>
        BY <1>5 DEF ReadReturns, ReadThrows, At, leader, process, discord
    <2>2. WatchdogFrame
        BY <1>1, <1>5 DEF ReadReturns, ReadThrows, WatchdogFrame, TypeOK,
                          leader, discord, process, lock
    <2>3. LadderInv'
        BY <1>1, <2>1 DEF LadderInv
    <2>4. QED
        BY <1>1, <2>1, <2>2, <2>3, StayInv DEF TypeOK, WorkInv
<1>6. CASE ConnectCeiling
    <2>1. /\ wd = "connect" /\ ConnectFailed /\ attempts' = attempts
          /\ shutdown' = shutdown
        BY <1>6 DEF ConnectCeiling, At, process
    <2>2. /\ pending' \in [Callers -> Nat]
          /\ pending'["handoff"] = pending["handoff"]
          /\ pending'["watchdog"] = 0
        BY <1>1, <1>6, <2>1 DEF ConnectCeiling, TypeOK, Callers, LadderInv
    <2>3. WatchdogFrame
        BY <1>1, <1>6, <2>2 DEF ConnectCeiling, WatchdogFrame, TypeOK,
                                process, lock
    <2>4. QED
        BY <2>1, <2>2, <2>3, ConnectFailedInv
<1>7. ASSUME NEW ceiling \in BOOLEAN, ReleaseAwaited(ceiling) PROVE IInv'
    <2>1. /\ wd = "release" /\ wd' = "leave" /\ chain' = chain
          /\ shutdown' = shutdown /\ pending' = pending
        BY <1>7 DEF ReleaseAwaited, At, leader, process, discord
    <2>2. WatchdogFrame
        BY <1>1, <1>7 DEF ReleaseAwaited, WatchdogFrame, TypeOK, leader,
                          discord, process, lock
    <2>3. LadderInv'
        BY <1>1, <2>1 DEF LadderInv
    <2>4. QED
        BY <1>1, <2>1, <2>2, <2>3, StayInv DEF TypeOK, WorkInv
<1>8. CASE WatchdogExits
    <2>1. /\ wd = "leave" /\ wd' = "leave" /\ chain' = chain
          /\ shutdown' = "exit watchdog" /\ pending' = pending
        BY <1>8 DEF WatchdogExits, At, leader, watchdog, discord
    <2>2. WatchdogFrame
        BY <1>1, <1>8 DEF WatchdogExits, WatchdogFrame, TypeOK, leader,
                          watchdog, discord, lock
    <2>3. LadderInv'
        BY <1>1, <2>1 DEF LadderInv
    <2>4. QED
        BY <1>1, <2>1, <2>2, <2>3, StayInv DEF Exits
<1>9. ASSUME NEW ok \in BOOLEAN, WatchdogConnectSettles(ok) PROVE IInv'
    <2>1. /\ pending["watchdog"] > 0
          /\ pending' = [pending EXCEPT !["watchdog"] = @ - 1]
          /\ ws' = IF ok THEN "connected" ELSE ws
        BY <1>9 DEF WatchdogConnectSettles, Settle
    <2>2. wd = "connect" /\ pending["watchdog"] = 1
        BY <1>1, <2>1 DEF LadderInv
    <2>3. /\ pending' \in [Callers -> Nat]
          /\ pending'["handoff"] = pending["handoff"]
          /\ pending'["watchdog"] = 0
          /\ ws' \in {"idle", "connected", "recovering"}
        BY <1>1, <2>1, <2>2 DEF TypeOK, Callers
    <2>4. shutdown' = shutdown
        BY <1>9 DEF WatchdogConnectSettles, process
    <2>5. CASE attempts' = 0 /\ wd' = "sleep" /\ chain' = chain
        <3>1. WatchdogFrame
            BY <1>1, <1>9, <2>3, <2>5 DEF WatchdogConnectSettles,
                WatchdogFrame, TypeOK, process, lock
        <3>2. LadderInv'
            BY <2>3, <2>5 DEF LadderInv
        <3>3. QED
            BY <1>1, <2>2, <2>4, <2>5, <3>1, <3>2, StayInv DEF TypeOK, WorkInv
    <2>6. CASE ConnectFailed /\ attempts' = attempts
        <3>1. WatchdogFrame
            BY <1>1, <1>9, <2>3, <2>6 DEF WatchdogConnectSettles,
                WatchdogFrame, TypeOK, process, lock
        <3>2. QED
            BY <2>2, <2>3, <2>4, <2>6, <3>1, ConnectFailedInv
    <2>7. QED
        BY <1>9, <2>5, <2>6 DEF WatchdogConnectSettles
<1>10. ASSUME NEW ok \in BOOLEAN, NEW c \in {"leftHandoff", "leftWatchdog"},
              LeftConnectSettles(c, ok)
       PROVE  IInv'
    <2>1. /\ pending[c] > 0
          /\ pending' = [pending EXCEPT ![c] = @ - 1]
          /\ ws' = IF ok THEN "connected" ELSE ws
          /\ connecting' = IF c = "leftHandoff" THEN FALSE ELSE connecting
          /\ chain' = chain /\ UNCHANGED <<wd, attempts, stopping, shutdown>>
        BY <1>10 DEF LeftConnectSettles, Settle, watchdog, process
    <2>2. /\ pending' \in [Callers -> Nat]
          /\ pending'["handoff"] = pending["handoff"]
          /\ pending'["watchdog"] = pending["watchdog"]
          /\ ws' \in {"idle", "connected", "recovering"}
          /\ connecting' \in BOOLEAN
        <3>1. /\ pending[c] \in Nat /\ pending[c] - 1 \in Nat
              /\ c # "handoff" /\ c # "watchdog"
            BY <1>1, <2>1 DEF TypeOK, Callers
        <3>2. /\ pending' \in [Callers -> Nat]
              /\ pending'["handoff"] = pending["handoff"]
              /\ pending'["watchdog"] = pending["watchdog"]
            BY <1>1, <2>1, <3>1 DEF TypeOK, Callers
        <3>3. ws' \in {"idle", "connected", "recovering"}
            BY <1>1, <2>1 DEF TypeOK
        <3>4. connecting' \in BOOLEAN
            BY <1>1, <2>1, Zenon DEF TypeOK
        <3>5. QED
            BY <3>2, <3>3, <3>4
    <2>3. WatchdogFrame
        BY <1>1, <1>10, <2>2 DEF LeftConnectSettles, WatchdogFrame, TypeOK,
                                 watchdog, process, lock
    <2>4. LadderInv'
        BY <1>1, <2>1, <2>2 DEF LadderInv
    <2>5. QED
        BY <1>1, <2>1, <2>3, <2>4, StayInv DEF TypeOK, WorkInv
<1>11. QED
    BY <1>2, <1>3, <1>4, <1>5, <1>6, <1>7, <1>8, <1>9, <1>10

-----------------------------------------------------------------------------
(* The environment and the shutdown.                                       *)

\* The lock table, the network, the other replicas and the shard leave
\* everything alone but what they own and how the cursor compares.
LEMMA EnvironmentInv ==
    ASSUME IInv,
           \/ LockApplies \/ SdkRetry \/ ShardCloses \/ ShardRecovers
           \/ LeaseLapses \/ PeerAcquires \/ PeerReleases \/ PeerTransfers
    PROVE  IInv'
<1>1. TypeOK /\ WorkInv /\ LadderInv /\ HeldHasCursor
    BY DEF IInv
<1>2. /\ UNCHANGED <<held, closed, chain, stage, connecting, watchdog,
                     pending, process>>
      /\ disturbances' \in 0 .. MaxDisturbances
    BY <1>1 DEF LockApplies, SdkRetry, ShardCloses, ShardRecovers,
        LeaseLapses, PeerAcquires, PeerReleases, PeerTransfers, leader,
        discord, Disturb, TypeOK
<1>3. /\ cursor' \in {"null", "fits", "behind"}
      /\ cursor # "null" => cursor' # "null"
    BY <1>1 DEF LockApplies, SdkRetry, ShardCloses, ShardRecovers,
        LeaseLapses, PeerAcquires, PeerReleases, PeerTransfers, leader, TypeOK
<1>4. phase' \in {"none", "sent", "ok", "late", "ccf"}
    BY <1>1 DEF LockApplies, SdkRetry, ShardCloses, ShardRecovers,
        LeaseLapses, PeerAcquires, PeerReleases, PeerTransfers, leader,
        Moved, TypeOK
<1>5. /\ row' \in {"none", "self", "peer"}
      /\ offer' \in {"none", "current", "stale"}
      /\ ws' \in {"idle", "connected", "recovering"}
    BY <1>1 DEF LockApplies, SdkRetry, ShardCloses, ShardRecovers,
        LeaseLapses, PeerAcquires, PeerReleases, PeerTransfers, lock, discord,
        Stale, TypeOK
<1>6. live' \in BOOLEAN
    BY <1>1 DEF LockApplies, SdkRetry, ShardCloses, ShardRecovers,
        LeaseLapses, PeerAcquires, PeerReleases, PeerTransfers, lock, TypeOK
<1>7. /\ ChainInv' /\ StageInv' /\ \A v : Queued(v)' <=> Queued(v)
    BY <1>2, KeepInv
<1>8. TypeOK'
    BY <1>1, <1>2, <1>3, <1>4, <1>5, <1>6, <1>7
    DEF TypeOK, ChainInv, watchdog, process
<1>9. WorkInv' /\ LadderInv' /\ HeldHasCursor'
    BY <1>1, <1>2, <1>3, <1>7
    DEF WorkInv, LadderInv, HeldHasCursor, watchdog, process
<1>10. QED
    BY <1>7, <1>8, <1>9 DEF IInv, ChainInv

\* A tick joins the chain.
LEMMA QueueTickInv ==
    ASSUME IInv, QueueTick
    PROVE  IInv'
<1>1. TypeOK /\ WorkInv /\ LadderInv /\ HeldHasCursor
    BY DEF IInv
<1>2. /\ "tick" \in Works /\ ~Queued("tick") /\ chain' = Append(chain, "tick")
      /\ UNCHANGED <<held, cursor, closed, stage, phase, connecting, watchdog,
                     discord, process, lock, disturbances>>
    BY DEF QueueTick, Works
<1>3. /\ ChainInv' /\ StageInv'
      /\ \A v : Queued(v)' <=> Queued(v) \/ v = "tick"
    BY <1>2, AppendInv DEF discord
<1>4. TypeOK' /\ WorkInv' /\ LadderInv' /\ HeldHasCursor'
    BY <1>1, <1>2, <1>3 DEF TypeOK, ChainInv, WorkInv, LadderInv,
        HeldHasCursor, watchdog, discord, process, lock
<1>5. QED
    BY <1>3, <1>4 DEF IInv, ChainInv

\* SIGTERM on a holder closes the leader, whatever its chain is doing: the
\* running work is not an acquire, and a tick before its lock call renews.
LEMMA SignalInv ==
    ASSUME IInv, NEW sig \in {"SIGTERM", "SIGINT"}, SignalArrives(sig)
    PROVE  IInv'
<1>1. TypeOK /\ WorkInv /\ LadderInv /\ HeldHasCursor
    BY DEF IInv
<1>2. /\ signal' = sig /\ shutdown = "no"
      /\ UNCHANGED <<held, cursor, stage, phase, connecting, wd, attempts,
                     recovery, discord, lock, disturbances>>
    BY DEF SignalArrives
<1>3. CASE sig = "SIGTERM" /\ held
    <2>1. /\ shutdown' = "push" /\ stopping' = TRUE /\ closed' = TRUE
          /\ chain' = Append(chain, "push")
        BY <1>3 DEF SignalArrives
    <2>2. "push" \in Works /\ ~Queued("push")
        BY <1>1, <1>2 DEF Works, WorkInv
    <2>3. /\ ChainInv' /\ StageInv'
          /\ \A v : Queued(v)' <=> Queued(v) \/ v = "push"
        BY <1>2, <1>3, <2>1, <2>2, AppendInv DEF discord
    <2>4. TypeOK' /\ WorkInv' /\ LadderInv' /\ HeldHasCursor'
        BY <1>1, <1>2, <2>1, <2>3 DEF TypeOK, ChainInv, WorkInv, LadderInv,
            HeldHasCursor, discord, lock
    <2>5. QED
        BY <2>3, <2>4 DEF IInv, ChainInv
<1>4. CASE ~(sig = "SIGTERM" /\ held)
    <2>1. /\ shutdown' = "closing"
          /\ UNCHANGED <<stopping, closed, chain>>
        BY <1>4 DEF SignalArrives
    <2>2. /\ ChainInv' /\ StageInv' /\ \A v : Queued(v)' <=> Queued(v)
        BY <1>2, <2>1, KeepInv DEF discord
    <2>3. TypeOK' /\ WorkInv' /\ LadderInv' /\ HeldHasCursor'
        BY <1>1, <1>2, <2>1, <2>2 DEF TypeOK, ChainInv, WorkInv, LadderInv,
            HeldHasCursor, discord, lock
    <2>4. QED
        BY <2>2, <2>3 DEF IInv, ChainInv
<1>5. QED
    BY <1>3, <1>4

\* The later stages of a shutdown only move on or exit.
LEMMA ShutdownInv ==
    ASSUME IInv,
           PushExits \/ StopWatchdog \/ StopLeader \/ GracefulExits
               \/ ForcedExit
    PROVE  IInv'
<1>1. TypeOK /\ WorkInv /\ LadderInv /\ HeldHasCursor
    BY DEF IInv
<1>2. /\ UNCHANGED <<leader, wd, attempts, recovery, discord, signal, lock,
                     disturbances>>
      /\ stopping' = stopping \/ stopping' = TRUE
      /\ shutdown' \in {"watchdog", "leader"} \cup Exits
    BY DEF PushExits, StopWatchdog, StopLeader, GracefulExits, ForcedExit,
           watchdog, Exits
<1>3. stopping' \in BOOLEAN /\ (~stopping' => ~stopping)
    <2>1. stopping \in BOOLEAN
        BY <1>1 DEF TypeOK
    <2>2. CASE stopping' = stopping
        BY <2>1, <2>2
    <2>3. CASE stopping' = TRUE
        BY <2>3
    <2>4. QED
        BY <1>2, <2>2, <2>3
<1>4. shutdown' # "no"
    BY <1>2 DEF Exits
<1>5. /\ ChainInv' /\ StageInv' /\ \A v : Queued(v)' <=> Queued(v)
    BY <1>2, KeepInv DEF leader, discord
<1>6. TypeOK' /\ WorkInv' /\ LadderInv' /\ HeldHasCursor'
    BY <1>1, <1>2, <1>3, <1>4, <1>5 DEF TypeOK, ChainInv, WorkInv, LadderInv,
        HeldHasCursor, leader, discord, lock
<1>7. QED
    BY <1>5, <1>6 DEF IInv, ChainInv

-----------------------------------------------------------------------------
(* The theorems.                                                           *)

\* A replica that has just booted: nothing runs.
LEMMA InitIInv == Init => IInv
<1> SUFFICES ASSUME Init PROVE IInv
    OBVIOUS
<1>1. /\ chain \in Seq(Works) /\ Len(chain) = 0 /\ chain = <<>>
      /\ ~Queued("push") /\ ~Queued("release")
    <2>1. chain = <<>>
        BY DEF Init
    <2>2. chain \in Seq(Works) /\ Len(chain) = 0
        BY <2>1
    <2>3. ~ \E k \in DOMAIN chain : TRUE
        BY <2>1
    <2>4. ~Queued("push") /\ ~Queued("release")
        BY <2>3 DEF Queued
    <2>5. QED
        BY <2>1, <2>2, <2>4
<1>2. pending \in [Callers -> Nat] /\ pending["handoff"] = 0
          /\ pending["watchdog"] = 0
    BY DEF Init, Callers
<1>3. TypeOK
    <2>1. /\ 0 \in 0..MaxAttempts /\ 0 \in 0..MaxRecovery
          /\ 0 \in 0..MaxDisturbances
        BY DEF BoundAssumption
    <2>2. /\ attempts \in 0..MaxAttempts /\ recovery \in 0..MaxRecovery
          /\ disturbances \in 0..MaxDisturbances
        BY <2>1 DEF Init
    <2>3. held \in BOOLEAN /\ closed \in BOOLEAN /\ connecting \in BOOLEAN
              /\ stopping \in BOOLEAN /\ live \in BOOLEAN
        BY DEF Init
    <2>4. QED
        BY <1>1, <1>2, <2>2, <2>3 DEF Init, TypeOK
<1>4. Unique /\ WorkInv /\ StageInv /\ LadderInv /\ HeldHasCursor
    BY <1>1, <1>2 DEF Init, Unique, WorkInv, StageInv, LadderInv,
                      HeldHasCursor
<1>5. QED
    BY <1>3, <1>4 DEF IInv

\* Every step preserves the invariant.
LEMMA NextIInv == IInv /\ [Next]_vars => IInv'
<1> SUFFICES ASSUME IInv, [Next]_vars PROVE IInv'
    OBVIOUS
<1>1. CASE UNCHANGED vars
    BY <1>1 DEF vars, leader, watchdog, discord, process, lock, IInv, TypeOK,
        Unique, WorkInv, StageInv, LadderInv, HeldHasCursor, Queued
<1>2. CASE Leader
    BY <1>2, TickInv, GiveUpInv, HandoffInv, QueueTickInv, EnvironmentInv
    DEF Leader
<1>3. CASE Watchdog
    BY <1>3, WatchdogInv DEF Watchdog
<1>4. CASE Discord
    BY <1>4, WatchdogInv, HandoffInv DEF Discord
<1>5. CASE Shutdown
    BY <1>5, ShutdownInv DEF Shutdown
<1>6. CASE Environment
    BY <1>6, TickInv, GiveUpInv, HandoffInv, WatchdogInv, EnvironmentInv,
        SignalInv, ShutdownInv DEF Environment
<1>7. QED
    BY <1>1, <1>2, <1>3, <1>4, <1>5, <1>6 DEF Next

\* The inductive invariant holds throughout.
THEOREM Invariance == Spec => []IInv
BY InitIInv, NextIInv, PTL DEF Spec

\* Every reachable state of the process is well typed: no work is queued
\* twice and no attempt is counted beyond the last.
THEOREM TypeCorrect == Spec => []TypeOK
<1>1. IInv => TypeOK
    BY DEF IInv
<1>2. QED
    BY <1>1, Invariance, PTL

\* heldLock and currentVersion are never torn apart outside the exit path:
\* a holder always has a version to renew with (gateway-leader.js, step).
THEOREM HolderHasCursor == Spec => []HeldHasCursor
<1>1. IInv => HeldHasCursor
    BY DEF IInv
<1>2. QED
    BY <1>1, Invariance, PTL

\* What ClosedLeaderIsDead says of one step.
Dead ==
    closed => /\ stage' # "acquire"
              /\ held' => held
              /\ pending'["handoff"] <= pending["handoff"]

\* A step that neither acquires nor adopts meets it.
LEMMA InertStep ==
    ASSUME IInv, stage' # "acquire" \/ stage' = stage,
           held' = held \/ held' = FALSE,
           pending'["handoff"] = pending["handoff"]
               \/ pending'["handoff"] = pending["handoff"] - 1
    PROVE  Dead
<1>1. closed => stage # "acquire"
    BY DEF IInv, StageInv
<1>2. pending["handoff"] \in Nat
    BY DEF IInv, StageInv
<1>3. closed => stage' # "acquire"
    BY <1>1
<1>4. pending'["handoff"] <= pending["handoff"]
    BY <1>2
<1>5. held' => held
    OBVIOUS
<1>6. QED
    BY <1>3, <1>4, <1>5 DEF Dead

\* Every step meets it.
LEMMA NextDead == IInv /\ [Next]_vars => Dead
<1> SUFFICES ASSUME IInv, [Next]_vars, closed PROVE Dead
    BY DEF Dead
<1>1. /\ TypeOK /\ stage # "acquire"
      /\ stage = "beat" => held
    BY DEF IInv, StageInv
<1>2. CASE UNCHANGED vars
    BY <1>2, InertStep DEF vars, leader, discord
<1>3. CASE \/ QueueTick \/ TickBegins \/ RenewReturns \/ TickThrows
           \/ HandoffRefused \/ HandoffArrives
    BY <1>3, InertStep DEF QueueTick, TickBegins, RenewReturns, TickThrows,
        HandoffRefused, HandoffArrives, Done, Await, discord
<1>4. CASE TickCallsLock
    <2>1. held /\ pending' = pending
        BY <1>1, <1>4 DEF TickCallsLock, Running, discord
    <2>2. /\ held' = held \/ held' = FALSE
          /\ stage' \in {"renew", "wait"}
        BY <1>4, <2>1 DEF TickCallsLock, Done, Await
    <2>3. QED
        BY <2>1, <2>2, InertStep
<1>5. CASE AcquireReturns
    BY <1>1, <1>5 DEF AcquireReturns, Running
<1>6. CASE HandoffAdopts
    BY <1>6 DEF HandoffAdopts
<1>7. CASE \/ PushBegins \/ PushFindsPeer \/ TransferReturns
           \/ TransferThrows \/ PostReturns \/ ReleaseBegins \/ ReleaseReturns
    BY <1>7, InertStep DEF PushBegins, PushFindsPeer, TransferReturns,
        TransferThrows, PostReturns, ReleaseBegins, ReleaseReturns,
        ReleaseOrDone, Done, Await, discord
<1>8. CASE \/ HandoffTimesOut
           \/ \E ok \in BOOLEAN : HandoffConnectSettles(ok)
    <2>1. /\ held' = held /\ stage' = "wait"
          /\ pending'["handoff"] = pending["handoff"] - 1
        BY <1>1, <1>8 DEF HandoffTimesOut, HandoffConnectSettles, Settle,
            Done, TypeOK, Callers
    <2>2. QED
        BY <2>1, InertStep
<1>9. CASE \/ StepConnected \/ StepRecovering \/ ReadReturns \/ ReadThrows
           \/ \E ceiling \in BOOLEAN : ReleaseAwaited(ceiling)
           \/ WatchdogExits
    BY <1>9, InertStep DEF StepConnected, StepRecovering, ReadReturns,
        ReadThrows, ReleaseAwaited, WatchdogExits, leader, discord
<1>10. CASE \/ StepIdle \/ ConnectCeiling
            \/ \E ok \in BOOLEAN : WatchdogConnectSettles(ok)
            \/ \E ok \in BOOLEAN, c \in {"leftHandoff", "leftWatchdog"} :
                   LeftConnectSettles(c, ok)
    <2>1. /\ held' = held /\ stage' = stage
          /\ pending'["handoff"] = pending["handoff"]
        BY <1>1, <1>10 DEF StepIdle, ConnectCeiling, WatchdogConnectSettles,
            LeftConnectSettles, Settle, leader, TypeOK, Callers
    <2>2. QED
        BY <2>1, InertStep
<1>11. CASE \/ LockApplies \/ SdkRetry \/ ShardCloses \/ ShardRecovers
            \/ LeaseLapses \/ PeerAcquires \/ PeerReleases \/ PeerTransfers
    BY <1>11, InertStep DEF LockApplies, SdkRetry, ShardCloses,
        ShardRecovers, LeaseLapses, PeerAcquires, PeerReleases,
        PeerTransfers, leader, discord
<1>12. CASE \/ PushExits \/ StopWatchdog \/ StopLeader \/ GracefulExits
            \/ ForcedExit
            \/ \E s \in {"SIGTERM", "SIGINT"} : SignalArrives(s)
    BY <1>12, InertStep DEF PushExits, StopWatchdog, StopLeader,
        GracefulExits, ForcedExit, SignalArrives, leader, discord
<1>13. QED
    BY <1>2, <1>3, <1>4, <1>5, <1>6, <1>7, <1>8, <1>9, <1>10, <1>11, <1>12
    DEF Next, Leader, Watchdog, Discord, Shutdown, Environment

\* Once SIGTERM has begun the push handoff, nothing that was queued before
\* acquires the lock, adopts it or opens a connection (the closed sentinel of
\* gateway-leader.js).
THEOREM ClosedIsDead == Spec => ClosedLeaderIsDead
<1>1. IInv /\ [Next]_vars
          => [closed => /\ stage' # "acquire"
                        /\ held' => held
                        /\ pending'["handoff"] <= pending["handoff"]]_vars
    BY NextDead DEF Dead
<1>2. QED
    BY <1>1, Invariance, PTL DEF Spec, ClosedLeaderIsDead

\* Every step of a process that goes on reconnecting lets the clock run.
LEMMA NextClock ==
    ASSUME IInv, [Next]_vars, ws = "recovering", ws' = "recovering"
    PROVE  recovery' >= recovery
<1>1. recovery \in Nat
    BY DEF IInv, TypeOK, BoundAssumption
<1>2. CASE StepConnected \/ StepIdle
    BY <1>2 DEF StepConnected, StepIdle
<1>3. CASE StepRecovering
    <2>1. recovery' = recovery \/ recovery' = recovery + 1
        BY <1>3 DEF StepRecovering
    <2>2. QED
        BY <1>1, <2>1
<1>4. CASE recovery' = recovery
    BY <1>1, <1>4
<1>5. CASE UNCHANGED vars
    BY <1>5, <1>4 DEF vars, watchdog
<1>6. CASE Leader
    BY <1>6, <1>4 DEF Leader, QueueTick, TickBegins, TickCallsLock,
        AcquireReturns, RenewReturns, HandoffRefused, HandoffAdopts,
        HandoffTimesOut, PushBegins, PushFindsPeer, TransferReturns,
        PostReturns, ReleaseBegins, ReleaseReturns, LockApplies, watchdog
<1>7. CASE \/ ReadReturns \/ ConnectCeiling
           \/ \E ceiling \in BOOLEAN : ReleaseAwaited(ceiling)
           \/ WatchdogExits \/ Discord
    BY <1>7, <1>4 DEF ReadReturns, ConnectCeiling, ReleaseAwaited,
        WatchdogExits, Discord, HandoffConnectSettles,
        WatchdogConnectSettles, LeftConnectSettles, Settle, ConnectFailed,
        watchdog
<1>8. CASE Shutdown
    BY <1>8, <1>4 DEF Shutdown, PushExits, StopWatchdog, StopLeader,
        GracefulExits, watchdog
<1>9. CASE Environment
    BY <1>9, <1>4 DEF Environment, HandoffArrives, TickThrows,
        TransferThrows, SdkRetry, ReadThrows, ShardCloses, ShardRecovers,
        SignalArrives, ForcedExit, LeaseLapses, PeerAcquires, PeerReleases,
        PeerTransfers, watchdog
<1>10. QED
    BY <1>2, <1>3, <1>5, <1>6, <1>7, <1>8, <1>9 DEF Next, Watchdog

\* The clock of an automatic reconnect keeps running for as long as the
\* reconnect does, whatever happens to the lock (gateway-connection-watchdog.js,
\* step: only a tick that sees another state of the shard clears it).
THEOREM ClockRuns == Spec => RecoveryClockRuns
<1>1. IInv /\ [Next]_vars
          => [ws = "recovering" /\ ws' = "recovering"
                  => recovery' >= recovery]_vars
    BY NextClock
<1>2. QED
    BY <1>1, Invariance, PTL DEF Spec, RecoveryClockRuns

-----------------------------------------------------------------------------
(* An undisturbed SIGTERM.                                                 *)

\* The row is in this replica's name with a version that fits it, or the
\* work that is running has just taken it or is about to give it back.
Ours ==
    \/ /\ held /\ cursor = "fits"
       /\ phase \in {"none", "sent"} /\ stage \notin {"acquire", "post"}
    \/ held /\ stage = "renew" /\ phase = "ok"
    \/ ~held /\ stage = "acquire" /\ phase = "ok"
    \/ ~held /\ stage = "release" /\ phase = "sent" /\ cursor # "null"

\* Where nothing has failed, lapsed or been handed over yet, the row is in
\* this replica's name only while a push that has begun still has to give it
\* up.
Calm ==
    /\ offer = "none" /\ ~Queued("handoff") /\ stage # "connect"
    /\ phase # "none" => stage \in LockCalls
    /\ row = "self" => live /\ Ours
    /\ row = "self" /\ shutdown \in {"push", "exit push"}
           => shutdown = "push" /\ Queued("push")
    /\ shutdown = "push" => closed

CalmInv == disturbances = 0 => Calm

\* The works that wait behind the running one stay queued.
LEMMA TailKeeps ==
    ASSUME chain \in Seq(Works), chain # <<>>, chain' = Tail(chain),
           NEW v, Queued(v), v # Head(chain)
    PROVE  Queued(v)'
<1>1. PICK k \in DOMAIN chain : chain[k] = v
    BY DEF Queued
<1>2. /\ Len(chain) \in Nat /\ Len(chain) > 0
      /\ DOMAIN chain = 1 .. Len(chain)
      /\ DOMAIN chain' = 1 .. (Len(chain) - 1)
      /\ chain[1] = Head(chain)
    OBVIOUS
<1>3. k # 1 /\ k - 1 \in DOMAIN chain'
    BY <1>1, <1>2
<1>4. chain'[k - 1] = v
    BY <1>1, <1>3
<1>5. QED
    BY <1>3, <1>4 DEF Queued

\* A work that ends leaves the lock held with a version that fits, or not in
\* this replica's name.
LEMMA CalmDone ==
    ASSUME IInv, Calm, chain # <<>>, Done,
           UNCHANGED <<closed, row, live, shutdown>>, offer' = "none",
           row = "self" => /\ held' /\ cursor' = "fits"
                           /\ Head(chain) # "push"
    PROVE  Calm'
<1>1. chain \in Seq(Works) /\ ChainInv
    BY DEF IInv, TypeOK, ChainInv
<1>2. chain' = Tail(chain) /\ stage' = "wait" /\ phase' = "none"
    BY DEF Done
<1>3. ~Queued("handoff")'
    BY <1>1, <1>2, TailChain DEF Calm
<1>4. row' = "self" => live' /\ Ours'
    BY <1>2 DEF Calm, Ours
<1>5. row' = "self" /\ shutdown' \in {"push", "exit push"}
          => shutdown' = "push" /\ Queued("push")'
    BY <1>1, <1>2, TailKeeps DEF Calm
<1>6. QED
    BY <1>2, <1>3, <1>4, <1>5 DEF Calm

\* A work that goes on calls the lock table with a version that fits.
LEMMA CalmAwait ==
    ASSUME Calm, NEW at \in LockCalls \cup {"beat", "peers", "post"},
           Await(at), UNCHANGED <<closed, row, live, offer, shutdown>>,
           row = "self" =>
               \/ held' /\ cursor' = "fits" /\ at \notin {"acquire", "post"}
               \/ ~held' /\ cursor' # "null" /\ at = "release"
    PROVE  Calm'
<1>1. /\ chain' = chain /\ stage' = at
      /\ phase' = IF at \in LockCalls THEN "sent" ELSE "none"
    BY DEF Await
<1>2. \A v : Queued(v)' <=> Queued(v)
    BY <1>1 DEF Queued
<1>3. at # "connect" /\ "release" \in LockCalls
    BY DEF LockCalls
<1>4. row' = "self" => live' /\ Ours'
    BY <1>1, <1>3 DEF Calm, Ours
<1>5. QED
    BY <1>1, <1>2, <1>3, <1>4 DEF Calm

\* What does not touch the leader's calls or the row leaves it so.
LEMMA CalmKept ==
    ASSUME Calm,
           UNCHANGED <<held, cursor, stage, phase, row, live>>,
           offer' = "none",
           \/ UNCHANGED chain
           \/ ChainInv /\ \E w \in Works \ {"handoff"} :
                              ~Queued(w) /\ chain' = Append(chain, w),
           closed => closed',
           \/ UNCHANGED shutdown
           \/ shutdown' \notin {"push", "exit push"}
           \/ shutdown' = "push" /\ closed' /\ Queued("push")'
    PROVE  Calm'
<1>1. /\ ~Queued("handoff")'
      /\ Queued("push") => Queued("push")'
    <2>1. CASE UNCHANGED chain
        BY <2>1 DEF Calm, Queued
    <2>2. CASE ChainInv /\ \E w \in Works \ {"handoff"} :
                               ~Queued(w) /\ chain' = Append(chain, w)
        BY <2>2, AppendChain DEF Calm
    <2>3. QED
        BY <2>1, <2>2
<1>2. row' = "self" => live' /\ Ours'
    BY DEF Calm, Ours
<1>3. row' = "self" /\ shutdown' \in {"push", "exit push"}
          => shutdown' = "push" /\ Queued("push")'
    BY <1>1 DEF Calm
<1>4. shutdown' = "push" => closed'
    BY DEF Calm
<1>5. QED
    BY <1>1, <1>2, <1>3, <1>4 DEF Calm

\* The tick, up to its lock call and after it.
LEMMA CalmTick ==
    ASSUME IInv, Calm,
           TickBegins \/ TickCallsLock \/ AcquireReturns \/ RenewReturns
    PROVE  Calm'
<1>1. /\ chain # <<>> /\ Head(chain) = "tick"
      /\ UNCHANGED <<closed, row, live, offer, shutdown>>
    BY DEF TickBegins, TickCallsLock, AcquireReturns, RenewReturns, Running,
           lock, process
<1>2. offer' = "none"
    BY <1>1 DEF Calm
<1>3. phase # "none" => stage \in LockCalls
    BY DEF Calm
<1>4. row = "self" => Ours
    BY DEF Calm
<1>5. CASE TickBegins
    <2>1. stage = "wait" /\ UNCHANGED <<held, cursor>>
        BY <1>5 DEF TickBegins, Running
    <2>2. row = "self" => held /\ cursor = "fits"
        BY <1>3, <1>4, <2>1 DEF Ours
    <2>3. CASE Done
        BY <1>1, <1>2, <2>1, <2>2, <2>3, CalmDone
    <2>4. CASE Await("beat")
        BY <1>1, <2>1, <2>2, <2>4, CalmAwait
    <2>5. QED
        BY <1>5, <2>3, <2>4 DEF TickBegins
<1>6. CASE TickCallsLock
    <2>1. stage = "beat" /\ UNCHANGED cursor
        BY <1>6 DEF TickCallsLock, Running
    <2>2. row = "self" => held /\ cursor = "fits"
        BY <1>4, <2>1 DEF Ours
    <2>3. CASE held /\ Await("renew") /\ UNCHANGED held
        BY <1>1, <2>1, <2>2, <2>3, CalmAwait DEF LockCalls
    <2>4. CASE held /\ cursor = "null" /\ Done
        BY <1>1, <1>2, <2>2, <2>4, CalmDone
    <2>5. CASE ~held /\ Await("acquire")
        BY <1>1, <2>2, <2>5, CalmAwait DEF LockCalls
    <2>6. QED
        BY <1>6, <2>3, <2>4, <2>5 DEF TickCallsLock
<1>7. CASE AcquireReturns
    <2>1. /\ stage = "acquire" /\ Done
          /\ \/ phase \in {"ok", "late"} /\ held' = TRUE /\ cursor' = Confirmed
             \/ phase = "ccf" /\ UNCHANGED <<held, cursor>>
        BY <1>7 DEF AcquireReturns, Running
    <2>2. row = "self" => phase = "ok"
        BY <1>4, <2>1 DEF Ours
    <2>3. row = "self" => held' /\ cursor' = "fits"
        BY <2>1, <2>2 DEF Confirmed
    <2>4. QED
        BY <1>1, <1>2, <2>1, <2>3, CalmDone
<1>8. CASE RenewReturns
    <2>1. /\ stage = "renew" /\ Done
          /\ \/ /\ phase \in {"ok", "late"} /\ cursor' = Confirmed
                /\ UNCHANGED held
             \/ phase = "ccf"
        BY <1>8 DEF RenewReturns, Running
    <2>2. row = "self" => phase \notin {"late", "ccf"} /\ held
        BY <1>4, <2>1 DEF Ours
    <2>3. row = "self" => phase = "ok" /\ held' = held /\ cursor' = Confirmed
        BY <2>1, <2>2
    <2>4. row = "self" => held' /\ cursor' = "fits"
        BY <2>2, <2>3 DEF Confirmed
    <2>5. QED
        BY <1>1, <1>2, <2>1, <2>4, CalmDone
<1>9. QED
    BY <1>5, <1>6, <1>7, <1>8
\* pushHandoff and the watchdog's release: the push ends with the row out of
\* this replica's name.
LEMMA CalmGiveUp ==
    ASSUME IInv, Calm,
           PushBegins \/ PushFindsPeer \/ TransferReturns \/ PostReturns
               \/ ReleaseBegins \/ ReleaseReturns,
           disturbances' = disturbances
    PROVE  Calm'
<1>1. /\ chain # <<>>
      /\ UNCHANGED <<closed, row, live, offer, shutdown>>
    BY DEF PushBegins, PushFindsPeer, TransferReturns, PostReturns,
           ReleaseBegins, ReleaseReturns, Running, lock, process
<1>2. offer' = "none" /\ (row = "self" => Ours)
    BY <1>1 DEF Calm
<1>3. phase # "none" => stage \in LockCalls
    BY DEF Calm
<1>4. /\ "transfer" \in LockCalls /\ "release" \in LockCalls
      /\ "wait" \notin LockCalls /\ "peers" \notin LockCalls
    BY DEF LockCalls
<1>5. stage \in {"wait", "peers"} /\ row = "self" => held /\ cursor = "fits"
    BY <1>2, <1>3, <1>4 DEF Ours
<1>6. row # "self" /\ Done => Calm'
    BY <1>1, <1>2, CalmDone
<1>7. CASE PushBegins
    <2>1. stage = "wait" /\ UNCHANGED <<held, cursor>>
        BY <1>7 DEF PushBegins, Running
    <2>2. CASE held /\ Await("peers")
        BY <1>1, <1>5, <2>1, <2>2, CalmAwait
    <2>3. CASE ~held /\ Done
        BY <1>5, <1>6, <2>1, <2>3
    <2>4. QED
        BY <1>7, <2>2, <2>3 DEF PushBegins
<1>8. CASE PushFindsPeer
    <2>1. stage = "peers" /\ UNCHANGED cursor
        BY <1>8 DEF PushFindsPeer, Running
    <2>2. CASE cursor # "null" /\ Await("release") /\ UNCHANGED held
        BY <1>1, <1>4, <1>5, <2>1, <2>2, CalmAwait
    <2>3. CASE cursor # "null" /\ Await("transfer") /\ UNCHANGED held
        BY <1>1, <1>4, <1>5, <2>1, <2>3, CalmAwait
    <2>4. CASE cursor = "null" /\ Done
        BY <1>5, <1>6, <2>1, <2>4
    <2>5. QED
        BY <1>8, <2>2, <2>3, <2>4 DEF PushFindsPeer, ReleaseOrDone
<1>9. CASE TransferReturns
    <2>1. stage = "transfer" /\ phase \in {"ok", "late", "ccf"}
        BY <1>9 DEF TransferReturns, Running
    <2>2. row # "self"
        BY <1>2, <2>1 DEF Ours
    <2>3. CASE Await("post")
        BY <1>1, <2>2, <2>3, CalmAwait
    <2>4. CASE Done
        BY <1>6, <2>2, <2>4
    <2>5. QED
        BY <1>9, <2>3, <2>4 DEF TransferReturns
<1>10. CASE PostReturns
    <2>1. stage = "post" /\ Done
        BY <1>10 DEF PostReturns, Running
    <2>2. row # "self"
        BY <1>2, <2>1 DEF Ours
    <2>3. QED
        BY <1>6, <2>1, <2>2
<1>11. CASE ReleaseBegins
    <2>1. stage = "wait" /\ Head(chain) = "release" /\ UNCHANGED cursor
        BY <1>11 DEF ReleaseBegins, Running
    <2>2. CASE Done /\ UNCHANGED held
        BY <1>1, <1>2, <1>5, <2>1, <2>2, CalmDone
    <2>3. CASE held' = FALSE /\ cursor = "null" /\ Done
        BY <1>5, <1>6, <2>1, <2>3
    <2>4. CASE held' = FALSE /\ cursor # "null" /\ Await("release")
        BY <1>1, <1>4, <2>1, <2>4, CalmAwait
    <2>5. QED
        BY <1>11, <2>2, <2>3, <2>4 DEF ReleaseBegins, ReleaseOrDone
<1>12. CASE ReleaseReturns
    <2>1. /\ stage = "release" /\ Done
          /\ phase \in {"ok", "late", "ccf"} \/ Disturb
        BY <1>12 DEF ReleaseReturns, Running
    <2>2. ~Disturb
        BY DEF Disturb, IInv, TypeOK, BoundAssumption
    <2>3. row # "self"
        BY <1>2, <2>1, <2>2 DEF Ours
    <2>4. QED
        BY <1>6, <2>1, <2>3
<1>13. QED
    BY <1>7, <1>8, <1>9, <1>10, <1>11, <1>12

\* The lock table and the other replicas: a live row is only changed by the
\* replica it names.
LEMMA CalmTable ==
    ASSUME IInv, Calm,
           LockApplies \/ LeaseLapses \/ PeerAcquires \/ PeerReleases,
           disturbances' = disturbances
    PROVE  Calm'
<1>1. /\ UNCHANGED <<held, closed, chain, stage, shutdown>>
      /\ offer' = "none"
    BY DEF LockApplies, LeaseLapses, PeerAcquires, PeerReleases, leader,
           process, Stale, Calm
<1>2. \A v : Queued(v)' <=> Queued(v)
    BY <1>1 DEF Queued
<1>3. /\ row = "self" => live /\ Ours
      /\ row = "self" /\ shutdown \in {"push", "exit push"}
             => shutdown = "push" /\ Queued("push")
      /\ ~Queued("handoff") /\ stage # "connect"
      /\ phase # "none" => stage \in LockCalls
      /\ shutdown = "push" => closed
    BY DEF Calm
<1>4. ~Disturb
    BY DEF Disturb, IInv, TypeOK, BoundAssumption
<1>5. CASE LockApplies
    <2>1. phase = "sent" /\ Up
        BY <1>5 DEF LockApplies, Event
    <2>2. CASE Condition
        <3>1. /\ phase' = "ok"
              /\ row' = CASE stage = "transfer" -> "peer"
                          [] stage = "release" -> "none"
                          [] OTHER -> "self"
              /\ live' = (stage # "release")
            BY <1>5, <2>2 DEF LockApplies
        <3>2. row' = "self" => stage \in {"acquire", "renew"} /\ live'
            BY <2>2, <3>1 DEF Condition
        <3>3. CASE stage = "acquire"
            <4>1. ~held /\ ~closed /\ row # "self"
                BY <1>3, <2>1, <3>3 DEF IInv, StageInv, Ours
            <4>2. shutdown # "push"
                BY <1>3, <4>1
            <4>3. QED
                BY <1>1, <1>2, <1>3, <2>1, <3>1, <3>2, <3>3, <4>1, <4>2
                DEF Calm, Ours, Up, Exits, LockCalls
        <3>4. CASE stage = "renew"
            <4>1. row = "self" /\ held
                BY <1>3, <2>1, <2>2, <3>4 DEF Condition, Ours
            <4>2. QED
                BY <1>1, <1>2, <1>3, <3>1, <3>4, <4>1 DEF Calm, Ours, LockCalls
        <3>5. CASE stage \notin {"acquire", "renew"}
            BY <1>1, <1>2, <1>3, <2>1, <3>2, <3>5 DEF Calm
        <3>6. QED
            BY <3>3, <3>4, <3>5
    <2>3. CASE ~Condition
        <3>1. phase' = "ccf" /\ UNCHANGED <<row, live, cursor>>
            BY <1>5, <2>3 DEF LockApplies
        <3>2. row # "self"
            BY <1>3, <2>1, <2>3 DEF Ours, Condition, LockCalls
        <3>3. QED
            BY <1>1, <1>2, <1>3, <2>1, <3>1, <3>2 DEF Calm
    <2>4. QED
        BY <2>2, <2>3
<1>6. CASE LeaseLapses
    <2>1. /\ UNCHANGED <<row, phase>>
          /\ row = "self" => ~(held \/ phase # "none")
        BY <1>4, <1>6 DEF LeaseLapses, leader
    <2>2. row # "self"
        BY <1>3, <2>1 DEF Ours
    <2>3. QED
        BY <1>1, <1>2, <1>3, <2>1, <2>2 DEF Calm
<1>7. CASE PeerAcquires \/ PeerReleases
    <2>1. /\ row' # "self"
          /\ phase' # "none" => phase # "none"
        BY <1>7 DEF PeerAcquires, PeerReleases, leader, Moved
    <2>2. QED
        BY <1>1, <1>2, <1>3, <2>1 DEF Calm
<1>8. QED
    BY <1>5, <1>6, <1>7
\* Nobody hands over what nobody has disturbed, so no inbound handoff runs.
LEMMA CalmHandoff ==
    ASSUME IInv, Calm
    PROVE  ~ (\/ HandoffArrives \/ HandoffRefused \/ HandoffAdopts
              \/ HandoffTimesOut
              \/ \E ok \in BOOLEAN : HandoffConnectSettles(ok))
<1>1. /\ offer = "none" /\ ~Queued("handoff") /\ stage # "connect"
      /\ chain \in Seq(Works) /\ pending["handoff"] = 0
    BY DEF Calm, IInv, TypeOK, StageInv
<1>2. ~HandoffArrives
    BY <1>1 DEF HandoffArrives
<1>3. \A at : ~Running("handoff", at)
    BY <1>1, HeadQueued DEF Running
<1>4. ASSUME NEW ok \in BOOLEAN PROVE ~HandoffConnectSettles(ok)
    BY <1>1 DEF HandoffConnectSettles, Settle
<1>5. QED
    BY <1>2, <1>3, <1>4 DEF HandoffRefused, HandoffAdopts, HandoffTimesOut

\* The watchdog, the connect() calls and the shard leave the lock alone; the
\* watchdog may queue its release.
LEMMA CalmWatchdog ==
    ASSUME IInv, Calm,
           \/ Watchdog
           \/ \E ok \in BOOLEAN : WatchdogConnectSettles(ok)
           \/ \E ok \in BOOLEAN, c \in {"leftHandoff", "leftWatchdog"} :
                  LeftConnectSettles(c, ok)
           \/ ReadThrows \/ ShardRecovers
    PROVE  Calm'
<1>1. /\ UNCHANGED <<held, cursor, closed, stage, phase, row, live, offer>>
      /\ shutdown' = shutdown \/ shutdown' = "exit watchdog"
    BY DEF Watchdog, StepConnected, StepRecovering, StepIdle, ReadReturns,
           ConnectCeiling, ReleaseAwaited, WatchdogExits,
           WatchdogConnectSettles, LeftConnectSettles, ReadThrows,
           ShardRecovers, leader, process, lock
<1>2. \/ chain' = chain
      \/ wd \in {"sleep", "connect"} /\ chain' = Append(chain, "release")
    <2>1. CASE StepRecovering \/ ConnectCeiling
        BY <2>1 DEF StepRecovering, ConnectCeiling, ConnectFailed, Leave,
                    WatchdogIdle, At
    <2>2. ASSUME NEW ok \in BOOLEAN, WatchdogConnectSettles(ok)
          PROVE  \/ chain' = chain
                 \/ wd = "connect" /\ chain' = Append(chain, "release")
        <3>1. wd = "connect"
            BY <2>2 DEF WatchdogConnectSettles, Settle, IInv, LadderInv
        <3>2. QED
            BY <2>2, <3>1 DEF WatchdogConnectSettles, ConnectFailed, Leave
    <2>3. CASE \/ StepConnected \/ StepIdle \/ ReadReturns \/ WatchdogExits
               \/ \E ceiling \in BOOLEAN : ReleaseAwaited(ceiling)
               \/ \E ok \in BOOLEAN, c \in {"leftHandoff", "leftWatchdog"} :
                      LeftConnectSettles(c, ok)
               \/ ReadThrows \/ ShardRecovers
        BY <2>3 DEF StepConnected, StepIdle, ReadReturns, ReadThrows,
                    WatchdogExits, ReleaseAwaited, LeftConnectSettles,
                    ShardRecovers, leader
    <2>4. QED
        BY <2>1, <2>2, <2>3 DEF Watchdog
<1>3. wd \in {"sleep", "connect"} => ~Queued("release")
    BY DEF IInv, WorkInv
<1>4. ChainInv /\ "release" \in Works \ {"handoff"}
    BY DEF IInv, TypeOK, ChainInv, Works
<1>5. offer' = "none" /\ "exit watchdog" \notin {"push", "exit push"}
    BY <1>1 DEF Calm
<1>6. QED
    BY <1>1, <1>2, <1>3, <1>4, <1>5, CalmKept

\* The signal queues the push of a holder, and the shutdown exits by the push
\* once it is over.
LEMMA CalmShutdown ==
    ASSUME IInv, Calm,
           \/ Shutdown \/ ForcedExit
           \/ \E s \in {"SIGTERM", "SIGINT"} : SignalArrives(s)
    PROVE  Calm'
<1>1. /\ UNCHANGED <<held, cursor, stage, phase, row, live>>
      /\ offer' = "none"
    BY DEF Shutdown, PushExits, StopWatchdog, StopLeader, GracefulExits,
           ForcedExit, SignalArrives, leader, lock, Calm
<1>2. ASSUME NEW s \in {"SIGTERM", "SIGINT"}, SignalArrives(s)
      PROVE  Calm'
    <2>1. shutdown = "no"
        BY <1>2 DEF SignalArrives
    <2>2. CASE s = "SIGTERM" /\ held
        <3>1. /\ shutdown' = "push" /\ closed' = TRUE
              /\ chain' = Append(chain, "push")
            BY <1>2, <2>2 DEF SignalArrives
        <3>2. /\ ChainInv /\ "push" \in Works \ {"handoff"} /\ ~Queued("push")
            BY <2>1 DEF IInv, TypeOK, ChainInv, WorkInv, Works
        <3>3. Queued("push")'
            BY <3>1, <3>2, AppendChain
        <3>4. QED
            BY <1>1, <3>1, <3>2, <3>3, CalmKept
    <2>3. CASE ~(s = "SIGTERM" /\ held)
        <3>1. shutdown' = "closing" /\ UNCHANGED <<closed, chain>>
            BY <1>2, <2>3 DEF SignalArrives
        <3>2. QED
            BY <1>1, <3>1, CalmKept
    <2>4. QED
        BY <2>2, <2>3
<1>3. CASE StopWatchdog \/ StopLeader \/ GracefulExits \/ ForcedExit
    <2>1. /\ UNCHANGED <<closed, chain>>
          /\ shutdown' \notin {"push", "exit push"}
        BY <1>3 DEF StopWatchdog, StopLeader, GracefulExits, ForcedExit,
                    leader
    <2>2. QED
        BY <1>1, <2>1, CalmKept
<1>4. CASE PushExits
    <2>1. /\ UNCHANGED <<closed, chain>>
          /\ shutdown = "push" /\ ~Queued("push") /\ shutdown' = "exit push"
        BY <1>4 DEF PushExits, leader
    <2>2. row # "self"
        BY <2>1 DEF Calm
    <2>3. Queued("handoff")' = Queued("handoff")
        BY <2>1 DEF Queued
    <2>4. QED
        BY <1>1, <2>1, <2>2, <2>3 DEF Calm
<1>5. QED
    BY <1>2, <1>3, <1>4 DEF Shutdown

\* Every step that disturbs nothing leaves it so.
LEMMA NextCalm == IInv /\ CalmInv /\ [Next]_vars => CalmInv'
<1> SUFFICES ASSUME IInv, CalmInv, [Next]_vars, disturbances' = 0
             PROVE  Calm'
    BY DEF CalmInv
<1>1. ~Disturb /\ disturbances \in Nat
    BY DEF Disturb, IInv, TypeOK, BoundAssumption
<1>2. \/ disturbances' = disturbances
      \/ Disturb
    BY DEF Next, Leader, QueueTick, TickBegins, TickCallsLock,
        AcquireReturns, RenewReturns, HandoffRefused, HandoffAdopts,
        HandoffTimesOut, PushBegins, PushFindsPeer, TransferReturns,
        PostReturns, ReleaseBegins, ReleaseReturns, LockApplies, Watchdog,
        StepConnected, StepRecovering, StepIdle, ReadReturns, ConnectCeiling,
        ReleaseAwaited, WatchdogExits, Discord, HandoffConnectSettles,
        WatchdogConnectSettles, LeftConnectSettles, Shutdown, PushExits,
        StopWatchdog, StopLeader, GracefulExits, Environment, HandoffArrives,
        TickThrows, TransferThrows, SdkRetry, ReadThrows, ShardCloses,
        ShardRecovers, SignalArrives, ForcedExit, LeaseLapses, PeerAcquires,
        PeerReleases, PeerTransfers, vars
<1>3. disturbances' = disturbances /\ Calm
    BY <1>1, <1>2 DEF CalmInv
<1>4. CASE UNCHANGED vars
    <2>1. /\ UNCHANGED <<held, cursor, closed, chain, stage, phase, row, live,
                         offer, shutdown>>
        BY <1>4 DEF vars, leader, lock, process
    <2>2. QED
        BY <1>3, <2>1, CalmKept DEF Calm
<1>5. CASE QueueTick
    <2>1. /\ UNCHANGED <<held, cursor, closed, stage, phase, row, live, offer,
                         shutdown>>
          /\ ~Queued("tick") /\ chain' = Append(chain, "tick")
        BY <1>5 DEF QueueTick, lock, process
    <2>2. ChainInv /\ "tick" \in Works \ {"handoff"} /\ offer' = "none"
        BY <1>3, <2>1 DEF IInv, TypeOK, ChainInv, Works, Calm
    <2>3. QED
        BY <1>3, <2>1, <2>2, CalmKept
<1>6. CASE Leader
    BY <1>3, <1>5, <1>6, CalmTick, CalmGiveUp, CalmHandoff, CalmTable
    DEF Leader
<1>7. CASE Watchdog \/ Discord
    BY <1>3, <1>7, CalmWatchdog, CalmHandoff DEF Discord
<1>8. CASE Shutdown
    BY <1>3, <1>8, CalmShutdown
<1>9. CASE Environment
    <2>1. ~(\/ TickThrows \/ TransferThrows \/ SdkRetry \/ ShardCloses
            \/ PeerTransfers)
        BY <1>1, <1>3 DEF TickThrows, TransferThrows, SdkRetry, ShardCloses,
                          PeerTransfers
    <2>2. QED
        BY <1>3, <1>9, <2>1, CalmHandoff, CalmWatchdog, CalmShutdown,
           CalmTable DEF Environment
<1>10. QED
    BY <1>4, <1>6, <1>7, <1>8, <1>9 DEF Next

\* A SIGTERM of the holder that nothing disturbs ends with the row out of this
\* replica's name, whatever the chain, the watchdog and the lock table were
\* at when it came (gateway-leader.js, pushHandoff and
\* releaseLockForImmediateExit).
THEOREM PushGivesUp == Spec => []PushLetsGo
<1>1. Init => CalmInv
    <2> SUFFICES ASSUME Init PROVE Calm
        BY DEF CalmInv
    <2>1. /\ offer = "none" /\ stage # "connect" /\ phase = "none"
          /\ row # "self" /\ shutdown = "no" /\ chain = <<>>
        BY DEF Init
    <2>2. ~Queued("handoff")
        <3>1. ~ \E k \in DOMAIN chain : TRUE
            BY <2>1
        <3>2. QED
            BY <3>1 DEF Queued
    <2>3. QED
        BY <2>1, <2>2 DEF Calm
<1>2. CalmInv => PushLetsGo
    BY DEF CalmInv, Calm, PushLetsGo
<1>3. QED
    BY <1>1, <1>2, NextCalm, Invariance, PTL DEF Spec

=============================================================================
