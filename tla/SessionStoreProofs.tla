------------------------- MODULE SessionStoreProofs -------------------------
(***************************************************************************)
(* Theorems about SessionStore, for any set of replicas and any bounds.    *)
(***************************************************************************)
EXTENDS SessionStore, SequenceTheorems, TLAPS

\* What a process that is up last set out to write is its mirror or will be
\* when the timer fires, and an empty mirror needs no timer.
Unsaved(r) ==
    life[r] = "up" => /\ mirror[r] = saved[r] \/ timer[r] # "none"
                      /\ mirror[r] = NoSession => saved[r] = NoSession

\* The flush timer only fires outside the throttle window.
DueIsOutside(r) == timer[r] = "due" => ~throttled[r]

\* The final put has nothing in flight beside it or after it.
FinalIsLast(r) == life[r] \in {"final", "flushed"} => writes[r] = <<>>

\* While nobody else has been up since the boot, nobody else can write.
AloneIsAlone(r) == alone[r] => \A q \in Replica \ {r} : Quiet(q)

Flushed(r) ==
    life[r] = "flushed" /\ alone[r] /\ mirror[r] # NoSession
        => row = mirror[r]

StoreInv(r) ==
    /\ Unsaved(r)
    /\ DueIsOutside(r)
    /\ FinalIsLast(r)
    /\ AloneIsAlone(r)
    /\ Flushed(r)

IInv == TypeOK /\ \A r \in Replica : StoreInv(r)

-----------------------------------------------------------------------------

USE ReplicaAssumption, SessionAssumption, BoundAssumption

\* A write that settles leaves the sequence of the others, one shorter.
LEMMA RemoveAtType ==
    ASSUME NEW S, NEW s \in Seq(S), NEW k \in DOMAIN s
    PROVE  RemoveAt(s, k) \in Seq(S) /\ Len(RemoveAt(s, k)) = Len(s) - 1
<1> DEFINE front == SubSeq(s, 1, k - 1)
           back == SubSeq(s, k + 1, Len(s))
<1>1. k \in 1 .. Len(s) /\ Len(s) \in Nat
    OBVIOUS
<1>2. front \in Seq(S) /\ Len(front) = k - 1
    BY <1>1
<1>3. back \in Seq(S) /\ Len(back) = Len(s) - k
    BY <1>1
<1> HIDE DEF front, back
<1>4. front \o back \in Seq(S) /\ Len(front \o back) = Len(s) - 1
    BY <1>1, <1>2, <1>3
<1>5. RemoveAt(s, k) = front \o back
    BY Zenon DEF RemoveAt, front, back
<1>6. QED
    BY <1>4, <1>5

\* A fired write is counted, typed and remembered.
LEMMA FireType ==
    ASSUME TypeOK, NEW r \in Replica, NEW write \in Session \cup {NoSession},
           Fire(r, write)
    PROVE  /\ writes' \in [Replica -> Seq(Session \cup {NoSession})]
           /\ \A q \in Replica : Len(writes'[q]) <= MaxWrites
           /\ saved' \in [Replica -> Session \cup {NoSession}]
           /\ throttled' \in [Replica -> BOOLEAN]
           /\ written' \in [Replica -> 0 .. MaxSession]
<1>1. /\ writes[r] \in Seq(Session \cup {NoSession})
      /\ Len(writes[r]) \in Nat /\ Len(writes[r]) < MaxWrites
      /\ MaxWrites \in Nat /\ MaxSession \in Nat
    BY DEF TypeOK, Fire
<1>2. /\ Append(writes[r], write) \in Seq(Session \cup {NoSession})
      /\ Len(Append(writes[r], write)) = Len(writes[r]) + 1
    BY <1>1
<1>3. writes' = [writes EXCEPT ![r] = Append(writes[r], write)]
    BY DEF Fire
<1>4. writes' \in [Replica -> Seq(Session \cup {NoSession})]
    BY <1>2, <1>3 DEF TypeOK
<1>5. ASSUME NEW q \in Replica PROVE Len(writes'[q]) <= MaxWrites
    <2>1. CASE q = r
        BY <1>1, <1>2, <1>3, <2>1 DEF TypeOK
    <2>2. CASE q # r
        BY <1>3, <2>2 DEF TypeOK
    <2>3. QED
        BY <2>1, <2>2
<1>6. /\ saved' \in [Replica -> Session \cup {NoSession}]
      /\ throttled' \in [Replica -> BOOLEAN]
    BY DEF TypeOK, Fire
<1>7. write # NoSession => write.id \in 0 .. MaxSession
    BY <1>1 DEF Session
<1>8. written' \in [Replica -> 0 .. MaxSession]
    BY <1>1, <1>7 DEF TypeOK, Fire
<1>9. QED
    BY <1>4, <1>5, <1>6, <1>8

\* updateSessionInfo with a session keeps the store well typed.
LEMMA UpdateType ==
    ASSUME TypeOK, NEW r \in Replica, NEW info \in Session, Update(r, info)
    PROVE  /\ mirror' \in [Replica -> Session \cup {NoSession}]
           /\ written' \in [Replica -> 0 .. MaxSession]
           /\ throttled' \in [Replica -> BOOLEAN]
           /\ timer' \in [Replica -> {"none", "armed", "due"}]
           /\ writes' \in [Replica -> Seq(Session \cup {NoSession})]
           /\ \A q \in Replica : Len(writes'[q]) <= MaxWrites
           /\ saved' \in [Replica -> Session \cup {NoSession}]
<1>1. /\ mirror' \in [Replica -> Session \cup {NoSession}]
      /\ timer' \in [Replica -> {"none", "armed", "due"}]
    BY DEF TypeOK, Update
<1>2. CASE Fire(r, info)
    BY <1>1, <1>2, FireType
<1>3. CASE UNCHANGED <<writes, saved, throttled, written>>
    BY <1>1, <1>3 DEF TypeOK
<1>4. QED
    BY <1>2, <1>3 DEF Update

\* A write that is applied or given up leaves the others in flight.
LEMMA SettleType ==
    ASSUME TypeOK, NEW r \in Replica, NEW k \in DOMAIN writes[r],
           writes' = [writes EXCEPT ![r] = RemoveAt(writes[r], k)]
    PROVE  /\ writes' \in [Replica -> Seq(Session \cup {NoSession})]
           /\ \A q \in Replica : Len(writes'[q]) <= MaxWrites
           /\ Len(writes'[r]) < Len(writes[r])
           /\ \A q \in Replica \ {r} : writes'[q] = writes[q]
<1>1. /\ writes[r] \in Seq(Session \cup {NoSession})
      /\ Len(writes[r]) \in Nat /\ Len(writes[r]) <= MaxWrites
      /\ MaxWrites \in Nat
    BY DEF TypeOK
<1>2. /\ RemoveAt(writes[r], k) \in Seq(Session \cup {NoSession})
      /\ Len(RemoveAt(writes[r], k)) = Len(writes[r]) - 1
    BY <1>1, RemoveAtType
<1>3. /\ writes' \in [Replica -> Seq(Session \cup {NoSession})]
      /\ writes'[r] = RemoveAt(writes[r], k)
      /\ \A q \in Replica \ {r} : writes'[q] = writes[q]
    BY <1>2 DEF TypeOK
<1>4. Len(writes'[r]) <= MaxWrites /\ Len(writes'[r]) < Len(writes[r])
    BY <1>1, <1>2, <1>3
<1>5. \A q \in Replica : Len(writes'[q]) <= MaxWrites
    BY <1>3, <1>4 DEF TypeOK
<1>6. QED
    BY <1>3, <1>4, <1>5

\* Every step keeps the store well typed.
LEMMA TypeNext == TypeOK /\ [Next]_vars => TypeOK'
<1> SUFFICES ASSUME TypeOK, [Next]_vars PROVE TypeOK'
    OBVIOUS
<1>1. CASE UNCHANGED vars
    BY <1>1 DEF vars, store, TypeOK
<1>2. ASSUME NEW r \in Replica, Boot(r) PROVE TypeOK'
    <2>1. PICK found \in {row, NoSession} :
              /\ mirror' = [mirror EXCEPT ![r] = found]
              /\ saved' = [saved EXCEPT ![r] = found]
              /\ written' = [written EXCEPT
                     ![r] = IF found = NoSession THEN 0 ELSE found.id]
        BY <1>2 DEF Boot
    <2>2. found \in Session \cup {NoSession} /\ MaxSession \in Nat
        BY DEF TypeOK
    <2>3. (IF found = NoSession THEN 0 ELSE found.id) \in 0 .. MaxSession
        BY <2>2 DEF Session
    <2>4. /\ mirror' \in [Replica -> Session \cup {NoSession}]
          /\ saved' \in [Replica -> Session \cup {NoSession}]
          /\ written' \in [Replica -> 0 .. MaxSession]
        BY <2>1, <2>2, <2>3 DEF TypeOK
    <2>5. alone' \in [Replica -> BOOLEAN]
        BY <1>2 DEF Boot
    <2>6. QED
        BY <1>2, <2>4, <2>5 DEF Boot, TypeOK
<1>3. ASSUME NEW r \in Replica, ThrottleExpires(r) PROVE TypeOK'
    BY <1>3 DEF ThrottleExpires, TypeOK
<1>4. ASSUME NEW r \in Replica, FlushTimerFires(r) PROVE TypeOK'
    <2>1. timer' \in [Replica -> {"none", "armed", "due"}]
        BY <1>4 DEF FlushTimerFires, TypeOK
    <2>2. CASE mirror[r] = NoSession
        BY <1>4, <2>1, <2>2 DEF FlushTimerFires, TypeOK
    <2>3. CASE mirror[r] # NoSession
        <3>1. Fire(r, mirror[r]) /\ mirror[r] \in Session \cup {NoSession}
            BY <1>4, <2>3 DEF FlushTimerFires, TypeOK
        <3>2. QED
            BY <1>4, <2>1, <3>1, FireType DEF FlushTimerFires, TypeOK
    <2>4. QED
        BY <2>2, <2>3
<1>5. ASSUME NEW r \in Replica,
             FlushFinal(r) \/ WritesSettled(r) \/ FinalPutReturns(r)
                 \/ ExitsUnflushed(r)
      PROVE  TypeOK'
    <2>1. Lost(r) \in Replica \cup {None}
        BY DEF Lost, TypeOK
    <2>2. CASE FlushFinal(r)
        BY <2>2 DEF FlushFinal, TypeOK
    <2>3. CASE WritesSettled(r)
        <3>1. life' \in [Replica -> {"off", "up", "flushing", "final",
                                     "flushed"}]
            BY <2>3 DEF WritesSettled, TypeOK
        <3>2. connected' \in Replica \cup {None}
            BY <2>1, <2>3 DEF WritesSettled, TypeOK
        <3>3. UNCHANGED <<store, writes, row, session, alone>>
            BY <2>3 DEF WritesSettled
        <3>4. QED
            BY <3>1, <3>2, <3>3 DEF store, TypeOK
    <2>4. CASE FinalPutReturns(r)
        <3>1. /\ row' \in Session \cup {NoSession}
              /\ life' \in [Replica -> {"off", "up", "flushing", "final",
                                        "flushed"}]
            <4>1. CASE row' = mirror[r] /\ life' = [life EXCEPT ![r] = "flushed"]
                BY <4>1 DEF TypeOK
            <4>2. CASE row' = row /\ life' = [life EXCEPT ![r] = "off"]
                BY <4>2 DEF TypeOK
            <4>3. QED
                BY <2>4, <4>1, <4>2 DEF FinalPutReturns
        <3>2. connected' \in Replica \cup {None}
            BY <2>1, <2>4 DEF FinalPutReturns, TypeOK
        <3>3. UNCHANGED <<store, writes, session, alone>>
            BY <2>4 DEF FinalPutReturns
        <3>4. QED
            BY <3>1, <3>2, <3>3 DEF store, TypeOK
    <2>5. CASE ExitsUnflushed(r)
        BY <2>1, <2>5 DEF ExitsUnflushed, store, TypeOK
    <2>6. QED
        BY <1>5, <2>2, <2>3, <2>4, <2>5
<1>6. ASSUME NEW r \in Replica, WriteApplies(r) PROVE TypeOK'
    <2>1. PICK k \in DOMAIN writes[r] :
              /\ row' = writes[r][k]
              /\ writes' = [writes EXCEPT ![r] = RemoveAt(@, k)]
              /\ UNCHANGED <<life, store, connected, session, alone>>
        BY <1>6 DEF WriteApplies
    <2>2. writes[r][k] \in Session \cup {NoSession}
        BY ElementOfSeq DEF TypeOK
    <2>3. QED
        BY <2>1, <2>2, SettleType DEF store, TypeOK
<1>7. ASSUME NEW r \in Replica, WriteFails(r) PROVE TypeOK'
    <2>1. PICK k \in DOMAIN writes[r] :
              /\ writes' = [writes EXCEPT ![r] = RemoveAt(@, k)]
              /\ UNCHANGED <<life, store, row, connected, session, alone>>
        BY <1>7 DEF WriteFails
    <2>2. QED
        BY <2>1, SettleType DEF store, TypeOK
<1>8. ASSUME NEW r \in Replica, Connects(r) PROVE TypeOK'
    BY <1>8 DEF Connects, store, TypeOK
<1>9. ASSUME NEW r \in Replica, Ready(r) PROVE TypeOK'
    <2> DEFINE info == [id |-> session + 1, seq |-> 1]
    <2>1. info \in Session /\ session' \in 0 .. MaxSession
        BY <1>9 DEF Ready, TypeOK, Session
    <2>2. Update(r, info)
        BY <1>9 DEF Ready
    <2>3. QED
        BY <1>9, <2>1, <2>2, UpdateType DEF Ready, TypeOK
<1>10. ASSUME NEW r \in Replica, Dispatch(r) PROVE TypeOK'
    <2> DEFINE info == [mirror[r] EXCEPT !.seq = @ + 1]
    <2>1. mirror[r] \in Session /\ mirror[r].seq < MaxSequence
        BY <1>10 DEF Dispatch, TypeOK
    <2>2. info \in Session
        BY <2>1 DEF Session
    <2>3. Update(r, info)
        BY <1>10 DEF Dispatch
    <2>4. QED
        BY <1>10, <2>2, <2>3, UpdateType DEF Dispatch, TypeOK
<1>11. ASSUME NEW r \in Replica, ResumeRejected(r) PROVE TypeOK'
    BY <1>11, FireType DEF ResumeRejected, NullClear, TypeOK
<1>12. QED
    BY <1>1, <1>2, <1>3, <1>4, <1>5, <1>6, <1>7, <1>8, <1>9, <1>10, <1>11
    DEF Next

\* A first boot: nothing in flight, no row.
LEMMA InitIInv == Init => IInv
<1> SUFFICES ASSUME Init PROVE IInv
    OBVIOUS
<1>1. TypeOK
    <2>1. /\ <<>> \in Seq(Session \cup {NoSession}) /\ Len(<<>>) = 0
          /\ MaxWrites \in Nat /\ MaxSession \in Nat
        OBVIOUS
    <2>2. /\ writes \in [Replica -> Seq(Session \cup {NoSession})]
          /\ \A r \in Replica : Len(writes[r]) <= MaxWrites
        BY <2>1 DEF Init
    <2>3. QED
        BY <2>1, <2>2 DEF Init, TypeOK
<1>2. ASSUME NEW r \in Replica PROVE StoreInv(r)
    BY DEF Init, StoreInv, Unsaved, DueIsOutside, FinalIsLast, AloneIsAlone,
           Flushed
<1>3. QED
    BY <1>1, <1>2 DEF IInv

\* Where a process stands: what of the store another process's step leaves
\* alone.
Local(q) ==
    <<life[q], mirror[q], throttled[q], timer[q], writes[q], saved[q], alone[q]>>

\* A step that neither changes anything of q's own, nor makes another
\* process less quiet, nor changes the row while q's flush stands, leaves
\* q's part of the invariant.
LEMMA OtherInv ==
    ASSUME NEW q \in Replica, StoreInv(q),
           Local(q)' = Local(q),
           \A p \in Replica \ {q} : alone[q] /\ Quiet(p) => Quiet(p)',
           life[q] = "flushed" /\ alone[q] /\ mirror[q] # NoSession
               => row' = row
    PROVE  StoreInv(q)'
<1>1. /\ life'[q] = life[q] /\ mirror'[q] = mirror[q]
      /\ throttled'[q] = throttled[q] /\ timer'[q] = timer[q]
      /\ writes'[q] = writes[q] /\ saved'[q] = saved[q]
      /\ alone'[q] = alone[q]
    BY DEF Local
<1>2. /\ Unsaved(q)' /\ DueIsOutside(q)' /\ FinalIsLast(q)'
    BY <1>1 DEF StoreInv, Unsaved, DueIsOutside, FinalIsLast
<1>3. AloneIsAlone(q)'
    BY <1>1 DEF StoreInv, AloneIsAlone
<1>4. Flushed(q)'
    BY <1>1 DEF StoreInv, Flushed
<1>5. QED
    BY <1>2, <1>3, <1>4 DEF StoreInv

\* hydrate starts with a clean slate, and ends every other process's claim
\* to have been alone.
LEMMA BootInv ==
    ASSUME IInv, NEW r \in Replica, Boot(r), NEW q \in Replica
    PROVE  StoreInv(q)'
<1>1. alone' = [p \in Replica |-> p = r /\ \A o \in Replica : Quiet(o)]
    BY DEF Boot
<1>2. PICK found : /\ mirror' = [mirror EXCEPT ![r] = found]
                   /\ saved' = [saved EXCEPT ![r] = found]
    BY DEF Boot
<1>3. /\ life' = [life EXCEPT ![r] = "up"]
      /\ timer' = [timer EXCEPT ![r] = "none"]
      /\ throttled' = [throttled EXCEPT ![r] = FALSE]
      /\ UNCHANGED <<writes, row>>
    BY DEF Boot
<1>4. StoreInv(q)
    BY DEF IInv
<1>5. CASE q = r
    <2>1. /\ life'[r] = "up" /\ mirror'[r] = saved'[r]
          /\ timer'[r] = "none"
        BY <1>2, <1>3 DEF IInv, TypeOK
    <2>2. Unsaved(r)' /\ DueIsOutside(r)' /\ FinalIsLast(r)' /\ Flushed(r)'
        BY <2>1 DEF Unsaved, DueIsOutside, FinalIsLast, Flushed
    <2>3. AloneIsAlone(r)'
        BY <1>1, <1>3 DEF AloneIsAlone, Quiet, Down, IInv, TypeOK
    <2>4. QED
        BY <1>5, <2>2, <2>3 DEF StoreInv
<1>6. CASE q # r
    <2>1. /\ life'[q] = life[q] /\ mirror'[q] = mirror[q]
          /\ saved'[q] = saved[q] /\ timer'[q] = timer[q]
          /\ throttled'[q] = throttled[q] /\ writes'[q] = writes[q]
        BY <1>2, <1>3, <1>6 DEF IInv, TypeOK
    <2>2. ~alone'[q]
        BY <1>1, <1>6
    <2>3. QED
        BY <1>4, <2>1, <2>2 DEF StoreInv, Unsaved, DueIsOutside, FinalIsLast,
                                AloneIsAlone, Flushed
<1>7. QED
    BY <1>5, <1>6

\* The processes other than r do nothing.
Frame(r) == \A p \in Replica \ {r} : Local(p)' = Local(p)

\* A process that is not quiet costs the others nothing they rely on: none
\* of them can claim to be alone.
LEMMA ForeignInv ==
    ASSUME IInv, NEW r \in Replica, ~Quiet(r), Frame(r),
           NEW q \in Replica \ {r}
    PROVE  StoreInv(q)'
<1>1. StoreInv(q) /\ Local(q)' = Local(q)
    BY DEF IInv, Frame
<1>2. ~alone[q]
    BY <1>1 DEF StoreInv, AloneIsAlone
<1>3. QED
    BY <1>1, <1>2, OtherInv

\* Being alone only depends on the others.
LEMMA OwnAlone ==
    ASSUME IInv, NEW r \in Replica, Frame(r), alone' = alone
    PROVE  AloneIsAlone(r)'
<1>1. AloneIsAlone(r)
    BY DEF IInv, StoreInv
<1>2. ASSUME NEW p \in Replica \ {r}
      PROVE  life'[p] = life[p] /\ writes'[p] = writes[p]
    BY DEF Frame, Local
<1>3. QED
    BY <1>1, <1>2 DEF AloneIsAlone, Quiet, Down

\* A fired write is what the process last set out to write, and it starts
\* the throttle window; the others do nothing.
LEMMA FireStep ==
    ASSUME TypeOK, NEW r \in Replica, NEW write, Fire(r, write)
    PROVE  /\ saved'[r] = write
           /\ throttled'[r] = TRUE
           /\ \A p \in Replica \ {r} :
                  /\ writes'[p] = writes[p]
                  /\ saved'[p] = saved[p]
                  /\ throttled'[p] = throttled[p]
BY DEF Fire, TypeOK

\* What a step of a process that is up leaves to show.
LEMMA UpInv ==
    ASSUME IInv, NEW r \in Replica, life[r] = "up", UNCHANGED <<life, alone>>,
           Frame(r), Unsaved(r)', DueIsOutside(r)', NEW q \in Replica
    PROVE  StoreInv(q)'
<1>1. ~Quiet(r)
    BY DEF Quiet, Down
<1>2. CASE q = r
    <2>1. FinalIsLast(r)' /\ Flushed(r)'
        BY DEF FinalIsLast, Flushed
    <2>2. AloneIsAlone(r)'
        BY OwnAlone
    <2>3. QED
        BY <1>2, <2>1, <2>2 DEF StoreInv
<1>3. CASE q # r
    BY <1>1, <1>3, ForeignInv
<1>4. QED
    BY <1>2, <1>3

\* updateSessionInfo with a session fires it, or finds or arms the timer.
LEMMA UpdateInv ==
    ASSUME IInv, NEW r \in Replica, NEW info \in Session, Update(r, info),
           UNCHANGED <<life, alone>>, NEW q \in Replica
    PROVE  StoreInv(q)'
<1>1. TypeOK /\ life[r] = "up" /\ life'[r] = "up"
    BY DEF IInv, Update
<1>2. /\ mirror' = [mirror EXCEPT ![r] = info]
      /\ mirror'[r] = info /\ mirror'[r] # NoSession
    BY <1>1 DEF Update, TypeOK
<1>3. CASE /\ timer' = [timer EXCEPT ![r] = "none"]
           /\ Fire(r, info)
    <2>1. Unsaved(r)' /\ DueIsOutside(r)'
        BY <1>1, <1>2, <1>3, FireStep DEF Unsaved, DueIsOutside, TypeOK
    <2>2. Frame(r)
        BY <1>1, <1>2, <1>3, FireStep DEF Frame, Local, TypeOK
    <2>3. QED
        BY <1>1, <2>1, <2>2, UpInv
<1>4. CASE /\ throttled[r]
           /\ timer' = [timer EXCEPT ![r] = IF @ = "none" THEN "armed" ELSE @]
           /\ UNCHANGED <<writes, saved, throttled, written>>
    <2>1. timer'[r] # "none" /\ timer'[r] = IF timer[r] = "none" THEN "armed" ELSE timer[r]
        BY <1>1, <1>4 DEF TypeOK
    <2>2. Unsaved(r)' /\ DueIsOutside(r)'
        BY <1>2, <1>4, <2>1 DEF Unsaved, DueIsOutside, IInv, StoreInv
    <2>3. Frame(r)
        BY <1>1, <1>2, <1>4 DEF Frame, Local, TypeOK
    <2>4. QED
        BY <1>1, <2>2, <2>3, UpInv
<1>5. QED
    BY <1>3, <1>4 DEF Update

\* The other steps of a process that is up: the null-clear, the end of the
\* throttle window, the flush timer.
LEMMA UpStepInv ==
    ASSUME IInv, NEW r \in Replica,
           ResumeRejected(r) \/ ThrottleExpires(r) \/ FlushTimerFires(r)
               \/ Connects(r),
           NEW q \in Replica
    PROVE  StoreInv(q)'
<1>1. /\ TypeOK /\ Unsaved(r) /\ DueIsOutside(r)
      /\ life[r] = "up" /\ UNCHANGED <<life, alone>>
    BY DEF IInv, StoreInv, ResumeRejected, NullClear, ThrottleExpires,
           FlushTimerFires, Connects
<1>2. CASE ResumeRejected(r)
    <2>1. /\ mirror' = [mirror EXCEPT ![r] = NoSession]
          /\ timer' = [timer EXCEPT ![r] = "none"]
          /\ Fire(r, NoSession)
        BY <1>2 DEF ResumeRejected, NullClear
    <2>2. Unsaved(r)' /\ DueIsOutside(r)'
        BY <1>1, <2>1, FireStep DEF Unsaved, DueIsOutside, TypeOK
    <2>3. Frame(r)
        BY <1>1, <2>1, FireStep DEF Frame, Local, TypeOK
    <2>4. QED
        BY <1>1, <2>2, <2>3, UpInv
<1>3. CASE ThrottleExpires(r)
    <2>1. Unsaved(r)' /\ DueIsOutside(r)'
        BY <1>1, <1>3 DEF ThrottleExpires, Unsaved, DueIsOutside, TypeOK
    <2>2. Frame(r)
        BY <1>1, <1>3 DEF ThrottleExpires, Frame, Local, TypeOK
    <2>3. QED
        BY <1>1, <2>1, <2>2, UpInv
<1>4. CASE FlushTimerFires(r)
    <2>1. /\ timer' = [timer EXCEPT ![r] = "none"]
          /\ mirror' = mirror
          /\ \/ /\ mirror[r] = NoSession
                /\ UNCHANGED <<writes, saved, throttled>>
             \/ Fire(r, mirror[r])
        BY <1>4 DEF FlushTimerFires
    <2>2. Unsaved(r)' /\ DueIsOutside(r)'
        BY <1>1, <2>1, FireStep DEF Unsaved, DueIsOutside, TypeOK
    <2>3. Frame(r)
        BY <1>1, <2>1, FireStep DEF Frame, Local, TypeOK
    <2>4. QED
        BY <1>1, <2>2, <2>3, UpInv
<1>5. CASE Connects(r)
    <2>1. UNCHANGED store /\ UNCHANGED writes
        BY <1>5 DEF Connects
    <2>2. Unsaved(r)' /\ DueIsOutside(r)' /\ Frame(r)
        BY <1>1, <2>1 DEF store, Unsaved, DueIsOutside, Frame, Local
    <2>3. QED
        BY <1>1, <2>2, UpInv
<1>6. QED
    BY <1>2, <1>3, <1>4, <1>5

\* Ending, with a flush or without one.
LEMMA EndInv ==
    ASSUME IInv, NEW r \in Replica,
           FlushFinal(r) \/ WritesSettled(r) \/ FinalPutReturns(r)
               \/ ExitsUnflushed(r),
           NEW q \in Replica
    PROVE  StoreInv(q)'
<1>1. TypeOK /\ StoreInv(r)
    BY DEF IInv
<1>2. ~Quiet(r) /\ alone' = alone /\ writes' = writes
    BY DEF Quiet, Down, FlushFinal, WritesSettled, FinalPutReturns,
           ExitsUnflushed
<1>3. /\ UNCHANGED <<mirror, throttled, saved>>
      /\ \/ timer' = timer
         \/ timer' = [timer EXCEPT ![r] = "none"]
    BY DEF FlushFinal, WritesSettled, FinalPutReturns, ExitsUnflushed, store
<1>4. \E l : life' = [life EXCEPT ![r] = l]
    BY DEF FlushFinal, WritesSettled, FinalPutReturns, ExitsUnflushed
<1>5. Frame(r)
    BY <1>1, <1>2, <1>3, <1>4 DEF Frame, Local, TypeOK
<1>6. life'[r] # "up"
    BY <1>1 DEF FlushFinal, WritesSettled, FinalPutReturns, ExitsUnflushed,
                TypeOK
<1>7. Unsaved(r)' /\ DueIsOutside(r)'
    BY <1>1, <1>3, <1>6 DEF Unsaved, DueIsOutside, StoreInv, TypeOK
<1>8. FinalIsLast(r)'
    BY <1>1, <1>2 DEF FinalIsLast, StoreInv, FlushFinal, WritesSettled,
                      FinalPutReturns, ExitsUnflushed, TypeOK
<1>9. Flushed(r)'
    <2>1. CASE FinalPutReturns(r)
        BY <1>1, <1>3, <2>1 DEF Flushed, FinalPutReturns, TypeOK
    <2>2. CASE WritesSettled(r)
        BY <1>1, <1>3, <2>2 DEF Flushed, WritesSettled, TypeOK
    <2>3. CASE FlushFinal(r) \/ ExitsUnflushed(r)
        BY <1>1, <2>3 DEF Flushed, FlushFinal, ExitsUnflushed, TypeOK
    <2>4. QED
        BY <2>1, <2>2, <2>3
<1>10. AloneIsAlone(r)'
    BY <1>2, <1>5, OwnAlone
<1>11. CASE q = r
    BY <1>7, <1>8, <1>9, <1>10, <1>11 DEF StoreInv
<1>12. CASE q # r
    BY <1>2, <1>5, <1>12, ForeignInv
<1>13. QED
    BY <1>11, <1>12

\* A write that was in flight takes effect or is given up.
LEMMA SettleInv ==
    ASSUME IInv, NEW r \in Replica, WriteApplies(r) \/ WriteFails(r),
           NEW q \in Replica
    PROVE  StoreInv(q)'
<1>1. TypeOK /\ StoreInv(r)
    BY DEF IInv
<1>2. PICK k \in DOMAIN writes[r] :
          /\ writes' = [writes EXCEPT ![r] = RemoveAt(writes[r], k)]
          /\ UNCHANGED <<life, store, alone>>
    BY DEF WriteApplies, WriteFails
<1>3. /\ \A p \in Replica \ {r} : writes'[p] = writes[p]
      /\ writes[r] # <<>>
    BY <1>1, <1>2, SettleType DEF TypeOK
<1>4. ~Quiet(r)
    BY <1>3 DEF Quiet
<1>5. Frame(r)
    BY <1>2, <1>3 DEF Frame, Local, store
<1>6. life[r] \notin {"final", "flushed"}
    BY <1>1, <1>3 DEF StoreInv, FinalIsLast
<1>7. Unsaved(r)' /\ DueIsOutside(r)' /\ FinalIsLast(r)' /\ Flushed(r)'
    BY <1>1, <1>2, <1>6 DEF StoreInv, Unsaved, DueIsOutside, FinalIsLast,
                            Flushed, store
<1>8. AloneIsAlone(r)'
    BY <1>2, <1>5, OwnAlone
<1>9. CASE q = r
    BY <1>7, <1>8, <1>9 DEF StoreInv
<1>10. CASE q # r
    BY <1>4, <1>5, <1>10, ForeignInv
<1>11. QED
    BY <1>9, <1>10

\* Every step preserves the invariant.
LEMMA NextIInv == IInv /\ [Next]_vars => IInv'
<1> SUFFICES ASSUME IInv, [Next]_vars PROVE IInv'
    OBVIOUS
<1>1. TypeOK'
    BY TypeNext DEF IInv
<1>2. ASSUME NEW q \in Replica PROVE StoreInv(q)'
    <2>1. CASE UNCHANGED vars
        <3>1. Local(q)' = Local(q) /\ row' = row /\ UNCHANGED <<life, writes>>
            BY <2>1 DEF vars, store, Local
        <3>2. StoreInv(q) /\ \A p \in Replica : Quiet(p) => Quiet(p)'
            BY <3>1 DEF IInv, Quiet, Down
        <3>3. QED
            BY <3>1, <3>2, OtherInv
    <2>2. ASSUME NEW r \in Replica, Ready(r) PROVE StoreInv(q)'
        <3>1. session + 1 \in 1 .. MaxSession
            BY <2>2 DEF Ready, IInv, TypeOK
        <3>2. [id |-> session + 1, seq |-> 1] \in Session
            BY <3>1 DEF Session
        <3>3. QED
            BY <2>2, <3>2, UpdateInv DEF Ready
    <2>3. ASSUME NEW r \in Replica, Dispatch(r) PROVE StoreInv(q)'
        <3>1. mirror[r] \in Session /\ mirror[r].seq < MaxSequence
            BY <2>3 DEF Dispatch, IInv, TypeOK
        <3>2. [mirror[r] EXCEPT !.seq = @ + 1] \in Session
            BY <3>1 DEF Session
        <3>3. QED
            BY <2>3, <3>2, UpdateInv DEF Dispatch
    <2>4. QED
        BY <2>1, <2>2, <2>3, BootInv, UpStepInv, EndInv, SettleInv DEF Next
<1>3. QED
    BY <1>1, <1>2 DEF IInv

-----------------------------------------------------------------------------
(* The theorems.                                                           *)

\* The inductive invariant holds throughout.
THEOREM Invariance == Spec => []IInv
BY InitIInv, NextIInv, PTL DEF Spec

\* Every reachable state of the stores and their row is well typed.
THEOREM TypeCorrect == Spec => []TypeOK
<1>1. IInv => TypeOK
    BY DEF IInv
<1>2. QED
    BY <1>1, Invariance, PTL

\* No update is forgotten (contract 3 of gateway-session-store.js): what the
\* mirror has and no write was fired for is waiting for the timer.
THEOREM NothingForgotten == Spec => []UnsavedHasTimer
<1>1. IInv => UnsavedHasTimer
    BY DEF IInv, StoreInv, Unsaved, UnsavedHasTimer
<1>2. QED
    BY <1>1, Invariance, PTL

\* The final flush of a process that was alone is the last word on the row
\* (contract 4): nothing it fired earlier is applied afterwards.
THEOREM FlushIsLast == Spec => []FlushedRowIsMirror
<1>1. IInv => FlushedRowIsMirror
    BY DEF IInv, StoreInv, Flushed, FlushedRowIsMirror
<1>2. QED
    BY <1>1, Invariance, PTL

\* What ThrottleHolds says of one step of one process.
Throttled(r) ==
    Len(writes'[r]) > Len(writes[r]) /\ throttled[r]
        => LET write == Last(writes'[r])
           IN  write = NoSession \/ write.id # written[r]

\* A step that does not lengthen the writes in flight meets it.
LEMMA NoNewWrite ==
    ASSUME TypeOK, TypeOK', NEW r \in Replica,
           writes'[r] = writes[r] \/ Len(writes'[r]) < Len(writes[r])
    PROVE  Throttled(r)
<1>1. Len(writes[r]) \in Nat /\ Len(writes'[r]) \in Nat
    BY DEF TypeOK
<1>2. ~(Len(writes'[r]) > Len(writes[r]))
    BY <1>1
<1>3. QED
    BY <1>2 DEF Throttled

\* A write that is fired meets it if it is a delete, of another session, or
\* outside the window.
LEMMA FireThrottled ==
    ASSUME TypeOK, TypeOK', NEW r \in Replica,
           NEW write \in Session \cup {NoSession}, Fire(r, write),
           write = NoSession \/ write.id # written[r] \/ ~throttled[r],
           NEW q \in Replica
    PROVE  Throttled(q)
<1>1. writes' = [writes EXCEPT ![r] = Append(writes[r], write)]
    BY DEF Fire
<1>2. CASE q = r
    <2>1. /\ writes[r] \in Seq(Session \cup {NoSession})
          /\ writes'[r] = Append(writes[r], write)
        BY <1>1 DEF TypeOK
    <2>2. Last(writes'[r]) = write
        BY <2>1 DEF Last
    <2>3. QED
        BY <1>2, <2>2 DEF Throttled
<1>3. CASE q # r
    BY <1>1, <1>3, NoNewWrite DEF TypeOK
<1>4. QED
    BY <1>2, <1>3

\* Every step meets it.
LEMMA NextThrottled ==
    ASSUME IInv, IInv', [Next]_vars, NEW q \in Replica
    PROVE  Throttled(q)
<1>1. TypeOK /\ TypeOK' /\ \A r \in Replica : DueIsOutside(r)
    BY DEF IInv, StoreInv
<1>2. ASSUME UNCHANGED writes PROVE Throttled(q)
    BY <1>1, <1>2, NoNewWrite
<1>3. CASE UNCHANGED vars
    BY <1>2, <1>3 DEF vars
<1>4. ASSUME NEW r \in Replica, NEW info \in Session, Update(r, info)
      PROVE  Throttled(q)
    <2>1. CASE UNCHANGED writes
        BY <1>2, <2>1
    <2>2. CASE Fire(r, info) /\ (info.id # written[r] \/ ~throttled[r])
        BY <1>1, <2>2, FireThrottled
    <2>3. QED
        BY <1>4, <2>1, <2>2 DEF Update
<1>5. ASSUME NEW r \in Replica, Ready(r) PROVE Throttled(q)
    <2>1. session + 1 \in 1 .. MaxSession
        BY <1>1, <1>5 DEF Ready, TypeOK
    <2>2. [id |-> session + 1, seq |-> 1] \in Session
        BY <2>1 DEF Session
    <2>3. QED
        BY <1>4, <1>5, <2>2 DEF Ready
<1>6. ASSUME NEW r \in Replica, Dispatch(r) PROVE Throttled(q)
    <2>1. mirror[r] \in Session /\ mirror[r].seq < MaxSequence
        BY <1>1, <1>6 DEF Dispatch, TypeOK
    <2>2. [mirror[r] EXCEPT !.seq = @ + 1] \in Session
        BY <2>1 DEF Session
    <2>3. QED
        BY <1>4, <1>6, <2>2 DEF Dispatch
<1>7. ASSUME NEW r \in Replica, ResumeRejected(r) PROVE Throttled(q)
    BY <1>1, <1>7, FireThrottled DEF ResumeRejected, NullClear
<1>8. ASSUME NEW r \in Replica, FlushTimerFires(r) PROVE Throttled(q)
    <2>1. ~throttled[r] /\ mirror[r] \in Session \cup {NoSession}
        BY <1>1, <1>8 DEF FlushTimerFires, DueIsOutside, TypeOK
    <2>2. QED
        BY <1>1, <1>2, <1>8, <2>1, FireThrottled DEF FlushTimerFires
<1>9. ASSUME NEW r \in Replica, WriteApplies(r) \/ WriteFails(r)
      PROVE  Throttled(q)
    <2>1. PICK k \in DOMAIN writes[r] :
              writes' = [writes EXCEPT ![r] = RemoveAt(writes[r], k)]
        BY <1>9 DEF WriteApplies, WriteFails
    <2>2. /\ Len(writes'[r]) < Len(writes[r])
          /\ \A p \in Replica \ {r} : writes'[p] = writes[p]
        BY <1>1, <2>1, SettleType
    <2>3. QED
        BY <1>1, <2>2, NoNewWrite
<1>10. ASSUME NEW r \in Replica,
              Boot(r) \/ ThrottleExpires(r) \/ FlushFinal(r)
                  \/ WritesSettled(r) \/ FinalPutReturns(r)
                  \/ ExitsUnflushed(r) \/ Connects(r)
       PROVE  Throttled(q)
    BY <1>2, <1>10 DEF Boot, ThrottleExpires, FlushFinal, WritesSettled,
                       FinalPutReturns, ExitsUnflushed, Connects
<1>11. QED
    BY <1>3, <1>5, <1>6, <1>7, <1>8, <1>9, <1>10 DEF Next

\* The dispatch rate never becomes the write rate (contract 3): inside a
\* throttle window nothing of the session last written is written again.
THEOREM ThrottleIsHeld == Spec => ThrottleHolds
<1>1. IInv /\ IInv' /\ [Next]_vars => \A r \in Replica : Throttled(r)
    BY NextThrottled
<1>2. (\A r \in Replica : Throttled(r)) =>
          [\A r \in Replica :
               Len(writes'[r]) > Len(writes[r]) /\ throttled[r]
                   => LET write == Last(writes'[r])
                      IN  write = NoSession \/ write.id # written[r]]_vars
    BY DEF Throttled
<1>3. QED
    BY <1>1, <1>2, Invariance, PTL DEF Spec, ThrottleHolds
=============================================================================
