------------------------- MODULE AgentConfirmProofs -------------------------
(***************************************************************************)
(* What the turns of the agent and the clicks on its cards keep: the       *)
(* invariant about their markers from which OneTurnPerMessage,             *)
(* DuplicateOfAnother, DecidedOnce and EntitledDecides follow.             *)
(***************************************************************************)
EXTENDS AgentConfirm, TLAPS, FiniteSetTheorems

TurnMove(d) == TurnStep(d) \/ TurnFault(d)
PressMove(b) == PressStep(b) \/ PressFault(b)

-----------------------------------------------------------------------------
(* The invariant.                                                          *)

Markers == Deliveries \cup Presses \cup {"none", "lapsed"}
Outcomes == {"none", "canceled", "opened", "executed", "failed"}
PressRecords == [pc : PressPcs, card : Deliveries, who : Members,
                 approve : BOOLEAN, outcome : Outcomes]

TurnShape ==
    /\ carries \in [Deliveries -> Messages \cup {"none"}]
    /\ marker \in [MarkerKeys -> Markers]
    /\ delivery \in [Deliveries -> DeliveryPcs]
    /\ press \in [Presses -> PressRecords]
    /\ \A d \in Deliveries : delivery[d] # "idle" => carries[d] \in Messages

\* Whoever went on with a message wrote its marker, and a marker was written by
\* one that was no duplicate.
Marked ==
    "purge" \notin excused =>
        /\ \A d \in Deliveries : Spoke(d) => marker[Event(d)] = d
        /\ \A d \in Deliveries :
               delivery[d] = "duplicate" => marker[Event(d)] # "none"
        /\ \A m \in Messages :
               marker[<<"event", m>>] # "none" =>
                   \E e \in Deliveries :
                       /\ marker[<<"event", m>>] = e /\ carries[e] = m
                       /\ delivery[e] \notin {"idle", "duplicate"}

\* A claim is made by a click that passed the gates.
Past == {"claim", "act", "deliver", "settle", "ended"}
ClaimsEntitled ==
    /\ \A b \in Presses : PressAt(b, "claim") => Entitled(b)
    /\ \A b \in Presses, d \in Deliveries :
           marker[<<"claim", d>>] = b =>
               press[b].card = d /\ press[b].pc \in Past /\ Entitled(b)

\* Whoever acts on a proposal holds its claim.
ActsClaimed ==
    "purge" \notin excused =>
        \A b \in Presses :
            press[b].pc \in {"act", "deliver", "settle"} \/ press[b].outcome # "none"
            => marker[ClaimKey(b)] = b

TurnInv == TurnShape /\ Marked /\ ClaimsEntitled /\ ActsClaimed

-----------------------------------------------------------------------------
(* What a move of a delivery comes to.                                     *)

Later == DeliveryPcs \ {"idle", "duplicate"}
EventKept == \A m \in Messages : marker'[<<"event", m>>] = marker[<<"event", m>>]
ClaimKept == \A d \in Deliveries : marker'[<<"claim", d>>] = marker[<<"claim", d>>]

TurnEffect(d) ==
    /\ said' = said /\ carries' = carries
    /\ marker' \in [MarkerKeys -> Markers] /\ ClaimKept
    /\ "purge" \in excused' <=> "purge" \in excused
    /\ delivery' \in [Deliveries -> DeliveryPcs]
    /\ \A e \in Deliveries \ {d} : delivery'[e] = delivery[e]
    /\ \/ EventKept /\ delivery[d] = "idle" /\ carries[d] # "none"
                    /\ delivery'[d] = "toggle"
       \/ EventKept /\ delivery[d] \in Later /\ delivery'[d] \in Later /\ ~Spoke(d)'
       \/ EventKept /\ Spoke(d) /\ delivery'[d] \in Later
       \/ EventKept /\ delivery'[d] = delivery[d]
       \/ /\ delivery[d] = "mark" /\ Free(Event(d))
          /\ marker' = [marker EXCEPT ![Event(d)] = d]
          /\ delivery'[d] \in Later
       \/ /\ EventKept /\ delivery[d] = "mark" /\ marker[Event(d)] = d
          /\ delivery'[d] \in Later
       \/ /\ EventKept /\ delivery[d] = "mark" /\ marker[Event(d)] \notin {"none", d}
          /\ delivery'[d] = "duplicate"

\* A marker is written by whoever may, and no other marker with it.
LEMMA PutKeeps ==
    ASSUME NEW key, NEW writer \in Deliveries \cup Presses, NEW free,
           marker \in [MarkerKeys -> Markers], Put(free, key, writer)
    PROVE  /\ marker' \in [MarkerKeys -> Markers]
           /\ \A k \in MarkerKeys \ {key} : marker'[k] = marker[k]
<1>1. marker' = marker \/ marker' = [marker EXCEPT ![key] = writer]
      BY DEF Put
<1> QED BY <1>1 DEF Markers

\* The keys of events, notices and claims are apart.
LEMMA KeysApart ==
    /\ \A m \in Messages : <<"event", m>> \in MarkerKeys
    /\ \A d \in Deliveries : <<"claim", d>> \in MarkerKeys
    /\ \A x, y : <<"event", x>> # <<"claim", y>> /\ <<"event", x>> # <<"notice", y>>
                 /\ <<"claim", x>> # <<"notice", y>>
    /\ \A x, y : <<"event", x>> = <<"event", y>> => x = y
    /\ \A x, y : <<"claim", x>> = <<"claim", y>> => x = y
BY DEF MarkerKeys

\* Every move of a delivery comes to one of these.
LEMMA TurnComesTo ==
    ASSUME NEW d \in Deliveries, TurnMove(d), TurnShape
    PROVE  TurnEffect(d)
<1>1. CASE Dispatch(d)
      BY <1>1 DEF Dispatch, DeliveryAt, DeliveryGoes, TurnKept, Inputs,
         Proposals, Counters, TurnEffect, EventKept, ClaimKept, TurnShape,
         DeliveryPcs, Later, Spoke
<1>2. CASE ReadToggle(d)
      BY <1>2 DEF ReadToggle, DeliveryAt, DeliveryGoes, TurnKept, Inputs,
         Proposals, Counters, TurnEffect, EventKept, ClaimKept, TurnShape,
         DeliveryPcs, Later, Spoke
<1>3. CASE ReadThread(d)
      BY <1>3 DEF ReadThread, DeliveryAt, DeliveryGoes, TurnKept, Inputs,
         Proposals, Counters, TurnEffect, EventKept, ClaimKept, TurnShape,
         DeliveryPcs, Later, Spoke
<1>4. CASE MarkSeen(d)
  <2>1. /\ marker' \in [MarkerKeys -> Markers]
        /\ \A k \in MarkerKeys \ {Event(d)} : marker'[k] = marker[k]
        BY <1>4, PutKeeps DEF MarkSeen, TurnShape
  <2>2. ClaimKept
        BY <2>1, KeysApart DEF ClaimKept, Event
  <2>4. said' = said /\ carries' = carries /\ excused' = excused /\ delivery[d] = "mark"
        BY <1>4 DEF MarkSeen, TurnKept, Inputs, Counters, DeliveryAt
  <2>5. AfterMark(d) \in Later
        BY DEF AfterMark, Later, DeliveryPcs
  <2>6. CASE Free(Event(d))
    <3>1. marker' = [marker EXCEPT ![Event(d)] = d] /\ DeliveryGoes(d, AfterMark(d))
          BY <1>4, <2>6 DEF MarkSeen, Put, Wins
    <3> QED BY <2>1, <2>2, <2>4, <2>5, <2>6, <3>1 DEF DeliveryGoes, TurnEffect,
               TurnShape, Later
  <2>7. CASE ~Free(Event(d)) /\ marker[Event(d)] = d
    <3>1. marker' = marker /\ DeliveryGoes(d, AfterMark(d))
          BY <1>4, <2>7 DEF MarkSeen, Put, Wins
    <3> QED BY <2>1, <2>2, <2>4, <2>5, <2>7, <3>1 DEF DeliveryGoes, TurnEffect,
               TurnShape, Later, EventKept
  <2>8. CASE ~Free(Event(d)) /\ marker[Event(d)] # d
    <3>1. marker' = marker /\ DeliveryGoes(d, "duplicate")
          BY <1>4, <2>8 DEF MarkSeen, Put, Wins
    <3> QED BY <2>1, <2>2, <2>4, <2>8, <3>1 DEF DeliveryGoes, TurnEffect,
               TurnShape, DeliveryPcs, Free, EventKept
  <2> QED BY <2>6, <2>7, <2>8
<1>5. CASE ClaimNotice(d)
  <2>1. /\ marker' \in [MarkerKeys -> Markers]
        /\ \A k \in MarkerKeys \ {Notice(d)} : marker'[k] = marker[k]
        BY <1>5, PutKeeps DEF ClaimNotice, TurnShape
  <2>2. EventKept /\ ClaimKept
        BY <2>1, KeysApart DEF EventKept, ClaimKept, Notice
  <2>3. delivery[d] = "notice" /\ (DeliveryGoes(d, "replied") \/ DeliveryGoes(d, "silent"))
        BY <1>5 DEF ClaimNotice, DeliveryAt
  <2>4. said' = said /\ carries' = carries /\ excused' = excused
        BY <1>5 DEF ClaimNotice, TurnKept, Inputs, Counters
  <2> QED BY <2>1, <2>2, <2>3, <2>4 DEF DeliveryGoes, TurnEffect, TurnShape,
             DeliveryPcs, Later, Spoke
<1>6. CASE CountMember(d)
      BY <1>6 DEF CountMember, DeliveryAt, DeliveryGoes, CountKept, Inputs,
         Proposals, Counters, TurnEffect, EventKept, ClaimKept, TurnShape,
         DeliveryPcs, Later, Spoke
<1>7. CASE CountTeam(d)
      BY <1>7 DEF CountTeam, DeliveryAt, DeliveryGoes, CountKept, Inputs,
         Proposals, Counters, TurnEffect, EventKept, ClaimKept, TurnShape,
         DeliveryPcs, Later, Spoke
<1>8. CASE RunTurn(d)
      BY <1>8 DEF RunTurn, DeliveryAt, DeliveryGoes, Inputs, Proposals,
         Counters, TurnEffect, EventKept, ClaimKept, TurnShape, DeliveryPcs,
         Later, Spoke
<1>9. CASE StoreProposal(d)
      BY <1>9 DEF StoreProposal, DeliveryAt, DeliveryGoes, Inputs, Proposals,
         Counters, TurnEffect, EventKept, ClaimKept, TurnShape, DeliveryPcs,
         Later, Spoke
<1>10. CASE PostCard(d)
      BY <1>10 DEF PostCard, DeliveryAt, DeliveryGoes, Inputs, Proposals,
         Counters, TurnEffect, EventKept, ClaimKept, TurnShape, DeliveryPcs,
         Later, Spoke
<1>11. CASE Drop(d)
      BY <1>11 DEF Drop, DeliveryGoes, Final, Inputs, Proposals, TurnEffect,
         EventKept, ClaimKept, TurnShape, DeliveryPcs, Later, Spoke
<1>12. CASE MarkReplyLost(d)
  <2>1. /\ marker' \in [MarkerKeys -> Markers]
        /\ \A k \in MarkerKeys \ {Event(d)} : marker'[k] = marker[k]
        BY <1>12, PutKeeps DEF MarkReplyLost, TurnShape
  <2>2. ClaimKept
        BY <2>1, KeysApart DEF ClaimKept, Event
  <2>3. /\ delivery[d] = "mark" /\ Free(Event(d)) /\ delivery' = delivery
        /\ marker' = [marker EXCEPT ![Event(d)] = d]
        BY <1>12 DEF MarkReplyLost, DeliveryAt, Put
  <2>4. said' = said /\ carries' = carries /\ excused' = excused
        BY <1>12 DEF MarkReplyLost, TurnKept, Inputs, Counters
  <2> QED BY <2>1, <2>2, <2>3, <2>4 DEF TurnEffect, TurnShape, DeliveryPcs,
             Later
<1>13. CASE ClaimNoticeFails(d)
      BY <1>13 DEF ClaimNoticeFails, DeliveryAt, DeliveryGoes, TurnKept,
         Inputs, Proposals, Counters, TurnEffect, EventKept, ClaimKept,
         TurnShape, DeliveryPcs, Later, Spoke
<1>14. CASE CountTwice(d)
      BY <1>14 DEF CountTwice, CountKept, Inputs, Proposals, Counters,
         TurnEffect, EventKept, ClaimKept, TurnShape, DeliveryPcs, Later,
         Spoke
<1>15. CASE CountFails(d)
      BY <1>15 DEF CountFails, DeliveryGoes, CountKept, Inputs, Proposals,
         Counters, TurnEffect, EventKept, ClaimKept, TurnShape, DeliveryPcs,
         Later, Spoke
<1>16. CASE ProposalFails(d)
      BY <1>16 DEF ProposalFails, DeliveryAt, DeliveryGoes, Inputs, Proposals,
         Counters, TurnEffect, EventKept, ClaimKept, TurnShape, DeliveryPcs,
         Later, Spoke
<1>17. CASE ProposalExpires(d)
      BY <1>17 DEF ProposalExpires, Inputs, Proposals, Counters, TurnEffect,
         EventKept, ClaimKept, TurnShape, DeliveryPcs, Later, Spoke
<1> QED BY <1>1, <1>2, <1>3, <1>4, <1>5, <1>6, <1>7, <1>8, <1>9, <1>10, <1>11,
         <1>12, <1>13, <1>14, <1>15, <1>16, <1>17 DEF TurnMove, TurnStep,
         TurnFault

\* A claim is as it was when the click, the message and the marker are.
LEMMA ClaimsKept ==
    ASSUME TurnInv, said' = said, carries' = carries, press' = press,
           admins' = admins, ClaimKept, "purge" \in excused' <=> "purge" \in excused
    PROVE  ClaimsEntitled' /\ ActsClaimed'
<1>1. \A b \in Presses : Entitled(b)' = Entitled(b)
      BY DEF Entitled, Proposed, From, Saying
<1>2. \A b \in Presses : press[b].card \in Deliveries
      BY DEF TurnInv, TurnShape, PressRecords
<1> QED BY <1>1, <1>2 DEF TurnInv, ClaimsEntitled, ActsClaimed, PressAt,
           ClaimKey, ClaimKept

\* What changes no event marker and no delivery keeps the invariant.
LEMMA SteadyKeeps ==
    ASSUME TurnInv, said' = said, carries' = carries, delivery' = delivery,
           press' = press, admins' = admins, marker' \in [MarkerKeys -> Markers],
           EventKept, ClaimKept, "purge" \in excused' <=> "purge" \in excused
    PROVE  TurnInv'
<1>1. TurnShape'
      BY DEF TurnInv, TurnShape
<1>2. \A d \in Deliveries : delivery[d] # "idle" => marker'[Event(d)] = marker[Event(d)]
      BY DEF TurnInv, TurnShape, EventKept, Event
<1>3. Marked'
      BY <1>2 DEF TurnInv, Marked, EventKept, Spoke, Event
<1> QED BY <1>1, <1>3, ClaimsKept DEF TurnInv

\* Every move of a delivery keeps the invariant.
LEMMA TurnInvKept ==
    ASSUME NEW d \in Deliveries, TurnMove(d), TurnInv, press' = press,
           admins' = admins
    PROVE  TurnInv'
<1>1. TurnEffect(d)
      BY TurnComesTo DEF TurnInv
<1>2. ClaimsEntitled' /\ ActsClaimed'
      BY <1>1, ClaimsKept DEF TurnEffect
<1>3. TurnShape'
      BY <1>1 DEF TurnInv, TurnShape, TurnEffect, Spoke, Later
<1>4. Marked'
  <2> SUFFICES ASSUME "purge" \notin excused'
               PROVE  /\ \A e \in Deliveries : Spoke(e)' => marker'[Event(e)'] = e
                      /\ \A e \in Deliveries :
                             delivery'[e] = "duplicate" => marker'[Event(e)'] # "none"
                      /\ \A m \in Messages :
                             marker'[<<"event", m>>] # "none" =>
                                 \E e \in Deliveries :
                                     /\ marker'[<<"event", m>>] = e
                                     /\ carries'[e] = m
                                     /\ delivery'[e] \notin {"idle", "duplicate"}
      BY DEF Marked
  <2>1. /\ \A e \in Deliveries : Spoke(e) => marker[Event(e)] = e
        /\ \A e \in Deliveries :
               delivery[e] = "duplicate" => marker[Event(e)] # "none"
        /\ \A m \in Messages :
               marker[<<"event", m>>] # "none" =>
                   \E e \in Deliveries :
                       /\ marker[<<"event", m>>] = e /\ carries[e] = m
                       /\ delivery[e] \notin {"idle", "duplicate"}
        BY <1>1 DEF TurnInv, Marked, TurnEffect
  <2>2. /\ \A e \in Deliveries : Event(e)' = Event(e)
        /\ \A e \in Deliveries : delivery[e] # "idle" => carries[e] \in Messages
        /\ \A e \in Deliveries \ {d} : delivery'[e] = delivery[e]
        /\ carries' = carries /\ said' = said
        BY <1>1 DEF TurnEffect, TurnInv, TurnShape, Event
  <2>3. CASE /\ EventKept
             /\ \/ /\ delivery[d] = "idle" /\ carries[d] # "none"
                   /\ delivery'[d] = "toggle"
                \/ /\ delivery[d] \in Later /\ delivery'[d] \in Later
                   /\ ~Spoke(d)'
                \/ Spoke(d) /\ delivery'[d] \in Later
                \/ delivery'[d] = delivery[d]
                \/ /\ delivery[d] = "mark" /\ marker[Event(d)] = d
                   /\ delivery'[d] \in Later
    <3>1. \A e \in Deliveries :
              delivery[e] # "idle" => marker'[Event(e)] = marker[Event(e)]
          BY <2>2, <2>3 DEF EventKept, Event
    <3>2. \A e \in Deliveries :
              Spoke(e)' => \/ Spoke(e)
                           \/ marker[Event(e)] = e /\ delivery[e] # "idle"
          BY <2>2, <2>3 DEF Spoke, Later, DeliveryPcs
    <3>3. \A e \in Deliveries : delivery'[e] = "duplicate" => delivery[e] = "duplicate"
          BY <2>2, <2>3 DEF Spoke, Later, DeliveryPcs
    <3>4. \A e \in Deliveries :
              delivery[e] \notin {"idle", "duplicate"}
              => delivery'[e] \notin {"idle", "duplicate"}
          BY <2>2, <2>3 DEF Spoke, Later, DeliveryPcs
    <3>5. \A e \in Deliveries : Spoke(e) => delivery[e] # "idle"
          BY DEF Spoke
    <3> QED BY <2>1, <2>2, <2>3, <3>1, <3>2, <3>3, <3>4, <3>5 DEF EventKept
  <2>4. CASE /\ delivery[d] = "mark" /\ Free(Event(d))
             /\ marker' = [marker EXCEPT ![Event(d)] = d]
             /\ delivery'[d] \in Later
    <3>1. /\ Event(d) \in MarkerKeys /\ marker \in [MarkerKeys -> Markers]
          /\ marker'[Event(d)] = d /\ marker[Event(d)] = "none"
          BY <2>2, <2>4, KeysApart DEF TurnInv, TurnShape, Event, Free
    <3>2. \A m \in Messages : m # carries[d] =>
              marker'[<<"event", m>>] = marker[<<"event", m>>]
          BY <2>4, <3>1, KeysApart DEF Event
    <3>3. ASSUME NEW e \in Deliveries, e # d, delivery[e] # "idle"
          PROVE  /\ delivery'[e] = delivery[e]
                 /\ Event(e) = Event(d) \/ marker'[Event(e)] = marker[Event(e)]
      <4>1. delivery'[e] = delivery[e] /\ carries[e] \in Messages
            BY <2>2, <3>3
      <4>2. CASE carries[e] = carries[d]
            BY <4>1, <4>2 DEF Event
      <4>3. CASE carries[e] # carries[d]
            BY <3>2, <4>1, <4>3 DEF Event
      <4> QED BY <4>1, <4>2, <4>3
    <3>4. ASSUME NEW e \in Deliveries, Spoke(e)'
          PROVE  marker'[Event(e)'] = e
      <4>1. CASE e = d
        <5>1. delivery[d] # "idle" /\ Event(e)' = Event(e)
              BY <2>2, <2>4
        <5> QED BY <3>1, <4>1, <5>1
      <4>2. CASE e # d
        <5>1. Spoke(e) /\ delivery[e] # "idle"
              BY <2>2, <3>4, <4>2 DEF Spoke
        <5>2. marker[Event(e)] = e /\ e # "none"
              BY <2>1, <5>1, WriterAssumption
        <5> QED BY <2>2, <3>1, <3>3, <4>2, <5>1, <5>2
      <4> QED BY <4>1, <4>2
    <3>5. ASSUME NEW e \in Deliveries, delivery'[e] = "duplicate"
          PROVE  marker'[Event(e)'] # "none"
      <4>1. e # d /\ delivery[e] = "duplicate"
            BY <2>2, <2>4, <3>5 DEF Later
      <4>2. marker[Event(e)] # "none"
            BY <2>1, <4>1
      <4> QED BY <2>2, <3>1, <3>3, <4>1, <4>2
    <3>6. ASSUME NEW m \in Messages, marker'[<<"event", m>>] # "none"
          PROVE  \E e \in Deliveries :
                     /\ marker'[<<"event", m>>] = e /\ carries'[e] = m
                     /\ delivery'[e] \notin {"idle", "duplicate"}
      <4>1. CASE m = carries[d]
            BY <2>2, <2>4, <3>1, <4>1 DEF Event, Later
      <4>2. CASE m # carries[d]
        <5>1. PICK e \in Deliveries : /\ marker[<<"event", m>>] = e
                                      /\ carries[e] = m
                                      /\ delivery[e] \notin {"idle", "duplicate"}
              BY <2>1, <3>2, <3>6, <4>2
        <5> QED BY <2>2, <3>2, <4>2, <5>1
      <4> QED BY <4>1, <4>2
    <3> QED BY <3>4, <3>5, <3>6
  <2>5. CASE /\ EventKept /\ delivery[d] = "mark"
             /\ marker[Event(d)] \notin {"none", d} /\ delivery'[d] = "duplicate"
    <3>1. \A e \in Deliveries :
              delivery[e] # "idle" => marker'[Event(e)] = marker[Event(e)]
          BY <2>2, <2>5 DEF EventKept, Event
    <3>2. \A e \in Deliveries : Spoke(e)' => Spoke(e) /\ delivery[e] # "idle"
          BY <2>2, <2>5 DEF Spoke
    <3>3. ASSUME NEW m \in Messages, marker'[<<"event", m>>] # "none"
          PROVE  \E e \in Deliveries :
                     /\ marker'[<<"event", m>>] = e /\ carries'[e] = m
                     /\ delivery'[e] \notin {"idle", "duplicate"}
      <4>1. PICK e \in Deliveries : /\ marker[<<"event", m>>] = e /\ carries[e] = m
                                    /\ delivery[e] \notin {"idle", "duplicate"}
            BY <2>1, <2>5, <3>3 DEF EventKept
      <4>2. e # d
            BY <2>5, <4>1 DEF Event
      <4> QED BY <2>2, <2>5, <4>1, <4>2 DEF EventKept
    <3> QED BY <2>1, <2>2, <2>5, <3>1, <3>2, <3>3
  <2> QED BY <1>1, <2>3, <2>4, <2>5 DEF TurnEffect
<1> QED BY <1>2, <1>3, <1>4 DEF TurnInv

-----------------------------------------------------------------------------
(* What a move of a click comes to.                                        *)

SameCard(b) == press'[b].card = press[b].card /\ press'[b].who = press[b].who

PressEffect(b) ==
    /\ said' = said /\ carries' = carries /\ delivery' = delivery
    /\ excused' = excused /\ admins' = admins
    /\ press' \in [Presses -> PressRecords]
    /\ \A c \in Presses \ {b} : press'[c] = press[c]
    /\ LET pc == press[b].pc next == press'[b].pc IN
       \/ /\ marker' = marker /\ pc = "idle" /\ next = "toggle"
          /\ press'[b].outcome = "none"
       \/ /\ marker' = marker /\ SameCard(b) /\ press'[b].outcome = press[b].outcome
          /\ pc \in {"toggle", "load", "gate"}
          /\ next \in {"load", "gate", "ended"} \/ (next = "claim" /\ Entitled(b))
       \/ /\ Free(ClaimKey(b)) /\ marker' = [marker EXCEPT ![ClaimKey(b)] = b]
          /\ SameCard(b) /\ pc = "claim" /\ next \in {"claim", "act", "settle"}
       \/ /\ marker' = marker /\ marker[ClaimKey(b)] = b /\ SameCard(b)
          /\ pc = "claim" /\ next \in {"act", "settle"}
       \/ /\ marker' = marker /\ SameCard(b)
          /\ pc \in {"act", "deliver", "settle"}
          /\ next \in {"deliver", "settle", "ended"}
       \/ /\ marker' = marker /\ SameCard(b) /\ press'[b].outcome = press[b].outcome
          /\ pc \notin {"idle", "ended"} /\ next = "ended"

\* A click that goes on keeps the rest of its record.
LEMMA PressGoesOn ==
    ASSUME NEW b \in Presses, NEW pc \in PressPcs, PressGoes(b, pc),
           press \in [Presses -> PressRecords]
    PROVE  /\ press' \in [Presses -> PressRecords]
           /\ \A c \in Presses \ {b} : press'[c] = press[c]
           /\ press'[b].pc = pc /\ SameCard(b)
           /\ press'[b].outcome = press[b].outcome
<1>1. [press[b] EXCEPT !.pc = pc] \in PressRecords
      BY DEF PressRecords
<1> QED BY <1>1 DEF PressGoes, PressRecords, SameCard

\* So does one that comes to something.
LEMMA PressGoesToAnEnd ==
    ASSUME NEW b \in Presses, NEW outcome \in Outcomes, PressEnds(b, outcome),
           press \in [Presses -> PressRecords]
    PROVE  /\ press' \in [Presses -> PressRecords]
           /\ \A c \in Presses \ {b} : press'[c] = press[c]
           /\ press'[b].pc = "settle" /\ SameCard(b)
<1>1. [press[b] EXCEPT !.pc = "settle", !.outcome = outcome] \in PressRecords
      BY DEF PressRecords, PressPcs
<1> QED BY <1>1 DEF PressEnds, PressRecords, SameCard

\* A click takes a record that was not used.
LEMMA ClickComesTo ==
    ASSUME NEW b \in Presses, NEW d \in Deliveries, NEW u \in Members,
           NEW approve \in BOOLEAN, Click(b, d, u, approve), TurnShape
    PROVE  PressEffect(b)
<1> DEFINE first == [NoPress EXCEPT !.pc = "toggle", !.card = d, !.who = u,
                                    !.approve = approve]
<1>1. first \in PressRecords /\ first.pc = "toggle" /\ first.outcome = "none"
      BY WriterAssumption DEF NoPress, PressRecords, PressPcs, Outcomes
<1>2. press' = [press EXCEPT ![b] = first] /\ press[b].pc = "idle"
      BY DEF Click, PressAt
<1>3. /\ said' = said /\ carries' = carries /\ delivery' = delivery
      /\ excused' = excused /\ admins' = admins /\ marker' = marker
      BY DEF Click, Reads, PressKept, Inputs, Counters
<1>4. /\ press' \in [Presses -> PressRecords] /\ press'[b] = first
      /\ \A c \in Presses \ {b} : press'[c] = press[c]
  <2> HIDE DEF first
  <2> QED BY <1>1, <1>2 DEF TurnShape
<1>5. press'[b].pc = "toggle" /\ press'[b].outcome = "none"
      BY <1>1, <1>4
<1> QED BY <1>2, <1>3, <1>4, <1>5 DEF PressEffect

\* Every other move of a click comes to one of these.
LEMMA PressComesTo ==
    ASSUME NEW b \in Presses, PressMove(b), TurnShape
    PROVE  PressEffect(b)
<1>0. press \in [Presses -> PressRecords]
      BY DEF TurnShape
<1>1. CASE RecheckToggle(b)
  <2>1. /\ said' = said /\ carries' = carries /\ delivery' = delivery
        /\ excused' = excused /\ admins' = admins /\ marker' = marker
        BY <1>1 DEF RecheckToggle, Reads, PressKept, Inputs, Counters
  <2>2. press[b].pc = "toggle" /\ (PressGoes(b, "load") \/ PressGoes(b, "ended"))
        BY <1>1 DEF RecheckToggle, PressAt
  <2> QED BY <1>0, <2>1, <2>2, PressGoesOn DEF PressEffect, PressPcs
<1>2. CASE LoadProposal(b)
  <2>1. /\ said' = said /\ carries' = carries /\ delivery' = delivery
        /\ excused' = excused /\ admins' = admins /\ marker' = marker
        BY <1>2 DEF LoadProposal, Reads, PressKept, Inputs, Counters
  <2>2. press[b].pc = "load" /\ (PressGoes(b, "gate") \/ PressGoes(b, "ended"))
        BY <1>2 DEF LoadProposal, PressAt
  <2> QED BY <1>0, <2>1, <2>2, PressGoesOn DEF PressEffect, PressPcs
<1>3. CASE PassGates(b)
  <2>1. /\ said' = said /\ carries' = carries /\ delivery' = delivery
        /\ excused' = excused /\ admins' = admins /\ marker' = marker
        BY <1>3 DEF PassGates, Reads, PressKept, Inputs, Counters
  <2>2. /\ press[b].pc = "gate"
        /\ (PressGoes(b, "claim") /\ Entitled(b)) \/ PressGoes(b, "ended")
        BY <1>3 DEF PassGates, PressAt
  <2> QED BY <1>0, <2>1, <2>2, PressGoesOn DEF PressEffect, PressPcs
<1>4. CASE Claim(b)
  <2>1. /\ said' = said /\ carries' = carries /\ delivery' = delivery
        /\ excused' = excused /\ admins' = admins
        BY <1>4 DEF Claim, PressKept, Inputs, Counters
  <2>2. press[b].pc = "claim"
        BY <1>4 DEF Claim, PressAt
  <2>3. Act(b) => PressGoes(b, "act") \/ PressEnds(b, "canceled")
        BY DEF Act
  <2>4. CASE Free(ClaimKey(b))
    <3>1. marker' = [marker EXCEPT ![ClaimKey(b)] = b] /\ Act(b)
          BY <1>4, <2>4 DEF Claim, Put, Wins
    <3> QED BY <1>0, <2>1, <2>2, <2>3, <2>4, <3>1, PressGoesOn, PressGoesToAnEnd
            DEF PressEffect, PressPcs, Outcomes
  <2>5. CASE ~Free(ClaimKey(b)) /\ marker[ClaimKey(b)] = b
    <3>1. marker' = marker /\ Act(b)
          BY <1>4, <2>5 DEF Claim, Put, Wins
    <3> QED BY <1>0, <2>1, <2>2, <2>3, <2>5, <3>1, PressGoesOn, PressGoesToAnEnd
            DEF PressEffect, PressPcs, Outcomes
  <2>6. CASE ~Free(ClaimKey(b)) /\ marker[ClaimKey(b)] # b
    <3>1. marker' = marker /\ PressGoes(b, "ended")
          BY <1>4, <2>6 DEF Claim, Put, Wins
    <3> QED BY <1>0, <2>1, <2>2, <3>1, PressGoesOn DEF PressEffect, PressPcs
  <2> QED BY <2>4, <2>5, <2>6
<1>5. CASE Execute(b)
  <2>1. /\ said' = said /\ carries' = carries /\ delivery' = delivery
        /\ excused' = excused /\ admins' = admins /\ marker' = marker
        BY <1>5 DEF Execute, Reads, PressKept, Inputs, Counters
  <2>2. /\ press[b].pc = "act"
        /\ \/ PressGoes(b, "deliver") \/ PressEnds(b, "opened")
           \/ PressEnds(b, "executed")
        BY <1>5 DEF Execute, PressAt
  <2> QED BY <1>0, <2>1, <2>2, PressGoesOn, PressGoesToAnEnd DEF PressEffect,
             PressPcs, Outcomes
<1>6. CASE Deliver(b)
  <2>1. /\ said' = said /\ carries' = carries /\ delivery' = delivery
        /\ excused' = excused /\ admins' = admins /\ marker' = marker
        BY <1>6 DEF Deliver, Reads, PressKept, Inputs, Counters
  <2>2. press[b].pc = "deliver" /\ PressEnds(b, "executed")
        BY <1>6 DEF Deliver, PressAt
  <2> QED BY <1>0, <2>1, <2>2, PressGoesToAnEnd DEF PressEffect, PressPcs,
             Outcomes
<1>7. CASE CardSettles(b)
  <2>1. /\ said' = said /\ carries' = carries /\ delivery' = delivery
        /\ excused' = excused /\ admins' = admins /\ marker' = marker
        BY <1>7 DEF CardSettles, PressKept, Inputs, Counters
  <2>2. press[b].pc = "settle" /\ PressGoes(b, "ended")
        BY <1>7 DEF CardSettles, PressAt
  <2> QED BY <1>0, <2>1, <2>2, PressGoesOn DEF PressEffect, PressPcs
<1>8. CASE ClaimReplyLost(b)
  <2>1. /\ said' = said /\ carries' = carries /\ delivery' = delivery
        /\ excused' = excused /\ admins' = admins
        BY <1>8 DEF ClaimReplyLost, PressKept, Inputs, Counters
  <2>2. /\ press[b].pc = "claim" /\ Free(ClaimKey(b)) /\ press' = press
        /\ marker' = [marker EXCEPT ![ClaimKey(b)] = b]
        BY <1>8 DEF ClaimReplyLost, PressAt, Put
  <2> QED BY <1>0, <2>1, <2>2 DEF PressEffect, SameCard
<1>9. CASE ActFails(b)
  <2>1. /\ said' = said /\ carries' = carries /\ delivery' = delivery
        /\ excused' = excused /\ admins' = admins /\ marker' = marker
        BY <1>9 DEF ActFails, Reads, PressKept, Inputs, Counters
  <2>2. press[b].pc \in {"act", "deliver"} /\ PressEnds(b, "failed")
        BY <1>9 DEF ActFails, PressAt
  <2> QED BY <1>0, <2>1, <2>2, PressGoesToAnEnd DEF PressEffect, PressPcs,
             Outcomes
<1>10. CASE PressFails(b)
  <2>1. /\ said' = said /\ carries' = carries /\ delivery' = delivery
        /\ excused' = excused /\ admins' = admins /\ marker' = marker
        BY <1>10 DEF PressFails, Reads, PressKept, Inputs, Counters
  <2>2. press[b].pc \notin {"idle", "ended"} /\ PressGoes(b, "ended")
        BY <1>10 DEF PressFails, PressAt
  <2> QED BY <1>0, <2>1, <2>2, PressGoesOn DEF PressEffect, PressPcs
<1> QED BY <1>1, <1>2, <1>3, <1>4, <1>5, <1>6, <1>7, <1>8, <1>9, <1>10
        DEF PressMove, PressStep, PressFault

\* A move of a click keeps the invariant.
LEMMA PressInvKept ==
    ASSUME NEW b \in Presses, PressEffect(b), TurnInv
    PROVE  TurnInv'
<1>1. TurnShape /\ Marked /\ ClaimsEntitled /\ ActsClaimed
      BY DEF TurnInv
<1>2. /\ said' = said /\ carries' = carries /\ delivery' = delivery
      /\ excused' = excused /\ admins' = admins
      /\ press' \in [Presses -> PressRecords]
      /\ \A c \in Presses \ {b} : press'[c] = press[c]
      BY DEF PressEffect
<1>3. /\ ClaimKey(b) = <<"claim", press[b].card>> /\ press[b].card \in Deliveries
      /\ ClaimKey(b) \in MarkerKeys
      BY <1>1, KeysApart DEF ClaimKey, TurnShape, PressRecords
<1>4. /\ marker' \in [MarkerKeys -> Markers]
      /\ marker' = marker \/ (/\ Free(ClaimKey(b)) /\ press[b].pc = "claim"
                              /\ marker' = [marker EXCEPT ![ClaimKey(b)] = b])
      BY <1>1 DEF PressEffect, TurnShape, Markers
<1>5. EventKept
  <2>1. \A m \in Messages : <<"event", m>> \in MarkerKeys /\ <<"event", m>> # ClaimKey(b)
        BY <1>3, KeysApart
  <2> QED BY <1>1, <1>4, <2>1 DEF EventKept, TurnShape
<1>6. /\ \A d \in Deliveries : d # press[b].card =>
             marker'[<<"claim", d>>] = marker[<<"claim", d>>]
      /\ marker'[ClaimKey(b)] = marker[ClaimKey(b)]
             \/ (/\ marker[ClaimKey(b)] = "none" /\ press[b].pc = "claim"
                 /\ marker'[ClaimKey(b)] = b)
      BY <1>1, <1>3, <1>4, KeysApart DEF TurnShape, Free
<1>7. TurnShape'
      BY <1>1, <1>2, <1>4 DEF TurnShape
<1>8. Marked'
  <2>1. \A d \in Deliveries :
            delivery[d] # "idle" => marker'[Event(d)] = marker[Event(d)]
        BY <1>1, <1>5 DEF EventKept, Event, TurnShape
  <2> QED BY <1>1, <1>2, <1>5, <2>1 DEF Marked, EventKept, Spoke, Event
<1>9. /\ \A c \in Presses \ {b} : Entitled(c)' = Entitled(c)
      /\ SameCard(b) => Entitled(b)' = Entitled(b)
      BY <1>2 DEF Entitled, Proposed, From, Saying, SameCard
<1>10. ClaimsEntitled'
  <2>1. ASSUME NEW c \in Presses, press'[c].pc = "claim"
        PROVE  Entitled(c)'
    <3>1. CASE c = b
          BY <1>1, <1>9, <2>1, <3>1 DEF PressEffect, ClaimsEntitled, PressAt
    <3>2. CASE c # b
          BY <1>1, <1>2, <1>9, <2>1, <3>2 DEF ClaimsEntitled, PressAt
    <3> QED BY <3>1, <3>2
  <2>2. ASSUME NEW c \in Presses, NEW d \in Deliveries, marker'[<<"claim", d>>] = c
        PROVE  press'[c].card = d /\ press'[c].pc \in Past /\ Entitled(c)'
    <3>1. CASE marker[<<"claim", d>>] = c
      <4>1. press[c].card = d /\ press[c].pc \in Past /\ Entitled(c)
            BY <1>1, <3>1 DEF ClaimsEntitled
      <4>2. CASE c = b
            BY <1>9, <4>1, <4>2 DEF PressEffect, Past, SameCard
      <4>3. CASE c # b
            BY <1>2, <1>9, <4>1, <4>3
      <4> QED BY <4>2, <4>3
    <3>2. CASE marker[<<"claim", d>>] # c
      <4>1. d = press[b].card /\ c = b /\ press[b].pc = "claim"
            BY <1>3, <1>6, <2>2, <3>2
      <4>2. Entitled(b)
            BY <1>1, <4>1 DEF ClaimsEntitled, PressAt
      <4>3. SameCard(b) /\ press'[b].pc \in Past
            BY <4>1 DEF PressEffect, Past
      <4> QED BY <1>9, <4>1, <4>2, <4>3 DEF SameCard
    <3> QED BY <3>1, <3>2
  <2> QED BY <2>1, <2>2 DEF ClaimsEntitled, PressAt
<1>11. ActsClaimed'
  <2> SUFFICES ASSUME "purge" \notin excused', NEW c \in Presses,
                      press'[c].pc \in {"act", "deliver", "settle"}
                          \/ press'[c].outcome # "none"
               PROVE  marker'[<<"claim", press'[c].card>>] = c
      BY DEF ActsClaimed, ClaimKey
  <2>1. \A k \in Presses :
            press[k].pc \in {"act", "deliver", "settle"} \/ press[k].outcome # "none"
            => marker[<<"claim", press[k].card>>] = k
        BY <1>1, <1>2 DEF ActsClaimed, ClaimKey
  <2>2. CASE c = b
        BY <1>3, <1>4, <1>6, <2>1, <2>2 DEF PressEffect, SameCard, Free,
           TurnShape
  <2>3. CASE c # b
    <3>1. marker[<<"claim", press[c].card>>] = c /\ press'[c].card = press[c].card
          BY <1>2, <2>1, <2>3
    <3>2. press[c].card \in Deliveries /\ c # "none"
          BY <1>1, WriterAssumption DEF TurnShape, PressRecords
    <3> QED BY <1>3, <1>6, <3>1, <3>2
  <2> QED BY <2>2, <2>3
<1> QED BY <1>7, <1>8, <1>10, <1>11 DEF TurnInv

-----------------------------------------------------------------------------
(* The invariant and its consequences.                                     *)

\* Nothing said and nothing clicked.
LEMMA TurnInvBegins ==
    ASSUME NEW messages, NEW deliveries \in [Deliveries -> Messages \cup {"none"}],
           NEW who, TurnsInit(messages, deliveries), ConfirmInit(who)
    PROVE  TurnInv
<1>1. NoPress \in PressRecords /\ NoPress.pc = "idle" /\ NoPress.outcome = "none"
      BY WriterAssumption DEF NoPress, PressRecords, PressPcs, Outcomes
<1>2. /\ \A d \in Deliveries : delivery[d] = "idle"
      /\ \A b \in Presses : press[b] = NoPress
      /\ \A k \in MarkerKeys : marker[k] = "none"
      BY DEF TurnsInit, ConfirmInit
<1>3. TurnShape
      BY <1>1 DEF TurnsInit, ConfirmInit, TurnShape, Markers, DeliveryPcs
<1>4. Marked
      BY <1>2, KeysApart DEF Marked, Spoke
<1>5. ClaimsEntitled /\ ActsClaimed
      BY <1>1, <1>2, KeysApart, WriterAssumption DEF ClaimsEntitled,
         ActsClaimed, PressAt
<1> QED BY <1>3, <1>4, <1>5 DEF TurnInv

\* A purge erases the markers, and says so.
LEMMA ErasureKeeps ==
    ASSUME TurnInv, EraseAgentState, press' = press, admins' = admins
    PROVE  TurnInv'
<1>1. /\ said' = said /\ carries' = carries /\ delivery' = delivery
      /\ "purge" \in excused' /\ marker' = [k \in MarkerKeys |-> "none"]
      BY DEF EraseAgentState, Inputs
<1>2. TurnShape'
      BY <1>1 DEF TurnInv, TurnShape, Markers
<1>3. Marked' /\ ActsClaimed'
      BY <1>1 DEF Marked, ActsClaimed
<1>4. ClaimsEntitled'
  <2>1. \A b \in Presses : Entitled(b)' = Entitled(b)
        BY <1>1 DEF Entitled, Proposed, From, Saying
  <2>2. \A b \in Presses, d \in Deliveries : marker'[<<"claim", d>>] # b
        BY <1>1, KeysApart, WriterAssumption
  <2> QED BY <2>1, <2>2 DEF TurnInv, ClaimsEntitled, PressAt
<1> QED BY <1>2, <1>3, <1>4 DEF TurnInv

\* A notice that lapses is no event and no claim.
LEMMA LapseKeeps ==
    ASSUME NEW u \in Members, TurnInv, NoticeLapses(u), press' = press,
           admins' = admins
    PROVE  TurnInv'
<1>1. /\ said' = said /\ carries' = carries /\ delivery' = delivery
      /\ excused' = excused
      /\ marker' = [marker EXCEPT ![<<"notice", u>>] = "lapsed"]
      BY DEF NoticeLapses, Inputs, Counters
<1>2. marker' \in [MarkerKeys -> Markers] /\ EventKept /\ ClaimKept
      BY <1>1, KeysApart DEF TurnInv, TurnShape, Markers, EventKept, ClaimKept
<1> QED BY <1>1, <1>2, SteadyKeeps

\* The four properties.
THEOREM MarkersSuffice ==
    ASSUME TurnInv
    PROVE  OneTurnPerMessage /\ DuplicateOfAnother /\ DecidedOnce /\ EntitledDecides
<1>1. OneTurnPerMessage
      BY DEF TurnInv, Marked, OneTurnPerMessage, Event
<1>2. DuplicateOfAnother
  <2> SUFFICES ASSUME "purge" \notin excused, NEW d \in Deliveries,
                      delivery[d] = "duplicate"
               PROVE  \E e \in Deliveries \ {d} :
                          /\ marker[Event(d)] = e /\ carries[e] = carries[d]
                          /\ delivery[e] # "duplicate"
      BY DEF DuplicateOfAnother
  <2>1. carries[d] \in Messages /\ marker[Event(d)] # "none"
        BY DEF TurnInv, TurnShape, Marked
  <2>2. PICK e \in Deliveries : /\ marker[Event(d)] = e /\ carries[e] = carries[d]
                                /\ delivery[e] \notin {"idle", "duplicate"}
        BY <2>1 DEF TurnInv, Marked, Event
  <2> QED BY <2>2
<1>3. DecidedOnce
      BY DEF TurnInv, ActsClaimed, DecidedOnce, ClaimKey
<1>4. EntitledDecides
      BY DEF TurnInv, TurnShape, PressRecords, ClaimsEntitled, EntitledDecides,
         ClaimKey
<1> QED BY <1>1, <1>2, <1>3, <1>4

-----------------------------------------------------------------------------
(* The caps.                                                               *)

\* What a delivery comes to whose turn has run.
AfterTurn == {"snapshot", "card", "replied", "dropped"}
Behind == \A d \in ran : delivery[d] \in AfterTurn

\* A counter counts whoever has got past it, until it is at its cap.
Upto(n, cap) == IF n <= cap THEN n ELSE cap
PastMember(u) == {d \in Deliveries :
                      /\ From(d) = u
                      /\ delivery[d] \in {"team", "turn", "overTeam"} \/ d \in ran}
CountsTell ==
    excused = {} =>
        /\ Behind
        /\ Cardinality(Turns) = Upto(count["team"], TeamCap)
        /\ \A d \in Deliveries : delivery[d] = "overTeam" => TeamCap < count["team"]
        /\ \A u \in Members : Cardinality(PastMember(u)) = Upto(count[u], UserCap)

CountInv == TurnsOK /\ CountsTell

\* What a move of delivery d comes to for the counters, while they work.
Counting(d, s, past, refused, cap) ==
    /\ count' = [count EXCEPT ![s] = @ + 1]
    /\ delivery' = [delivery EXCEPT ![d] = IF count[s] + 1 > cap THEN refused ELSE past]
    /\ ran' = ran

Uncounted(d) ==
    /\ count' = count /\ ran' = ran
    /\ \/ delivery' = delivery
       \/ /\ delivery[d] \notin {"team", "turn", "overTeam"}
          /\ \E pc \in DeliveryPcs \ {"team", "turn", "overTeam"} :
                 /\ delivery' = [delivery EXCEPT ![d] = pc]
                 /\ delivery[d] \in AfterTurn => pc \in AfterTurn

CountEffect(d) ==
    \/ delivery[d] = "member" /\ Counting(d, From(d), "team", "overUser", UserCap)
    \/ delivery[d] = "team" /\ Counting(d, "team", "turn", "overTeam", TeamCap)
    \/ /\ delivery[d] = "turn" /\ ran' = ran \cup {d} /\ count' = count
       /\ \E pc \in AfterTurn : delivery' = [delivery EXCEPT ![d] = pc]
    \/ Uncounted(d)

LEMMA CountsComeTo ==
    ASSUME NEW d \in Deliveries, TurnMove(d), TurnShape, TurnsOK, excused' = {}
    PROVE  /\ CountEffect(d) /\ excused = {}
           /\ UNCHANGED Inputs
<1>0. /\ delivery \in [Deliveries -> DeliveryPcs]
      /\ count \in [Scopes -> Nat]
      /\ delivery[d] # "idle" => From(d) \in Members
      BY DEF TurnShape, TurnsOK, From, Saying, Sayings
<1>1. CASE Dispatch(d)
      BY <1>0, <1>1 DEF Dispatch, DeliveryAt, DeliveryGoes, TurnKept, Counters,
         CountEffect, Uncounted, AfterTurn, DeliveryPcs
<1>2. CASE ReadToggle(d)
  <2>1. /\ delivery[d] = "toggle" /\ TurnKept
        /\ \E pc \in {"dropped", "thread", "mark"} : DeliveryGoes(d, pc)
        BY <1>2 DEF ReadToggle, DeliveryAt
  <2> QED BY <1>0, <2>1 DEF DeliveryGoes, TurnKept, Counters, CountEffect, Uncounted,
             AfterTurn, DeliveryPcs
<1>3. CASE ReadThread(d)
  <2>1. /\ delivery[d] = "thread" /\ TurnKept
        /\ \E pc \in {"dropped", "mark"} : DeliveryGoes(d, pc)
        BY <1>3 DEF ReadThread, DeliveryAt
  <2> QED BY <1>0, <2>1 DEF DeliveryGoes, TurnKept, Counters, CountEffect, Uncounted,
             AfterTurn, DeliveryPcs
<1>4. CASE MarkSeen(d)
  <2>1. /\ delivery[d] = "mark" /\ TurnKept
        /\ \E pc \in {"notice", "replied", "member", "duplicate"} : DeliveryGoes(d, pc)
        BY <1>4 DEF MarkSeen, DeliveryAt, AfterMark
  <2> QED BY <1>0, <2>1 DEF DeliveryGoes, TurnKept, Counters, CountEffect, Uncounted,
             AfterTurn, DeliveryPcs
<1>5. CASE ClaimNotice(d) \/ ClaimNoticeFails(d)
  <2>1. /\ delivery[d] = "notice" /\ TurnKept
        /\ \E pc \in {"replied", "silent"} : DeliveryGoes(d, pc)
        BY <1>5 DEF ClaimNotice, ClaimNoticeFails, DeliveryAt
  <2> QED BY <1>0, <2>1 DEF DeliveryGoes, TurnKept, Counters, CountEffect, Uncounted,
             AfterTurn, DeliveryPcs
<1>6. CASE CountMember(d)
      BY <1>0, <1>6 DEF CountMember, Counted, DeliveryAt, DeliveryGoes, CountKept,
         CountEffect, Counting, Scopes
<1>7. CASE CountTeam(d)
      BY <1>0, <1>7 DEF CountTeam, Counted, DeliveryAt, DeliveryGoes, CountKept,
         CountEffect, Counting, Scopes
<1>8. CASE RunTurn(d)
      BY <1>8 DEF RunTurn, DeliveryAt, DeliveryGoes, CountEffect, AfterTurn
<1>9. CASE StoreProposal(d) \/ PostCard(d) \/ ProposalFails(d)
  <2>1. /\ delivery[d] \in {"snapshot", "card"} /\ UNCHANGED <<Inputs, Counters>>
        /\ \E pc \in {"card", "replied"} : DeliveryGoes(d, pc)
        BY <1>9 DEF StoreProposal, PostCard, ProposalFails, DeliveryAt
  <2> QED BY <1>0, <2>1 DEF DeliveryGoes, Counters, CountEffect, Uncounted,
             AfterTurn, DeliveryPcs
<1>10. CASE Drop(d)
      BY <1>0, <1>10 DEF Drop, DeliveryGoes, CountEffect, Uncounted, AfterTurn, Final,
         DeliveryPcs
<1>11. CASE MarkReplyLost(d) \/ ProposalExpires(d)
      BY <1>11 DEF MarkReplyLost, ProposalExpires, TurnKept, Counters, CountEffect,
         Uncounted
<1>12. CASE CountTwice(d) \/ CountFails(d)
      BY <1>12 DEF CountTwice, CountFails
<1>13. UNCHANGED Inputs
      BY DEF TurnMove, TurnStep, TurnFault, Dispatch, ReadToggle, ReadThread, MarkSeen,
         ClaimNotice, ClaimNoticeFails, CountMember, CountTeam, RunTurn, StoreProposal,
         PostCard, ProposalFails, Drop, MarkReplyLost, ProposalExpires, CountTwice,
         CountFails, TurnKept, CountKept
<1>14. excused = {}
      BY DEF TurnMove, TurnStep, TurnFault, Dispatch, ReadToggle, ReadThread, MarkSeen,
         ClaimNotice, ClaimNoticeFails, CountMember, CountTeam, RunTurn, StoreProposal,
         PostCard, ProposalFails, Drop, MarkReplyLost, ProposalExpires, CountTwice,
         CountFails, TurnKept, Counters
<1> QED BY <1>1, <1>2, <1>3, <1>4, <1>5, <1>6, <1>7, <1>8, <1>9, <1>10, <1>11, <1>12,
           <1>13, <1>14 DEF TurnMove, TurnStep, TurnFault

\* One more that was not there.
LEMMA OneMore ==
    ASSUME NEW S, NEW d, IsFiniteSet(S), d \notin S
    PROVE  Cardinality(S \cup {d}) = Cardinality(S) + 1
BY FS_AddElement

LEMMA CountStep ==
    ASSUME NEW S, NEW T, NEW d, NEW n \in Nat, NEW cap \in Nat, IsFiniteSet(S),
           Cardinality(S) = Upto(n, cap), d \notin S,
           T = IF n + 1 > cap THEN S ELSE S \cup {d}
    PROVE  Cardinality(T) = Upto(n + 1, cap)
<1>1. CASE n + 1 > cap
      BY <1>1 DEF Upto
<1>2. CASE ~(n + 1 > cap)
      BY <1>2, OneMore DEF Upto
<1> QED BY <1>1, <1>2

\* Every move of a delivery keeps the counters telling.
LEMMA CountsTellKept ==
    ASSUME NEW d \in Deliveries, TurnMove(d), TurnShape, TurnsOK, CountsTell
    PROVE  CountsTell'
<1> SUFFICES ASSUME excused' = {}
             PROVE  CountsTell'
    BY DEF CountsTell
<1>1. CountEffect(d) /\ excused = {} /\ UNCHANGED Inputs
      BY CountsComeTo
<1>2. /\ delivery \in [Deliveries -> DeliveryPcs]
      /\ count \in [Scopes -> Nat]
      /\ ran \subseteq Deliveries
      /\ delivery[d] # "idle" => From(d) \in Members
      /\ \A e : From(e)' = From(e)
      BY <1>1 DEF TurnShape, TurnsOK, From, Saying, Sayings, Inputs
<1>3. /\ Behind
      /\ Cardinality(Turns) = Upto(count["team"], TeamCap)
      /\ \A e \in Deliveries : delivery[e] = "overTeam" => TeamCap < count["team"]
      /\ \A u \in Members : Cardinality(PastMember(u)) = Upto(count[u], UserCap)
      BY <1>1 DEF CountsTell
<1>4. /\ UserCap \in Nat /\ TeamCap \in Nat /\ "team" \notin Members
      /\ count["team"] \in Nat /\ \A u \in Members : count[u] \in Nat
      BY <1>2, WriterAssumption DEF Scopes
<1>5. IsFiniteSet(Turns) /\ \A u \in Members : IsFiniteSet(PastMember(u))
  <2>1. Turns \subseteq Deliveries /\ \A u \in Members : PastMember(u) \subseteq Deliveries
        BY <1>2 DEF Turns, PastMember
  <2> QED BY <2>1, WriterAssumption, FS_Subset
<1>6. CASE delivery[d] = "member" /\ Counting(d, From(d), "team", "overUser", UserCap)
  <2>1. From(d) \in Members /\ d \notin ran /\ From(d) # "team"
        BY <1>2, <1>3, <1>4, <1>6 DEF Behind, AfterTurn
  <2>2. Behind' /\ Turns' = Turns /\ count'["team"] = count["team"]
        BY <1>2, <1>3, <1>6, <2>1 DEF Counting, Behind, AfterTurn, Turns, Scopes
  <2>3. \A e \in Deliveries : delivery'[e] = "overTeam" => delivery[e] = "overTeam"
        BY <1>2, <1>6 DEF Counting
  <2>4. ASSUME NEW u \in Members
        PROVE  Cardinality(PastMember(u)') = Upto(count'[u], UserCap)
    <3>1. CASE u = From(d)
      <4>1. count'[u] = count[u] + 1 /\ d \notin PastMember(u)
            BY <1>2, <1>6, <2>1, <3>1 DEF Counting, PastMember, Scopes
      <4>2. PastMember(u)' = IF count[u] + 1 > UserCap THEN PastMember(u)
                                                       ELSE PastMember(u) \cup {d}
            BY <1>2, <1>6, <2>1, <3>1 DEF Counting, PastMember
      <4> QED BY <1>3, <1>4, <1>5, <4>1, <4>2, CountStep
    <3>2. CASE u # From(d)
      <4>1. count'[u] = count[u] /\ PastMember(u)' = PastMember(u)
            BY <1>2, <1>6, <2>1, <3>2 DEF Counting, PastMember, Scopes
      <4> QED BY <1>3, <4>1
    <3> QED BY <3>1, <3>2
  <2> QED BY <1>3, <2>2, <2>3, <2>4 DEF CountsTell
<1>7. CASE delivery[d] = "team" /\ Counting(d, "team", "turn", "overTeam", TeamCap)
  <2>1. d \notin ran /\ d \notin Turns
        BY <1>3, <1>7 DEF Behind, AfterTurn, Turns
  <2>2. Behind' /\ count'["team"] = count["team"] + 1
        /\ \A u \in Members : count'[u] = count[u]
        BY <1>2, <1>3, <1>4, <1>7, <2>1 DEF Counting, Behind, AfterTurn, Scopes
  <2>3. Turns' = IF count["team"] + 1 > TeamCap THEN Turns ELSE Turns \cup {d}
        BY <1>2, <1>7 DEF Counting, Turns
  <2>4. Cardinality(Turns') = Upto(count'["team"], TeamCap)
        BY <1>3, <1>4, <1>5, <2>1, <2>2, <2>3, CountStep
  <2>5. \A e \in Deliveries : delivery'[e] = "overTeam" => TeamCap < count'["team"]
        BY <1>2, <1>3, <1>4, <1>7, <2>2 DEF Counting
  <2>6. \A u \in Members : PastMember(u)' = PastMember(u)
        BY <1>2, <1>7 DEF Counting, PastMember
  <2> QED BY <1>3, <2>2, <2>4, <2>5, <2>6 DEF CountsTell
<1>8. CASE /\ delivery[d] = "turn" /\ ran' = ran \cup {d} /\ count' = count
           /\ \E pc \in AfterTurn : delivery' = [delivery EXCEPT ![d] = pc]
  <2>1. Behind' /\ Turns' = Turns
        BY <1>2, <1>3, <1>8 DEF Behind, AfterTurn, Turns
  <2>2. \A e \in Deliveries : delivery'[e] = "overTeam" => delivery[e] = "overTeam"
        BY <1>2, <1>8 DEF AfterTurn
  <2>3. \A u \in Members : PastMember(u)' = PastMember(u)
        BY <1>2, <1>8 DEF PastMember, AfterTurn
  <2> QED BY <1>3, <1>8, <2>1, <2>2, <2>3 DEF CountsTell
<1>9. CASE Uncounted(d)
  <2>1. Behind' /\ Turns' = Turns
        BY <1>2, <1>3, <1>9 DEF Uncounted, Behind, AfterTurn, Turns
  <2>2. \A e \in Deliveries : delivery'[e] = "overTeam" => delivery[e] = "overTeam"
        BY <1>2, <1>9 DEF Uncounted
  <2>3. \A u \in Members : PastMember(u)' = PastMember(u)
        BY <1>2, <1>3, <1>9 DEF PastMember, Uncounted
  <2> QED BY <1>3, <1>9, <2>1, <2>2, <2>3 DEF CountsTell, Uncounted
<1> QED BY <1>1, <1>6, <1>7, <1>8, <1>9 DEF CountEffect

\* Which suffices.
LEMMA CountersSuffice ==
    ASSUME CountInv
    PROVE  TurnsShared
<1> SUFFICES ASSUME excused = {}
             PROVE  /\ \A u \in Members : Cardinality(TurnsOf(u)) <= UserCap
                    /\ Cardinality(Turns) <= TeamCap
                    /\ (\E d \in Deliveries : delivery[d] = "overTeam")
                           => Cardinality(Turns) = TeamCap
    BY DEF TurnsShared
<1>1. /\ Cardinality(Turns) = Upto(count["team"], TeamCap)
      /\ \A e \in Deliveries : delivery[e] = "overTeam" => TeamCap < count["team"]
      /\ \A u \in Members : Cardinality(PastMember(u)) = Upto(count[u], UserCap)
      BY DEF CountInv, CountsTell
<1>2. /\ UserCap \in Nat /\ TeamCap \in Nat
      /\ count["team"] \in Nat /\ \A u \in Members : count[u] \in Nat
      BY WriterAssumption DEF CountInv, TurnsOK, Scopes
<1>3. ASSUME NEW u \in Members
      PROVE  Cardinality(TurnsOf(u)) <= UserCap
  <2>1. PastMember(u) \subseteq Deliveries /\ TurnsOf(u) \subseteq PastMember(u)
        BY DEF CountInv, TurnsOK, TurnsOf, Turns, PastMember
  <2>2. IsFiniteSet(PastMember(u))
        BY <2>1, WriterAssumption, FS_Subset
  <2>3. IsFiniteSet(TurnsOf(u)) /\ Cardinality(TurnsOf(u)) <= Cardinality(PastMember(u))
        BY <2>1, <2>2, FS_Subset
  <2>4. Cardinality(TurnsOf(u)) \in Nat
        BY <2>3, FS_CardinalityType
  <2> QED BY <1>1, <1>2, <2>3, <2>4 DEF Upto
<1> QED BY <1>1, <1>2, <1>3 DEF Upto

\* What leaves messages, deliveries and counters alone, or erases them all.
LEMMA CountsTellStays ==
    ASSUME CountsTell, UNCHANGED <<Inputs, delivery, Counters>> \/ EraseAgentState
    PROVE  CountsTell'
<1>1. CASE EraseAgentState
      BY <1>1 DEF EraseAgentState, CountsTell
<1>2. CASE UNCHANGED <<Inputs, delivery, Counters>>
  <2>1. /\ excused' = excused /\ count' = count /\ ran' = ran /\ delivery' = delivery
        /\ \A e : From(e)' = From(e)
        BY <1>2 DEF Counters, Inputs, From, Saying
  <2>2. Behind' = Behind /\ Turns' = Turns /\ \A u : PastMember(u)' = PastMember(u)
        BY <2>1 DEF Behind, Turns, PastMember
  <2> QED BY <2>1, <2>2 DEF CountsTell
<1> QED BY <1>1, <1>2

\* Every move keeps the types of what turns are made of.
LEMMA TurnsTyped ==
    ASSUME NEW d \in Deliveries, TurnMove(d), TurnShape, TurnShape', TurnsOK
    PROVE  TurnsOK'
<1>1. /\ said' = said /\ toggle' = toggle
      BY DEF TurnMove, TurnStep, TurnFault, Dispatch, ReadToggle, ReadThread, MarkSeen,
         ClaimNotice, ClaimNoticeFails, CountMember, CountTeam, RunTurn, StoreProposal,
         PostCard, ProposalFails, Drop, MarkReplyLost, ProposalExpires, CountTwice,
         CountFails, TurnKept, CountKept, Inputs
<1>2. pending' \in [Deliveries -> {"none", "stored", "expired"}]
      BY DEF TurnsOK, TurnMove, TurnStep, TurnFault, Dispatch, ReadToggle, ReadThread,
         MarkSeen, ClaimNotice, ClaimNoticeFails, CountMember, CountTeam, RunTurn,
         StoreProposal, PostCard, ProposalFails, Drop, MarkReplyLost, ProposalExpires,
         CountTwice, CountFails, TurnKept, CountKept, Proposals
<1>3. card' \in [Deliveries -> {"none", "shown", "final"}]
      BY DEF TurnsOK, TurnMove, TurnStep, TurnFault, Dispatch, ReadToggle, ReadThread,
         MarkSeen, ClaimNotice, ClaimNoticeFails, CountMember, CountTeam, RunTurn,
         StoreProposal, PostCard, ProposalFails, Drop, MarkReplyLost, ProposalExpires,
         CountTwice, CountFails, TurnKept, CountKept, Proposals
<1>4. ran' \subseteq Deliveries
      BY DEF TurnsOK, TurnMove, TurnStep, TurnFault, Dispatch, ReadToggle, ReadThread,
         MarkSeen, ClaimNotice, ClaimNoticeFails, CountMember, CountTeam, RunTurn,
         StoreProposal, PostCard, ProposalFails, Drop, MarkReplyLost, ProposalExpires,
         CountTwice, CountFails, TurnKept, CountKept, Counters
<1>5. excused' \subseteq {"count", "purge"}
      BY DEF TurnsOK, TurnMove, TurnStep, TurnFault, Dispatch, ReadToggle, ReadThread,
         MarkSeen, ClaimNotice, ClaimNoticeFails, CountMember, CountTeam, RunTurn,
         StoreProposal, PostCard, ProposalFails, Drop, MarkReplyLost, ProposalExpires,
         CountTwice, CountFails, TurnKept, CountKept, Counters
<1>6. count' \in [Scopes -> Nat]
  <2>1. count' = count \/ \E s : Counted(s)
        BY DEF TurnMove, TurnStep, TurnFault, Dispatch, ReadToggle, ReadThread,
           MarkSeen, ClaimNotice, ClaimNoticeFails, CountMember, CountTeam, RunTurn,
           StoreProposal, PostCard, ProposalFails, Drop, MarkReplyLost, ProposalExpires,
           CountTwice, CountFails, TurnKept, CountKept, Counters
  <2> QED BY <2>1 DEF Counted, TurnsOK
<1> QED BY <1>1, <1>2, <1>3, <1>4, <1>5, <1>6 DEF TurnsOK, TurnShape, Markers

\* So do the rest.
LEMMA TurnsTypedStay ==
    ASSUME TurnShape', TurnsOK,
           \/ UNCHANGED <<Inputs, delivery, Proposals, Counters>>
                  /\ toggle' \in [now : BOOLEAN, stale : BOOLEAN]
           \/ EraseAgentState /\ toggle' \in [now : BOOLEAN, stale : BOOLEAN]
           \/ \E b \in Presses : PressMove(b)
           \/ \E b \in Presses, d \in Deliveries, u \in Members, approve \in BOOLEAN :
                  Click(b, d, u, approve)
    PROVE  TurnsOK'
<1>1. CASE UNCHANGED <<Inputs, delivery, Proposals, Counters>>
               /\ toggle' \in [now : BOOLEAN, stale : BOOLEAN]
      BY <1>1 DEF TurnsOK, TurnShape, Inputs, Proposals, Counters, Markers
<1>2. CASE EraseAgentState /\ toggle' \in [now : BOOLEAN, stale : BOOLEAN]
      BY <1>2 DEF EraseAgentState, TurnsOK, TurnShape, Inputs, Markers
<1>3. CASE \E b \in Presses : PressMove(b)
  <2>1. PICK b \in Presses : PressMove(b)
        BY <1>3
  <2>2. PressKept /\ pending' = pending
        BY <2>1 DEF PressMove, PressStep, PressFault, RecheckToggle, LoadProposal,
           PassGates, Claim, Execute, Deliver, CardSettles, ClaimReplyLost, ActFails,
           PressFails, Reads, Proposals
  <2>3. card' = card \/ CardSettles(b)
        BY <2>1 DEF PressMove, PressStep, PressFault, RecheckToggle, LoadProposal,
           PassGates, Claim, Execute, Deliver, ClaimReplyLost, ActFails, PressFails,
           Reads, Proposals
  <2>4. card' \in [Deliveries -> {"none", "shown", "final"}]
        BY <2>3 DEF CardSettles, TurnsOK
  <2> QED BY <2>2, <2>4 DEF PressKept, Inputs, Counters, TurnsOK, TurnShape, Markers
<1>4. CASE \E b \in Presses, d \in Deliveries, u \in Members, approve \in BOOLEAN :
               Click(b, d, u, approve)
  <2>1. PressKept /\ UNCHANGED Proposals
        BY <1>4 DEF Click, Reads
  <2> QED BY <2>1 DEF PressKept, Inputs, Proposals, Counters, TurnsOK, TurnShape, Markers
<1> QED BY <1>1, <1>2, <1>3, <1>4

\* Clicks count nothing.
LEMMA ClicksCountNothing ==
    ASSUME \/ \E b \in Presses : PressMove(b)
           \/ \E b, d, u, approve : Click(b, d, u, approve)
    PROVE  UNCHANGED <<Inputs, delivery, Counters>> /\ admins' = admins
<1>1. PressKept
      BY DEF PressMove, PressStep, PressFault, RecheckToggle, LoadProposal, PassGates,
         Claim, Execute, Deliver, CardSettles, ClaimReplyLost, ActFails, PressFails,
         Reads, Click
<1> QED BY <1>1 DEF PressKept

\* Nothing counted yet.
LEMMA CountInvBegins ==
    ASSUME NEW messages \in [Messages -> Sayings],
           NEW deliveries \in [Deliveries -> Messages \cup {"none"}],
           TurnsInit(messages, deliveries)
    PROVE  CountInv
<1>1. TurnsOK
      BY DEF TurnsInit, TurnsOK, DeliveryPcs
<1>2. /\ Turns = {} /\ \A u : PastMember(u) = {} /\ Behind
      /\ \A d \in Deliveries : delivery[d] = "idle"
      /\ \A s \in Scopes : count[s] = 0
      BY DEF TurnsInit, Turns, PastMember, Behind
<1>3. Cardinality({}) = 0 /\ UserCap \in Nat /\ TeamCap \in Nat
      BY FS_EmptySet, WriterAssumption
<1> QED BY <1>1, <1>2, <1>3 DEF CountInv, CountsTell, Upto, Scopes
=============================================================================
