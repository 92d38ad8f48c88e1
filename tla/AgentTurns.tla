------------------------------ MODULE AgentTurns ------------------------------
(***************************************************************************)
(* Conversation mode, from a message to a reply or a proposal.  Slack may  *)
(* deliver a message more than once, to any process and at once; a marker  *)
(* in the agent table, written on the condition that there is none, makes  *)
(* one turn of it.  The marker carries its writer's token, so that a write *)
(* whose reply was lost and which the SDK repeats finds its own.           *)
(***************************************************************************)
EXTENDS Naturals, FiniteSets

CONSTANTS
    Messages,
    Deliveries,
    Members,
    Presses,    \* clicks on a card
    UserCap,    \* AgentMaxTurnsPerUserPerHour
    TeamCap     \* AgentMaxTurnsPerTeamPerHour

\* A token is no other's, and tells itself from no token; the team is no member.
ASSUME WriterAssumption ==
    /\ Deliveries # {} /\ Members # {} /\ "team" \notin Members
    /\ IsFiniteSet(Deliveries) /\ UserCap \in Nat /\ TeamCap \in Nat
    /\ "none" \notin Messages \cup Deliveries \cup Presses
    /\ "lapsed" \notin Deliveries \cup Presses

VARIABLES
    said,       \* the messages; fixed
    carries,    \* the message of each delivery; fixed
    toggle,     \* the workspace's toggle, and as a stale read returns it
    marker,     \* per event, notice and claim: the token of its writer
    count,      \* turns counted, all within one hour
    delivery,
    pending,    \* proposals stored, by the delivery that made them
    card,       \* and what the channel shows of them
    ran,        \* the deliveries whose turn has run
    excused     \* "count": a turn was counted twice, not at all or in vain;
                \* "purge": agent state was erased

turnVars == <<said, carries, toggle, marker, count, delivery, pending, card,
              ran, excused>>

MarkerKeys == ({"event"} \X Messages) \cup ({"notice"} \X Members)
              \cup ({"claim"} \X Deliveries)
Scopes == Members \cup {"team"}
Sayings == [from : Members, kind : {"text", "fixed", "upload"},
            followup : BOOLEAN,
            proposes : {"nothing", "get", "inspect", "change", "connector"}]
DeliveryPcs == {"idle", "toggle", "thread", "mark", "notice", "member", "team",
                "turn", "snapshot", "card", "duplicate", "dropped", "silent",
                "overUser", "overTeam", "replied"}

Final == {"duplicate", "dropped", "silent", "overUser", "overTeam", "replied"}

TurnsOK ==
    /\ carries \in [Deliveries -> Messages \cup {"none"}]
    /\ said \in [Messages -> Sayings]
    /\ toggle \in [now : BOOLEAN, stale : BOOLEAN]
    /\ marker \in [MarkerKeys -> Deliveries \cup Presses \cup {"none", "lapsed"}]
    /\ count \in [Scopes -> Nat]
    /\ delivery \in [Deliveries -> DeliveryPcs]
    /\ pending \in [Deliveries -> {"none", "stored", "expired"}]
    /\ card \in [Deliveries -> {"none", "shown", "final"}]
    /\ ran \subseteq Deliveries
    /\ excused \subseteq {"count", "purge"}

TurnsInit(messages, deliveries) ==
    /\ said = messages
    /\ carries = deliveries
    /\ toggle = [now |-> TRUE, stale |-> TRUE]
    /\ marker = [k \in MarkerKeys |-> "none"]
    /\ count = [s \in Scopes |-> 0]
    /\ delivery = [d \in Deliveries |-> "idle"]
    /\ pending = [d \in Deliveries |-> "none"]
    /\ card = [d \in Deliveries |-> "none"]
    /\ ran = {}
    /\ excused = {}

Saying(d) == said[carries[d]]
From(d) == Saying(d).from

DeliveryAt(d, pc) == delivery[d] = pc
DeliveryGoes(d, pc) == delivery' = [delivery EXCEPT ![d] = pc]

Inputs == <<said, carries>>
Proposals == <<pending, card>>
Counters == <<count, ran, excused>>

ToggleCatchesUp ==
    /\ toggle' = [toggle EXCEPT !.stale = toggle.now]
    /\ toggle' # toggle
    /\ UNCHANGED <<Inputs, marker, delivery, Proposals, Counters>>

-----------------------------------------------------------------------------
(* Markers: putMarker.                                                     *)

Free(key) == marker[key] = "none"
FreeOrLapsed(key) == marker[key] \in {"none", "lapsed"}

\* The condition holds, or the marker that failed it is one's own.
Wins(free, key, writer) == free \/ marker[key] = writer

Put(free, key, writer) ==
    marker' = IF free THEN [marker EXCEPT ![key] = writer] ELSE marker

NoticeLapses(u) ==
    /\ marker[<<"notice", u>>] \notin {"none", "lapsed"}
    /\ marker' = [marker EXCEPT ![<<"notice", u>>] = "lapsed"]
    /\ UNCHANGED <<Inputs, toggle, delivery, Proposals, Counters>>

-----------------------------------------------------------------------------
(* Admission.                                                              *)

TurnKept == UNCHANGED <<Inputs, toggle, Proposals, Counters>>

\* handleAgentEvent takes a slot of the pool.
Dispatch(d) ==
    /\ DeliveryAt(d, "idle") /\ carries[d] # "none"
    /\ DeliveryGoes(d, "toggle")
    /\ TurnKept /\ UNCHANGED marker

\* workspaceAgentEnabled: an eventually consistent read.
ReadToggle(d) ==
    /\ DeliveryAt(d, "toggle")
    /\ \E on \in {toggle.now, toggle.stale} :
           DeliveryGoes(d, CASE ~on                   -> "dropped"
                             [] on /\ Saying(d).followup -> "thread"
                             [] OTHER                 -> "mark")
    /\ TurnKept /\ UNCHANGED marker

\* A reply in a thread is taken when the agent has spoken there.
ReadThread(d) ==
    /\ DeliveryAt(d, "thread")
    /\ \E joined \in BOOLEAN : DeliveryGoes(d, IF joined THEN "mark" ELSE "dropped")
    /\ TurnKept /\ UNCHANGED marker

\* The pool is full, a read or the marker fails (which fails closed), or the
\* process ends.
Drop(d) ==
    /\ delivery[d] \notin Final \cup {"idle"}
    /\ DeliveryGoes(d, "dropped")
    /\ excused' = IF delivery[d] \in {"member", "team", "turn"}
                      THEN excused \cup {"count"} ELSE excused
    /\ UNCHANGED <<Inputs, toggle, marker, Proposals, count, ran>>

-----------------------------------------------------------------------------
(* The turn.                                                               *)

Event(d) == <<"event", carries[d]>>
Notice(d) == <<"notice", From(d)>>

AfterMark(d) == CASE Saying(d).kind = "upload" -> "notice"
                  [] Saying(d).kind = "fixed"  -> "replied"
                  [] OTHER                     -> "member"

\* Mutant: whoever finds the marker lost the race for it.
MarkSeenByAnyone(d) ==
    /\ DeliveryAt(d, "mark")
    /\ Put(Free(Event(d)), Event(d), d)
    /\ DeliveryGoes(d, IF Free(Event(d)) THEN AfterMark(d) ELSE "duplicate")
    /\ TurnKept

\* Mutant: the marker is written after a look at it.
MarkSeenAlways(d) ==
    /\ DeliveryAt(d, "mark")
    /\ Put(TRUE, Event(d), d)
    /\ DeliveryGoes(d, AfterMark(d))
    /\ TurnKept

\* MarkEventSeen.
MarkSeen(d) ==
    /\ DeliveryAt(d, "mark")
    /\ Put(Free(Event(d)), Event(d), d)
    /\ DeliveryGoes(d, IF Wins(Free(Event(d)), Event(d), d) THEN AfterMark(d)
                                                           ELSE "duplicate")
    /\ TurnKept

\* The reply is lost; the SDK repeats the write, or gives up (Drop).
MarkReplyLost(d) ==
    /\ DeliveryAt(d, "mark") /\ Free(Event(d))
    /\ Put(TRUE, Event(d), d)
    /\ TurnKept /\ UNCHANGED delivery

\* claimMediaNotice: one notice until it lapses.
ClaimNotice(d) ==
    /\ DeliveryAt(d, "notice")
    /\ Put(FreeOrLapsed(Notice(d)), Notice(d), d)
    /\ DeliveryGoes(d, IF Wins(FreeOrLapsed(Notice(d)), Notice(d), d)
                           THEN "replied" ELSE "silent")
    /\ TurnKept

\* Which fails open.
ClaimNoticeFails(d) ==
    /\ DeliveryAt(d, "notice")
    /\ DeliveryGoes(d, "replied")
    /\ TurnKept /\ UNCHANGED marker

Counted(s) == count' = [count EXCEPT ![s] = @ + 1]
CountKept == UNCHANGED <<Inputs, toggle, marker, Proposals, ran>>

\* Mutant: the team's counter first.
CountTeamFirst(d) ==
    /\ DeliveryAt(d, "member")
    /\ count' = [count EXCEPT !["team"] = @ + 1, ![From(d)] = @ + 1]
    /\ DeliveryGoes(d, IF count'["team"] > TeamCap       THEN "overTeam"
                       ELSE IF count'[From(d)] > UserCap THEN "overUser"
                                                         ELSE "turn")
    /\ CountKept /\ UNCHANGED excused

\* agentTurnLimited: the member's counter first, then the team's.
CountMember(d) ==
    /\ DeliveryAt(d, "member")
    /\ Counted(From(d))
    /\ DeliveryGoes(d, IF count'[From(d)] > UserCap THEN "overUser" ELSE "team")
    /\ CountKept /\ UNCHANGED excused

CountTeam(d) ==
    /\ DeliveryAt(d, "team")
    /\ Counted("team")
    /\ DeliveryGoes(d, IF count'["team"] > TeamCap THEN "overTeam" ELSE "turn")
    /\ CountKept /\ UNCHANGED excused

\* The reply of a count is lost and it is counted again.
CountTwice(d) ==
    /\ delivery[d] \in {"member", "team"}
    /\ Counted(IF DeliveryAt(d, "member") THEN From(d) ELSE "team")
    /\ excused' = excused \cup {"count"}
    /\ CountKept /\ UNCHANGED delivery

\* A counter that fails allows the turn.
CountFails(d) ==
    /\ delivery[d] \in {"member", "team"}
    /\ DeliveryGoes(d, IF DeliveryAt(d, "member") THEN "team" ELSE "turn")
    /\ excused' = excused \cup {"count"}
    /\ CountKept /\ UNCHANGED count

\* The model answers, or fails, or proposes an action.
RunTurn(d) ==
    /\ DeliveryAt(d, "turn")
    /\ ran' = ran \cup {d}
    /\ \/ DeliveryGoes(d, "replied")
       \/ Saying(d).proposes # "nothing" /\ DeliveryGoes(d, "snapshot")
    /\ UNCHANGED <<Inputs, toggle, marker, Proposals, count, excused>>

\* postAgentConfirmScoped: the proposal is stored before its card is posted.
StoreProposal(d) ==
    /\ DeliveryAt(d, "snapshot")
    /\ pending' = [pending EXCEPT ![d] = "stored"]
    /\ DeliveryGoes(d, "card")
    /\ UNCHANGED <<Inputs, toggle, marker, card, Counters>>

PostCard(d) ==
    /\ DeliveryAt(d, "card")
    /\ card' = [card EXCEPT ![d] = "shown"]
    /\ DeliveryGoes(d, "replied")
    /\ UNCHANGED <<Inputs, toggle, marker, pending, Counters>>

\* Either fails, with or without having happened; the text preview is posted.
ProposalFails(d) ==
    /\ delivery[d] \in {"snapshot", "card"}
    /\ DeliveryGoes(d, "replied")
    /\ \/ UNCHANGED Proposals
       \/ /\ DeliveryAt(d, "snapshot")
          /\ pending' = [pending EXCEPT ![d] = "stored"]
          /\ UNCHANGED card
       \/ /\ DeliveryAt(d, "card")
          /\ card' = [card EXCEPT ![d] = "shown"]
          /\ UNCHANGED pending
    /\ UNCHANGED <<Inputs, toggle, marker, Counters>>

\* The life of a proposal is over.
ProposalExpires(d) ==
    /\ pending[d] = "stored"
    /\ pending' = [pending EXCEPT ![d] = "expired"]
    /\ UNCHANGED <<Inputs, toggle, marker, delivery, card, Counters>>

\* PurgeWorkspaceAgentState.
EraseAgentState ==
    /\ marker' = [k \in MarkerKeys |-> "none"]
    /\ count' = [s \in Scopes |-> 0]
    /\ pending' = [d \in Deliveries |-> "none"]
    /\ excused' = excused \cup {"purge"}
    /\ UNCHANGED <<Inputs, delivery, card, ran>>

TurnStep(d) == \/ Dispatch(d) \/ ReadToggle(d) \/ ReadThread(d) \/ MarkSeen(d)
               \/ ClaimNotice(d) \/ CountMember(d) \/ CountTeam(d) \/ RunTurn(d)
               \/ StoreProposal(d) \/ PostCard(d)

TurnFault(d) == \/ Drop(d) \/ MarkReplyLost(d) \/ ClaimNoticeFails(d)
                \/ CountTwice(d) \/ CountFails(d) \/ ProposalFails(d)
                \/ ProposalExpires(d)
-----------------------------------------------------------------------------

Spoke(d) == delivery[d] \notin {"idle", "toggle", "thread", "mark", "duplicate",
                                "dropped"}

\* A message is answered, refused or acted on at most once, however often and
\* wherever Slack delivers it and whatever replies are lost.  (A purge erases
\* the markers, whatever their age.)
OneTurnPerMessage ==
    "purge" \notin excused =>
        \A d, e \in Deliveries :
            d # e /\ Spoke(d) /\ Spoke(e) => carries[d] # carries[e]

\* A delivery is ignored only for another one, which wrote the message's marker
\* and is no duplicate itself (it may have been dropped since): a marker whose
\* reply was lost does not make its own writer a duplicate.
DuplicateOfAnother ==
    "purge" \notin excused =>
        \A d \in Deliveries :
            delivery[d] = "duplicate" =>
                \E e \in Deliveries \ {d} :
                    /\ marker[Event(d)] = e /\ carries[e] = carries[d]
                    /\ delivery[e] # "duplicate"

\* The deliveries a turn was given, of the team and of a member.
Turns == ran \cup {d \in Deliveries : delivery[d] = "turn"}
TurnsOf(u) == {d \in Turns : From(d) = u}

\* No member is given more turns than a member may have, nor the team more than
\* it may; and a turn is refused for the team only when others had theirs: a
\* member over the limit does not use up the team's.  (Counters that failed are
\* exempt.)
TurnsShared ==
    excused = {} =>
        /\ \A u \in Members : Cardinality(TurnsOf(u)) <= UserCap
        /\ Cardinality(Turns) <= TeamCap
        /\ (\E d \in Deliveries : delivery[d] = "overTeam")
               => Cardinality(Turns) = TeamCap
=============================================================================
