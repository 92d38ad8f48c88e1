----------------------------- MODULE AgentConfirm -----------------------------
(***************************************************************************)
(* The card of a proposal and the clicks on it: Approve or Reject, by any  *)
(* member of the channel, on any process, several at once.  A click passes *)
(* its gates, then claims the proposal with a marker, and only then acts.  *)
(***************************************************************************)
EXTENDS AgentTurns

VARIABLES
    admins,   \* fixed
    press

confirmVars == <<admins, press>>

PressPcs == {"idle", "toggle", "load", "gate", "claim", "act", "deliver", "settle",
             "ended"}

\* outcome is what the click came to; "failed" is an action that was tried.
NoPress == [pc |-> "idle", card |-> CHOOSE d \in Deliveries : TRUE,
            who |-> CHOOSE u \in Members : TRUE, approve |-> TRUE,
            outcome |-> "none"]

ConfirmOK ==
    /\ admins \subseteq Members
    /\ press \in [Presses -> [pc : PressPcs, card : Deliveries, who : Members,
                              approve : BOOLEAN,
                              outcome : {"none", "canceled", "opened", "executed",
                                         "failed"}]]

ConfirmInit(who) ==
    /\ admins = who
    /\ press = [b \in Presses |-> NoPress]

Proposed(b) == Saying(press[b].card).proposes
PressAt(b, pc) == press[b].pc = pc
PressGoes(b, pc) == press' = [press EXCEPT ![b].pc = pc]
PressEnds(b, outcome) ==
    press' = [press EXCEPT ![b].pc = "settle", ![b].outcome = outcome]

PressKept == UNCHANGED <<Inputs, toggle, delivery, Counters, admins>>
Reads == PressKept /\ UNCHANGED <<marker, Proposals>>

\* handleAgentConfirmClick takes a slot of the pool.
Click(b, d, u, approve) ==
    /\ PressAt(b, "idle") /\ card[d] = "shown"
    /\ press' = [press EXCEPT ![b] = [NoPress EXCEPT !.pc = "toggle", !.card = d,
                                          !.who = u, !.approve = approve]]
    /\ Reads

RecheckToggle(b) ==
    /\ PressAt(b, "toggle")
    /\ \E on \in {toggle.now, toggle.stale} :
           PressGoes(b, IF on THEN "load" ELSE "ended")
    /\ Reads

\* LoadPendingAction: absent and expired are the same.
LoadProposal(b) ==
    /\ PressAt(b, "load")
    /\ PressGoes(b, IF pending[press[b].card] = "stored" THEN "gate" ELSE "ended")
    /\ Reads

\* adminGatedFor and askerOnly, for Approve and Reject alike: a link is for the
\* member who asked, the summary of a page for the whole channel.
Entitled(b) == CASE Proposed(b) = "get"     -> press[b].who = From(press[b].card)
                 [] Proposed(b) = "inspect" -> TRUE
                 [] OTHER                   -> press[b].who \in admins

ClaimKey(b) == <<"claim", press[b].card>>
Act(b) == IF press[b].approve THEN PressGoes(b, "act") ELSE PressEnds(b, "canceled")

\* Mutant: the gates come after the claim.
ClaimBeforeGates(b) ==
    /\ PressAt(b, "gate")
    /\ Put(Free(ClaimKey(b)), ClaimKey(b), b)
    /\ IF Free(ClaimKey(b)) /\ Entitled(b) THEN Act(b) ELSE PressGoes(b, "ended")
    /\ PressKept /\ UNCHANGED Proposals

PassGates(b) ==
    /\ PressAt(b, "gate")
    /\ PressGoes(b, IF Entitled(b) THEN "claim" ELSE "ended")
    /\ Reads

\* Mutant: a claim that is there already is no obstacle to its card's approval.
ClaimAgain(b) ==
    /\ PressAt(b, "claim")
    /\ Put(Free(ClaimKey(b)), ClaimKey(b), b)
    /\ Act(b)
    /\ PressKept /\ UNCHANGED Proposals

\* ClaimPendingAction, and the card of a rejected proposal.
Claim(b) ==
    /\ PressAt(b, "claim")
    /\ Put(Free(ClaimKey(b)), ClaimKey(b), b)
    /\ IF Wins(Free(ClaimKey(b)), ClaimKey(b), b) THEN Act(b) ELSE PressGoes(b, "ended")
    /\ PressKept /\ UNCHANGED Proposals

ClaimReplyLost(b) ==
    /\ PressAt(b, "claim") /\ Free(ClaimKey(b))
    /\ Put(TRUE, ClaimKey(b), b)
    /\ PressKept /\ UNCHANGED <<Proposals, press>>

\* executeAgentAction, or the modal for a Connector.
Execute(b) ==
    /\ PressAt(b, "act")
    /\ CASE Proposed(b) = "connector" -> PressEnds(b, "opened")
         [] Proposed(b) = "get"       -> PressGoes(b, "deliver")
         [] OTHER                     -> PressEnds(b, "executed")
    /\ Reads

\* A link goes to the clicker alone; undelivered, it counts as a failure.
Deliver(b) ==
    /\ PressAt(b, "deliver")
    /\ PressEnds(b, "executed")
    /\ Reads

\* The action fails, its card says so, and nothing tries it again.
ActFails(b) ==
    /\ press[b].pc \in {"act", "deliver"}
    /\ PressEnds(b, "failed")
    /\ Reads

\* The winner's card becomes final, unless Slack refuses (PressFails).
CardSettles(b) ==
    /\ PressAt(b, "settle")
    /\ card' = [card EXCEPT ![press[b].card] = "final"]
    /\ PressGoes(b, "ended")
    /\ PressKept /\ UNCHANGED <<marker, pending>>

\* A gate's read or the claim fails, which fails closed, or the process ends.
PressFails(b) ==
    /\ press[b].pc \notin {"idle", "ended"}
    /\ PressGoes(b, "ended")
    /\ Reads

PressStep(b) == \/ RecheckToggle(b) \/ LoadProposal(b) \/ PassGates(b) \/ Claim(b)
                \/ Execute(b) \/ Deliver(b) \/ CardSettles(b)

PressFault(b) == ClaimReplyLost(b) \/ ActFails(b) \/ PressFails(b)
-----------------------------------------------------------------------------

\* Of all the clicks on a card one at most decides it: a proposal is not acted
\* on twice, nor acted on and canceled.  (A purge erases the claims.)
DecidedOnce ==
    "purge" \notin excused =>
        \A b, c \in Presses :
            /\ b # c
            /\ press[b].outcome # "none" /\ press[c].outcome # "none"
            => press[b].card # press[c].card

\* A click of somebody who may not decide a proposal leaves it to those who may:
\* the member who asked for a link, any member for the summary of a page, an
\* admin for anything else.
EntitledDecides ==
    \A b \in Presses : marker[ClaimKey(b)] = b => Entitled(b)
=============================================================================
