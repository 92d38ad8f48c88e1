------------------------------ MODULE SlackAgent ------------------------------
(***************************************************************************)
(* The workspace of SlackWorkspace with its members at work: messages to   *)
(* the agent, clicks on its cards, and Connector installs, from a card or  *)
(* a command.  They meet the workspace where its row carries the toggle,   *)
(* and where a purge erases the agent's state.                             *)
(*                                                                         *)
(* A scenario's agent is [said, carries, admins, clicks, asks, origin,     *)
(* lapses]: origin is the click an install comes from, if it does.         *)
(***************************************************************************)
EXTENDS SlackWorkspace, AgentConfirm, ConnectorInstall

ASSUME AgentAssumption ==
    \A s \in Scenarios :
        /\ s.agent.said \in [Messages -> Sayings]
        /\ s.agent.carries \in [Deliveries -> Messages \cup {"none"}]
        /\ s.agent.admins \subseteq Members
        /\ s.agent.asks \in [Installs -> [slug : Slugs, alias : Aliases,
                                          attempt : Attempts]]
        /\ \A b \in Presses :
               s.agent.clicks[b] \subseteq Deliveries \X Members \X BOOLEAN

agentVars == <<turnVars, confirmVars, installVars>>

AgentTypeOK == TurnsOK /\ ConfirmOK /\ InstallsOK

AgentInit ==
    /\ Init
    /\ TurnsInit(scenario.agent.said, scenario.agent.carries)
    /\ ConfirmInit(scenario.agent.admins)
    /\ InstallsInit(scenario.agent.asks)

-----------------------------------------------------------------------------
(* The workspace.                                                          *)

Purged == \E j \in Jobs : purge[j].pc = "agent" /\ purge'[j].pc = "mapping"

\* The purge's query and deletes, of which a failed one did some or none.
TurnsFollow ==
    IF Purged
        THEN \/ EraseAgentState
             \/ faults' # faults /\ UNCHANGED <<Inputs, marker, delivery, Proposals,
                                                Counters>>
        ELSE UNCHANGED <<Inputs, marker, delivery, Proposals, Counters>>

\* Bound: the toggle is followed only where there are messages.
Conversing == \E d \in Deliveries : carries[d] # "none"

\* SetAgentEnabled writes the row as any change of the admins does, and the
\* toggle goes with the row.
ToggleFollows ==
    CASE ~Conversing -> UNCHANGED toggle
      [] Conversing /\ mapping.owner # "none" /\ mapping'.owner = "none"
             -> toggle' = [toggle EXCEPT !.now = FALSE]
      [] Conversing /\ "admin" \in acts \ acts'
             -> \E on \in BOOLEAN : toggle' = [toggle EXCEPT !.now = on]
      [] OTHER -> UNCHANGED toggle

\* A purge of the channel policies takes the bindings with it.
BindingsFollow ==
    IF tables["policies"] # 0 /\ tables'["policies"] = 0
        THEN RemoveBindings(Aliases) ELSE UNCHANGED installVars

WorkspaceMoves ==
    /\ Next
    /\ TurnsFollow
    /\ ToggleFollows
    /\ BindingsFollow
    /\ UNCHANGED confirmVars

-----------------------------------------------------------------------------
(* The agent.                                                              *)

WorkspaceKept == UNCHANGED <<providerVars, setupVars, teardownVars>>
Soundly == NoFault /\ WorkspaceKept
Wrongly == Faulty /\ WorkspaceKept

TurnMoves(d) == TurnStep(d) /\ Soundly /\ UNCHANGED <<confirmVars, installVars>>
TurnGoesWrong(d) == TurnFault(d) /\ Wrongly /\ UNCHANGED <<confirmVars, installVars>>

TimePasses ==
    /\ \/ ToggleCatchesUp
       \/ scenario.agent.lapses /\ \E u \in Members : NoticeLapses(u)
    /\ Soundly /\ UNCHANGED <<confirmVars, installVars>>

PressedBy(b) ==
    /\ \E c \in scenario.agent.clicks[b] :
           Click(b, c[1], c[2], c[3])
    /\ Soundly /\ UNCHANGED installVars

ClickMoves(b) == PressStep(b) /\ Soundly /\ UNCHANGED installVars
ClickGoesWrong(b) == PressFault(b) /\ Wrongly /\ UNCHANGED installVars

\* The admin gate of the command, or the modal a click opened, submitted.
Installing(i) ==
    /\ \/ scenario.agent.origin[i] = "typed"
       \/ \E b \in Presses : /\ scenario.agent.origin[i] = b
                            /\ press[b].outcome = "opened"
    /\ Begin(i)
    /\ Soundly /\ UNCHANGED <<turnVars, confirmVars>>

\* A binding is written to the channel policies, and stamps them.
PoliciesFollow == IF alias' = alias THEN WorkspaceKept ELSE TableWritten("policies")

InstallMoves(i) ==
    /\ InstallStep(i) /\ PoliciesFollow
    /\ NoFault /\ UNCHANGED <<turnVars, confirmVars>>

InstallGoesWrong(i) ==
    /\ InstallFault(i) /\ PoliciesFollow
    /\ Faulty /\ UNCHANGED <<turnVars, confirmVars>>

\* An admin removes a binding.
Unsets ==
    /\ Does("unset")
    /\ \E a \in Aliases : UnbindAlias(a)
    /\ TableWritten("policies")
    /\ UNCHANGED <<turnVars, confirmVars>>

AgentNext ==
    \/ WorkspaceMoves
    \/ \E d \in Deliveries : TurnMoves(d) \/ TurnGoesWrong(d)
    \/ TimePasses
    \/ \E b \in Presses : PressedBy(b) \/ ClickMoves(b) \/ ClickGoesWrong(b)
    \/ \E i \in Installs : Installing(i) \/ InstallMoves(i) \/ InstallGoesWrong(i)
    \/ Unsets

AgentSpec == AgentInit /\ [][AgentNext]_<<vars, agentVars>> /\ Fairness
=============================================================================
