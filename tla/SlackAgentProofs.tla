-------------------------- MODULE SlackAgentProofs --------------------------
(***************************************************************************)
(* The safety of the agent and of Connector installs, in the workspace     *)
(* they live in: for any number of messages, deliveries, clicks, installs, *)
(* members, caps and scenarios, and any number of faults.                  *)
(***************************************************************************)
EXTENDS SlackAgent, SlackWorkspaceProofs, AgentConfirmProofs,
        ConnectorInstallProofs

AgentInv == scenario \in Scenarios /\ TurnInv /\ InstallInv

\* The workspace never changes its scenario.
LEMMA ScenarioFixed ==
    ASSUME Next
    PROVE  scenario' = scenario
<1>1. NoFault => scenario' = scenario
      BY DEF NoFault, systemVars
<1>2. Faulty => scenario' = scenario
      BY DEF Faulty
<1>3. \A act : Does(act) => scenario' = scenario
      BY DEF Does
<1> QED BY <1>1, <1>2, <1>3
        DEF Next, Replicates, Asks, LooksUp, LookupGoesWrong, Commands, Expires,
            Opens, Returns, SetsUp, SetupGoesWrong, CleansUp, Uninstalls,
            Disconnects, DisconnectGoesWrong, AppRemoved, EventArrives, Purges,
            PurgeGoesWrong, Reinstalled, Writes, ChangesAdmins, Transfers

\* The beginning.
LEMMA AgentInvBegins ==
    ASSUME AgentInit
    PROVE  AgentInv
<1>1. scenario \in Scenarios
      BY DEF AgentInit, Init
<1>2. /\ scenario.agent.carries \in [Deliveries -> Messages \cup {"none"}]
      /\ scenario.agent.asks \in [Installs -> InstallAsks]
      BY <1>1, AgentAssumption DEF InstallAsks
<1>3. TurnInv
      BY <1>2, TurnInvBegins DEF AgentInit
<1>4. InstallInv
      BY <1>2, InstallsBegin DEF AgentInit
<1> QED BY <1>1, <1>3, <1>4 DEF AgentInv

\* What touches neither turns nor clicks keeps what is known of them.
LEMMA TurnInvStays ==
    ASSUME TurnInv, UNCHANGED <<Inputs, marker, delivery, Proposals, Counters>>,
           UNCHANGED confirmVars
    PROVE  TurnInv'
<1>1. EventKept /\ ClaimKept
      BY DEF EventKept, ClaimKept
<1> QED BY <1>1, SteadyKeeps DEF Inputs, Counters, confirmVars, TurnInv,
           TurnShape

\* Every step keeps the invariant.
LEMMA AgentInvKept ==
    ASSUME AgentInv, [AgentNext]_<<vars, agentVars>>
    PROVE  AgentInv'
<1>1. scenario \in Scenarios /\ TurnInv /\ InstallInv
      BY DEF AgentInv
<1>2. CASE WorkspaceMoves
  <2>1. scenario' = scenario /\ UNCHANGED confirmVars /\ BindingsFollow
        BY <1>2, ScenarioFixed DEF WorkspaceMoves
  <2>2. EraseAgentState
            \/ UNCHANGED <<Inputs, marker, delivery, Proposals, Counters>>
        BY <1>2 DEF WorkspaceMoves, TurnsFollow
  <2>3. TurnInv'
        BY <1>1, <2>1, <2>2, ErasureKeeps, TurnInvStays DEF confirmVars
  <2>4. InstallInv'
        BY <1>1, <2>1, InstallInvStays, RemovalKeeps DEF BindingsFollow
  <2> QED BY <1>1, <2>1, <2>3, <2>4 DEF AgentInv
<1>3. ASSUME NEW d \in Deliveries, TurnMoves(d) \/ TurnGoesWrong(d)
      PROVE  AgentInv'
  <2>1. /\ TurnMove(d) /\ scenario' = scenario /\ UNCHANGED confirmVars
        /\ UNCHANGED installVars
        BY <1>3 DEF TurnMoves, TurnGoesWrong, TurnMove, Soundly, Wrongly,
           NoFault, Faulty, systemVars
  <2> QED BY <1>1, <2>1, TurnInvKept, InstallInvStays DEF AgentInv, confirmVars
<1>4. CASE TimePasses
  <2>1. scenario' = scenario /\ UNCHANGED confirmVars /\ UNCHANGED installVars
        BY <1>4 DEF TimePasses, Soundly, NoFault, systemVars
  <2>2. CASE ToggleCatchesUp
        BY <1>1, <2>1, <2>2, TurnInvStays, InstallInvStays
           DEF AgentInv, ToggleCatchesUp
  <2>3. ASSUME NEW u \in Members, NoticeLapses(u)
        PROVE  AgentInv'
        BY <1>1, <2>1, <2>3, LapseKeeps, InstallInvStays DEF AgentInv,
           confirmVars
  <2> QED BY <1>4, <2>2, <2>3 DEF TimePasses
<1>5. ASSUME NEW b \in Presses, PressedBy(b) \/ ClickMoves(b) \/ ClickGoesWrong(b)
      PROVE  AgentInv'
  <2>1. scenario' = scenario /\ UNCHANGED installVars
        BY <1>5 DEF PressedBy, ClickMoves, ClickGoesWrong, Soundly, Wrongly,
                    NoFault, Faulty, systemVars
  <2>2. PressEffect(b)
    <3>1. CASE PressedBy(b)
      <4>1. PICK c \in scenario.agent.clicks[b] : Click(b, c[1], c[2], c[3])
            BY <3>1 DEF PressedBy
      <4>2. c \in Deliveries \X Members \X BOOLEAN
            BY <1>1, <4>1, AgentAssumption
      <4> QED BY <1>1, <4>1, <4>2, ClickComesTo DEF TurnInv
    <3>2. CASE ClickMoves(b) \/ ClickGoesWrong(b)
          BY <1>1, <3>2, PressComesTo
             DEF ClickMoves, ClickGoesWrong, PressMove, TurnInv
    <3> QED BY <1>5, <3>1, <3>2
  <2> QED BY <1>1, <2>1, <2>2, PressInvKept, InstallInvStays DEF AgentInv
<1>6. ASSUME NEW i \in Installs,
             Installing(i) \/ InstallMoves(i) \/ InstallGoesWrong(i)
      PROVE  AgentInv'
  <2>1. /\ InstallMove(i) /\ scenario' = scenario
        /\ UNCHANGED turnVars /\ UNCHANGED confirmVars
        BY <1>6 DEF Installing, InstallMoves, InstallGoesWrong, InstallMove,
           Soundly, Wrongly, NoFault, Faulty, systemVars
  <2>2. UNCHANGED <<Inputs, marker, delivery, Proposals, Counters>>
        BY <2>1 DEF turnVars, Inputs, Proposals, Counters
  <2> QED BY <1>1, <2>1, <2>2, InstallInvKept, TurnInvStays DEF AgentInv
<1>7. CASE UNCHANGED <<vars, agentVars>>
  <2>1. /\ scenario' = scenario /\ UNCHANGED confirmVars /\ UNCHANGED installVars
        /\ UNCHANGED <<Inputs, marker, delivery, Proposals, Counters>>
        BY <1>7 DEF vars, systemVars, agentVars, turnVars, Inputs, Proposals,
           Counters
  <2> QED BY <1>1, <2>1, TurnInvStays, InstallInvStays DEF AgentInv
<1>8. CASE Unsets
  <2>1. scenario' = scenario /\ UNCHANGED confirmVars /\ UNCHANGED turnVars
        BY <1>8 DEF Unsets, Does
  <2>2. UNCHANGED <<Inputs, marker, delivery, Proposals, Counters>>
        BY <2>1 DEF turnVars, Inputs, Proposals, Counters
  <2>3. InstallInv'
        BY <1>1, <1>8, RemovalKeeps DEF Unsets, UnbindAlias
  <2> QED BY <1>1, <2>1, <2>2, <2>3, TurnInvStays DEF AgentInv
<1> QED BY <1>2, <1>3, <1>4, <1>5, <1>6, <1>7, <1>8 DEF AgentNext

\* What the steps have counted: turns for the caps, restarts for the epochs.
TallyInv == CountInv /\ admins \subseteq Members /\ EpochsCounted

LEMMA TallyBegins ==
    ASSUME AgentInit
    PROVE  TallyInv
<1>1. scenario \in Scenarios
      BY DEF AgentInit, Init
<1>2. /\ scenario.agent.said \in [Messages -> Sayings]
      /\ scenario.agent.carries \in [Deliveries -> Messages \cup {"none"}]
      /\ scenario.agent.admins \subseteq Members
      BY <1>1, AgentAssumption
<1>3. CountInv
      BY <1>2, CountInvBegins DEF AgentInit
<1>4. EpochsCounted
      BY EpochsBegin DEF AgentInit
<1> QED BY <1>2, <1>3, <1>4 DEF AgentInit, ConfirmInit, TallyInv

LEMMA TallyKept ==
    ASSUME AgentInv, TallyInv, [AgentNext]_<<vars, agentVars>>
    PROVE  TallyInv'
<1>1. /\ scenario \in Scenarios /\ TurnShape /\ TurnShape' /\ InstallShape
      /\ CountInv /\ TurnsOK /\ CountsTell /\ admins \subseteq Members /\ EpochsCounted
      /\ toggle \in [now : BOOLEAN, stale : BOOLEAN]
      BY AgentInvKept DEF AgentInv, TurnInv, InstallInv, TallyInv, CountInv, TurnsOK
<1>2. CASE WorkspaceMoves
  <2>1. admins' = admins /\ EpochsCounted'
        BY <1>1, <1>2, EpochsCountedStay, RemovalKeepsEpochs
           DEF WorkspaceMoves, BindingsFollow, confirmVars
  <2>2. toggle' \in [now : BOOLEAN, stale : BOOLEAN]
        BY <1>1, <1>2 DEF WorkspaceMoves, ToggleFollows
  <2>3. EraseAgentState
            \/ UNCHANGED <<Inputs, marker, delivery, Proposals, Counters>>
        BY <1>2 DEF WorkspaceMoves, TurnsFollow
  <2>4. TurnsOK' /\ CountsTell'
        BY <1>1, <2>2, <2>3, TurnsTypedStay, CountsTellStays
  <2> QED BY <1>1, <2>1, <2>4 DEF TallyInv, CountInv
<1>3. ASSUME NEW d \in Deliveries, TurnMoves(d) \/ TurnGoesWrong(d)
      PROVE  TallyInv'
  <2>1. TurnMove(d) /\ admins' = admins /\ UNCHANGED installVars
        BY <1>3 DEF TurnMoves, TurnGoesWrong, TurnMove, confirmVars
  <2>2. TurnsOK' /\ CountsTell'
        BY <1>1, <2>1, TurnsTyped, CountsTellKept
  <2> QED BY <1>1, <2>1, <2>2, EpochsCountedStay DEF TallyInv, CountInv
<1>4. CASE TimePasses
  <2>1. admins' = admins /\ UNCHANGED installVars
        BY <1>4 DEF TimePasses, confirmVars
  <2>2. /\ UNCHANGED <<Inputs, delivery, Proposals, Counters>>
        /\ toggle' \in [now : BOOLEAN, stale : BOOLEAN]
        BY <1>1, <1>4 DEF TimePasses, ToggleCatchesUp, NoticeLapses, turnVars
  <2>3. TurnsOK' /\ CountsTell'
        BY <1>1, <2>2, TurnsTypedStay, CountsTellStays
  <2> QED BY <1>1, <2>1, <2>3, EpochsCountedStay DEF TallyInv, CountInv
<1>5. ASSUME NEW b \in Presses, PressedBy(b) \/ ClickMoves(b) \/ ClickGoesWrong(b)
      PROVE  TallyInv'
  <2>1. UNCHANGED installVars
        BY <1>5 DEF PressedBy, ClickMoves, ClickGoesWrong
  <2>2. \/ PressMove(b)
        \/ \E d \in Deliveries, u \in Members, approve \in BOOLEAN :
               Click(b, d, u, approve)
    <3>1. CASE PressedBy(b)
      <4>1. PICK c \in scenario.agent.clicks[b] : Click(b, c[1], c[2], c[3])
            BY <3>1 DEF PressedBy
      <4>2. c \in Deliveries \X Members \X BOOLEAN
            BY <1>1, <4>1, AgentAssumption
      <4> QED BY <4>1, <4>2
    <3>2. CASE ClickMoves(b) \/ ClickGoesWrong(b)
          BY <3>2 DEF ClickMoves, ClickGoesWrong, PressMove
    <3> QED BY <1>5, <3>1, <3>2
  <2>3. UNCHANGED <<Inputs, delivery, Counters>> /\ admins' = admins
        BY <2>2, ClicksCountNothing
  <2>4. TurnsOK'
        BY <1>1, <2>2, TurnsTypedStay
  <2>5. CountsTell'
        BY <1>1, <2>3, CountsTellStays
  <2> QED BY <1>1, <2>1, <2>3, <2>4, <2>5, EpochsCountedStay DEF TallyInv, CountInv
<1>6. ASSUME NEW i \in Installs,
             Installing(i) \/ InstallMoves(i) \/ InstallGoesWrong(i)
      PROVE  TallyInv'
  <2>1. /\ InstallMove(i) /\ UNCHANGED turnVars /\ admins' = admins
        BY <1>6 DEF Installing, InstallMoves, InstallGoesWrong, InstallMove,
           confirmVars
  <2>2. /\ UNCHANGED <<Inputs, delivery, Proposals, Counters>> /\ toggle' = toggle
        BY <2>1 DEF turnVars, Inputs, Proposals, Counters
  <2>3. TurnsOK' /\ CountsTell'
        BY <1>1, <2>2, TurnsTypedStay, CountsTellStays
  <2> QED BY <1>1, <2>1, <2>3, EpochsCountedKept DEF TallyInv, CountInv
<1>7. CASE UNCHANGED <<vars, agentVars>>
  <2>1. /\ UNCHANGED turnVars /\ admins' = admins /\ UNCHANGED installVars
        BY <1>7 DEF agentVars, confirmVars
  <2>2. /\ UNCHANGED <<Inputs, delivery, Proposals, Counters>> /\ toggle' = toggle
        BY <2>1 DEF turnVars, Inputs, Proposals, Counters
  <2>3. TurnsOK' /\ CountsTell'
        BY <1>1, <2>2, TurnsTypedStay, CountsTellStays
  <2> QED BY <1>1, <2>1, <2>3, EpochsCountedStay DEF TallyInv, CountInv
<1>8. CASE Unsets
  <2>1. /\ UNCHANGED turnVars /\ admins' = admins /\ EpochsCounted'
        BY <1>1, <1>8, RemovalKeepsEpochs DEF Unsets, UnbindAlias, confirmVars
  <2>2. /\ UNCHANGED <<Inputs, delivery, Proposals, Counters>> /\ toggle' = toggle
        BY <2>1 DEF turnVars, Inputs, Proposals, Counters
  <2>3. TurnsOK' /\ CountsTell'
        BY <1>1, <2>2, TurnsTypedStay, CountsTellStays
  <2> QED BY <1>1, <2>1, <2>3 DEF TallyInv, CountInv
<1> QED BY <1>2, <1>3, <1>4, <1>5, <1>6, <1>7, <1>8 DEF AgentNext

\* To the workspace, whatever its members do is a step of its own, a fault, a
\* binding written to its policies, or nothing.
LEMMA AgentMovesWorkspace ==
    ASSUME [AgentNext]_<<vars, agentVars>>
    PROVE  [Moves]_vars
<1>1. CASE WorkspaceMoves
      BY <1>1 DEF WorkspaceMoves, Moves
<1>2. CASE Soundly
      BY <1>2 DEF Soundly, NoFault, WorkspaceKept, vars
<1>3. CASE Wrongly
      BY <1>3 DEF Wrongly, WorkspaceKept, Spends, Moves
<1>4. CASE UNCHANGED <<vars, agentVars>>
      BY <1>4
<1>5. ASSUME NEW i \in Installs, InstallMoves(i) \/ InstallGoesWrong(i)
      PROVE  [Moves]_vars
  <2>1. CASE NoFault /\ WorkspaceKept
        BY <1>2, <2>1 DEF Soundly
  <2>2. CASE Faulty /\ WorkspaceKept
        BY <1>3, <2>2 DEF Wrongly
  <2>3. CASE (NoFault \/ Faulty) /\ TableWritten("policies")
        BY <2>3 DEF BindingWritten, Moves, Tables
  <2> QED BY <1>5, <2>1, <2>2, <2>3 DEF InstallMoves, InstallGoesWrong, PoliciesFollow
<1>6. CASE Unsets
      BY <1>6 DEF Unsets, BindingWritten, Moves, Tables
<1> QED BY <1>1, <1>2, <1>3, <1>4, <1>5, <1>6
        DEF AgentNext, TurnMoves, TurnGoesWrong, TimePasses, PressedBy, ClickMoves,
            ClickGoesWrong, Installing

\* In every state of every behaviour.
THEOREM AgentInvariant == AgentSpec => []AgentInv
<1>1. AgentInit => AgentInv
      BY AgentInvBegins
<1>2. AgentInv /\ [AgentNext]_<<vars, agentVars>> => AgentInv'
      BY AgentInvKept
<1> QED BY <1>1, <1>2, PTL DEF AgentSpec

-----------------------------------------------------------------------------
(* The properties.                                                         *)

\* However often and wherever Slack delivers a message, whatever replies are
\* lost and whenever the toggle flips, it gets one turn, unless a purge erased
\* its marker.
THEOREM MessagesTurnOnce == AgentSpec => []OneTurnPerMessage
<1>1. AgentInv => OneTurnPerMessage
      BY MarkersSuffice DEF AgentInv
<1> QED BY <1>1, AgentInvariant, PTL

\* No delivery is ignored but for another that wrote its message's marker and was
\* not ignored in turn: no message is lost to a marker of its own.
THEOREM DuplicatesHaveOriginals == AgentSpec => []DuplicateOfAnother
<1>1. AgentInv => DuplicateOfAnother
      BY MarkersSuffice DEF AgentInv
<1> QED BY <1>1, AgentInvariant, PTL

\* Of any number of clicks on a card one at most decides it.
THEOREM CardsDecidedOnce == AgentSpec => []DecidedOnce
<1>1. AgentInv => DecidedOnce
      BY MarkersSuffice DEF AgentInv
<1> QED BY <1>1, AgentInvariant, PTL

\* Whoever clicks first, and whatever fails, a proposal is claimed by nobody but
\* those who may decide it: the asker a link, any member a summary, an admin a
\* change or a Connector.
THEOREM OnlyEntitledDecide == AgentSpec => []EntitledDecides
<1>1. AgentInv => EntitledDecides
      BY MarkersSuffice DEF AgentInv
<1> QED BY <1>1, AgentInvariant, PTL

\* Of any number of installs, at however many resources, those that failed leave
\* no live token and no sharing they turned on, but where cleaning up failed.
THEOREM FailedInstallsCleanUp == AgentSpec => []NothingLeftBehind
<1>1. AgentInv => NothingLeftBehind
      BY InstallLeavesNothing DEF AgentInv
<1> QED BY <1>1, AgentInvariant, PTL

\* And those that were delivered work.
THEOREM DeliveredInstallsWork == AgentSpec => []DeliveredWorks
<1>1. AgentInv => DeliveredWorks
      BY InstallWorks DEF AgentInv
<1> QED BY <1>1, AgentInvariant, PTL

\* However many members' turns are in flight at once, no member and no team gets
\* more than its cap, and a turn refused for the team is one that others had.
THEOREM TurnsAreShared == AgentSpec => []TurnsShared
<1>1. AgentInit => AgentInv /\ TallyInv
      BY AgentInvBegins, TallyBegins
<1>2. AgentInv /\ TallyInv /\ [AgentNext]_<<vars, agentVars>> => (AgentInv /\ TallyInv)'
      BY AgentInvKept, TallyKept
<1>3. TallyInv => TurnsShared
      BY CountersSuffice DEF TallyInv
<1> QED BY <1>1, <1>2, <1>3, PTL DEF AgentSpec

\* The agent's state and the installs' is well typed; in particular sharing has
\* no more epochs than there are installs: none restarts it twice.
THEOREM AgentTypesHold == AgentSpec => []AgentTypeOK
<1>1. AgentInit => AgentInv /\ TallyInv
      BY AgentInvBegins, TallyBegins
<1>2. AgentInv /\ TallyInv /\ [AgentNext]_<<vars, agentVars>> => (AgentInv /\ TallyInv)'
      BY AgentInvKept, TallyKept
<1>3. AgentInv /\ TallyInv => AgentTypeOK
  <2>1. ASSUME AgentInv, TallyInv
        PROVE  AgentTypeOK
    <3>1. TurnsOK /\ InstallsOK
          BY <2>1, EpochsBounded DEF AgentInv, InstallInv, TallyInv, CountInv
    <3>2. ConfirmOK
          BY <2>1 DEF AgentInv, TurnInv, TurnShape, PressRecords, Outcomes, TallyInv,
             ConfirmOK
    <3> QED BY <3>1, <3>2 DEF AgentTypeOK
  <2> QED BY <2>1
<1> QED BY <1>1, <1>2, <1>3, PTL DEF AgentSpec

\* With members, cards and installs at work in it, and the faults they spend, the
\* workspace keeps what it promises alone: the types, fresh lookups, links used
\* once, old keys dead before new ones, and every key accounted for.
THEOREM WorkspaceStaysSafe ==
    AgentSpec => [](TypeOK /\ NoOlderKey /\ OneFlowPerLink /\ NeverTwoKeys
                    /\ KeysAccountedFor)
<1>1. AgentInit => WorkspaceInv
      BY WorkspaceBegins DEF AgentInit
<1>2. WorkspaceInv /\ [AgentNext]_<<vars, agentVars>> => WorkspaceInv'
      BY AgentMovesWorkspace, WorkspaceInvKept
<1>3. WorkspaceInv => TypeOK /\ NoOlderKey /\ OneFlowPerLink /\ NeverTwoKeys
                      /\ KeysAccountedFor
      BY WorkspaceSuffices
<1> QED BY <1>1, <1>2, <1>3, PTL DEF AgentSpec

\* And its purges spare what is newer than the teardown they are for.
THEOREM PurgesStaySparing == AgentSpec => PurgeSparesFresh
<1>1. AgentInit => WorkspaceInv
      BY WorkspaceBegins DEF AgentInit
<1>2. WorkspaceInv /\ [AgentNext]_<<vars, agentVars>> => WorkspaceInv'
      BY AgentMovesWorkspace, WorkspaceInvKept
<1>3. WorkspaceInv /\ [AgentNext]_<<vars, agentVars>>
         => [/\ row.bot # 0 /\ row'.bot = 0 => removed > 0 /\ row.stamp <= removed
             /\ mapping.owner # "none" /\ mapping'.owner = "none"
                    => \E j \in Jobs : /\ purge[j].pc # "idle"
                                       /\ mapping.stamp <= TeardownTime(j)
             /\ \A t \in Tables \ {"agent"} :
                    tables[t] # 0 /\ tables'[t] = 0
                    => \E j \in Jobs : /\ purge[j].pc # "idle"
                                       /\ tables[t] <= TeardownTime(j)]_vars
      BY AgentMovesWorkspace, PurgesSpare DEF WorkspaceInv
<1> QED BY <1>1, <1>2, <1>3, PTL DEF AgentSpec, PurgeSparesFresh

=============================================================================
