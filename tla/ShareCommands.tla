---------------------------- MODULE ShareCommands ----------------------------
(***************************************************************************)
(* The lifecycle commands of one machine: qurl start, restart, restart     *)
(* --target (move), publish, stop and delete (cmd/share_lifecycle.go,      *)
(* cmd/publish.go, cmd/delete.go).  Each is a process of its own that      *)
(* interleaves with the others at every request and every registry         *)
(* operation, and that may be killed between two of them.                  *)
(*                                                                         *)
(* The platform is the environment: an answered request has been applied,  *)
(* a lost one may or may not have been.  What the daemon does with Ensure  *)
(* and reload is in ShareDaemon; ShareSystem puts the two together.        *)
(***************************************************************************)
EXTENDS LocalShares

CONSTANT Commands

VARIABLES
    cloud,       \* the sharing record of each resource at the platform
    authorized,  \* history: the epochs at which the platform was ever on
    cmd          \* where each command is, and what it has read

commandVars == <<cloud, authorized, cmd>>

Kinds == {"start", "restart", "move", "publish", "stop", "delete"}

Reply == [on : BOOLEAN, epoch : Epochs]
NoReply == [on |-> FALSE, epoch |-> 0]

Calls == {"prior", "authorize", "reconcile", "store", "ensure", "wait",
          "compOff", "compGet", "compStore", "stopCloud", "stopStore",
          "reload", "deleteCloud", "deleteCheck", "deleteRow"}

Fresh == [pc |-> "idle", kind |-> "start", res |-> CHOOSE r \in Resources : TRUE,
          target |-> "none", local |-> NoRow, prior |-> NoReply,
          sharing |-> NoReply]

CommandsOK ==
    /\ cloud \in [Resources ->
                     [active : BOOLEAN, on : BOOLEAN, epoch : Epochs]]
    /\ authorized \in [Resources -> SUBSET Epochs]
    /\ cmd \in [Commands ->
                   [pc : Calls \cup {"idle", "done"}, kind : Kinds,
                    res : Resources, target : Targets \cup {"none"},
                    local : Row \cup {NoRow}, prior : Reply,
                    sharing : Reply]]

CommandsInit ==
    /\ cloud = [r \in Resources |->
                   [active |-> TRUE, on |-> FALSE, epoch |-> 0]]
    /\ authorized = [r \in Resources |-> {}]
    /\ cmd = [c \in Commands |-> Fresh]

At(c, pc) == cmd[c].pc = pc
Res(c) == cmd[c].res

Goto(c, pc) == cmd' = [cmd EXCEPT ![c].pc = pc]
Finish(c) == cmd' = [cmd EXCEPT ![c] = [Fresh EXCEPT !.pc = "done"]]

-----------------------------------------------------------------------------
(* The platform.                                                           *)

Answer(r) == [on |-> cloud[r].on, epoch |-> cloud[r].epoch]

\* A PUT is idempotent.  Turning off may keep the epoch; turning on and
\* restarting fence a new one.
AfterSet(r, on) ==
    IF cloud[r].on = on THEN {Answer(r)}
    ELSE {[on |-> on, epoch |-> e] :
             e \in {cloud[r].epoch + 1} \cup
                   (IF on THEN {} ELSE {cloud[r].epoch})}

AfterRestart(r) == {[on |-> TRUE, epoch |-> cloud[r].epoch + 1]}

Apply(r, state) ==
    /\ state.epoch \in Epochs
    /\ cloud[r].active
    /\ cloud' = [cloud EXCEPT ![r] = [active |-> TRUE, on |-> state.on,
                                      epoch |-> state.epoch]]
    /\ authorized' = IF state.on
                         THEN [authorized EXCEPT ![r] = @ \cup {state.epoch}]
                         ELSE authorized

\* A request whose answer is lost, with and without its effect.
Lose(r, states) ==
    \/ UNCHANGED <<cloud, authorized>>
    \/ \E state \in states : Apply(r, state)

-----------------------------------------------------------------------------
(* start, restart, restart --target and publish.                           *)

Changes == {"start", "restart", "move", "publish"}

\* controllableLocalShare, or the lookup activateLocalPublish makes.
BeginChange(c, kind, r, t) ==
    /\ At(c, "idle")
    /\ kind \in Changes
    /\ kind # "publish" => Present(r)
    /\ cmd' = [cmd EXCEPT ![c] =
                  [Fresh EXCEPT !.pc = "prior", !.kind = kind, !.res = r,
                                !.target = t, !.local = rows[r]]]
    /\ UNCHANGED <<rows, cloud, authorized>>

ReadPrior(c) ==
    /\ At(c, "prior")
    /\ cloud[Res(c)].active
    /\ cmd' = [cmd EXCEPT ![c].prior = Answer(Res(c)), ![c].pc = "authorize"]
    /\ UNCHANGED <<rows, cloud, authorized>>

ReadPriorFails(c) ==
    /\ At(c, "prior")
    /\ Finish(c)
    /\ UNCHANGED <<rows, cloud, authorized>>

\* A local row that a terminal denial turned off while the platform stayed
\* on needs a new epoch, as does a new origin or a row this machine lacks.
Restarts(k) ==
    \/ k.kind \in {"restart", "move"}
    \/ k.local # NoRow /\ ~k.local.on /\ k.prior.on
    \/ /\ k.kind = "publish"
       /\ \/ k.local # NoRow /\ k.local.target # k.target
          \/ k.local = NoRow /\ k.prior.on

CompensateOff(k) == Restarts(k) \/ ~k.prior.on

Fail(c) ==
    IF CompensateOff(cmd[c]) THEN Goto(c, "compOff") ELSE Finish(c)

Requested(c) ==
    IF Restarts(cmd[c]) THEN AfterRestart(Res(c)) ELSE AfterSet(Res(c), TRUE)

Authorize(c) ==
    /\ At(c, "authorize")
    /\ \E state \in Requested(c) :
           /\ Apply(Res(c), state)
           /\ cmd' = [cmd EXCEPT ![c].sharing = state, ![c].pc = "store"]
    /\ UNCHANGED rows

AuthorizeRefused(c) ==
    /\ At(c, "authorize")
    /\ Fail(c)
    /\ UNCHANGED <<rows, cloud, authorized>>

\* A restart is never repeated: its lost answer is settled by one read.
AuthorizeLost(c) ==
    /\ At(c, "authorize")
    /\ Lose(Res(c), Requested(c))
    /\ IF Restarts(cmd[c]) THEN Goto(c, "reconcile") ELSE Fail(c)
    /\ UNCHANGED rows

RestartAdvanced(k, reply) == reply.on /\ reply.epoch > k.prior.epoch

Reconcile(c) ==
    /\ At(c, "reconcile")
    /\ LET reply == Answer(Res(c)) IN
           IF cloud[Res(c)].active /\ RestartAdvanced(cmd[c], reply)
               THEN cmd' = [cmd EXCEPT ![c].sharing = reply, ![c].pc = "store"]
               ELSE Fail(c)
    /\ UNCHANGED <<rows, cloud, authorized>>

ReconcileFails(c) ==
    /\ At(c, "reconcile")
    /\ Fail(c)
    /\ UNCHANGED <<rows, cloud, authorized>>

\* publish stores a whole row, a move its origin with the epoch, the others
\* the epoch alone.
StoreAccepts(k) ==
    CASE k.kind = "publish" ->
             PutAccepts(k.res, [on |-> k.sharing.on, epoch |-> k.sharing.epoch,
                                target |-> k.target])
      [] k.kind = "move" -> RetargetAccepts(k.res, k.sharing.epoch)
      [] OTHER -> SetDesiredAccepts(k.res, k.sharing.on, k.sharing.epoch)

\* Mutant: a start writes its row as a move does.
StoreRowRetargets(k) ==
    IF k.kind = "publish"
        THEN Put(k.res, [on |-> k.sharing.on, epoch |-> k.sharing.epoch,
                         target |-> k.target])
        ELSE Retarget(k.res, k.target, k.sharing.epoch)

StoreRow(k) ==
    CASE k.kind = "publish" ->
             Put(k.res, [on |-> k.sharing.on, epoch |-> k.sharing.epoch,
                         target |-> k.target])
      [] k.kind = "move" -> Retarget(k.res, k.target, k.sharing.epoch)
      [] OTHER -> SetDesired(k.res, k.sharing.on, k.sharing.epoch)

Store(c) ==
    /\ At(c, "store")
    /\ StoreRow(cmd[c])
    /\ Goto(c, "ensure")
    /\ UNCHANGED <<cloud, authorized>>

StoreRefused(c) ==
    /\ At(c, "store")
    /\ ~StoreAccepts(cmd[c])
    /\ Fail(c)
    /\ UNCHANGED <<rows, cloud, authorized>>

\* daemon.Ensure has returned; ShareSystem says what it did to the daemon.
Ensured(c) ==
    /\ At(c, "ensure")
    /\ Goto(c, "wait")
    /\ UNCHANGED <<rows, cloud, authorized>>

EnsureFails(c) ==
    /\ At(c, "ensure")
    /\ Fail(c)
    /\ UNCHANGED <<rows, cloud, authorized>>

\* waitForSharing has seen its epoch serve, another epoch, or its deadline.
WaitEnds(c) ==
    /\ At(c, "wait")
    /\ Finish(c)
    /\ UNCHANGED <<rows, cloud, authorized>>

\* The platform does not know a revoked resource.
AnswersGone(c) ==
    /\ cmd[c].pc \in {"prior", "authorize", "compOff", "stopCloud"}
    /\ ~cloud[Res(c)].active
    /\ IF At(c, "authorize") THEN Fail(c) ELSE Finish(c)
    /\ UNCHANGED <<rows, cloud, authorized>>

-----------------------------------------------------------------------------
(* Compensation: the platform first, then the row.                         *)

\* Both compensation and stop write the off answer at the epoch it carries,
\* compared with the row they read.
OffAccepts(r, row, off) ==
    IF off.epoch = row.epoch
        THEN AtCurrentEpoch(r, off.epoch)
        ELSE SetDesiredAccepts(r, off.on, off.epoch)

\* Mutant: the off answer goes over whatever the row holds now.
WriteOffUnfenced(r, row, off) ==
    rows' = [rows EXCEPT ![r] = [on |-> FALSE, epoch |-> off.epoch,
                                 target |-> row.target]]

WriteOff(r, row, off) ==
    IF off.epoch = row.epoch
        THEN DisableAtCurrentEpoch(r, off.epoch)
        ELSE SetDesired(r, off.on, off.epoch)

CompensateCloud(c) ==
    /\ At(c, "compOff")
    /\ \E state \in AfterSet(Res(c), FALSE) :
           /\ Apply(Res(c), state)
           /\ cmd' = [cmd EXCEPT ![c].sharing = state, ![c].pc = "compGet"]
    /\ UNCHANGED rows

CompensateCloudFails(c) ==
    /\ At(c, "compOff")
    /\ Lose(Res(c), AfterSet(Res(c), FALSE))
    /\ Finish(c)
    /\ UNCHANGED rows

CompensateRead(c) ==
    /\ At(c, "compGet")
    /\ IF Present(Res(c))
           THEN cmd' = [cmd EXCEPT ![c].local = rows[Res(c)],
                                   ![c].pc = "compStore"]
           ELSE Finish(c)
    /\ UNCHANGED <<rows, cloud, authorized>>

CompensateStore(c) ==
    /\ At(c, "compStore")
    /\ \/ WriteOff(Res(c), cmd[c].local, cmd[c].sharing)
       \/ /\ ~OffAccepts(Res(c), cmd[c].local, cmd[c].sharing)
          /\ UNCHANGED rows
    /\ Finish(c)
    /\ UNCHANGED <<cloud, authorized>>

-----------------------------------------------------------------------------
(* stop and delete.                                                        *)

BeginStop(c, r) ==
    /\ At(c, "idle")
    /\ cmd' = [cmd EXCEPT ![c] =
                  [Fresh EXCEPT !.pc = "stopCloud", !.kind = "stop",
                                !.res = r, !.local = rows[r]]]
    /\ UNCHANGED <<rows, cloud, authorized>>

StopCloud(c) ==
    /\ At(c, "stopCloud")
    /\ \E state \in AfterSet(Res(c), FALSE) :
           /\ Apply(Res(c), state)
           /\ IF cmd[c].local = NoRow
                  THEN Finish(c)
                  ELSE cmd' = [cmd EXCEPT ![c].sharing = state,
                                          ![c].pc = "stopStore"]
    /\ UNCHANGED rows

StopCloudFails(c) ==
    /\ At(c, "stopCloud")
    /\ Lose(Res(c), AfterSet(Res(c), FALSE))
    /\ Finish(c)
    /\ UNCHANGED rows

\* A refused write is a warning: the resource is stopped at the platform.
StopStore(c) ==
    /\ At(c, "stopStore")
    /\ \/ WriteOff(Res(c), cmd[c].local, cmd[c].sharing) /\ Goto(c, "reload")
       \/ /\ ~OffAccepts(Res(c), cmd[c].local, cmd[c].sharing)
          /\ Finish(c)
          /\ UNCHANGED rows
    /\ UNCHANGED <<cloud, authorized>>

BeginDelete(c, r) ==
    /\ At(c, "idle")
    /\ cmd' = [cmd EXCEPT ![c] =
                  [Fresh EXCEPT !.pc = "deleteCloud", !.kind = "delete",
                                !.res = r]]
    /\ UNCHANGED <<rows, cloud, authorized>>

Revoke(r) == cloud' = [cloud EXCEPT ![r].active = FALSE, ![r].on = FALSE]

DeleteCloud(c) ==
    /\ At(c, "deleteCloud")
    /\ Revoke(Res(c))
    /\ Goto(c, "deleteRow")
    /\ UNCHANGED <<rows, authorized>>

DeleteCloudLost(c) ==
    /\ At(c, "deleteCloud")
    /\ Revoke(Res(c)) \/ UNCHANGED cloud
    /\ Goto(c, "deleteCheck")
    /\ UNCHANGED <<rows, authorized>>

\* cleanupAfterDeleteFailure: only a revoked resource loses its row.
DeleteCheck(c) ==
    /\ At(c, "deleteCheck")
    /\ IF cloud[Res(c)].active THEN Finish(c) ELSE Goto(c, "deleteRow")
    /\ UNCHANGED <<rows, cloud, authorized>>

DeleteRow(c) ==
    /\ At(c, "deleteRow")
    /\ IF Present(Res(c)) THEN Delete(Res(c)) /\ Goto(c, "reload")
                          ELSE Finish(c) /\ UNCHANGED rows
    /\ UNCHANGED <<cloud, authorized>>

\* ReloadIfRunning has returned; ShareSystem says what it did to the daemon.
Reloaded(c) ==
    /\ At(c, "reload")
    /\ Finish(c)
    /\ UNCHANGED <<rows, cloud, authorized>>

Killed(c) ==
    /\ cmd[c].pc \in Calls
    /\ Finish(c)
    /\ UNCHANGED <<rows, cloud, authorized>>

-----------------------------------------------------------------------------

CommandStep(c) ==
    \/ ReadPrior(c) \/ Authorize(c) \/ Reconcile(c)
    \/ Store(c) \/ StoreRefused(c) \/ WaitEnds(c) \/ AnswersGone(c)
    \/ CompensateCloud(c) \/ CompensateRead(c) \/ CompensateStore(c)
    \/ StopCloud(c) \/ StopStore(c)
    \/ DeleteCloud(c) \/ DeleteCheck(c) \/ DeleteRow(c)

CommandFault(c) ==
    \/ ReadPriorFails(c) \/ AuthorizeRefused(c) \/ AuthorizeLost(c)
    \/ ReconcileFails(c) \/ EnsureFails(c) \/ CompensateCloudFails(c)
    \/ StopCloudFails(c) \/ DeleteCloudLost(c) \/ Killed(c)

CommandBegins(c) ==
    \/ \E kind \in {"start", "restart"}, r \in Resources :
           BeginChange(c, kind, r, "none")
    \/ \E kind \in {"move", "publish"}, r \in Resources, t \in Targets :
           BeginChange(c, kind, r, t)
    \/ \E r \in Resources : BeginStop(c, r) \/ BeginDelete(c, r)
=============================================================================
