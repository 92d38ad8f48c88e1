----------------------- MODULE ConnectorInstallProofs -----------------------
(***************************************************************************)
(* What the moves of Connector installs keep, in whatever order they meet: *)
(* the invariant from which NothingLeftBehind and DeliveredWorks follow.   *)
(* It speaks of installs alone; SlackAgentProofs puts them in their place. *)
(***************************************************************************)
EXTENDS ConnectorInstall, TLAPS, FiniteSetTheorems

InstallMove(i) == Begin(i) \/ InstallStep(i) \/ InstallFault(i)

-----------------------------------------------------------------------------
(* The invariant.                                                          *)

InstallAsks == [slug : Slugs, alias : Aliases, attempt : Attempts]
SharingRecords == [on : BOOLEAN, epoch : Nat]
InstallRecords == [pc : InstallPcs, prior : SharingRecords, owns : BOOLEAN,
                   alone : BOOLEAN, spoiled : BOOLEAN]

InstallShape ==
    /\ asks \in [Installs -> InstallAsks]
    /\ alias \in [Aliases -> Slugs \cup {"none"}]
    /\ past \in [Aliases -> SUBSET (Slugs \cup {"none"})]
    /\ misled \subseteq Installs
    /\ sharing \in [Slugs -> SharingRecords]
    /\ token \in [Attempts -> {"none", "live", "revoked"}]
    /\ install \in [Installs -> InstallRecords]
    /\ \A i \in Installs : InstallAt(i, "idle") => install[i] = NoInstall

Issued == {"confirm", "dm", "instruct", "delivered"}

\* An install that is past the alias has it, unless it was misled.
AliasHeld ==
    \A i \in Installs :
        install[i].pc \in PastAlias /\ i \notin misled => alias[Alias(i)] = Slug(i)

\* An install knows that it is alone.
AloneAtWork ==
    \A i, j \in Installs :
        i # j /\ Slug(i) = Slug(j) /\ AtWork(i) /\ install[i].alone => ~AtWork(j)

\* What an install alone at a resource has read of it is what is there, but for
\* its own restart.
PriorRead ==
    \A i \in Installs :
        install[i].alone =>
            LET now == sharing[Slug(i)] prior == install[i].prior IN
            /\ InstallAt(i, "restart") => prior = now
            /\ InstallAt(i, "reconcile")
                   => \/ prior = now
                      \/ now.on /\ now.epoch = prior.epoch + 1

\* The token of an attempt made once is minted once.
TokenOfOneAttempt ==
    \A i \in Installs :
        Single(i) =>
            /\ install[i].pc \in {"idle", "resource", "lookup", "bind", "again",
                                  "read", "restart", "reconcile", "mint"}
                   => token[Attempt(i)] = "none"
            /\ install[i].pc \in Issued => token[Attempt(i)] = "live"

\* Sharing stays on for an install that met no other: whoever comes after its
\* delivery finds it on, and so does not turn it off.
StaysOn ==
    \A i \in Installs :
        install[i].alone =>
            /\ install[i].pc \in Issued \cup {"mint"} => sharing[Slug(i)].on
            /\ InstallAt(i, "delivered") =>
                   \A j \in Installs :
                       Slug(j) = Slug(i) /\ AtWork(j) =>
                           /\ ~install[j].owns
                           /\ install[j].pc \in {"restart", "reconcile"}
                                  => install[j].prior.on

\* Every live token, and sharing that is on, has an install that answers for it.
Vouches(i) == install[i].pc \in Issued \cup {"revoke"} \/ install[i].spoiled

TokenAnswered ==
    \A t \in Attempts :
        token[t] = "live" =>
            \E i \in Installs :
                Attempt(i) = t /\ Vouches(i)

AnswersFor(i) ==
    \/ InstallAt(i, "delivered") \/ install[i].spoiled \/ ~install[i].alone
    \/ /\ install[i].pc \in {"mint", "confirm", "dm", "instruct", "revoke", "off"}
       /\ install[i].owns
    \/ InstallAt(i, "reconcile") /\ ~install[i].prior.on

SharingAnswered ==
    \A s \in Slugs : sharing[s].on => \E i \in Installs : Slug(i) = s /\ AnswersFor(i)

InstallInv ==
    /\ InstallShape /\ AliasHeld /\ AloneAtWork /\ PriorRead
    /\ TokenOfOneAttempt /\ StaysOn /\ TokenAnswered /\ SharingAnswered
-----------------------------------------------------------------------------
(* The shape.                                                              *)

\* A new install is one like any other, at its first step.
LEMMA FirstRecord ==
    ASSUME NEW alone \in BOOLEAN
    PROVE  LET r == [NoInstall EXCEPT !.pc = "resource", !.alone = alone] IN
           /\ r \in InstallRecords
           /\ r.pc = "resource" /\ r.alone = alone /\ ~r.owns /\ ~r.spoiled
BY DEF NoInstall, InstallRecords, SharingRecords, InstallPcs

\* What beginning comes to: a new install, and rivals that from now on are not
\* alone.
BeginEffect(i) ==
    /\ install' \in [Installs -> InstallRecords]
    /\ asks' = asks /\ alias' = alias /\ sharing' = sharing /\ token' = token
    /\ past' = past /\ misled' = misled
    /\ install[i].pc = "idle" /\ ~install[i].spoiled /\ install[i].alone
    /\ install'[i].pc = "resource" /\ ~install'[i].owns /\ ~install'[i].spoiled
    /\ install'[i].alone =>
           \A k \in Installs \ {i} : Slug(k) = Slug(i) => ~AtWork(k)
    /\ \A k \in Installs \ {i} :
           /\ install'[k].pc = install[k].pc
           /\ install'[k].prior = install[k].prior
           /\ install'[k].owns = install[k].owns
           /\ install'[k].spoiled = install[k].spoiled
           /\ install'[k].alone => install[k].alone
           /\ install'[k].alone => ~(AtWork(k) /\ Slug(k) = Slug(i))
           /\ install'[k] = install[k] \/ AtWork(k)

\* Nothing of an install changes but its step and what it owns.
StepEffect(i, pc) ==
    /\ asks' = asks /\ token' = token /\ past' = past /\ misled' = misled
    /\ install'[i].pc = pc
    /\ install'[i].prior = install[i].prior
    /\ install'[i].alone = install[i].alone
    /\ install'[i].spoiled = install[i].spoiled
    /\ \A k \in Installs \ {i} : install'[k] = install[k]

BindEffect(i) ==
    /\ install[i].pc = "bind" /\ sharing' = sharing
    /\ install'[i].owns = install[i].owns
    /\ \/ /\ alias[Alias(i)] = "none"
          /\ alias' = [alias EXCEPT ![Alias(i)] = Slug(i)]
          /\ StepEffect(i, "read")
       \/ alias' = alias /\ StepEffect(i, "again")

ReconcileEffect(i) ==
    LET now == sharing[Slug(i)] prior == install[i].prior IN
    /\ install[i].pc = "reconcile" /\ sharing' = sharing /\ alias' = alias
    /\ \/ /\ now.on
          /\ install'[i].owns = ~prior.on
          /\ StepEffect(i, "mint")
       \/ /\ ~(now.on /\ now.epoch > prior.epoch)
          /\ install'[i].owns = install[i].owns
          /\ StepEffect(i, "failed")

\* The moves that write nothing but the install's own record.
QuietInstall(i) ==
    \/ FindOrCreate(i) \/ LookUpAlias(i) \/ LookAgain(i) \/ FailsEarly(i)
    \/ ConfirmToken(i) \/ SendToken(i) \/ Instruct(i) \/ DeliveryFails(i)
    \/ ReconcileFails(i) \/ CleanUpFails(i) \/ InstallDies(i)

QuietMove(i) ==
    LET pc == install[i].pc next == install'[i].pc IN
    \/ pc \in {"resource", "lookup"} /\ next \in {"lookup", "bind"}
    \/ /\ pc \in {"lookup", "again"} /\ next = "read"
       /\ alias[Alias(i)] = Slug(i) \/ i \in misled'
    \/ /\ pc \in {"resource", "lookup", "bind", "again", "read", "restart"}
       /\ next = "failed"
    \/ /\ pc \in {"confirm", "dm", "instruct"}
       /\ next \in {"dm", "instruct", "delivered", "revoke"}
    \/ /\ pc \in {"reconcile", "mint", "confirm", "dm", "instruct", "revoke", "off"}
       /\ next \in {"off", "failed"} /\ install'[i].spoiled

QuietEffect(i) ==
    /\ asks' = asks /\ alias' = alias /\ sharing' = sharing /\ token' = token
    /\ past' = past /\ misled' \in {misled, misled \cup {i}}
    /\ install'[i].prior = install[i].prior /\ install'[i].owns = install[i].owns
    /\ install'[i].alone = install[i].alone
    /\ install[i].spoiled => install'[i].spoiled
    /\ \A k \in Installs \ {i} : install'[k] = install[k]
    /\ QuietMove(i)

\* Beginning comes to no more.
LEMMA BeginComesTo ==
    ASSUME NEW i \in Installs, InstallShape, Begin(i)
    PROVE  BeginEffect(i)
<1> DEFINE rivals == {j \in Installs \ {i} : AtWork(j) /\ Slug(j) = Slug(i)}
           first == [NoInstall EXCEPT !.pc = "resource", !.alone = rivals = {}]
<1>1. install' = [j \in Installs |->
                     CASE j = i -> first
                       [] j \in rivals -> [install[j] EXCEPT !.alone = FALSE]
                       [] OTHER -> install[j]]
      BY DEF Begin
<1>2. /\ first \in InstallRecords
      /\ first.pc = "resource" /\ first.alone = (rivals = {})
      /\ ~first.owns /\ ~first.spoiled
      BY FirstRecord
<1>3. install'[i] = first
      BY <1>1
<1>4. ASSUME NEW k \in Installs \ {i}
      PROVE  /\ k \in rivals => install'[k] = [install[k] EXCEPT !.alone = FALSE]
             /\ k \notin rivals => install'[k] = install[k]
      BY <1>1
<1>5. ASSUME NEW k \in Installs \ {i}
      PROVE  /\ install'[k] \in InstallRecords
             /\ install'[k].pc = install[k].pc
             /\ install'[k].prior = install[k].prior
             /\ install'[k].owns = install[k].owns
             /\ install'[k].spoiled = install[k].spoiled
             /\ install'[k].alone = (install[k].alone /\ k \notin rivals)
  <2>1. install[k] \in [pc : InstallPcs, prior : SharingRecords, owns : BOOLEAN,
                        alone : BOOLEAN, spoiled : BOOLEAN]
        BY DEF InstallShape, InstallRecords
  <2>2. CASE k \in rivals
    <3>1. install'[k] = [install[k] EXCEPT !.alone = FALSE]
          BY <1>4, <2>2
    <3> QED BY <2>1, <2>2, <3>1 DEF InstallRecords
  <2>3. CASE k \notin rivals
        BY <1>4, <2>1, <2>3 DEF InstallRecords
  <2> QED BY <2>2, <2>3
<1>6. install' \in [Installs -> InstallRecords]
  <2>1. \A k \in Installs : install'[k] \in InstallRecords
        BY <1>2, <1>3, <1>5
  <2>2. install' = [k \in Installs |-> install'[k]]
        BY <1>1
  <2> QED BY <2>1, <2>2
<1>7. install[i].pc = "idle" /\ ~install[i].spoiled /\ install[i].alone
  <2>1. install[i] = NoInstall
        BY DEF Begin, InstallAt, InstallShape
  <2> QED BY <2>1 DEF NoInstall
<1>8. UNCHANGED <<asks, resources, alias, past, misled, sharing, token>>
      BY DEF Begin
<1>9. ASSUME NEW k \in Installs \ {i}
      PROVE  install'[k] = install[k] \/ AtWork(k)
      BY <1>4
<1> QED BY <1>2, <1>3, <1>5, <1>6, <1>7, <1>8, <1>9 DEF BeginEffect

\* An alias is bound when it is free, and only then.
LEMMA BindComesTo ==
    ASSUME NEW i \in Installs, InstallShape, BindAlias(i)
    PROVE  BindEffect(i)
<1>1. CASE alias[Alias(i)] = "none"
  <2>1. InstallGoes(i, "read") /\ alias' = [alias EXCEPT ![Alias(i)] = Slug(i)]
        BY <1>1 DEF BindAlias
  <2> QED BY <1>1, <2>1 DEF BindAlias, InstallAt, InstallGoes,
            BindEffect, StepEffect, InstallShape, InstallRecords
<1>2. CASE alias[Alias(i)] # "none"
  <2>1. InstallGoes(i, "again") /\ alias' = alias
        BY <1>2 DEF BindAlias
  <2> QED BY <2>1 DEF BindAlias, InstallAt, InstallGoes,
            BindEffect, StepEffect, InstallShape, InstallRecords
<1> QED BY <1>1, <1>2

\* Sharing that is on at a newer epoch is taken for one's own, any other is not.
LEMMA ReconcileComesTo ==
    ASSUME NEW i \in Installs, InstallShape, Reconcile(i)
    PROVE  ReconcileEffect(i)
<1>1. CASE sharing[Slug(i)].on /\ sharing[Slug(i)].epoch > install[i].prior.epoch
  <2>1. Enabled(i)
        BY <1>1 DEF Reconcile
  <2> QED BY <1>1, <2>1 DEF Reconcile, InstallAt, Enabled,
            ReconcileEffect, StepEffect, InstallShape, InstallRecords
<1>2. CASE ~(sharing[Slug(i)].on /\ sharing[Slug(i)].epoch > install[i].prior.epoch)
  <2>1. InstallGoes(i, "failed")
        BY <1>2 DEF Reconcile
  <2> QED BY <1>2, <2>1 DEF Reconcile, InstallAt, InstallGoes,
            ReconcileEffect, StepEffect, InstallShape, InstallRecords
<1> QED BY <1>1, <1>2

\* A move is one of these.
LEMMA InstallMoveCases ==
    ASSUME NEW i \in Installs, InstallMove(i)
    PROVE  \/ Begin(i) \/ QuietInstall(i) \/ BindAlias(i) \/ ReadSharing(i) \/ Restart(i)
           \/ Reconcile(i) \/ MintToken(i) \/ RevokeToken(i) \/ TurnOff(i)
           \/ BindReplyLost(i) \/ RestartUnclear(i) \/ MintFails(i)
BY DEF InstallMove, InstallStep, InstallFault, QuietInstall

\* An install that reads its alias bound has it, or was misled.
LEMMA BelieverComesTo ==
    ASSUME NEW i \in Installs, InstallShape, install[i].pc \in {"lookup", "again"},
           InstallGoes(i, "read"), Believes(i, Slug(i)),
           UNCHANGED <<asks, alias, past, sharing, token>>
    PROVE  QuietEffect(i)
<1>1. /\ misled' \in {misled, misled \cup {i}}
      /\ alias[Alias(i)] = Slug(i) \/ i \in misled'
      BY DEF Believes
<1>2. /\ install'[i].pc = "read"
      /\ install'[i].prior = install[i].prior /\ install'[i].owns = install[i].owns
      /\ install'[i].alone = install[i].alone
      /\ install'[i].spoiled = install[i].spoiled
      /\ \A k \in Installs \ {i} : install'[k] = install[k]
      BY DEF InstallGoes, InstallShape, InstallRecords
<1> QED BY <1>1, <1>2 DEF QuietEffect, QuietMove

\* A quiet move goes on, fails with nothing to undo, or spoils the install.
LEMMA QuietComesTo ==
    ASSUME NEW i \in Installs, InstallShape, QuietInstall(i)
    PROVE  QuietEffect(i)
<1>1. CASE FindOrCreate(i)
      BY <1>1 DEF FindOrCreate, InstallAt, InstallGoes,
         QuietEffect, QuietMove, InstallShape, InstallRecords
<1>2. CASE LookUpAlias(i)
  <2>1. PICK bound \in Seen(i) :
            /\ InstallGoes(i, CASE bound = Slug(i) -> "read"
                                [] bound = "none"  -> "bind"
                                [] OTHER           -> "failed")
            /\ Believes(i, bound)
        BY <1>2 DEF LookUpAlias
  <2>2. Slug(i) # "none"
        BY SlugAssumption DEF Slug, InstallShape, InstallAsks
  <2>3. CASE bound = Slug(i)
    <3>1. InstallGoes(i, "read")
          BY <2>1, <2>2, <2>3
    <3> QED BY <1>2, <2>1, <2>3, <3>1, BelieverComesTo DEF LookUpAlias, InstallAt
  <2>4. CASE bound # Slug(i)
    <3>1. InstallGoes(i, "bind") \/ InstallGoes(i, "failed")
          BY <2>1, <2>4
    <3>2. misled' = misled
          BY <2>1, <2>4 DEF Believes
    <3> QED BY <1>2, <3>1, <3>2 DEF LookUpAlias, InstallAt, InstallGoes, QuietEffect,
               QuietMove, InstallShape, InstallRecords
  <2> QED BY <2>3, <2>4
<1>3. CASE LookAgain(i)
  <2>1. PICK bound \in Seen(i) :
            /\ InstallGoes(i, IF bound = Slug(i) THEN "read" ELSE "failed")
            /\ Believes(i, bound)
        BY <1>3 DEF LookAgain
  <2>2. CASE bound = Slug(i)
        BY <1>3, <2>1, <2>2, BelieverComesTo DEF LookAgain, InstallAt
  <2>3. CASE bound # Slug(i)
    <3>1. InstallGoes(i, "failed") /\ misled' = misled
          BY <2>1, <2>3 DEF Believes
    <3> QED BY <1>3, <3>1 DEF LookAgain, InstallAt, InstallGoes, QuietEffect,
               QuietMove, InstallShape, InstallRecords
  <2> QED BY <2>2, <2>3
<1>4. CASE FailsEarly(i)
      BY <1>4 DEF FailsEarly, InstallAt, InstallGoes,
         QuietEffect, QuietMove, InstallShape, InstallRecords
<1>5. CASE ConfirmToken(i)
      BY <1>5 DEF ConfirmToken, InstallAt, InstallGoes,
         QuietEffect, QuietMove, InstallShape, InstallRecords
<1>6. CASE SendToken(i)
      BY <1>6 DEF SendToken, InstallAt, InstallGoes,
         QuietEffect, QuietMove, InstallShape, InstallRecords
<1>7. CASE Instruct(i)
      BY <1>7 DEF Instruct, InstallAt, InstallGoes,
         QuietEffect, QuietMove, InstallShape, InstallRecords
<1>8. CASE DeliveryFails(i)
      BY <1>8 DEF DeliveryFails, InstallAt, InstallGoes,
         QuietEffect, QuietMove, InstallShape, InstallRecords
<1>9. CASE ReconcileFails(i)
      BY <1>9 DEF ReconcileFails, InstallAt, Spoils,
         QuietEffect, QuietMove, InstallShape, InstallRecords
<1>10. CASE CleanUpFails(i)
      BY <1>10 DEF CleanUpFails, InstallAt, Spoils,
         QuietEffect, QuietMove, InstallShape, InstallRecords
<1>11. CASE InstallDies(i)
      BY <1>11 DEF InstallDies, InstallAt, Spoils, Settled,
         QuietEffect, QuietMove, InstallShape, InstallRecords, InstallPcs
<1> QED BY <1>1, <1>2, <1>3, <1>4, <1>5, <1>6, <1>7,
         <1>8, <1>9, <1>10, <1>11 DEF QuietInstall

\* An install that goes on keeps the rest of its record.
LEMMA GoesTyped ==
    ASSUME NEW i \in Installs, NEW pc \in InstallPcs,
           install \in [Installs -> InstallRecords]
    PROVE  InstallGoes(i, pc) \/ Spoils(i, pc)
               => install' \in [Installs -> InstallRecords]
<1>1. /\ [install[i] EXCEPT !.pc = pc] \in InstallRecords
      /\ [install[i] EXCEPT !.pc = pc, !.spoiled = TRUE] \in InstallRecords
      BY DEF InstallRecords
<1> QED BY <1>1 DEF InstallGoes, Spoils

\* So does one that has turned sharing on, or read it.
LEMMA EnabledTyped ==
    ASSUME NEW i \in Installs, Enabled(i) \/ ReadSharing(i), InstallShape
    PROVE  install' \in [Installs -> InstallRecords]
<1>1. install[i] \in InstallRecords /\ install[i].prior.on \in BOOLEAN
      BY DEF InstallShape, InstallRecords, SharingRecords
<1>2. sharing[Slug(i)] \in SharingRecords
      BY DEF InstallShape, InstallAsks, Slug
<1>3. /\ [install[i] EXCEPT !.pc = "mint", !.owns = ~install[i].prior.on]
             \in InstallRecords
      /\ [install[i] EXCEPT !.pc = "restart", !.prior = sharing[Slug(i)]]
             \in InstallRecords
      BY <1>1, <1>2 DEF InstallRecords, InstallPcs
<1> QED BY <1>3 DEF Enabled, ReadSharing, InstallShape

\* Every move keeps the records.
LEMMA InstallTyped ==
    ASSUME NEW i \in Installs, InstallMove(i), InstallShape
    PROVE  install' \in [Installs -> InstallRecords]
<1>1. CASE Begin(i)
      BY <1>1, BeginComesTo DEF BeginEffect
<1>2. CASE FindOrCreate(i)
      BY <1>2, GoesTyped DEF FindOrCreate, InstallShape, InstallPcs
<1>3. CASE LookUpAlias(i)
  <2>1. PICK pc \in {"read", "bind", "failed"} : InstallGoes(i, pc)
        BY <1>3 DEF LookUpAlias
  <2> QED BY <2>1, GoesTyped DEF InstallShape, InstallPcs
<1>4. CASE BindAlias(i)
      BY <1>4, GoesTyped DEF BindAlias, InstallShape, InstallPcs
<1>5. CASE LookAgain(i)
  <2>1. PICK pc \in {"read", "bind", "failed"} : InstallGoes(i, pc)
        BY <1>5 DEF LookAgain
  <2> QED BY <2>1, GoesTyped DEF InstallShape, InstallPcs
<1>6. CASE ReadSharing(i)
      BY <1>6, EnabledTyped
<1>7. CASE Restart(i)
      BY <1>7, EnabledTyped DEF Restart
<1>8. CASE Reconcile(i)
      BY <1>8, EnabledTyped, GoesTyped DEF Reconcile, InstallShape, InstallPcs
<1>9. CASE MintToken(i)
      BY <1>9, GoesTyped DEF MintToken, InstallShape, InstallPcs
<1>10. CASE ConfirmToken(i)
      BY <1>10, GoesTyped DEF ConfirmToken, InstallShape, InstallPcs
<1>11. CASE SendToken(i)
      BY <1>11, GoesTyped DEF SendToken, InstallShape, InstallPcs
<1>12. CASE Instruct(i)
      BY <1>12, GoesTyped DEF Instruct, InstallShape, InstallPcs
<1>13. CASE RevokeToken(i)
      BY <1>13, GoesTyped DEF RevokeToken, InstallShape, InstallPcs
<1>14. CASE TurnOff(i)
      BY <1>14, GoesTyped DEF TurnOff, InstallShape, InstallPcs
<1>15. CASE BindReplyLost(i)
      BY <1>15 DEF BindReplyLost, InstallShape
<1>16. CASE FailsEarly(i)
      BY <1>16, GoesTyped DEF FailsEarly, InstallShape, InstallPcs
<1>17. CASE RestartUnclear(i)
      BY <1>17, GoesTyped DEF RestartUnclear, InstallShape, InstallPcs
<1>18. CASE ReconcileFails(i)
      BY <1>18, GoesTyped DEF ReconcileFails, InstallShape, InstallPcs
<1>19. CASE MintFails(i)
      BY <1>19, GoesTyped DEF MintFails, InstallShape, InstallPcs
<1>20. CASE DeliveryFails(i)
      BY <1>20, GoesTyped DEF DeliveryFails, InstallShape, InstallPcs
<1>21. CASE CleanUpFails(i)
      BY <1>21, GoesTyped DEF CleanUpFails, InstallShape, InstallPcs
<1>22. CASE InstallDies(i)
      BY <1>22, GoesTyped DEF InstallDies, InstallShape, InstallPcs
<1> QED BY <1>1, <1>2, <1>3, <1>4, <1>5, <1>6, <1>7, <1>8, <1>9, <1>10, <1>11,
         <1>12, <1>13, <1>14, <1>15, <1>16, <1>17, <1>18, <1>19, <1>20, <1>21,
         <1>22 DEF InstallMove, InstallStep, InstallFault

\* Every move keeps the rest of the shape.
LEMMA OthersTyped ==
    ASSUME NEW i \in Installs, InstallMove(i), InstallShape
    PROVE  /\ asks' \in [Installs -> InstallAsks]
           /\ alias' \in [Aliases -> Slugs \cup {"none"}]
           /\ past' \in [Aliases -> SUBSET (Slugs \cup {"none"})]
           /\ misled' \subseteq Installs
           /\ sharing' \in [Slugs -> SharingRecords]
           /\ token' \in [Attempts -> {"none", "live", "revoked"}]
           /\ asks' = asks
<1>1. CASE Begin(i)
  <2>1. BeginEffect(i)
        BY <1>1, BeginComesTo
  <2> QED BY <2>1 DEF BeginEffect, InstallShape, Slug, Alias, Attempt,
             InstallAt, AtWork, Settled
<1>2. CASE QuietInstall(i)
  <2>1. QuietEffect(i)
        BY <1>2, QuietComesTo
  <2> QED BY <2>1 DEF QuietEffect, QuietMove, InstallShape, Slug, Alias,
             Attempt, InstallAt, AtWork, Settled
<1>3. CASE BindAlias(i)
  <2>1. BindEffect(i)
        BY <1>3, BindComesTo
  <2> QED BY <2>1 DEF BindEffect, StepEffect, InstallShape, InstallAsks,
             SharingRecords, Slug, Alias, Attempt, InstallAt
<1>4. CASE ReadSharing(i)
      BY <1>4 DEF ReadSharing, InstallAt, InstallShape, InstallAsks,
         SharingRecords, Slug, Alias, Attempt
<1>5. CASE Restart(i)
      BY <1>5 DEF Restart, InstallAt, Restarted, Enabled, InstallShape,
         InstallAsks, SharingRecords, Slug, Alias, Attempt
<1>6. CASE Reconcile(i)
  <2>1. ReconcileEffect(i)
        BY <1>6, ReconcileComesTo
  <2> QED BY <2>1 DEF ReconcileEffect, StepEffect, InstallShape, InstallAsks,
             SharingRecords, Slug, Alias, Attempt, InstallAt
<1>7. CASE MintToken(i)
      BY <1>7 DEF MintToken, InstallAt, InstallGoes, InstallShape, InstallAsks,
         SharingRecords, Slug, Alias, Attempt
<1>8. CASE RevokeToken(i)
      BY <1>8 DEF RevokeToken, InstallAt, InstallGoes, InstallShape,
         InstallAsks, SharingRecords, Slug, Alias, Attempt
<1>9. CASE TurnOff(i)
      BY <1>9 DEF TurnOff, InstallAt, InstallGoes, InstallShape, InstallAsks,
         SharingRecords, Slug, Alias, Attempt
<1>10. CASE BindReplyLost(i)
      BY <1>10 DEF BindReplyLost, InstallAt, InstallShape, InstallAsks,
         SharingRecords, Slug, Alias, Attempt
<1>11. CASE RestartUnclear(i)
  <2>1. CASE Restarted(Slug(i))
        BY <1>11, <2>1 DEF RestartUnclear, InstallAt, InstallGoes, Restarted,
           InstallShape, InstallAsks, SharingRecords, Slug, Alias, Attempt
  <2>2. CASE UNCHANGED sharing
        BY <1>11, <2>2 DEF RestartUnclear, InstallAt, InstallGoes, Restarted,
           InstallShape, InstallAsks, SharingRecords, Slug, Alias, Attempt
  <2> QED BY <1>11, <2>1, <2>2 DEF RestartUnclear
<1>12. CASE MintFails(i)
      BY <1>12 DEF MintFails, InstallAt, InstallGoes, Spoils, InstallShape,
         InstallAsks, SharingRecords, Slug, Alias, Attempt
<1> QED BY <1>1, <1>2, <1>3, <1>4, <1>5, <1>6, <1>7, <1>8, <1>9, <1>10, <1>11,
         <1>12, InstallMoveCases

\* An install that is idle is new.
LEMMA FreshKept ==
    ASSUME NEW i \in Installs, InstallMove(i), InstallShape
    PROVE  \A k \in Installs : InstallAt(k, "idle")' => install'[k] = NoInstall
<1>1. CASE Begin(i)
  <2>1. BeginEffect(i)
        BY <1>1, BeginComesTo
  <2> QED BY <2>1 DEF BeginEffect, InstallShape, InstallAt, AtWork, Settled,
             Slug
<1>2. CASE QuietInstall(i)
  <2>1. QuietEffect(i)
        BY <1>2, QuietComesTo
  <2> QED BY <2>1 DEF QuietEffect, QuietMove, InstallShape, InstallAt, AtWork,
             Settled, Slug, Alias, Attempt
<1>3. CASE BindAlias(i)
  <2>1. BindEffect(i)
        BY <1>3, BindComesTo
  <2> QED BY <2>1 DEF BindEffect, StepEffect, InstallShape, InstallAt,
             InstallRecords
<1>4. CASE ReadSharing(i)
      BY <1>4 DEF ReadSharing, InstallAt, InstallShape, InstallRecords
<1>5. CASE Restart(i)
      BY <1>5 DEF Restart, InstallAt, Restarted, Enabled, InstallShape,
         InstallRecords
<1>6. CASE Reconcile(i)
  <2>1. ReconcileEffect(i)
        BY <1>6, ReconcileComesTo
  <2> QED BY <2>1 DEF ReconcileEffect, StepEffect, InstallShape, InstallAt,
         InstallRecords
<1>7. CASE MintToken(i)
      BY <1>7 DEF MintToken, InstallAt, InstallGoes, InstallShape,
         InstallRecords
<1>8. CASE RevokeToken(i)
      BY <1>8 DEF RevokeToken, InstallAt, InstallGoes, InstallShape,
         InstallRecords
<1>9. CASE TurnOff(i)
      BY <1>9 DEF TurnOff, InstallAt, InstallGoes, InstallShape, InstallRecords
<1>10. CASE BindReplyLost(i)
      BY <1>10 DEF BindReplyLost, InstallAt, InstallShape, InstallRecords
<1>11. CASE RestartUnclear(i)
      BY <1>11 DEF RestartUnclear, InstallAt, InstallGoes, Restarted,
         InstallShape, InstallRecords
<1>12. CASE MintFails(i)
      BY <1>12 DEF MintFails, InstallAt, InstallGoes, Spoils, InstallShape,
         InstallRecords
<1> QED BY <1>1, <1>2, <1>3, <1>4, <1>5, <1>6, <1>7, <1>8, <1>9, <1>10, <1>11,
         <1>12, InstallMoveCases

\* No binding is written over, so that an install keeps its alias.
LEMMA AliasKept ==
    ASSUME NEW i \in Installs, InstallMove(i), InstallShape, AliasHeld
    PROVE  AliasHeld'
<1> SUFFICES ASSUME NEW k \in Installs, install'[k].pc \in PastAlias, k \notin misled'
             PROVE  alias'[Alias(k)'] = Slug(k)'
    BY DEF AliasHeld
<1>1. CASE Begin(i)
  <2>1. BeginEffect(i)
        BY <1>1, BeginComesTo
  <2> QED BY <2>1, SlugAssumption DEF BeginEffect, InstallShape, AliasHeld,
             Alias, Slug, PastAlias, InstallAt, AtWork, Settled
<1>2. CASE QuietInstall(i)
  <2>1. QuietEffect(i)
        BY <1>2, QuietComesTo
  <2> QED BY <2>1, SlugAssumption DEF QuietEffect, QuietMove, InstallShape,
             AliasHeld, Alias, Slug, PastAlias, InstallAt, AtWork, Settled,
             Attempt
<1>3. CASE BindAlias(i)
  <2>1. BindEffect(i)
        BY <1>3, BindComesTo
  <2> QED BY <2>1, SlugAssumption DEF BindEffect, StepEffect, InstallShape,
             InstallAsks, SharingRecords, InstallRecords, InstallPcs,
             AliasHeld, Alias, Slug, PastAlias, InstallAt
<1>4. CASE ReadSharing(i)
      BY <1>4, SlugAssumption DEF ReadSharing, InstallAt, InstallShape,
         InstallAsks, SharingRecords, InstallRecords, InstallPcs, AliasHeld,
         Alias, Slug, PastAlias
<1>5. CASE Restart(i)
      BY <1>5, SlugAssumption DEF Restart, InstallAt, Restarted, Enabled,
         InstallShape, InstallAsks, SharingRecords, InstallRecords, InstallPcs,
         AliasHeld, Alias, Slug, PastAlias
<1>6. CASE Reconcile(i)
  <2>1. ReconcileEffect(i)
        BY <1>6, ReconcileComesTo
  <2> QED BY <2>1, SlugAssumption DEF ReconcileEffect, StepEffect,
             InstallShape, InstallAsks, SharingRecords, InstallRecords,
             InstallPcs, AliasHeld, Alias, Slug, PastAlias, InstallAt
<1>7. CASE MintToken(i)
      BY <1>7, SlugAssumption DEF MintToken, InstallAt, InstallGoes,
         InstallShape, InstallAsks, SharingRecords, InstallRecords, InstallPcs,
         AliasHeld, Alias, Slug, PastAlias
<1>8. CASE RevokeToken(i)
      BY <1>8, SlugAssumption DEF RevokeToken, InstallAt, InstallGoes,
         InstallShape, InstallAsks, SharingRecords, InstallRecords, InstallPcs,
         AliasHeld, Alias, Slug, PastAlias
<1>9. CASE TurnOff(i)
      BY <1>9, SlugAssumption DEF TurnOff, InstallAt, InstallGoes,
         InstallShape, InstallAsks, SharingRecords, InstallRecords, InstallPcs,
         AliasHeld, Alias, Slug, PastAlias
<1>10. CASE BindReplyLost(i)
      BY <1>10, SlugAssumption DEF BindReplyLost, InstallAt, InstallShape,
         InstallAsks, SharingRecords, InstallRecords, InstallPcs, AliasHeld,
         Alias, Slug, PastAlias
<1>11. CASE RestartUnclear(i)
      BY <1>11, SlugAssumption DEF RestartUnclear, InstallAt, InstallGoes,
         Restarted, InstallShape, InstallAsks, SharingRecords, InstallRecords,
         InstallPcs, AliasHeld, Alias, Slug, PastAlias
<1>12. CASE MintFails(i)
      BY <1>12, SlugAssumption DEF MintFails, InstallAt, InstallGoes, Spoils,
         InstallShape, InstallAsks, SharingRecords, InstallRecords, InstallPcs,
         AliasHeld, Alias, Slug, PastAlias
<1> QED BY <1>1, <1>2, <1>3, <1>4, <1>5, <1>6, <1>7, <1>8, <1>9, <1>10, <1>11,
         <1>12, InstallMoveCases

\* An install that begins tells its rivals, and is told of them.
LEMMA AloneKept ==
    ASSUME NEW i \in Installs, InstallMove(i), InstallShape, AloneAtWork
    PROVE  AloneAtWork'
<1> SUFFICES ASSUME NEW j \in Installs, NEW k \in Installs, j # k, Slug(j)' = Slug(k)',
                    AtWork(j)', install'[j].alone
             PROVE  ~AtWork(k)'
    BY DEF AloneAtWork
<1>1. CASE Begin(i)
  <2>1. BeginEffect(i)
        BY <1>1, BeginComesTo
  <2> QED BY <2>1 DEF BeginEffect, InstallShape, AloneAtWork, Slug, AtWork,
             Settled, InstallAt
<1>2. CASE QuietInstall(i)
  <2>1. QuietEffect(i)
        BY <1>2, QuietComesTo
  <2> QED BY <2>1 DEF QuietEffect, QuietMove, InstallShape, AloneAtWork, Slug,
             AtWork, Settled, InstallAt, Alias, Attempt
<1>3. CASE BindAlias(i)
  <2>1. BindEffect(i)
        BY <1>3, BindComesTo
  <2>2. \A x \in Installs : /\ install'[x].alone = install[x].alone
                             /\ Slug(x)' = Slug(x)
        BY <2>1 DEF BindEffect, StepEffect, Slug
  <2>3. \A x \in Installs : AtWork(x)' <=> AtWork(x)
        BY <2>1 DEF BindEffect, StepEffect, AtWork, Settled
  <2> QED BY <2>2, <2>3 DEF AloneAtWork
<1>4. CASE ReadSharing(i)
  <2>1. /\ install' = [install EXCEPT ![i].pc = "restart", ![i].prior = sharing[Slug(i)]]
        /\ asks' = asks /\ install[i].pc = "read" /\ install \in [Installs -> InstallRecords]
        BY <1>4 DEF ReadSharing, InstallAt, InstallShape
  <2>2. \A x \in Installs : install'[x].alone = install[x].alone
        BY <2>1 DEF InstallRecords
  <2>3. \A x \in Installs : (AtWork(x)' <=> AtWork(x)) /\ Slug(x)' = Slug(x)
        BY <2>1 DEF InstallRecords, AtWork, Settled, Slug
  <2> QED BY <2>2, <2>3 DEF AloneAtWork
<1>5. CASE Restart(i)
  <2>1. /\ install' = [install EXCEPT ![i].pc = "mint", ![i].owns = ~install[i].prior.on]
        /\ asks' = asks /\ install[i].pc = "restart" /\ install \in [Installs -> InstallRecords]
        BY <1>5 DEF Restart, Enabled, InstallAt, InstallShape
  <2>2. \A x \in Installs : install'[x].alone = install[x].alone
        BY <2>1 DEF InstallRecords
  <2>3. \A x \in Installs : (AtWork(x)' <=> AtWork(x)) /\ Slug(x)' = Slug(x)
        BY <2>1 DEF InstallRecords, AtWork, Settled, Slug
  <2> QED BY <2>2, <2>3 DEF AloneAtWork
<1>6. CASE Reconcile(i)
  <2>1. ReconcileEffect(i)
        BY <1>6, ReconcileComesTo
  <2>2. \A x \in Installs : install'[x].alone = install[x].alone
        BY <2>1 DEF ReconcileEffect, StepEffect
  <2>3. \A x \in Installs : AtWork(x)' => AtWork(x)
    <3>1. \A x \in Installs \ {i} : install'[x] = install[x]
          BY <2>1 DEF ReconcileEffect, StepEffect
    <3>2. AtWork(i)
          BY <2>1 DEF ReconcileEffect, AtWork, Settled
    <3> QED BY <3>1, <3>2 DEF AtWork
  <2>4. \A x \in Installs : Slug(x)' = Slug(x)
        BY <2>1 DEF ReconcileEffect, StepEffect, Slug
  <2> QED BY <2>2, <2>3, <2>4 DEF AloneAtWork
<1>7. CASE MintToken(i)
      BY <1>7 DEF MintToken, InstallAt, InstallGoes, InstallShape, InstallAsks,
         SharingRecords, InstallRecords, InstallPcs, AloneAtWork, Slug, AtWork,
         Settled
<1>8. CASE RevokeToken(i)
      BY <1>8 DEF RevokeToken, InstallAt, InstallGoes, InstallShape,
         InstallAsks, SharingRecords, InstallRecords, InstallPcs, AloneAtWork,
         Slug, AtWork, Settled
<1>9. CASE TurnOff(i)
      BY <1>9 DEF TurnOff, InstallAt, InstallGoes, InstallShape, InstallAsks,
         SharingRecords, InstallRecords, InstallPcs, AloneAtWork, Slug, AtWork,
         Settled
<1>10. CASE BindReplyLost(i)
      BY <1>10 DEF BindReplyLost, InstallAt, InstallShape, InstallAsks,
         SharingRecords, InstallRecords, InstallPcs, AloneAtWork, Slug, AtWork,
         Settled
<1>11. CASE RestartUnclear(i)
  <2>1. /\ install' = [install EXCEPT ![i].pc = "reconcile"]
        /\ asks' = asks /\ install[i].pc = "restart" /\ install \in [Installs -> InstallRecords]
        BY <1>11 DEF RestartUnclear, InstallGoes, InstallAt, InstallShape
  <2>2. \A x \in Installs : install'[x].alone = install[x].alone
        BY <2>1 DEF InstallRecords
  <2>3. \A x \in Installs : (AtWork(x)' <=> AtWork(x)) /\ Slug(x)' = Slug(x)
        BY <2>1 DEF InstallRecords, AtWork, Settled, Slug
  <2> QED BY <2>2, <2>3 DEF AloneAtWork
<1>12. CASE MintFails(i)
  <2>1. CASE UNCHANGED token /\ InstallGoes(i, "off")
        BY <1>12, <2>1 DEF MintFails, InstallAt, InstallGoes, Spoils,
           InstallShape, InstallAsks, SharingRecords, InstallRecords,
           InstallPcs, AloneAtWork, Slug, AtWork, Settled
  <2>2. CASE token' = [token EXCEPT ![Attempt(i)] = "live"] /\ Spoils(i, "off")
    <3>1. /\ install' = [install EXCEPT ![i].pc = "off", ![i].spoiled = TRUE]
          /\ asks' = asks /\ install[i].pc = "mint" /\ install \in [Installs -> InstallRecords]
          BY <1>12, <2>2 DEF MintFails, Spoils, InstallAt, InstallShape
    <3>2. \A x \in Installs : install'[x].alone = install[x].alone
          BY <3>1 DEF InstallRecords
    <3>3. \A x \in Installs : (AtWork(x)' <=> AtWork(x)) /\ Slug(x)' = Slug(x)
          BY <3>1 DEF InstallRecords, AtWork, Settled, Slug
    <3> QED BY <3>2, <3>3 DEF AloneAtWork
  <2> QED BY <1>12, <2>1, <2>2 DEF MintFails
<1> QED BY <1>1, <1>2, <1>3, <1>4, <1>5, <1>6, <1>7, <1>8, <1>9, <1>10, <1>11,
         <1>12, InstallMoveCases

\* While an install is alone nobody else touches what it read.
LEMMA PriorKept ==
    ASSUME NEW i \in Installs, InstallMove(i), InstallShape, AloneAtWork, PriorRead
    PROVE  PriorRead'
<1> SUFFICES ASSUME NEW k \in Installs, install'[k].alone
             PROVE  LET now == sharing'[Slug(k)'] prior == install'[k].prior IN
                    /\ InstallAt(k, "restart")' => prior = now
                    /\ InstallAt(k, "reconcile")'
                           => \/ prior = now
                              \/ now.on /\ now.epoch = prior.epoch + 1
    BY DEF PriorRead
<1>1. CASE Begin(i)
  <2>1. BeginEffect(i)
        BY <1>1, BeginComesTo
  <2> QED BY <2>1 DEF BeginEffect, InstallShape, AloneAtWork, PriorRead, Slug,
             AtWork, Settled, InstallAt
<1>2. CASE QuietInstall(i)
  <2>1. QuietEffect(i)
        BY <1>2, QuietComesTo
  <2> QED BY <2>1 DEF QuietEffect, QuietMove, InstallShape, AloneAtWork,
             PriorRead, Slug, AtWork, Settled, InstallAt, Alias, Attempt
<1>3. CASE BindAlias(i)
  <2>1. BindEffect(i)
        BY <1>3, BindComesTo
  <2>2. CASE k = i
        BY <2>1, <2>2 DEF BindEffect, StepEffect, InstallShape, InstallAsks,
           SharingRecords, InstallRecords, InstallPcs, AloneAtWork, PriorRead,
           Slug, AtWork, Settled, InstallAt
  <2>3. CASE k # i
        BY <2>1, <2>3 DEF BindEffect, StepEffect, InstallShape, InstallAsks,
           SharingRecords, InstallRecords, InstallPcs, AloneAtWork, PriorRead,
           Slug, AtWork, Settled, InstallAt
  <2> QED BY <2>2, <2>3
<1>4. CASE ReadSharing(i)
      BY <1>4 DEF ReadSharing, InstallAt, InstallShape, InstallAsks,
         SharingRecords, InstallRecords, InstallPcs, AloneAtWork, PriorRead,
         Slug, AtWork, Settled
<1>5. CASE Restart(i)
  <2>1. /\ install' = [install EXCEPT ![i].pc = "mint", ![i].owns = ~install[i].prior.on]
        /\ asks' = asks /\ install[i].pc = "restart"
        /\ install \in [Installs -> InstallRecords] /\ asks \in [Installs -> InstallAsks]
        /\ sharing \in [Slugs -> SharingRecords]
        BY <1>5 DEF Restart, Enabled, InstallAt, InstallShape
  <2>2. Slug(k)' = Slug(k)
        BY <2>1 DEF Slug
  <2>3. CASE k = i
    <3>1. install'[k].pc = "mint"
          BY <2>1, <2>3 DEF InstallRecords
    <3> QED BY <3>1 DEF InstallAt
  <2>4. CASE k # i
    <3>1. install'[k] = install[k]
          BY <2>1, <2>4
    <3>2. CASE install[k].pc \in {"restart", "reconcile"}
      <4>1. Slug(k) # Slug(i)
            BY <2>1, <2>4, <3>1, <3>2 DEF AloneAtWork, AtWork, Settled
      <4>2. sharing'[Slug(k)] = sharing[Slug(k)]
        <5>1. Slug(k) \in Slugs
              BY <2>1 DEF Slug, InstallAsks
        <5> QED BY <1>5, <2>1, <4>1, <5>1 DEF Restart, Restarted
      <4> QED BY <2>2, <3>1, <4>2 DEF PriorRead, InstallAt
    <3>3. CASE install[k].pc \notin {"restart", "reconcile"}
          BY <3>1, <3>3 DEF InstallAt
    <3> QED BY <3>2, <3>3
  <2> QED BY <2>3, <2>4
<1>6. CASE Reconcile(i)
  <2>1. ReconcileEffect(i)
        BY <1>6, ReconcileComesTo
  <2> QED BY <2>1 DEF ReconcileEffect, StepEffect, InstallShape, InstallAsks,
             SharingRecords, InstallRecords, InstallPcs, AloneAtWork,
             PriorRead, Slug, AtWork, Settled, InstallAt
<1>7. CASE MintToken(i)
      BY <1>7 DEF MintToken, InstallAt, InstallGoes, InstallShape, InstallAsks,
         SharingRecords, InstallRecords, InstallPcs, AloneAtWork, PriorRead,
         Slug, AtWork, Settled
<1>8. CASE RevokeToken(i)
      BY <1>8 DEF RevokeToken, InstallAt, InstallGoes, InstallShape,
         InstallAsks, SharingRecords, InstallRecords, InstallPcs, AloneAtWork,
         PriorRead, Slug, AtWork, Settled
<1>9. CASE TurnOff(i)
  <2>1. /\ install' = [install EXCEPT ![i].pc = "failed"] /\ install[i].pc = "off"
        /\ asks' = asks /\ install \in [Installs -> InstallRecords]
        /\ asks \in [Installs -> InstallAsks]
        BY <1>9 DEF TurnOff, InstallGoes, InstallAt, InstallShape
  <2>2. k # i => install'[k] = install[k]
        BY <2>1
  <2>3. k = i => install'[k].pc = "failed"
        BY <2>1 DEF InstallRecords
  <2>5. sharing' = sharing \/ sharing' = [sharing EXCEPT ![Slug(i)].on = FALSE]
        BY <1>9 DEF TurnOff
  <2>6. k # i /\ install[k].pc \in {"restart", "reconcile"} => Slug(k) # Slug(i)
    <3>1. install[i].pc \notin Settled /\ (k # i => install[k].alone)
          BY <2>1, <2>2 DEF Settled
    <3> QED BY <3>1 DEF AloneAtWork, AtWork, Settled
  <2>7. Slug(k) # Slug(i) => sharing'[Slug(k)] = sharing[Slug(k)]
    <3>1. Slug(k) \in Slugs /\ sharing \in [Slugs -> SharingRecords]
          BY <2>1 DEF Slug, InstallAsks, InstallShape
    <3> QED BY <2>5, <3>1
  <2>8. Slug(k)' = Slug(k)
        BY <2>1 DEF Slug
  <2>9. CASE k = i
        BY <2>3, <2>9 DEF InstallAt
  <2>10. CASE k # i
    <3>1. install'[k] = install[k]
          BY <2>2, <2>10
    <3>2. CASE install[k].pc \in {"restart", "reconcile"}
      <4>1. Slug(k) # Slug(i)
            BY <2>6, <2>10, <3>2
      <4>2. sharing'[Slug(k)'] = sharing[Slug(k)]
            BY <2>7, <2>8, <4>1
      <4> QED BY <3>1, <4>2 DEF PriorRead, InstallAt
    <3>3. CASE install[k].pc \notin {"restart", "reconcile"}
          BY <3>1, <3>3 DEF InstallAt
    <3> QED BY <3>2, <3>3
  <2> QED BY <2>9, <2>10
<1>10. CASE BindReplyLost(i)
  <2>1. UNCHANGED <<asks, sharing, install>>
        BY <1>10 DEF BindReplyLost
  <2> QED BY <2>1 DEF PriorRead, Slug, InstallAt
<1>11. CASE RestartUnclear(i)
  <2>1. CASE Restarted(Slug(i)) /\ k = i
        BY <1>11, <2>1 DEF RestartUnclear, InstallAt, InstallGoes, Restarted,
           InstallShape, InstallAsks, SharingRecords, InstallRecords,
           InstallPcs, AloneAtWork, PriorRead, Slug, AtWork, Settled
  <2>2. CASE Restarted(Slug(i)) /\ k # i
        BY <1>11, <2>2 DEF RestartUnclear, InstallAt, InstallGoes, Restarted,
           InstallShape, InstallAsks, SharingRecords, InstallRecords,
           InstallPcs, AloneAtWork, PriorRead, Slug, AtWork, Settled
  <2>3. CASE UNCHANGED sharing
        BY <1>11, <2>3 DEF RestartUnclear, InstallAt, InstallGoes, Restarted,
           InstallShape, InstallAsks, SharingRecords, InstallRecords,
           InstallPcs, AloneAtWork, PriorRead, Slug, AtWork, Settled
  <2> QED BY <1>11, <2>1, <2>2, <2>3 DEF RestartUnclear
<1>12. CASE MintFails(i)
  <2>1. CASE UNCHANGED token /\ InstallGoes(i, "off")
        BY <1>12, <2>1 DEF MintFails, InstallAt, InstallGoes, Spoils,
           InstallShape, InstallAsks, SharingRecords, InstallRecords,
           InstallPcs, AloneAtWork, PriorRead, Slug, AtWork, Settled
  <2>2. CASE token' = [token EXCEPT ![Attempt(i)] = "live"] /\ Spoils(i, "off")
        BY <1>12, <2>2 DEF MintFails, InstallAt, InstallGoes, Spoils,
           InstallShape, InstallAsks, SharingRecords, InstallRecords,
           InstallPcs, AloneAtWork, PriorRead, Slug, AtWork, Settled
  <2> QED BY <1>12, <2>1, <2>2 DEF MintFails
<1> QED BY <1>1, <1>2, <1>3, <1>4, <1>5, <1>6, <1>7, <1>8, <1>9, <1>10, <1>11,
         <1>12, InstallMoveCases

\* Only an install of the attempt mints or revokes its token.
LEMMA TokenKept ==
    ASSUME NEW i \in Installs, InstallMove(i), InstallShape, TokenOfOneAttempt
    PROVE  TokenOfOneAttempt'
<1> SUFFICES ASSUME NEW k \in Installs, Single(k)'
             PROVE  /\ install'[k].pc \in {"idle", "resource", "lookup", "bind", "again",
                                  "read", "restart", "reconcile", "mint"}
                        => token'[Attempt(k)'] = "none"
                    /\ install'[k].pc \in Issued => token'[Attempt(k)'] = "live"
    BY DEF TokenOfOneAttempt
<1>1. CASE Begin(i)
  <2>1. BeginEffect(i)
        BY <1>1, BeginComesTo
  <2> QED BY <2>1 DEF BeginEffect, InstallShape, TokenOfOneAttempt, Single,
             Attempt, Issued, InstallAt, AtWork, Settled, Slug
<1>2. CASE QuietInstall(i)
  <2>1. QuietEffect(i)
        BY <1>2, QuietComesTo
  <2> QED BY <2>1 DEF QuietEffect, QuietMove, InstallShape, TokenOfOneAttempt,
             Single, Attempt, Issued, InstallAt, AtWork, Settled, Slug, Alias
<1>3. CASE BindAlias(i)
  <2>1. BindEffect(i)
        BY <1>3, BindComesTo
  <2>2. /\ asks' = asks /\ token' = token /\ install[i].pc = "bind"
        /\ install'[i].pc \in {"read", "again"}
        /\ \A j \in Installs \ {i} : install'[j] = install[j]
        BY <2>1 DEF BindEffect, StepEffect
  <2>3. Single(k) /\ Attempt(k)' = Attempt(k)
        BY <2>2 DEF Single, Attempt
  <2> QED BY <2>2, <2>3 DEF TokenOfOneAttempt, Issued
<1>4. CASE ReadSharing(i)
      BY <1>4 DEF ReadSharing, InstallAt, InstallShape, InstallAsks,
         SharingRecords, InstallRecords, InstallPcs, TokenOfOneAttempt, Single,
         Attempt, Issued
<1>5. CASE Restart(i)
      BY <1>5 DEF Restart, InstallAt, Restarted, Enabled, InstallShape,
         InstallAsks, SharingRecords, InstallRecords, InstallPcs,
         TokenOfOneAttempt, Single, Attempt, Issued
<1>6. CASE Reconcile(i)
  <2>1. ReconcileEffect(i)
        BY <1>6, ReconcileComesTo
  <2> QED BY <2>1 DEF ReconcileEffect, StepEffect, InstallShape, InstallAsks,
             SharingRecords, InstallRecords, InstallPcs, TokenOfOneAttempt,
             Single, Attempt, Issued, InstallAt
<1>7. CASE MintToken(i)
      BY <1>7 DEF MintToken, InstallAt, InstallGoes, InstallShape, InstallAsks,
         SharingRecords, InstallRecords, InstallPcs, TokenOfOneAttempt, Single,
         Attempt, Issued
<1>8. CASE RevokeToken(i)
      BY <1>8 DEF RevokeToken, InstallAt, InstallGoes, InstallShape,
         InstallAsks, SharingRecords, InstallRecords, InstallPcs,
         TokenOfOneAttempt, Single, Attempt, Issued
<1>9. CASE TurnOff(i)
      BY <1>9 DEF TurnOff, InstallAt, InstallGoes, InstallShape, InstallAsks,
         SharingRecords, InstallRecords, InstallPcs, TokenOfOneAttempt, Single,
         Attempt, Issued
<1>10. CASE BindReplyLost(i)
      BY <1>10 DEF BindReplyLost, InstallAt, InstallShape, InstallAsks,
         SharingRecords, InstallRecords, InstallPcs, TokenOfOneAttempt, Single,
         Attempt, Issued
<1>11. CASE RestartUnclear(i)
      BY <1>11 DEF RestartUnclear, InstallAt, InstallGoes, Restarted,
         InstallShape, InstallAsks, SharingRecords, InstallRecords, InstallPcs,
         TokenOfOneAttempt, Single, Attempt, Issued
<1>12. CASE MintFails(i)
  <2>1. CASE UNCHANGED token /\ InstallGoes(i, "off")
        BY <1>12, <2>1 DEF MintFails, InstallAt, InstallGoes, Spoils,
           InstallShape, InstallAsks, SharingRecords, InstallRecords,
           InstallPcs, TokenOfOneAttempt, Single, Attempt, Issued
  <2>2. CASE token' = [token EXCEPT ![Attempt(i)] = "live"] /\ Spoils(i, "off")
        BY <1>12, <2>2 DEF MintFails, InstallAt, InstallGoes, Spoils,
           InstallShape, InstallAsks, SharingRecords, InstallRecords,
           InstallPcs, TokenOfOneAttempt, Single, Attempt, Issued
  <2> QED BY <1>12, <2>1, <2>2 DEF MintFails
<1> QED BY <1>1, <1>2, <1>3, <1>4, <1>5, <1>6, <1>7, <1>8, <1>9, <1>10, <1>11,
         <1>12, InstallMoveCases

\* Sharing is turned off by the install that turned it on, and a later one did not.
LEMMA StaysKept ==
    ASSUME NEW i \in Installs, InstallMove(i), InstallShape, AloneAtWork, StaysOn
    PROVE  StaysOn'
<1> SUFFICES ASSUME NEW k \in Installs, install'[k].alone
             PROVE  /\ install'[k].pc \in Issued \cup {"mint"} => sharing'[Slug(k)'].on
                    /\ InstallAt(k, "delivered")' =>
                           \A j \in Installs :
                               Slug(j)' = Slug(k)' /\ AtWork(j)' =>
                                   /\ ~install'[j].owns
                                   /\ install'[j].pc \in {"restart", "reconcile"}
                                          => install'[j].prior.on
    BY DEF StaysOn
<1>1. CASE Begin(i)
  <2>1. BeginEffect(i)
        BY <1>1, BeginComesTo
  <2> QED BY <2>1 DEF BeginEffect, InstallShape, AloneAtWork, StaysOn, Slug,
             AtWork, Settled, Issued, InstallAt
<1>2. CASE QuietInstall(i)
  <2>1. QuietEffect(i)
        BY <1>2, QuietComesTo
  <2> QED BY <2>1 DEF QuietEffect, QuietMove, InstallShape, AloneAtWork,
             StaysOn, Slug, AtWork, Settled, Issued, InstallAt, Alias, Attempt
<1>3. CASE BindAlias(i)
  <2>1. BindEffect(i)
        BY <1>3, BindComesTo
  <2> QED BY <2>1 DEF BindEffect, StepEffect, InstallShape, InstallAsks,
             SharingRecords, InstallRecords, InstallPcs, AloneAtWork, StaysOn,
             Slug, AtWork, Settled, Issued, InstallAt
<1>4. CASE ReadSharing(i)
      BY <1>4 DEF ReadSharing, InstallAt, InstallShape, InstallAsks,
         SharingRecords, InstallRecords, InstallPcs, AloneAtWork, StaysOn,
         Slug, AtWork, Settled, Issued
<1>5. CASE Restart(i)
      BY <1>5 DEF Restart, InstallAt, Restarted, Enabled, InstallShape,
         InstallAsks, SharingRecords, InstallRecords, InstallPcs, AloneAtWork,
         StaysOn, Slug, AtWork, Settled, Issued
<1>6. CASE Reconcile(i)
  <2>1. ReconcileEffect(i)
        BY <1>6, ReconcileComesTo
  <2>2. CASE k = i
        BY <2>1, <2>2 DEF ReconcileEffect, StepEffect, InstallShape,
           InstallAsks, SharingRecords, InstallRecords, InstallPcs,
           AloneAtWork, StaysOn, Slug, AtWork, Settled, Issued, InstallAt
  <2>3. CASE k # i
    <3>1. install'[k].pc \in Issued \cup {"mint"} => sharing'[Slug(k)'].on
          BY <2>1, <2>3 DEF ReconcileEffect, StepEffect, StaysOn, Slug
    <3>2. ASSUME NEW j \in Installs, InstallAt(k, "delivered")',
                 Slug(j)' = Slug(k)', AtWork(j)'
          PROVE  /\ ~install'[j].owns
                 /\ install'[j].pc \in {"restart", "reconcile"} => install'[j].prior.on
      <4>1. CASE j = i
            BY <2>1, <2>3, <3>2, <4>1 DEF ReconcileEffect, StepEffect,
               StaysOn, Slug, InstallAt, AtWork, Settled
      <4>2. CASE j # i
            BY <2>1, <2>3, <3>2, <4>2 DEF ReconcileEffect, StepEffect,
               StaysOn, Slug, InstallAt, AtWork, Settled
      <4> QED BY <4>1, <4>2
    <3> QED BY <3>1, <3>2
  <2> QED BY <2>2, <2>3
<1>7. CASE MintToken(i)
  <2>1. /\ install' = [install EXCEPT ![i].pc = "confirm"]
        /\ asks' = asks /\ sharing' = sharing /\ install[i].pc = "mint"
        /\ install \in [Installs -> InstallRecords]
        BY <1>7 DEF MintToken, InstallGoes, InstallAt, InstallShape
  <2>2. \A x \in Installs : /\ install'[x].alone = install[x].alone
                             /\ install'[x].owns = install[x].owns
                             /\ install'[x].prior = install[x].prior
        BY <2>1 DEF InstallRecords
  <2>3. /\ install'[i].pc = "confirm"
        /\ \A x \in Installs \ {i} : install'[x].pc = install[x].pc
        BY <2>1 DEF InstallRecords
  <2>4. \A x \in Installs : (AtWork(x)' <=> AtWork(x)) /\ Slug(x)' = Slug(x)
        BY <2>1, <2>3 DEF AtWork, Settled, Slug
  <2>5. install[k].pc \in Issued \cup {"mint"} => sharing[Slug(k)].on
        BY <2>2 DEF StaysOn
  <2>6. install'[k].pc \in Issued \cup {"mint"} => sharing'[Slug(k)].on
    <3>1. install'[k].pc \in Issued \cup {"mint"} => install[k].pc \in Issued \cup {"mint"}
      <4>1. CASE k = i
            BY <2>1, <4>1
      <4>2. CASE k # i
            BY <2>3, <4>2
      <4> QED BY <4>1, <4>2
    <3> QED BY <2>1, <2>5, <3>1
  <2>7. ASSUME InstallAt(k, "delivered")', NEW j \in Installs,
               Slug(j)' = Slug(k)', AtWork(j)'
        PROVE  /\ ~install'[j].owns
               /\ install'[j].pc \in {"restart", "reconcile"} => install'[j].prior.on
    <3>1. install[k].pc = "delivered" /\ Slug(j) = Slug(k) /\ AtWork(j)
          BY <2>3, <2>4, <2>7 DEF InstallAt
    <3>2. /\ ~install[j].owns
          /\ install[j].pc \in {"restart", "reconcile"} => install[j].prior.on
          BY <2>2, <3>1 DEF StaysOn, InstallAt
    <3> QED BY <2>2, <2>3, <3>2
  <2> QED BY <2>4, <2>6, <2>7
<1>8. CASE RevokeToken(i)
      BY <1>8 DEF RevokeToken, InstallAt, InstallGoes, InstallShape,
         InstallAsks, SharingRecords, InstallRecords, InstallPcs, AloneAtWork,
         StaysOn, Slug, AtWork, Settled, Issued
<1>9. CASE TurnOff(i)
  <2>1. CASE install[i].owns
    <3>1. /\ install' = [install EXCEPT ![i].pc = "failed"]
          /\ sharing' = [sharing EXCEPT ![Slug(i)].on = FALSE]
          /\ asks' = asks /\ install[i].pc = "off"
          /\ install \in [Installs -> InstallRecords]
          /\ sharing \in [Slugs -> SharingRecords]
          BY <1>9, <2>1 DEF TurnOff, InstallGoes, InstallAt, InstallShape
    <3>2. \A x \in Installs : /\ install'[x].alone = install[x].alone
                               /\ install'[x].owns = install[x].owns
                               /\ install'[x].prior = install[x].prior
          BY <3>1 DEF InstallRecords
    <3>3. \A x \in Installs \ {i} : install'[x].pc = install[x].pc
          BY <3>1 DEF InstallRecords
    <3>4. install'[i].pc = "failed" /\ \A x \in Installs : Slug(x)' = Slug(x)
          BY <3>1 DEF InstallRecords, Slug
    <3>5. \A s \in Slugs : s # Slug(i) => sharing'[s] = sharing[s]
          BY <3>1
    <3>6. Slug(k) \in Slugs
          BY DEF InstallShape, InstallAsks, Slug
    <3>7. install[k].alone /\ AtWork(i)
          BY <3>1, <3>2 DEF AtWork, Settled
    <3>8. CASE k = i
          BY <3>4, <3>8 DEF Issued, InstallAt
    <3>9. CASE k # i
      <4>1. install'[k].pc = install[k].pc
            BY <3>9, <3>3
      <4>2. install'[k].pc \in Issued \cup {"mint"} => Slug(k) # Slug(i)
        <5>1. install[k].pc = "delivered" => Slug(k) # Slug(i)
              BY <2>1, <3>7 DEF StaysOn, InstallAt
        <5>2. install[k].pc \in {"confirm", "dm", "instruct", "mint"} => AtWork(k)
              BY DEF AtWork, Settled
        <5>3. AtWork(k) => Slug(k) # Slug(i)
              BY <3>7, <3>9 DEF AloneAtWork
        <5> QED BY <4>1, <5>1, <5>2, <5>3 DEF Issued
      <4>3. install[k].pc \in Issued \cup {"mint"} => sharing[Slug(k)].on
            BY <3>7 DEF StaysOn
      <4>4. install'[k].pc \in Issued \cup {"mint"} => sharing'[Slug(k)'].on
            BY <3>4, <3>5, <3>6, <4>1, <4>2, <4>3
      <4>5. ASSUME InstallAt(k, "delivered")', NEW y \in Installs,
                   Slug(y)' = Slug(k)', AtWork(y)'
            PROVE  /\ ~install'[y].owns
                   /\ install'[y].pc \in {"restart", "reconcile"} => install'[y].prior.on
        <5>1. y # i
              BY <3>4, <4>5 DEF AtWork, Settled
        <5>2. install[k].pc = "delivered" /\ Slug(y) = Slug(k) /\ AtWork(y)
              BY <3>4, <3>3, <4>1, <4>5, <5>1 DEF InstallAt, AtWork
        <5>3. /\ ~install[y].owns
              /\ install[y].pc \in {"restart", "reconcile"} => install[y].prior.on
              BY <3>7, <5>2 DEF StaysOn, InstallAt
        <5>4. install'[y].pc = install[y].pc
              BY <3>3, <5>1
        <5> QED BY <3>2, <5>3, <5>4
      <4> QED BY <4>4, <4>5
    <3> QED BY <3>8, <3>9
  <2>2. CASE ~install[i].owns
        BY <1>9, <2>2 DEF TurnOff, InstallAt, InstallGoes, InstallShape,
           InstallAsks, SharingRecords, InstallRecords, InstallPcs,
           AloneAtWork, StaysOn, Slug, AtWork, Settled, Issued
  <2> QED BY <1>9, <2>1, <2>2 DEF TurnOff
<1>10. CASE BindReplyLost(i)
      BY <1>10 DEF BindReplyLost, InstallAt, InstallShape, InstallAsks,
         SharingRecords, InstallRecords, InstallPcs, AloneAtWork, StaysOn,
         Slug, AtWork, Settled, Issued
<1>11. CASE RestartUnclear(i)
  <2>1. /\ install' = [install EXCEPT ![i].pc = "reconcile"]
        /\ asks' = asks /\ install[i].pc = "restart" /\ install \in [Installs -> InstallRecords]
        /\ asks \in [Installs -> InstallAsks] /\ sharing \in [Slugs -> SharingRecords]
        BY <1>11 DEF RestartUnclear, InstallGoes, InstallAt, InstallShape
  <2>2. \A x \in Installs : /\ install'[x].alone = install[x].alone
                            /\ install'[x].owns = install[x].owns
                            /\ install'[x].prior = install[x].prior
        BY <2>1 DEF InstallRecords
  <2>3. \A x \in Installs : (AtWork(x)' <=> AtWork(x)) /\ Slug(x)' = Slug(x)
        BY <2>1 DEF InstallRecords, AtWork, Settled, Slug
  <2>4. \A x \in Installs :
            /\ install'[x].pc \in Issued \cup {"mint"} => install[x].pc = install'[x].pc
            /\ install'[x].pc \in {"restart", "reconcile"}
                   => install[x].pc \in {"restart", "reconcile"}
        BY <2>1 DEF InstallRecords, Issued
  <2>5. \A x \in Installs : Slug(x) \in Slugs
        BY <2>1 DEF Slug, InstallAsks
  <2>6. \A x \in Installs : sharing[Slug(x)].on => sharing'[Slug(x)].on
    <3>1. CASE Restarted(Slug(i))
          BY <2>1, <2>5, <3>1 DEF Restarted, SharingRecords
    <3> QED BY <1>11, <3>1 DEF RestartUnclear
  <2> QED BY <2>2, <2>3, <2>4, <2>6 DEF StaysOn, InstallAt, Issued
<1>12. CASE MintFails(i)
  <2>1. CASE UNCHANGED token /\ InstallGoes(i, "off")
        BY <1>12, <2>1 DEF MintFails, InstallAt, InstallGoes, Spoils,
           InstallShape, InstallAsks, SharingRecords, InstallRecords,
           InstallPcs, AloneAtWork, StaysOn, Slug, AtWork, Settled, Issued
  <2>2. CASE token' = [token EXCEPT ![Attempt(i)] = "live"] /\ Spoils(i, "off")
        BY <1>12, <2>2 DEF MintFails, InstallAt, InstallGoes, Spoils,
           InstallShape, InstallAsks, SharingRecords, InstallRecords,
           InstallPcs, AloneAtWork, StaysOn, Slug, AtWork, Settled, Issued
  <2> QED BY <1>12, <2>1, <2>2 DEF MintFails
<1> QED BY <1>1, <1>2, <1>3, <1>4, <1>5, <1>6, <1>7, <1>8, <1>9, <1>10, <1>11,
         <1>12, InstallMoveCases

\* An install answers for its token until the token is revoked.
LEMMA VouchesKept ==
    ASSUME NEW i \in Installs, InstallMove(i), InstallShape
    PROVE  \A k \in Installs :
               Vouches(k) /\ token'[Attempt(k)] = "live" => Vouches(k)'
<1> SUFFICES ASSUME NEW k \in Installs, Vouches(k), token'[Attempt(k)] = "live"
             PROVE  Vouches(k)'
    OBVIOUS
<1>1. CASE Begin(i)
  <2>1. BeginEffect(i)
        BY <1>1, BeginComesTo
  <2> QED BY <2>1 DEF BeginEffect, InstallShape, Attempt, Issued, Vouches,
             InstallAt, AtWork, Settled, Slug
<1>2. CASE QuietInstall(i)
  <2>1. QuietEffect(i)
        BY <1>2, QuietComesTo
  <2> QED BY <2>1 DEF QuietEffect, QuietMove, InstallShape, Attempt, Issued,
             Vouches, InstallAt, AtWork, Settled, Slug, Alias
<1>3. CASE BindAlias(i)
  <2>1. BindEffect(i)
        BY <1>3, BindComesTo
  <2> QED BY <2>1 DEF BindEffect, StepEffect, InstallShape, InstallAsks,
             SharingRecords, InstallRecords, InstallPcs, Attempt, Issued,
             Vouches, InstallAt
<1>4. CASE ReadSharing(i)
      BY <1>4 DEF ReadSharing, InstallAt, InstallShape, InstallAsks,
         SharingRecords, InstallRecords, InstallPcs, Attempt, Issued, Vouches
<1>5. CASE Restart(i)
      BY <1>5 DEF Restart, InstallAt, Restarted, Enabled, InstallShape,
         InstallAsks, SharingRecords, InstallRecords, InstallPcs, Attempt,
         Issued, Vouches
<1>6. CASE Reconcile(i)
  <2>1. ReconcileEffect(i)
        BY <1>6, ReconcileComesTo
  <2> QED BY <2>1 DEF ReconcileEffect, StepEffect, InstallShape, InstallAsks,
             SharingRecords, InstallRecords, InstallPcs, Attempt, Issued,
             Vouches, InstallAt
<1>7. CASE MintToken(i)
      BY <1>7 DEF MintToken, InstallAt, InstallGoes, InstallShape, InstallAsks,
         SharingRecords, InstallRecords, InstallPcs, Attempt, Issued, Vouches
<1>8. CASE RevokeToken(i)
      BY <1>8 DEF RevokeToken, InstallAt, InstallGoes, InstallShape,
         InstallAsks, SharingRecords, InstallRecords, InstallPcs, Attempt,
         Issued, Vouches
<1>9. CASE TurnOff(i)
      BY <1>9 DEF TurnOff, InstallAt, InstallGoes, InstallShape, InstallAsks,
         SharingRecords, InstallRecords, InstallPcs, Attempt, Issued, Vouches
<1>10. CASE BindReplyLost(i)
      BY <1>10 DEF BindReplyLost, InstallAt, InstallShape, InstallAsks,
         SharingRecords, InstallRecords, InstallPcs, Attempt, Issued, Vouches
<1>11. CASE RestartUnclear(i)
      BY <1>11 DEF RestartUnclear, InstallAt, InstallGoes, Restarted,
         InstallShape, InstallAsks, SharingRecords, InstallRecords, InstallPcs,
         Attempt, Issued, Vouches
<1>12. CASE MintFails(i)
  <2>1. CASE UNCHANGED token /\ InstallGoes(i, "off")
        BY <1>12, <2>1 DEF MintFails, InstallAt, InstallGoes, Spoils,
           InstallShape, InstallAsks, SharingRecords, InstallRecords,
           InstallPcs, Attempt, Issued, Vouches
  <2>2. CASE token' = [token EXCEPT ![Attempt(i)] = "live"] /\ Spoils(i, "off")
        BY <1>12, <2>2 DEF MintFails, InstallAt, InstallGoes, Spoils,
           InstallShape, InstallAsks, SharingRecords, InstallRecords,
           InstallPcs, Attempt, Issued, Vouches
  <2> QED BY <1>12, <2>1, <2>2 DEF MintFails
<1> QED BY <1>1, <1>2, <1>3, <1>4, <1>5, <1>6, <1>7, <1>8, <1>9, <1>10, <1>11,
         <1>12, InstallMoveCases

\* Who makes a token live answers for it.
LEMMA VouchesNew ==
    ASSUME NEW i \in Installs, InstallMove(i), InstallShape
    PROVE  \A t \in Attempts :
               token'[t] = "live" /\ token[t] # "live" => Attempt(i) = t /\ Vouches(i)'
<1>1. CASE Begin(i)
  <2>1. BeginEffect(i)
        BY <1>1, BeginComesTo
  <2> QED BY <2>1 DEF BeginEffect, InstallShape, Attempt, Issued, Vouches,
             InstallAt, AtWork, Settled, Slug
<1>2. CASE QuietInstall(i)
  <2>1. QuietEffect(i)
        BY <1>2, QuietComesTo
  <2> QED BY <2>1 DEF QuietEffect, QuietMove, InstallShape, Attempt, Issued,
             Vouches, InstallAt, AtWork, Settled, Slug, Alias
<1>3. CASE BindAlias(i)
  <2>1. BindEffect(i)
        BY <1>3, BindComesTo
  <2> QED BY <2>1 DEF BindEffect, StepEffect, InstallShape, InstallAsks,
             SharingRecords, InstallRecords, InstallPcs, Attempt, Issued,
             Vouches, InstallAt
<1>4. CASE ReadSharing(i)
      BY <1>4 DEF ReadSharing, InstallAt, InstallShape, InstallAsks,
         SharingRecords, InstallRecords, InstallPcs, Attempt, Issued, Vouches
<1>5. CASE Restart(i)
      BY <1>5 DEF Restart, InstallAt, Restarted, Enabled, InstallShape,
         InstallAsks, SharingRecords, InstallRecords, InstallPcs, Attempt,
         Issued, Vouches
<1>6. CASE Reconcile(i)
  <2>1. ReconcileEffect(i)
        BY <1>6, ReconcileComesTo
  <2> QED BY <2>1 DEF ReconcileEffect, StepEffect, InstallShape, InstallAsks,
             SharingRecords, InstallRecords, InstallPcs, Attempt, Issued,
             Vouches, InstallAt
<1>7. CASE MintToken(i)
      BY <1>7 DEF MintToken, InstallAt, InstallGoes, InstallShape, InstallAsks,
         SharingRecords, InstallRecords, InstallPcs, Attempt, Issued, Vouches
<1>8. CASE RevokeToken(i)
      BY <1>8 DEF RevokeToken, InstallAt, InstallGoes, InstallShape,
         InstallAsks, SharingRecords, InstallRecords, InstallPcs, Attempt,
         Issued, Vouches
<1>9. CASE TurnOff(i)
      BY <1>9 DEF TurnOff, InstallAt, InstallGoes, InstallShape, InstallAsks,
         SharingRecords, InstallRecords, InstallPcs, Attempt, Issued, Vouches
<1>10. CASE BindReplyLost(i)
      BY <1>10 DEF BindReplyLost, InstallAt, InstallShape, InstallAsks,
         SharingRecords, InstallRecords, InstallPcs, Attempt, Issued, Vouches
<1>11. CASE RestartUnclear(i)
      BY <1>11 DEF RestartUnclear, InstallAt, InstallGoes, Restarted,
         InstallShape, InstallAsks, SharingRecords, InstallRecords, InstallPcs,
         Attempt, Issued, Vouches
<1>12. CASE MintFails(i)
  <2>1. CASE UNCHANGED token /\ InstallGoes(i, "off")
        BY <1>12, <2>1 DEF MintFails, InstallAt, InstallGoes, Spoils,
           InstallShape, InstallAsks, SharingRecords, InstallRecords,
           InstallPcs, Attempt, Issued, Vouches
  <2>2. CASE token' = [token EXCEPT ![Attempt(i)] = "live"] /\ Spoils(i, "off")
        BY <1>12, <2>2 DEF MintFails, InstallAt, InstallGoes, Spoils,
           InstallShape, InstallAsks, SharingRecords, InstallRecords,
           InstallPcs, Attempt, Issued, Vouches
  <2> QED BY <1>12, <2>1, <2>2 DEF MintFails
<1> QED BY <1>1, <1>2, <1>3, <1>4, <1>5, <1>6, <1>7, <1>8, <1>9, <1>10, <1>11,
         <1>12, InstallMoveCases

\* An install answers for sharing until it is off.
LEMMA AnswersKept ==
    ASSUME NEW i \in Installs, InstallMove(i), InstallShape, PriorRead
    PROVE  \A k \in Installs :
               AnswersFor(k) /\ sharing'[Slug(k)].on => AnswersFor(k)'
<1> SUFFICES ASSUME NEW k \in Installs, AnswersFor(k), sharing'[Slug(k)].on
             PROVE  AnswersFor(k)'
    OBVIOUS
<1>1. CASE Begin(i)
  <2>1. BeginEffect(i)
        BY <1>1, BeginComesTo
  <2> QED BY <2>1 DEF BeginEffect, InstallShape, PriorRead, AnswersFor, Slug,
             InstallAt, AtWork, Settled
<1>2. CASE QuietInstall(i)
  <2>1. QuietEffect(i)
        BY <1>2, QuietComesTo
  <2> QED BY <2>1 DEF QuietEffect, QuietMove, InstallShape, PriorRead,
             AnswersFor, Slug, InstallAt, AtWork, Settled, Alias, Attempt
<1>3. CASE BindAlias(i)
  <2>1. BindEffect(i)
        BY <1>3, BindComesTo
  <2> QED BY <2>1 DEF BindEffect, StepEffect, InstallShape, InstallAsks,
             SharingRecords, InstallRecords, InstallPcs, PriorRead, AnswersFor,
             Slug, InstallAt
<1>4. CASE ReadSharing(i)
      BY <1>4 DEF ReadSharing, InstallAt, InstallShape, InstallAsks,
         SharingRecords, InstallRecords, InstallPcs, PriorRead, AnswersFor,
         Slug
<1>5. CASE Restart(i)
      BY <1>5 DEF Restart, InstallAt, Restarted, Enabled, InstallShape,
         InstallAsks, SharingRecords, InstallRecords, InstallPcs, PriorRead,
         AnswersFor, Slug
<1>6. CASE Reconcile(i)
  <2>1. ReconcileEffect(i)
        BY <1>6, ReconcileComesTo
  <2> QED BY <2>1 DEF ReconcileEffect, StepEffect, InstallShape, InstallAsks,
             SharingRecords, InstallRecords, InstallPcs, PriorRead, AnswersFor,
             Slug, InstallAt
<1>7. CASE MintToken(i)
      BY <1>7 DEF MintToken, InstallAt, InstallGoes, InstallShape, InstallAsks,
         SharingRecords, InstallRecords, InstallPcs, PriorRead, AnswersFor,
         Slug
<1>8. CASE RevokeToken(i)
      BY <1>8 DEF RevokeToken, InstallAt, InstallGoes, InstallShape,
         InstallAsks, SharingRecords, InstallRecords, InstallPcs, PriorRead,
         AnswersFor, Slug
<1>9. CASE TurnOff(i)
  <2>1. CASE install[i].owns
        BY <1>9, <2>1 DEF TurnOff, InstallAt, InstallGoes, InstallShape,
           InstallAsks, SharingRecords, InstallRecords, InstallPcs, PriorRead,
           AnswersFor, Slug
  <2>2. CASE ~install[i].owns
        BY <1>9, <2>2 DEF TurnOff, InstallAt, InstallGoes, InstallShape,
           InstallAsks, SharingRecords, InstallRecords, InstallPcs, PriorRead,
           AnswersFor, Slug
  <2> QED BY <1>9, <2>1, <2>2 DEF TurnOff
<1>10. CASE BindReplyLost(i)
      BY <1>10 DEF BindReplyLost, InstallAt, InstallShape, InstallAsks,
         SharingRecords, InstallRecords, InstallPcs, PriorRead, AnswersFor,
         Slug
<1>11. CASE RestartUnclear(i)
  <2>1. CASE Restarted(Slug(i))
        BY <1>11, <2>1 DEF RestartUnclear, InstallAt, InstallGoes, Restarted,
           InstallShape, InstallAsks, SharingRecords, InstallRecords,
           InstallPcs, PriorRead, AnswersFor, Slug
  <2>2. CASE UNCHANGED sharing
        BY <1>11, <2>2 DEF RestartUnclear, InstallAt, InstallGoes, Restarted,
           InstallShape, InstallAsks, SharingRecords, InstallRecords,
           InstallPcs, PriorRead, AnswersFor, Slug
  <2> QED BY <1>11, <2>1, <2>2 DEF RestartUnclear
<1>12. CASE MintFails(i)
  <2>1. CASE UNCHANGED token /\ InstallGoes(i, "off")
        BY <1>12, <2>1 DEF MintFails, InstallAt, InstallGoes, Spoils,
           InstallShape, InstallAsks, SharingRecords, InstallRecords,
           InstallPcs, PriorRead, AnswersFor, Slug
  <2>2. CASE token' = [token EXCEPT ![Attempt(i)] = "live"] /\ Spoils(i, "off")
        BY <1>12, <2>2 DEF MintFails, InstallAt, InstallGoes, Spoils,
           InstallShape, InstallAsks, SharingRecords, InstallRecords,
           InstallPcs, PriorRead, AnswersFor, Slug
  <2> QED BY <1>12, <2>1, <2>2 DEF MintFails
<1> QED BY <1>1, <1>2, <1>3, <1>4, <1>5, <1>6, <1>7, <1>8, <1>9, <1>10, <1>11,
         <1>12, InstallMoveCases

\* Who turns sharing on answers for it.
LEMMA AnswersNew ==
    ASSUME NEW i \in Installs, InstallMove(i), InstallShape, PriorRead
    PROVE  \A s \in Slugs :
               sharing'[s].on /\ ~sharing[s].on => Slug(i) = s /\ AnswersFor(i)'
<1>1. CASE Begin(i)
  <2>1. BeginEffect(i)
        BY <1>1, BeginComesTo
  <2> QED BY <2>1 DEF BeginEffect, InstallShape, PriorRead, AnswersFor, Slug,
             InstallAt, AtWork, Settled
<1>2. CASE QuietInstall(i)
  <2>1. QuietEffect(i)
        BY <1>2, QuietComesTo
  <2> QED BY <2>1 DEF QuietEffect, QuietMove, InstallShape, PriorRead,
             AnswersFor, Slug, InstallAt, AtWork, Settled, Alias, Attempt
<1>3. CASE BindAlias(i)
  <2>1. BindEffect(i)
        BY <1>3, BindComesTo
  <2> QED BY <2>1 DEF BindEffect, StepEffect, InstallShape, InstallAsks,
             SharingRecords, InstallRecords, InstallPcs, PriorRead, AnswersFor,
             Slug, InstallAt
<1>4. CASE ReadSharing(i)
      BY <1>4 DEF ReadSharing, InstallAt, InstallShape, InstallAsks,
         SharingRecords, InstallRecords, InstallPcs, PriorRead, AnswersFor,
         Slug
<1>5. CASE Restart(i)
      BY <1>5 DEF Restart, InstallAt, Restarted, Enabled, InstallShape,
         InstallAsks, SharingRecords, InstallRecords, InstallPcs, PriorRead,
         AnswersFor, Slug
<1>6. CASE Reconcile(i)
  <2>1. ReconcileEffect(i)
        BY <1>6, ReconcileComesTo
  <2> QED BY <2>1 DEF ReconcileEffect, StepEffect, InstallShape, InstallAsks,
             SharingRecords, InstallRecords, InstallPcs, PriorRead, AnswersFor,
             Slug, InstallAt
<1>7. CASE MintToken(i)
      BY <1>7 DEF MintToken, InstallAt, InstallGoes, InstallShape, InstallAsks,
         SharingRecords, InstallRecords, InstallPcs, PriorRead, AnswersFor,
         Slug
<1>8. CASE RevokeToken(i)
      BY <1>8 DEF RevokeToken, InstallAt, InstallGoes, InstallShape,
         InstallAsks, SharingRecords, InstallRecords, InstallPcs, PriorRead,
         AnswersFor, Slug
<1>9. CASE TurnOff(i)
  <2>1. CASE install[i].owns
        BY <1>9, <2>1 DEF TurnOff, InstallAt, InstallGoes, InstallShape,
           InstallAsks, SharingRecords, InstallRecords, InstallPcs, PriorRead,
           AnswersFor, Slug
  <2>2. CASE ~install[i].owns
        BY <1>9, <2>2 DEF TurnOff, InstallAt, InstallGoes, InstallShape,
           InstallAsks, SharingRecords, InstallRecords, InstallPcs, PriorRead,
           AnswersFor, Slug
  <2> QED BY <1>9, <2>1, <2>2 DEF TurnOff
<1>10. CASE BindReplyLost(i)
      BY <1>10 DEF BindReplyLost, InstallAt, InstallShape, InstallAsks,
         SharingRecords, InstallRecords, InstallPcs, PriorRead, AnswersFor,
         Slug
<1>11. CASE RestartUnclear(i)
  <2>1. CASE Restarted(Slug(i))
        BY <1>11, <2>1 DEF RestartUnclear, InstallAt, InstallGoes, Restarted,
           InstallShape, InstallAsks, SharingRecords, InstallRecords,
           InstallPcs, PriorRead, AnswersFor, Slug
  <2>2. CASE UNCHANGED sharing
        BY <1>11, <2>2 DEF RestartUnclear, InstallAt, InstallGoes, Restarted,
           InstallShape, InstallAsks, SharingRecords, InstallRecords,
           InstallPcs, PriorRead, AnswersFor, Slug
  <2> QED BY <1>11, <2>1, <2>2 DEF RestartUnclear
<1>12. CASE MintFails(i)
  <2>1. CASE UNCHANGED token /\ InstallGoes(i, "off")
        BY <1>12, <2>1 DEF MintFails, InstallAt, InstallGoes, Spoils,
           InstallShape, InstallAsks, SharingRecords, InstallRecords,
           InstallPcs, PriorRead, AnswersFor, Slug
  <2>2. CASE token' = [token EXCEPT ![Attempt(i)] = "live"] /\ Spoils(i, "off")
        BY <1>12, <2>2 DEF MintFails, InstallAt, InstallGoes, Spoils,
           InstallShape, InstallAsks, SharingRecords, InstallRecords,
           InstallPcs, PriorRead, AnswersFor, Slug
  <2> QED BY <1>12, <2>1, <2>2 DEF MintFails
<1> QED BY <1>1, <1>2, <1>3, <1>4, <1>5, <1>6, <1>7, <1>8, <1>9, <1>10, <1>11,
         <1>12, InstallMoveCases

-----------------------------------------------------------------------------
(* The invariant.                                                          *)

\* Nothing asked for, nothing left behind.
LEMMA InstallsBegin ==
    ASSUME NEW requests \in [Installs -> InstallAsks], InstallsInit(requests)
    PROVE  InstallInv
<1>1. NoInstall \in InstallRecords /\ NoInstall.pc = "idle"
      BY DEF NoInstall, InstallRecords, SharingRecords, InstallPcs
<1>2. InstallShape
      BY <1>1 DEF InstallsInit, InstallShape, SharingRecords
<1>3. /\ \A i \in Installs : install[i].pc = "idle"
      /\ \A s \in Slugs : ~sharing[s].on
      /\ \A t \in Attempts : token[t] = "none"
      /\ \A i \in Installs : Attempt(i) \in Attempts
      BY <1>1 DEF InstallsInit, Attempt, InstallAsks
<1>4. AliasHeld /\ AloneAtWork
      BY <1>3 DEF AliasHeld, PastAlias, AloneAtWork, AtWork, Settled
<1>5. PriorRead /\ TokenOfOneAttempt
      BY <1>3 DEF PriorRead, InstallAt, TokenOfOneAttempt, Issued
<1>6. StaysOn
      BY <1>3 DEF StaysOn, InstallAt, Issued
<1>7. TokenAnswered /\ SharingAnswered
      BY <1>3 DEF TokenAnswered, SharingAnswered
<1> QED BY <1>2, <1>4, <1>5, <1>6, <1>7 DEF InstallInv

\* Every live token still has an install that answers for it.
LEMMA TokenAnswerKept ==
    ASSUME NEW i \in Installs, InstallMove(i), InstallShape, TokenAnswered
    PROVE  TokenAnswered'
<1> SUFFICES ASSUME NEW t \in Attempts, token'[t] = "live"
             PROVE  \E k \in Installs : Attempt(k)' = t /\ Vouches(k)'
    BY DEF TokenAnswered
<1>1. \A k \in Installs : Attempt(k)' = Attempt(k)
      BY OthersTyped DEF Attempt
<1>2. CASE token[t] = "live"
  <2>1. PICK k \in Installs : Attempt(k) = t /\ Vouches(k)
        BY <1>2 DEF TokenAnswered
  <2> QED BY <1>1, <2>1, VouchesKept
<1>3. CASE token[t] # "live"
      BY <1>1, <1>3, VouchesNew
<1> QED BY <1>2, <1>3

\* So has sharing that is on.
LEMMA SharingAnswerKept ==
    ASSUME NEW i \in Installs, InstallMove(i), InstallShape, PriorRead, SharingAnswered
    PROVE  SharingAnswered'
<1> SUFFICES ASSUME NEW s \in Slugs, sharing'[s].on
             PROVE  \E k \in Installs : Slug(k)' = s /\ AnswersFor(k)'
    BY DEF SharingAnswered
<1>1. \A k \in Installs : Slug(k)' = Slug(k)
      BY OthersTyped DEF Slug
<1>2. CASE sharing[s].on
  <2>1. PICK k \in Installs : Slug(k) = s /\ AnswersFor(k)
        BY <1>2 DEF SharingAnswered
  <2> QED BY <1>1, <2>1, AnswersKept
<1>3. CASE ~sharing[s].on
      BY <1>1, <1>3, AnswersNew
<1> QED BY <1>2, <1>3

\* The moves of installs keep the invariant, in whatever order they come.
THEOREM InstallInvKept ==
    ASSUME NEW i \in Installs, InstallMove(i), InstallInv
    PROVE  InstallInv'
<1>1. InstallShape'
      BY InstallTyped, OthersTyped, FreshKept DEF InstallInv, InstallShape
<1>2. AliasHeld' /\ AloneAtWork'
      BY AliasKept, AloneKept DEF InstallInv
<1>3. PriorRead' /\ TokenOfOneAttempt' /\ StaysOn'
      BY PriorKept, TokenKept, StaysKept DEF InstallInv
<1>4. TokenAnswered' /\ SharingAnswered'
      BY TokenAnswerKept, SharingAnswerKept DEF InstallInv
<1> QED BY <1>1, <1>2, <1>3, <1>4 DEF InstallInv

\* What leaves the installs alone keeps it too.
LEMMA InstallInvStays ==
    ASSUME InstallInv, UNCHANGED installVars
    PROVE  InstallInv'
<1> USE DEF installVars
<1>1. InstallShape'
      BY DEF InstallInv, InstallShape, InstallAt
<1>2. AliasHeld' /\ AloneAtWork'
      BY DEF InstallInv, AliasHeld, AloneAtWork, AtWork, Alias, Slug
<1>3. PriorRead' /\ TokenOfOneAttempt'
      BY DEF InstallInv, PriorRead, TokenOfOneAttempt, Single, InstallAt, Slug,
         Attempt
<1>4. StaysOn'
      BY DEF InstallInv, StaysOn, AtWork, InstallAt, Slug
<1>5. TokenAnswered'
      BY DEF InstallInv, TokenAnswered, Vouches, Attempt
<1>6. SharingAnswered'
      BY DEF InstallInv, SharingAnswered, AnswersFor, InstallAt, Slug
<1> QED BY <1>1, <1>2, <1>3, <1>4, <1>5, <1>6 DEF InstallInv

\* So does the removal of bindings: it misleads those it takes an alias from.
LEMMA RemovalKeeps ==
    ASSUME NEW gone, RemoveBindings(gone), InstallInv
    PROVE  InstallInv'
<1>1. /\ asks' = asks /\ sharing' = sharing /\ token' = token /\ install' = install
      /\ \A i \in Installs : /\ Slug(i)' = Slug(i) /\ Alias(i)' = Alias(i)
                              /\ Attempt(i)' = Attempt(i)
      BY DEF RemoveBindings, Slug, Alias, Attempt
<1>2. InstallShape'
  <2>1. /\ alias' \in [Aliases -> Slugs \cup {"none"}]
        /\ past' \in [Aliases -> SUBSET (Slugs \cup {"none"})]
        /\ misled' \subseteq Installs
        BY DEF RemoveBindings, InstallInv, InstallShape
  <2> QED BY <1>1, <2>1 DEF InstallInv, InstallShape, InstallAt
<1>3. AliasHeld'
  <2> SUFFICES ASSUME NEW i \in Installs, install[i].pc \in PastAlias, i \notin misled'
               PROVE  alias'[Alias(i)] = Slug(i)
      BY <1>1 DEF AliasHeld
  <2>1. i \notin misled /\ Alias(i) \notin gone
        BY DEF RemoveBindings
  <2>2. Alias(i) \in Aliases
        BY DEF InstallInv, InstallShape, InstallAsks, Alias
  <2>3. alias[Alias(i)] = Slug(i)
        BY <2>1 DEF InstallInv, AliasHeld
  <2> QED BY <2>1, <2>2, <2>3 DEF RemoveBindings
<1>4. AloneAtWork' /\ PriorRead'
      BY <1>1 DEF InstallInv, AloneAtWork, PriorRead, AtWork, InstallAt
<1>5. TokenOfOneAttempt'
      BY <1>1 DEF InstallInv, TokenOfOneAttempt, Single
<1>6. StaysOn'
      BY <1>1 DEF InstallInv, StaysOn, AtWork, InstallAt
<1>7. TokenAnswered'
      BY <1>1 DEF InstallInv, TokenAnswered, Vouches
<1>8. SharingAnswered'
      BY <1>1 DEF InstallInv, SharingAnswered, AnswersFor, InstallAt
<1> QED BY <1>2, <1>3, <1>4, <1>5, <1>6, <1>7, <1>8 DEF InstallInv

\* A failed install leaves nothing behind.
LEMMA InstallLeavesNothing ==
    ASSUME InstallInv
    PROVE  NothingLeftBehind
<1>1. ASSUME NEW t \in Attempts, token[t] = "live"
      PROVE  \E i \in Installs :
                 /\ Attempt(i) = t
                 /\ AtWork(i) \/ install[i].pc = "delivered" \/ install[i].spoiled
  <2>1. PICK i \in Installs : Attempt(i) = t /\ Vouches(i)
        BY <1>1 DEF InstallInv, TokenAnswered
  <2> QED BY <2>1 DEF Vouches, Issued, AtWork, Settled
<1>2. ASSUME NEW s \in Slugs, sharing[s].on
      PROVE  \E i \in Installs :
                 /\ Slug(i) = s
                 /\ \/ AtWork(i) \/ install[i].pc = "delivered"
                    \/ install[i].spoiled \/ ~install[i].alone
  <2>1. PICK i \in Installs : Slug(i) = s /\ AnswersFor(i)
        BY <1>2 DEF InstallInv, SharingAnswered
  <2> QED BY <2>1 DEF AnswersFor, AtWork, Settled, InstallAt
<1> QED BY <1>1, <1>2 DEF NothingLeftBehind

\* What was delivered works.
LEMMA InstallWorks ==
    ASSUME InstallInv
    PROVE  DeliveredWorks
BY DEF InstallInv, DeliveredWorks, AliasHeld, PastAlias, TokenOfOneAttempt,
   Issued, StaysOn

-----------------------------------------------------------------------------
(* A resource's sharing has had no more epochs than there were restarts.   *)

BeforeRestart == {"idle", "resource", "lookup", "bind", "again", "read", "restart"}
Restarters == {i \in Installs : install[i].pc \notin BeforeRestart}

EpochsCounted ==
    /\ resources \subseteq Slugs
    /\ \A s \in Slugs : sharing[s].epoch <= Cardinality(Restarters)
    /\ \A i \in Installs : install[i].prior.epoch <= Cardinality(Restarters)

\* What a move comes to for the epochs.
EpochEffect(i) ==
    /\ \A k \in Installs \ {i} : /\ install'[k].pc = install[k].pc
                                 /\ install'[k].prior = install[k].prior
    /\ install[i].pc \in BeforeRestart \/ install'[i].pc \notin BeforeRestart
    /\ \/ install'[i].prior = install[i].prior
       \/ install'[i].prior = sharing[Slug(i)]
    /\ \/ \A s \in Slugs : sharing'[s].epoch = sharing[s].epoch
       \/ /\ install[i].pc \in BeforeRestart /\ install'[i].pc \notin BeforeRestart
          /\ \A s \in Slugs : sharing'[s].epoch <= sharing[s].epoch + 1

LEMMA EpochsComeTo ==
    ASSUME NEW i \in Installs, InstallMove(i), InstallShape
    PROVE  EpochEffect(i)
<1>0. /\ install \in [Installs -> InstallRecords] /\ install' \in [Installs -> InstallRecords]
      /\ sharing \in [Slugs -> SharingRecords] /\ Slug(i) \in Slugs
      /\ \A s \in Slugs : sharing[s].epoch \in Nat
      BY InstallTyped DEF InstallShape, InstallAsks, SharingRecords, Slug
<1>1. CASE Begin(i)
  <2>1. BeginEffect(i)
        BY <1>1, BeginComesTo
  <2>2. install[i] = NoInstall
        BY <1>1 DEF Begin, InstallShape
  <2>3. install'[i].prior = NoInstall.prior
    <3> DEFINE rivals == {j \in Installs \ {i} : AtWork(j) /\ Slug(j) = Slug(i)}
               first == [NoInstall EXCEPT !.pc = "resource", !.alone = rivals = {}]
    <3>1. install'[i] = first
          BY <1>1 DEF Begin
    <3> QED BY <3>1 DEF NoInstall
  <2> QED BY <2>1, <2>2, <2>3 DEF BeginEffect, EpochEffect, BeforeRestart
<1>2. CASE QuietInstall(i)
  <2>1. QuietEffect(i)
        BY <1>2, QuietComesTo
  <2> QED BY <2>1 DEF QuietEffect, QuietMove, EpochEffect, BeforeRestart
<1>3. CASE BindAlias(i)
  <2>1. BindEffect(i)
        BY <1>3, BindComesTo
  <2> QED BY <2>1 DEF BindEffect, StepEffect, EpochEffect, BeforeRestart
<1>4. CASE ReadSharing(i)
      BY <1>0, <1>4 DEF ReadSharing, InstallAt, InstallRecords, EpochEffect, BeforeRestart
<1>5. CASE Restart(i)
      BY <1>0, <1>5 DEF Restart, InstallAt, Restarted, Enabled, InstallRecords,
         SharingRecords, EpochEffect, BeforeRestart
<1>6. CASE Reconcile(i)
  <2>1. ReconcileEffect(i)
        BY <1>6, ReconcileComesTo
  <2> QED BY <2>1 DEF ReconcileEffect, StepEffect, EpochEffect, BeforeRestart
<1>7. CASE MintToken(i)
      BY <1>0, <1>7 DEF MintToken, InstallAt, InstallGoes, InstallRecords, EpochEffect,
         BeforeRestart
<1>8. CASE RevokeToken(i)
      BY <1>0, <1>8 DEF RevokeToken, InstallAt, InstallGoes, InstallRecords, EpochEffect,
         BeforeRestart
<1>9. CASE TurnOff(i)
      BY <1>0, <1>9 DEF TurnOff, InstallAt, InstallGoes, InstallRecords, SharingRecords,
         EpochEffect, BeforeRestart
<1>10. CASE BindReplyLost(i)
      BY <1>0, <1>10 DEF BindReplyLost, InstallAt, InstallRecords, EpochEffect,
         BeforeRestart
<1>11. CASE RestartUnclear(i)
  <2>1. CASE Restarted(Slug(i))
        BY <1>0, <1>11, <2>1 DEF RestartUnclear, InstallAt, InstallGoes, Restarted,
           InstallRecords, SharingRecords, EpochEffect, BeforeRestart
  <2>2. CASE UNCHANGED sharing
        BY <1>0, <1>11, <2>2 DEF RestartUnclear, InstallAt, InstallGoes,
           InstallRecords, EpochEffect, BeforeRestart
  <2> QED BY <1>11, <2>1, <2>2 DEF RestartUnclear
<1>12. CASE MintFails(i)
      BY <1>0, <1>12 DEF MintFails, InstallAt, InstallGoes, Spoils, InstallRecords,
         EpochEffect, BeforeRestart
<1> QED BY <1>1, <1>2, <1>3, <1>4, <1>5, <1>6, <1>7, <1>8, <1>9, <1>10, <1>11,
        <1>12, InstallMoveCases

LEMMA EpochsCountedKept ==
    ASSUME NEW i \in Installs, InstallMove(i), InstallShape, EpochsCounted
    PROVE  EpochsCounted'
<1>1. EpochEffect(i) /\ InstallShape
      BY EpochsComeTo
<1>2. /\ IsFiniteSet(Restarters) /\ IsFiniteSet(Restarters')
      /\ Cardinality(Restarters) \in Nat /\ Cardinality(Restarters') \in Nat
  <2>1. Restarters \subseteq Installs /\ Restarters' \subseteq Installs
        BY DEF Restarters
  <2> QED BY <2>1, SlugAssumption, FS_Subset, FS_CardinalityType
<1>3. Restarters \subseteq Restarters'
      BY <1>1 DEF EpochEffect, Restarters
<1>4. Cardinality(Restarters) <= Cardinality(Restarters')
      BY <1>2, <1>3, FS_Subset
<1>5. /\ \A s \in Slugs : sharing[s].epoch \in Nat /\ sharing'[s].epoch \in Nat
      /\ Slug(i) \in Slugs /\ \A k \in Installs : install[k].prior.epoch \in Nat
      BY OthersTyped DEF InstallShape, InstallAsks, InstallRecords, SharingRecords, Slug
<1>6. \A s \in Slugs : sharing'[s].epoch <= Cardinality(Restarters')
  <2>1. CASE \A s \in Slugs : sharing'[s].epoch = sharing[s].epoch
        BY <1>2, <1>4, <1>5, <2>1 DEF EpochsCounted
  <2>2. CASE /\ install[i].pc \in BeforeRestart /\ install'[i].pc \notin BeforeRestart
             /\ \A s \in Slugs : sharing'[s].epoch <= sharing[s].epoch + 1
    <3>1. i \notin Restarters /\ Restarters \cup {i} \subseteq Restarters'
          BY <1>3, <2>2 DEF Restarters
    <3>2. Cardinality(Restarters \cup {i}) = Cardinality(Restarters) + 1
          BY <1>2, <3>1, FS_AddElement
    <3>3. Cardinality(Restarters) + 1 <= Cardinality(Restarters')
          BY <1>2, <3>1, <3>2, FS_Subset
    <3> QED BY <1>2, <1>5, <2>2, <3>3 DEF EpochsCounted
  <2> QED BY <1>1, <2>1, <2>2 DEF EpochEffect
<1>7. \A k \in Installs : install'[k].prior.epoch <= Cardinality(Restarters')
  <2>1. \A k \in Installs : \/ install'[k].prior = install[k].prior
                            \/ install'[k].prior = sharing[Slug(i)]
        BY <1>1 DEF EpochEffect
  <2> QED BY <1>2, <1>4, <1>5, <2>1 DEF EpochsCounted
<1>8. resources' \subseteq Slugs
      BY <1>5 DEF EpochsCounted, InstallMove, InstallStep, InstallFault, Begin, FindOrCreate, LookUpAlias,
         BindAlias, LookAgain, ReadSharing, Restart, Reconcile, MintToken, ConfirmToken,
         SendToken, Instruct, RevokeToken, TurnOff, BindReplyLost, FailsEarly,
         RestartUnclear, ReconcileFails, MintFails, DeliveryFails, CleanUpFails,
         InstallDies
<1> QED BY <1>6, <1>7, <1>8 DEF EpochsCounted

\* So none exceeds the number of installs.
LEMMA EpochsBounded ==
    ASSUME InstallShape, EpochsCounted
    PROVE  InstallsOK
<1>1. /\ Cardinality(Restarters) <= MaxInstallEpoch
      /\ Cardinality(Restarters) \in Nat /\ MaxInstallEpoch \in Nat
  <2>1. Restarters \subseteq Installs /\ IsFiniteSet(Installs)
        BY SlugAssumption DEF Restarters
  <2>2. IsFiniteSet(Restarters) /\ Cardinality(Restarters) <= Cardinality(Installs)
        BY <2>1, FS_Subset
  <2> QED BY <2>1, <2>2, FS_CardinalityType DEF MaxInstallEpoch
<1>2. \A s \in Slugs : sharing[s] \in SharingStates
      BY <1>1 DEF InstallShape, EpochsCounted, SharingRecords, SharingStates
<1>3. \A i \in Installs : install[i].prior \in SharingStates
      BY <1>1 DEF InstallShape, EpochsCounted, InstallRecords, SharingRecords,
         SharingStates
<1>4. install \in [Installs -> [pc : InstallPcs, prior : SharingStates, owns : BOOLEAN,
                               alone : BOOLEAN, spoiled : BOOLEAN]]
      BY <1>3 DEF InstallShape, InstallRecords
<1>5. sharing \in [Slugs -> SharingStates]
      BY <1>2 DEF InstallShape
<1> QED BY <1>4, <1>5 DEF InstallShape, InstallAsks, InstallsOK, EpochsCounted

\* At the beginning there are none.
LEMMA EpochsBegin ==
    ASSUME NEW requests, InstallsInit(requests)
    PROVE  EpochsCounted
<1>1. Restarters = {}
      BY DEF InstallsInit, Restarters, NoInstall, BeforeRestart
<1>2. Cardinality(Restarters) = 0
      BY <1>1, FS_EmptySet
<1> QED BY <1>2 DEF InstallsInit, NoInstall, EpochsCounted

LEMMA EpochsCountedStay ==
    ASSUME EpochsCounted, UNCHANGED installVars
    PROVE  EpochsCounted'
BY DEF EpochsCounted, Restarters, installVars

LEMMA RemovalKeepsEpochs ==
    ASSUME EpochsCounted, NEW gone, RemoveBindings(gone)
    PROVE  EpochsCounted'
BY DEF EpochsCounted, Restarters, RemoveBindings
=============================================================================
