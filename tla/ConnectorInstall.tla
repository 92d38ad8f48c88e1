--------------------------- MODULE ConnectorInstall ---------------------------
(***************************************************************************)
(* /qurl-admin protect-connector: find or create a Connector resource,     *)
(* bind its alias in the channel, turn its sharing on, mint an enrollment  *)
(* token, send the token to the admin and the instructions to the channel; *)
(* and undo the token and the sharing when that does not come off.         *)
(*                                                                         *)
(* A resource is known by its slug; one channel.  The qURL API is modelled *)
(* from what the client asks of it.                                        *)
(***************************************************************************)
EXTENDS Naturals, FiniteSets

CONSTANTS
    Installs,
    Attempts,   \* Slack interactions: a submission may be repeated
    Slugs,
    Aliases

ASSUME SlugAssumption == "none" \notin Slugs /\ IsFiniteSet(Installs)

VARIABLES
    asks,       \* what each install asks for; fixed
    resources,  \* the slugs that have a resource
    alias,      \* the channel's bindings
    past,       \* what each of them has been
    misled,     \* the installs whose alias is, or already was, removed again
    sharing,    \* the platform's record of each resource
    token,      \* enrollment tokens, by attempt
    install

installVars == <<asks, resources, alias, past, misled, sharing, token, install>>

InstallPcs == {"idle", "resource", "lookup", "bind", "again", "read", "restart",
               "reconcile", "mint", "confirm", "dm", "instruct", "revoke", "off",
               "failed", "delivered"}
Settled == {"idle", "failed", "delivered"}
PastAlias == {"read", "restart", "reconcile", "mint", "confirm", "dm", "instruct",
              "revoke", "off", "delivered"}

\* prior is the sharing read before it was restarted; owns tells that the
\* install turned it on; alone, that no other was at work on the resource;
\* spoiled, that cleaning up failed or that a reply left it in the dark.
NoInstall == [pc |-> "idle", prior |-> [on |-> FALSE, epoch |-> 0],
              owns |-> FALSE, alone |-> TRUE, spoiled |-> FALSE]

MaxInstallEpoch == Cardinality(Installs)
SharingStates == [on : BOOLEAN, epoch : 0 .. MaxInstallEpoch]

InstallsOK ==
    /\ asks \in [Installs -> [slug : Slugs, alias : Aliases, attempt : Attempts]]
    /\ resources \subseteq Slugs
    /\ alias \in [Aliases -> Slugs \cup {"none"}]
    /\ past \in [Aliases -> SUBSET (Slugs \cup {"none"})]
    /\ misled \subseteq Installs
    /\ sharing \in [Slugs -> SharingStates]
    /\ token \in [Attempts -> {"none", "live", "revoked"}]
    /\ install \in [Installs -> [pc : InstallPcs, prior : SharingStates,
                                 owns : BOOLEAN, alone : BOOLEAN,
                                 spoiled : BOOLEAN]]

InstallsInit(requests) ==
    /\ asks = requests
    /\ resources = {}
    /\ alias = [a \in Aliases |-> "none"]
    /\ past = [a \in Aliases |-> {"none"}]
    /\ misled = {}
    /\ sharing = [s \in Slugs |-> [on |-> FALSE, epoch |-> 0]]
    /\ token = [t \in Attempts |-> "none"]
    /\ install = [i \in Installs |-> NoInstall]

Slug(i) == asks[i].slug
Alias(i) == asks[i].alias
Attempt(i) == asks[i].attempt
AtWork(i) == install[i].pc \notin Settled

InstallAt(i, pc) == install[i].pc = pc
InstallGoes(i, pc) == install' = [install EXCEPT ![i].pc = pc]
Spoils(i, pc) == install' = [install EXCEPT ![i].pc = pc, ![i].spoiled = TRUE]

\* The admin gate is past; a worker has the request.
Begin(i) ==
    /\ InstallAt(i, "idle")
    /\ LET rivals == {j \in Installs \ {i} : AtWork(j) /\ Slug(j) = Slug(i)} IN
       install' = [j \in Installs |->
                      CASE j = i -> [NoInstall EXCEPT !.pc = "resource",
                                                      !.alone = rivals = {}]
                        [] j \in rivals -> [install[j] EXCEPT !.alone = FALSE]
                        [] OTHER -> install[j]]
    /\ UNCHANGED <<asks, resources, alias, past, misled, sharing, token>>

FindOrCreate(i) ==
    /\ InstallAt(i, "resource")
    /\ resources' = resources \cup {Slug(i)}
    /\ InstallGoes(i, "lookup")
    /\ UNCHANGED <<asks, alias, past, misled, sharing, token>>

-----------------------------------------------------------------------------
(* The alias: ensureTunnelAlias.                                           *)

\* An eventually consistent read.
Seen(i) == past[Alias(i)] \cup {alias[Alias(i)]}

\* Whoever reads a binding that has been removed believes to have it.
Believes(i, bound) ==
    misled' = IF bound = Slug(i) /\ bound # alias[Alias(i)]
                  THEN misled \cup {i} ELSE misled

LookUpAlias(i) ==
    /\ InstallAt(i, "lookup")
    /\ \E bound \in Seen(i) :
           /\ InstallGoes(i, CASE bound = Slug(i) -> "read"
                               [] bound = "none"  -> "bind"
                               [] OTHER           -> "failed")
           /\ Believes(i, bound)
    /\ UNCHANGED <<asks, resources, alias, past, sharing, token>>

\* Mutant: the binding is written whatever is there.
BindOver(i) ==
    /\ InstallAt(i, "bind")
    /\ alias' = [alias EXCEPT ![Alias(i)] = Slug(i)]
    /\ InstallGoes(i, "read")
    /\ UNCHANGED <<asks, resources, past, misled, sharing, token>>

BindAlias(i) ==
    /\ InstallAt(i, "bind")
    /\ IF alias[Alias(i)] = "none"
           THEN alias' = [alias EXCEPT ![Alias(i)] = Slug(i)] /\ InstallGoes(i, "read")
           ELSE UNCHANGED alias /\ InstallGoes(i, "again")
    /\ UNCHANGED <<asks, resources, past, misled, sharing, token>>

\* The reply is lost and the SDK repeats the write.
BindReplyLost(i) ==
    /\ InstallAt(i, "bind") /\ alias[Alias(i)] = "none"
    /\ alias' = [alias EXCEPT ![Alias(i)] = Slug(i)]
    /\ UNCHANGED <<asks, resources, past, misled, sharing, token, install>>

\* A binding that appeared meanwhile may be the same one.
LookAgain(i) ==
    /\ InstallAt(i, "again")
    /\ \E bound \in Seen(i) :
           /\ InstallGoes(i, IF bound = Slug(i) THEN "read" ELSE "failed")
           /\ Believes(i, bound)
    /\ UNCHANGED <<asks, resources, alias, past, sharing, token>>

\* Bindings go, under installs that count on them.
RemoveBindings(gone) ==
    /\ alias' = [a \in Aliases |-> IF a \in gone THEN "none" ELSE alias[a]]
    /\ past' = [a \in Aliases |-> past[a] \cup {alias[a]}]
    /\ misled' = misled \cup {i \in Installs : /\ install[i].pc \in PastAlias
                                              /\ Alias(i) \in gone}
    /\ UNCHANGED <<asks, resources, sharing, token, install>>

\* /qurl-admin unset-alias.
UnbindAlias(a) == alias[a] # "none" /\ RemoveBindings({a})

\* Before sharing is touched a failure leaves nothing to undo.
FailsEarly(i) ==
    /\ install[i].pc \in {"resource", "lookup", "bind", "again", "read", "restart"}
    /\ InstallGoes(i, "failed")
    /\ UNCHANGED <<asks, resources, alias, past, misled, sharing, token>>

-----------------------------------------------------------------------------
(* Sharing: restartSharingForInstall.                                      *)

ReadSharing(i) ==
    /\ InstallAt(i, "read")
    /\ install' = [install EXCEPT ![i].pc = "restart",
                                  ![i].prior = sharing[Slug(i)]]
    /\ UNCHANGED <<asks, resources, alias, past, misled, sharing, token>>

Restarted(s) == sharing' = [sharing EXCEPT ![s] = [on |-> TRUE, epoch |-> @.epoch + 1]]

\* The install owns what it turned on.
Enabled(i) == install' = [install EXCEPT ![i].pc = "mint",
                                         ![i].owns = ~install[i].prior.on]

Restart(i) ==
    /\ InstallAt(i, "restart")
    /\ Restarted(Slug(i))
    /\ Enabled(i)
    /\ UNCHANGED <<asks, resources, alias, past, misled, token>>

\* Mutant: the request is sent again.
RestartRepeated(i) ==
    /\ InstallAt(i, "restart")
    /\ Restarted(Slug(i))
    /\ UNCHANGED <<asks, resources, alias, past, misled, token, install>>

\* No reply, or one that leaves open whether it was done.  It is not repeated.
RestartUnclear(i) ==
    /\ InstallAt(i, "restart")
    /\ Restarted(Slug(i)) \/ UNCHANGED sharing
    /\ InstallGoes(i, "reconcile")
    /\ UNCHANGED <<asks, resources, alias, past, misled, token>>

\* Mutant: an unclear restart is taken for one that was not done.
ReconcileNothing(i) ==
    /\ InstallAt(i, "reconcile")
    /\ InstallGoes(i, "failed")
    /\ UNCHANGED <<asks, resources, alias, past, misled, sharing, token>>

\* Sharing that is on at a newer epoch is taken for the install's own.
Reconcile(i) ==
    /\ InstallAt(i, "reconcile")
    /\ IF sharing[Slug(i)].on /\ sharing[Slug(i)].epoch > install[i].prior.epoch
           THEN Enabled(i) ELSE InstallGoes(i, "failed")
    /\ UNCHANGED <<asks, resources, alias, past, misled, sharing, token>>

\* Even the read fails: the install gives up, and leaves sharing as it is.
ReconcileFails(i) ==
    /\ InstallAt(i, "reconcile")
    /\ Spoils(i, "failed")
    /\ UNCHANGED <<asks, resources, alias, past, misled, sharing, token>>

-----------------------------------------------------------------------------
(* The token, and its delivery: processTunnelInstallCore.                  *)

\* One attempt has one token, however often it is asked for.
MintToken(i) ==
    /\ InstallAt(i, "mint")
    /\ token' = [token EXCEPT ![Attempt(i)] = IF @ = "none" THEN "live" ELSE @]
    /\ InstallGoes(i, "confirm")
    /\ UNCHANGED <<asks, resources, alias, past, misled, sharing>>

MintFails(i) ==
    /\ InstallAt(i, "mint")
    /\ \/ UNCHANGED token /\ InstallGoes(i, "off")
       \/ /\ token[Attempt(i)] = "none"
          /\ token' = [token EXCEPT ![Attempt(i)] = "live"]
          /\ Spoils(i, "off")
    /\ UNCHANGED <<asks, resources, alias, past, misled, sharing>>

\* rejectUnconfirmedCredential and the renderings.
ConfirmToken(i) ==
    /\ InstallAt(i, "confirm")
    /\ InstallGoes(i, "dm")
    /\ UNCHANGED <<asks, resources, alias, past, misled, sharing, token>>

\* First the secret, to the admin alone.
SendToken(i) ==
    /\ InstallAt(i, "dm")
    /\ InstallGoes(i, "instruct")
    /\ UNCHANGED <<asks, resources, alias, past, misled, sharing, token>>

\* postInstallInstructions: as blocks or as text, and the text once more.
Instruct(i) ==
    /\ InstallAt(i, "instruct")
    /\ InstallGoes(i, "delivered")
    /\ UNCHANGED <<asks, resources, alias, past, misled, sharing, token>>

\* The token is not what was asked for, or Slack confirms no delivery of it or
\* of the instructions.
DeliveryFails(i) ==
    /\ install[i].pc \in {"confirm", "dm", "instruct"}
    /\ InstallGoes(i, "revoke")
    /\ UNCHANGED <<asks, resources, alias, past, misled, sharing, token>>

-----------------------------------------------------------------------------
(* The way back.                                                           *)

\* revokeBootstrapKeyAfterInstallFailure.
RevokeToken(i) ==
    /\ InstallAt(i, "revoke")
    /\ token' = [token EXCEPT ![Attempt(i)] = "revoked"]
    /\ InstallGoes(i, "off")
    /\ UNCHANGED <<asks, resources, alias, past, misled, sharing>>

\* disableSharingAfterInstallFailure, for the install that turned it on.
TurnOff(i) ==
    /\ InstallAt(i, "off")
    /\ sharing' = IF install[i].owns THEN [sharing EXCEPT ![Slug(i)].on = FALSE]
                                     ELSE sharing
    /\ InstallGoes(i, "failed")
    /\ UNCHANGED <<asks, resources, alias, past, misled, token>>

\* Cleaning up is tried once, and only logs that it failed.
CleanUpFails(i) ==
    /\ install[i].pc \in {"revoke", "off"}
    /\ Spoils(i, IF InstallAt(i, "revoke") THEN "off" ELSE "failed")
    /\ UNCHANGED <<asks, resources, alias, past, misled, sharing, token>>

\* The process ends.
InstallDies(i) ==
    /\ install[i].pc \notin Settled \cup {"resource", "lookup", "bind", "again",
                                          "read", "restart"}
    /\ Spoils(i, "failed")
    /\ UNCHANGED <<asks, resources, alias, past, misled, sharing, token>>

InstallStep(i) == \/ FindOrCreate(i) \/ LookUpAlias(i) \/ BindAlias(i)
                  \/ LookAgain(i) \/ ReadSharing(i) \/ Restart(i) \/ Reconcile(i)
                  \/ MintToken(i) \/ ConfirmToken(i) \/ SendToken(i) \/ Instruct(i)
                  \/ RevokeToken(i) \/ TurnOff(i)

InstallFault(i) == \/ BindReplyLost(i) \/ FailsEarly(i) \/ RestartUnclear(i)
                   \/ ReconcileFails(i) \/ MintFails(i) \/ DeliveryFails(i)
                   \/ CleanUpFails(i) \/ InstallDies(i)
-----------------------------------------------------------------------------

\* A failed install leaves no live token and no sharing it turned on: either is
\* there for an install at work or delivered, or because cleaning up failed.
\* (Sharing is not vouched for while two installs meet at one resource.)
NothingLeftBehind ==
    /\ \A t \in Attempts :
           token[t] = "live" =>
               \E i \in Installs :
                   /\ Attempt(i) = t
                   /\ AtWork(i) \/ install[i].pc = "delivered" \/ install[i].spoiled
    /\ \A s \in Slugs :
           sharing[s].on =>
               \E i \in Installs :
                   /\ Slug(i) = s
                   /\ \/ AtWork(i) \/ install[i].pc = "delivered"
                      \/ install[i].spoiled \/ ~install[i].alone

Single(i) == \A j \in Installs \ {i} : Attempt(j) # Attempt(i)

\* What was delivered works: the alias leads to the resource, whoever binds at
\* the same time or removes and binds it anew, unless the very binding the
\* install counted on was removed (misled); and of an install that met no other
\* the token is good and sharing is on.
DeliveredWorks ==
    \A i \in Installs :
        install[i].pc = "delivered" =>
            /\ i \notin misled => alias[Alias(i)] = Slug(i)
            /\ install[i].alone /\ Single(i)
                   => token[Attempt(i)] = "live" /\ sharing[Slug(i)].on
=============================================================================
