-------------------------- MODULE ShareSystemProofs --------------------------
(***************************************************************************)
(* The registry of local shares under commands, compensation, headless     *)
(* starts and denials: for any number of commands, resources, origins,     *)
(* epochs and faults.  The argument is about answers: whatever somebody    *)
(* holds on to and may still write was true of the platform once, and the  *)
(* platform's epochs only grow.                                            *)
(***************************************************************************)
EXTENDS ShareSystem, TLAPS

Command == [pc : Calls \cup {"idle", "done"}, kind : Kinds,
            res : Resources, target : Targets \cup {"none"},
            local : Row \cup {NoRow}, prior : Reply, sharing : Reply]

CloudShape ==
    /\ cloud \in [Resources -> [active : BOOLEAN, on : BOOLEAN, epoch : Epochs]]
    /\ authorized \in [Resources -> SUBSET Epochs]

Shape ==
    /\ RowsOK
    /\ CloudShape
    /\ cmd \in [Commands -> Command]
    /\ reauth \in [pc : {"idle", "cloud", "write"}, res : Resources,
                   local : Row \cup {NoRow}, reply : Reply]

\* The platform has been there: at this epoch or past it, and on at it if so.
Backed(r, on, e) ==
    /\ e <= cloud[r].epoch
    /\ on => e \in authorized[r]

PlatformOwn == \A r \in Resources : Backed(r, cloud[r].on, cloud[r].epoch)
RowsBacked == \A r \in Resources : Backed(r, rows[r].on, rows[r].epoch)

Sound(k) ==
    /\ Backed(k.res, k.sharing.on, k.sharing.epoch)
    /\ k.pc = "store" => k.sharing.on
    /\ k.kind \in {"move", "publish"} => k.target \in Targets

CommandsBacked == \A c \in Commands : Sound(cmd[c])
ReauthBacked == Backed(reauth.res, reauth.reply.on, reauth.reply.epoch)

ShareInv ==
    /\ Shape
    /\ PlatformOwn
    /\ RowsBacked
    /\ CommandsBacked
    /\ ReauthBacked

\* What a step may do to the platform, and to the registry.
CloudGrows ==
    /\ CloudShape'
    /\ PlatformOwn'
    /\ \A r \in Resources : /\ cloud[r].epoch <= cloud'[r].epoch
                            /\ authorized[r] \subseteq authorized'[r]

Writes ==
    \/ \E r \in Resources, new \in Row :
           Backed(r, new.on, new.epoch) /\ Put(r, new)
    \/ \E r \in Resources, on \in BOOLEAN, e \in Epochs :
           /\ Backed(r, on, e)
           /\ SetDesired(r, on, e) \/ SetAtCurrentEpoch(r, on, e)
    \/ \E r \in Resources, t \in Targets, e \in Epochs :
           Backed(r, TRUE, e) /\ Retarget(r, t, e)
    \/ \E r \in Resources : Delete(r)
    \/ \E t \in Targets : RetargetStopped(t) /\ ~daemon
    \/ UNCHANGED rows

-----------------------------------------------------------------------------
(* What growth and writes keep.                                            *)

LEMMA EpochsAreNumbers == Epochs \subseteq Nat /\ 0 \in Epochs /\ 1 \in Epochs
BY EpochAssumption, ShareAssumption DEF Epochs

LEMMA NoRowIsNone == /\ NoRow.target = "none" /\ NoRow.on = FALSE
                     /\ NoRow.epoch = 0
BY DEF NoRow

LEMMA RowFields ==
    ASSUME Shape, NEW r \in Resources
    PROVE  /\ rows[r] \in Row \cup {NoRow}
           /\ rows[r].on \in BOOLEAN /\ rows[r].epoch \in Epochs
           /\ Present(r) => rows[r] \in Row
           /\ cloud[r].epoch \in Epochs /\ cloud[r].on \in BOOLEAN
<1>1. rows[r] \in Row \cup {NoRow}
      BY DEF Shape, RowsOK
<1>2. rows[r] \in Row => rows[r].on \in BOOLEAN /\ rows[r].epoch \in Epochs
      BY DEF Row
<1>3. cloud[r] \in [active : BOOLEAN, on : BOOLEAN, epoch : Epochs]
      BY DEF Shape, CloudShape
<1> QED BY <1>1, <1>2, <1>3, NoRowIsNone, EpochsAreNumbers DEF Present

LEMMA BackedStays ==
    ASSUME Shape, CloudGrows, NEW r \in Resources, NEW on, NEW e \in Epochs,
           Backed(r, on, e)
    PROVE  Backed(r, on, e)'
<1>1. cloud[r].epoch \in Nat /\ cloud'[r].epoch \in Nat /\ e \in Nat
      BY EpochsAreNumbers DEF Shape, CloudGrows, CloudShape
<1> QED BY <1>1 DEF Backed, CloudGrows

LEMMA CloudStill ==
    ASSUME ShareInv, UNCHANGED <<cloud, authorized>>
    PROVE  CloudGrows
<1>1. \A r \in Resources : cloud[r].epoch \in Nat
      BY EpochsAreNumbers DEF ShareInv, Shape, CloudShape
<1> QED BY <1>1 DEF ShareInv, Shape, CloudShape, CloudGrows, PlatformOwn, Backed

\* What a write leaves in each row: what was there, nothing, something backed
\* that is newer or has the same origin, or, with no daemon, a new origin.
Rewrites(r) ==
    \/ rows'[r] = rows[r]
    \/ rows'[r] = NoRow
    \/ /\ rows'[r] \in Row
       /\ Backed(r, rows'[r].on, rows'[r].epoch)
       /\ Present(r) /\ rows'[r].epoch <= rows[r].epoch
              => /\ rows'[r].epoch = rows[r].epoch
                 /\ rows'[r].target = rows[r].target
    \/ /\ ~daemon
       /\ rows'[r] \in Row
       /\ rows'[r].on = rows[r].on /\ rows'[r].epoch = rows[r].epoch

LEMMA OneRow ==
    ASSUME Shape, NEW r \in Resources, NEW new \in Row \cup {NoRow},
           rows' = [rows EXCEPT ![r] = new],
           \/ new = NoRow
           \/ /\ new \in Row
              /\ Backed(r, new.on, new.epoch)
              /\ Present(r) /\ new.epoch <= rows[r].epoch
                     => new.epoch = rows[r].epoch /\ new.target = rows[r].target
    PROVE  RowsOK' /\ \A q \in Resources : Rewrites(q)
<1>1. /\ rows' \in [Resources -> Row \cup {NoRow}]
      /\ rows'[r] = new
      /\ \A q \in Resources \ {r} : rows'[q] = rows[q]
      BY DEF Shape, RowsOK
<1>2. Rewrites(r)
      BY <1>1 DEF Rewrites
<1>3. \A q \in Resources \ {r} : Rewrites(q)
      BY <1>1 DEF Rewrites
<1> QED BY <1>1, <1>2, <1>3 DEF RowsOK

LEMMA NewRow ==
    ASSUME NEW on \in BOOLEAN, NEW e \in Epochs, NEW t \in Targets
    PROVE  [on |-> on, epoch |-> e, target |-> t] \in Row
BY DEF Row

LEMMA PresentTarget ==
    ASSUME Shape, NEW r \in Resources, Present(r)
    PROVE  rows[r].target \in Targets
BY DEF Shape, RowsOK, Present, Row

LEMMA WritesRows ==
    ASSUME Shape, Writes
    PROVE  RowsOK' /\ \A q \in Resources : Rewrites(q)
<1>1. ASSUME NEW r \in Resources, NEW new \in Row,
             Backed(r, new.on, new.epoch), Put(r, new)
      PROVE  RowsOK' /\ \A q \in Resources : Rewrites(q)
  <2>1. new.epoch \in Nat /\ rows[r].epoch \in Nat
        BY RowFields, EpochsAreNumbers DEF Row
  <2>2. Present(r) /\ new.epoch <= rows[r].epoch
            => new.epoch = rows[r].epoch /\ new.target = rows[r].target
        BY <1>1, <2>1 DEF Put, PutAccepts
  <2> QED BY <1>1, <2>2, OneRow DEF Put
<1>2. ASSUME NEW r \in Resources, NEW on \in BOOLEAN, NEW e \in Epochs,
             Backed(r, on, e), SetDesired(r, on, e) \/ SetAtCurrentEpoch(r, on, e)
      PROVE  RowsOK' /\ \A q \in Resources : Rewrites(q)
  <2> DEFINE new == [on |-> on, epoch |-> e, target |-> rows[r].target]
  <2>1. e \in Nat /\ rows[r].epoch \in Nat
        BY RowFields, EpochsAreNumbers
  <2>2. Present(r) /\ (e <= rows[r].epoch => e = rows[r].epoch)
        BY <1>2, <2>1 DEF SetDesired, SetDesiredAccepts, SetAtCurrentEpoch,
           AtCurrentEpoch
  <2>3. new \in Row
        BY <2>2, PresentTarget, NewRow
  <2>4. rows' = [rows EXCEPT ![r] = new]
        BY <1>2 DEF SetDesired, SetAtCurrentEpoch
  <2>5. new.on = on /\ new.epoch = e /\ new.target = rows[r].target
        OBVIOUS
  <2> HIDE DEF new
  <2> QED BY <1>2, <2>2, <2>3, <2>4, <2>5, OneRow
<1>3. ASSUME NEW r \in Resources, NEW t \in Targets, NEW e \in Epochs,
             Backed(r, TRUE, e), Retarget(r, t, e)
      PROVE  RowsOK' /\ \A q \in Resources : Rewrites(q)
  <2> DEFINE new == [on |-> TRUE, epoch |-> e, target |-> t]
  <2>1. e \in Nat /\ rows[r].epoch \in Nat
        BY RowFields, EpochsAreNumbers
  <2>2. ~(e <= rows[r].epoch)
        BY <1>3, <2>1 DEF Retarget, RetargetAccepts
  <2>3. new \in Row
        BY NewRow
  <2>4. rows' = [rows EXCEPT ![r] = new]
        BY <1>3 DEF Retarget
  <2>5. new.on = TRUE /\ new.epoch = e /\ new.target = t
        OBVIOUS
  <2> HIDE DEF new
  <2> QED BY <1>3, <2>2, <2>3, <2>4, <2>5, OneRow
<1>4. ASSUME NEW r \in Resources, Delete(r)
      PROVE  RowsOK' /\ \A q \in Resources : Rewrites(q)
      BY <1>4, OneRow DEF Delete
<1>5. ASSUME NEW t \in Targets, RetargetStopped(t), ~daemon
      PROVE  RowsOK' /\ \A q \in Resources : Rewrites(q)
  <2>1. ASSUME NEW q \in Resources
        PROVE  rows'[q] \in Row \cup {NoRow} /\ Rewrites(q)
    <3>1. CASE Present(q)
      <4> DEFINE new == [on |-> rows[q].on, epoch |-> rows[q].epoch,
                         target |-> t]
      <4>1. rows'[q] = new
            BY <1>5, <3>1 DEF RetargetStopped
      <4>2. new \in Row
            BY RowFields, NewRow
      <4>3. new.on = rows[q].on /\ new.epoch = rows[q].epoch
            OBVIOUS
      <4> QED BY <1>5, <4>1, <4>2, <4>3 DEF Rewrites
    <3>2. CASE ~Present(q)
          BY <1>5, <3>2 DEF RetargetStopped, Rewrites
    <3> QED BY <3>1, <3>2
  <2>2. rows' = [q \in Resources |-> rows'[q]]
        BY <1>5 DEF RetargetStopped
  <2> QED BY <2>1, <2>2 DEF RowsOK
<1>6. CASE UNCHANGED rows
      BY <1>6 DEF Shape, RowsOK, Rewrites
<1> QED BY <1>1, <1>2, <1>3, <1>4, <1>5, <1>6 DEF Writes

LEMMA WritesKeepBacked ==
    ASSUME ShareInv, Writes, CloudGrows
    PROVE  RowsOK' /\ RowsBacked'
<1>1. RowsOK' /\ \A q \in Resources : Rewrites(q)
      BY WritesRows DEF ShareInv
<1>2. ASSUME NEW r \in Resources
      PROVE  Backed(r, rows[r].on, rows[r].epoch)'
  <2>1. rows[r].epoch \in Epochs /\ rows'[r].epoch \in Epochs
    <3>1. rows[r].epoch \in Epochs
          BY RowFields DEF ShareInv
    <3>2. rows'[r] \in Row \cup {NoRow}
          BY <1>1 DEF RowsOK
    <3>3. rows'[r] \in Row => rows'[r].epoch \in Epochs
          BY DEF Row
    <3> QED BY <3>1, <3>2, <3>3, NoRowIsNone, EpochsAreNumbers
  <2>2. Backed(r, rows'[r].on, rows'[r].epoch)
    <3>1. Backed(r, rows[r].on, rows[r].epoch)
          BY DEF ShareInv, RowsBacked
    <3>2. CASE rows'[r] = NoRow
      <4>1. cloud[r].epoch \in Nat
            BY RowFields, EpochsAreNumbers DEF ShareInv
      <4> QED BY <3>2, <4>1, NoRowIsNone DEF Backed
    <3> QED BY <1>1, <3>1, <3>2 DEF Rewrites
  <2> DEFINE on == rows'[r].on  e == rows'[r].epoch
  <2>3. e \in Epochs /\ Backed(r, on, e)
        BY <2>1, <2>2
  <2> HIDE DEF on, e
  <2>4. e <= cloud'[r].epoch /\ (on => e \in authorized'[r])
    <3>1. cloud[r].epoch \in Nat /\ cloud'[r].epoch \in Nat /\ e \in Nat
          BY <2>3, EpochsAreNumbers DEF ShareInv, Shape, CloudGrows, CloudShape
    <3> QED BY <2>3, <3>1 DEF Backed, CloudGrows
  <2> QED BY <2>4 DEF Backed, on, e
<1> QED BY <1>1, <1>2 DEF RowsBacked
-----------------------------------------------------------------------------
(* The platform's answers.                                                 *)

LEMMA Answered ==
    ASSUME Shape, PlatformOwn, NEW r \in Resources
    PROVE  /\ Answer(r) \in Reply
           /\ Answer(r).on = cloud[r].on /\ Answer(r).epoch = cloud[r].epoch
           /\ Backed(r, Answer(r).on, Answer(r).epoch)
<1>1. cloud[r].on \in BOOLEAN /\ cloud[r].epoch \in Epochs
      BY RowFields
<1>2. Answer(r).on = cloud[r].on /\ Answer(r).epoch = cloud[r].epoch
      BY DEF Answer
<1>3. Answer(r) \in Reply
      BY <1>1 DEF Answer, Reply
<1> QED BY <1>2, <1>3 DEF PlatformOwn

\* What a request may leave: the state asked for, at no earlier epoch.
Follows(r, on, state) ==
    /\ state.on = on
    /\ cloud[r].epoch <= state.epoch

LEMMA SetFollows ==
    ASSUME Shape, NEW r \in Resources, NEW on \in BOOLEAN,
           NEW state \in AfterSet(r, on)
    PROVE  Follows(r, on, state)
<1>1. cloud[r].epoch \in Nat
      BY RowFields, EpochsAreNumbers
<1>2. CASE cloud[r].on = on
      BY <1>1, <1>2 DEF AfterSet, Answer, Follows
<1>3. CASE cloud[r].on # on
  <2>1. PICK e \in {cloud[r].epoch + 1, cloud[r].epoch} :
            state = [on |-> on, epoch |-> e]
        BY <1>3 DEF AfterSet
  <2>2. state.on = on /\ state.epoch = e
        BY <2>1
  <2> QED BY <1>1, <2>1, <2>2 DEF Follows
<1> QED BY <1>2, <1>3

LEMMA RestartFollows ==
    ASSUME Shape, NEW r \in Resources, NEW state \in AfterRestart(r)
    PROVE  Follows(r, TRUE, state)
<1>1. cloud[r].epoch \in Nat
      BY RowFields, EpochsAreNumbers
<1>2. state = [on |-> TRUE, epoch |-> cloud[r].epoch + 1]
      BY DEF AfterRestart
<1>3. state.on = TRUE /\ state.epoch = cloud[r].epoch + 1
      BY <1>2
<1> QED BY <1>1, <1>3 DEF Follows

LEMMA RequestFollows ==
    ASSUME Shape, NEW c \in Commands, NEW state \in Requested(c)
    PROVE  Follows(Res(c), TRUE, state)
<1>1. Res(c) \in Resources
      BY DEF Shape, Command, Res
<1> QED BY <1>1, SetFollows, RestartFollows DEF Requested

\* An applied request.
LEMMA Applied ==
    ASSUME ShareInv, NEW r \in Resources, NEW on \in BOOLEAN, NEW state,
           Follows(r, on, state), Apply(r, state)
    PROVE  /\ CloudGrows
           /\ state.epoch \in Epochs
           /\ Backed(r, on, state.epoch)'
<1> DEFINE e == state.epoch
<1>1. state.on = on /\ e \in Epochs /\ cloud[r].epoch <= e
      BY DEF Apply, Follows
<1>2. cloud \in [Resources -> [active : BOOLEAN, on : BOOLEAN, epoch : Epochs]]
      /\ authorized \in [Resources -> SUBSET Epochs]
      BY DEF ShareInv, Shape, CloudShape
<1>3. cloud' = [cloud EXCEPT ![r] = [active |-> TRUE, on |-> on, epoch |-> e]]
      BY <1>1 DEF Apply
<1>4. authorized' = IF on THEN [authorized EXCEPT ![r] = @ \cup {e}]
                          ELSE authorized
      BY <1>1 DEF Apply
<1> HIDE DEF e
<1>5. cloud' \in [Resources -> [active : BOOLEAN, on : BOOLEAN, epoch : Epochs]]
      BY <1>1, <1>2, <1>3
<1>6. authorized' \in [Resources -> SUBSET Epochs]
      BY <1>1, <1>2, <1>4
<1>7. \A q \in Resources : authorized[q] \subseteq authorized'[q]
      BY <1>2, <1>4
<1>8. on => e \in authorized'[r]
      BY <1>2, <1>4
<1>9. /\ cloud'[r].on = on /\ cloud'[r].epoch = e
      /\ \A q \in Resources \ {r} : cloud'[q] = cloud[q]
      BY <1>2, <1>3
<1>10. \A q \in Resources : cloud[q].epoch <= cloud'[q].epoch
  <2>1. ASSUME NEW q \in Resources \ {r}
        PROVE  cloud[q].epoch <= cloud'[q].epoch
    <3>1. cloud[q].epoch \in Nat
          BY <1>2, EpochsAreNumbers
    <3> QED BY <1>9, <3>1
  <2> QED BY <1>1, <1>9, <2>1
<1>11. e \in Nat
       BY <1>1, EpochsAreNumbers
<1>12. PlatformOwn'
  <2>1. ASSUME NEW q \in Resources \ {r}
        PROVE  Backed(q, cloud[q].on, cloud[q].epoch)'
    <3>1. Backed(q, cloud[q].on, cloud[q].epoch)
          BY DEF ShareInv, PlatformOwn
    <3> QED BY <3>1, <1>7, <1>9 DEF Backed
  <2>2. Backed(r, cloud[r].on, cloud[r].epoch)'
        BY <1>8, <1>9, <1>11 DEF Backed
  <2> QED BY <2>1, <2>2 DEF PlatformOwn
<1>13. cloud'[r].epoch = state.epoch /\ (on => state.epoch \in authorized'[r])
       /\ state.epoch \in Nat /\ state.epoch \in Epochs
       BY <1>1, <1>8, <1>9, <1>11 DEF e
<1>14. Backed(r, on, state.epoch)'
       BY <1>13, <1>1, <1>3, <1>4 DEF Backed, Apply
<1> QED BY <1>5, <1>6, <1>7, <1>10, <1>12, <1>13, <1>14 DEF CloudGrows, CloudShape

LEMMA Lost ==
    ASSUME ShareInv, NEW r \in Resources, NEW on \in BOOLEAN, NEW states,
           \A state \in states : Follows(r, on, state), Lose(r, states)
    PROVE  CloudGrows
BY Applied, CloudStill DEF Lose

\* A revoked resource keeps its epoch.
LEMMA Revoked ==
    ASSUME ShareInv, NEW r \in Resources, Revoke(r), UNCHANGED authorized
    PROVE  CloudGrows
<1>1. cloud \in [Resources -> [active : BOOLEAN, on : BOOLEAN, epoch : Epochs]]
      /\ authorized \in [Resources -> SUBSET Epochs]
      BY DEF ShareInv, Shape, CloudShape
<1>2. cloud' \in [Resources -> [active : BOOLEAN, on : BOOLEAN, epoch : Epochs]]
      /\ authorized' \in [Resources -> SUBSET Epochs]
      BY <1>1 DEF Revoke
<1>3. \A q \in Resources : /\ cloud'[q].epoch = cloud[q].epoch
                           /\ cloud'[q].on => cloud[q].on
      BY <1>1 DEF Revoke
<1>4. \A q \in Resources : cloud[q].epoch \in Nat
      BY <1>1, EpochsAreNumbers
<1> QED BY <1>1, <1>2, <1>3, <1>4
        DEF CloudGrows, CloudShape, ShareInv, PlatformOwn, Backed
-----------------------------------------------------------------------------
(* The commands.                                                           *)

CommandsKept == cmd' \in [Commands -> Command] /\ CommandsBacked'

LEMMA Fields ==
    ASSUME Shape, NEW c \in Commands
    PROVE  /\ cmd[c] \in Command /\ Res(c) \in Resources /\ cmd[c].res = Res(c)
           /\ cmd[c].sharing \in Reply
           /\ cmd[c].sharing.on \in BOOLEAN /\ cmd[c].sharing.epoch \in Epochs
           /\ cmd[c].local \in Row \cup {NoRow}
<1>1. cmd[c] \in Command
      BY DEF Shape
<1> QED BY <1>1 DEF Command, Reply, Res

LEMMA FreshCommand ==
    /\ Fresh \in Command
    /\ Fresh.sharing.on = FALSE /\ Fresh.sharing.epoch = 0
    /\ Fresh.pc = "idle" /\ Fresh.kind = "start" /\ Fresh.target = "none"
<1>1. (CHOOSE r \in Resources : TRUE) \in Resources
      BY ShareAssumption
<1>2. NoReply \in Reply /\ NoReply.on = FALSE /\ NoReply.epoch = 0
      BY EpochsAreNumbers DEF NoReply, Reply
<1>3. "start" \in Kinds
      BY DEF Kinds
<1> QED BY <1>1, <1>2, <1>3 DEF Fresh, Command

\* One command goes on as k.
LEMMA Proceeds ==
    ASSUME ShareInv, CloudGrows, NEW c \in Commands, NEW k \in Command,
           cmd' = [cmd EXCEPT ![c] = k],
           Backed(k.res, k.sharing.on, k.sharing.epoch)',
           k.pc = "store" => k.sharing.on,
           k.kind \in {"move", "publish"} => k.target \in Targets
    PROVE  CommandsKept
<1>1. cmd \in [Commands -> Command]
      BY DEF ShareInv, Shape
<1>2. /\ cmd' \in [Commands -> Command] /\ cmd'[c] = k
      /\ \A d \in Commands \ {c} : cmd'[d] = cmd[d]
      BY <1>1
<1>3. ASSUME NEW d \in Commands \ {c}
      PROVE  Sound(cmd[d])'
  <2>1. Sound(cmd[d])
        BY DEF ShareInv, CommandsBacked
  <2> DEFINE r == cmd[d].res  on == cmd[d].sharing.on
             e == cmd[d].sharing.epoch
  <2>2. r \in Resources /\ e \in Epochs /\ Backed(r, on, e)
        BY <2>1, Fields DEF ShareInv, Sound
  <2>3. e <= cloud'[r].epoch /\ (on => e \in authorized'[r])
    <3> HIDE DEF r, on, e
    <3>1. cloud[r].epoch \in Nat /\ cloud'[r].epoch \in Nat /\ e \in Nat
          BY <2>2, EpochsAreNumbers DEF ShareInv, Shape, CloudGrows, CloudShape
    <3> QED BY <2>2, <3>1 DEF Backed, CloudGrows
  <2> QED BY <1>2, <2>1, <2>3 DEF Sound, Backed
<1>4. Sound(cmd[c])'
      BY <1>2 DEF Sound, Backed
<1> QED BY <1>2, <1>3, <1>4 DEF CommandsKept, CommandsBacked

\* What a command held stays backed, whatever it does next.
LEMMA Holds ==
    ASSUME ShareInv, CloudGrows, NEW c \in Commands, NEW k \in Command,
           k.res = cmd[c].res, k.sharing = cmd[c].sharing
    PROVE  Backed(k.res, k.sharing.on, k.sharing.epoch)'
<1> DEFINE r == cmd[c].res  on == cmd[c].sharing.on
           e == cmd[c].sharing.epoch
<1>1. Sound(cmd[c])
      BY DEF ShareInv, CommandsBacked
<1>2. r \in Resources /\ e \in Epochs /\ Backed(r, on, e)
      BY <1>1, Fields DEF ShareInv, Sound
<1>3. k.res = r /\ k.sharing.on = on /\ k.sharing.epoch = e
      OBVIOUS
<1> HIDE DEF r, on, e
<1>4. e <= cloud'[r].epoch /\ (on => e \in authorized'[r])
  <2>1. cloud[r].epoch \in Nat /\ cloud'[r].epoch \in Nat /\ e \in Nat
        BY <1>2, EpochsAreNumbers DEF ShareInv, Shape, CloudGrows, CloudShape
  <2> QED BY <1>2, <2>1 DEF Backed, CloudGrows
<1> QED BY <1>3, <1>4 DEF Backed

\* Who has heard nothing may say nothing.
LEMMA Nothing ==
    ASSUME ShareInv, CloudGrows, NEW k \in Command, k.sharing = NoReply
    PROVE  Backed(k.res, k.sharing.on, k.sharing.epoch)'
<1>1. k.res \in Resources
      BY DEF Command
<1>2. cloud'[k.res].epoch \in Nat
      BY <1>1, EpochsAreNumbers DEF CloudGrows, CloudShape
<1>3. k.sharing.on = FALSE /\ k.sharing.epoch = 0
      BY DEF NoReply
<1> QED BY <1>2, <1>3 DEF Backed

LEMMA Goes ==
    ASSUME ShareInv, CloudGrows, NEW c \in Commands,
           NEW pc \in (Calls \ {"store"}) \cup {"idle", "done"}, Goto(c, pc)
    PROVE  CommandsKept
<1>1. PICK k : k = [cmd[c] EXCEPT !.pc = pc]
      OBVIOUS
<1>2. /\ k \in Command /\ k.res = cmd[c].res /\ k.sharing = cmd[c].sharing
      /\ k.pc = pc /\ k.kind = cmd[c].kind /\ k.target = cmd[c].target
      BY <1>1, Fields DEF ShareInv, Command
<1>3. cmd' = [cmd EXCEPT ![c] = k]
      BY <1>1 DEF Goto, ShareInv, Shape
<1>4. pc # "store"
      BY DEF Calls
<1>5. k.kind \in {"move", "publish"} => k.target \in Targets
      BY <1>2 DEF ShareInv, CommandsBacked, Sound
<1>6. Backed(k.res, k.sharing.on, k.sharing.epoch)'
      BY <1>2, Holds
<1> QED BY <1>2, <1>3, <1>4, <1>5, <1>6, Proceeds

LEMMA Finishes ==
    ASSUME ShareInv, CloudGrows, NEW c \in Commands, Finish(c)
    PROVE  CommandsKept
<1> DEFINE k == [Fresh EXCEPT !.pc = "done"]
<1>1. /\ k \in Command /\ k.pc = "done" /\ k.kind = "start"
      /\ k.sharing = NoReply
      BY FreshCommand DEF Fresh, Command
<1>2. cmd' = [cmd EXCEPT ![c] = k]
      BY DEF Finish
<1> HIDE DEF k
<1> QED BY <1>1, <1>2, Nothing, Proceeds

LEMMA Fails ==
    ASSUME ShareInv, CloudGrows, NEW c \in Commands, Fail(c)
    PROVE  CommandsKept
<1>1. "compOff" \in Calls \ {"store"}
      BY DEF Calls
<1> QED BY <1>1, Goes, Finishes DEF Fail

\* A command that has the platform's answer.
LEMMA Learns ==
    ASSUME ShareInv, CloudGrows, NEW c \in Commands, NEW state \in Reply,
           NEW pc \in Calls, pc = "store" => state.on,
           NEW r \in Resources, r = Res(c),
           Backed(r, state.on, state.epoch)',
           cmd' = [cmd EXCEPT ![c].sharing = state, ![c].pc = pc]
    PROVE  CommandsKept
<1>1. PICK k : k = [cmd[c] EXCEPT !.sharing = state, !.pc = pc]
      OBVIOUS
<1>2. /\ k \in Command /\ k.res = r /\ k.sharing = state
      /\ k.pc = pc /\ k.kind = cmd[c].kind /\ k.target = cmd[c].target
      BY <1>1, Fields DEF ShareInv, Command
<1>3. cmd' = [cmd EXCEPT ![c] = k]
      BY <1>1 DEF ShareInv, Shape
<1>4. k.kind \in {"move", "publish"} => k.target \in Targets
      BY <1>2 DEF ShareInv, CommandsBacked, Sound
<1>5. Backed(k.res, k.sharing.on, k.sharing.epoch)'
      BY <1>2
<1> QED BY <1>2, <1>3, <1>4, <1>5, Proceeds

CommandEffect == CommandsKept /\ CloudGrows /\ Writes

\* A step that leaves registry and platform alone.
LEMMA Quietly ==
    ASSUME ShareInv, UNCHANGED <<rows, cloud, authorized>>
    PROVE  CloudGrows /\ Writes
BY CloudStill DEF Writes

LEMMA BeginsChange ==
    ASSUME ShareInv, NEW c \in Commands, NEW kind, NEW r \in Resources,
           NEW t \in Targets \cup {"none"},
           kind \in {"move", "publish"} => t \in Targets,
           BeginChange(c, kind, r, t)
    PROVE  CommandEffect
<1>1. CloudGrows /\ Writes
      BY Quietly DEF BeginChange
<1>2. PICK k : k = [Fresh EXCEPT !.pc = "prior", !.kind = kind, !.res = r,
                                 !.target = t, !.local = rows[r]]
      OBVIOUS
<1>3. rows[r] \in Row \cup {NoRow} /\ kind \in Kinds /\ "prior" \in Calls
      BY RowFields DEF ShareInv, BeginChange, Changes, Kinds, Calls
<1>4. /\ k \in Command /\ k.pc = "prior" /\ k.kind = kind /\ k.target = t
      /\ k.sharing = NoReply
      BY <1>2, <1>3, FreshCommand DEF Fresh, Command
<1>5. cmd' = [cmd EXCEPT ![c] = k]
      BY <1>2 DEF BeginChange
<1> QED BY <1>1, <1>4, <1>5, Nothing, Proceeds DEF CommandEffect

LEMMA BeginsStop ==
    ASSUME ShareInv, NEW c \in Commands, NEW r \in Resources, BeginStop(c, r)
    PROVE  CommandEffect
<1>1. CloudGrows /\ Writes
      BY Quietly DEF BeginStop
<1>2. PICK k : k = [Fresh EXCEPT !.pc = "stopCloud", !.kind = "stop",
                                 !.res = r, !.local = rows[r]]
      OBVIOUS
<1>3. /\ rows[r] \in Row \cup {NoRow}
      /\ "stop" \in Kinds /\ "stopCloud" \in Calls
      BY RowFields DEF ShareInv, Kinds, Calls
<1>4. /\ k \in Command /\ k.pc = "stopCloud" /\ k.kind = "stop"
      /\ k.sharing = NoReply
      BY <1>2, <1>3, FreshCommand DEF Fresh, Command
<1>5. cmd' = [cmd EXCEPT ![c] = k]
      BY <1>2 DEF BeginStop
<1> QED BY <1>1, <1>4, <1>5, Nothing, Proceeds DEF CommandEffect

LEMMA BeginsDelete ==
    ASSUME ShareInv, NEW c \in Commands, NEW r \in Resources, BeginDelete(c, r)
    PROVE  CommandEffect
<1>1. CloudGrows /\ Writes
      BY Quietly DEF BeginDelete
<1>2. PICK k : k = [Fresh EXCEPT !.pc = "deleteCloud", !.kind = "delete",
                                 !.res = r]
      OBVIOUS
<1>3. "delete" \in Kinds /\ "deleteCloud" \in Calls
      BY DEF Kinds, Calls
<1>4. /\ k \in Command /\ k.pc = "deleteCloud" /\ k.kind = "delete"
      /\ k.sharing = NoReply
      BY <1>2, <1>3, FreshCommand DEF Fresh, Command
<1>5. cmd' = [cmd EXCEPT ![c] = k]
      BY <1>2 DEF BeginDelete
<1> QED BY <1>1, <1>4, <1>5, Nothing, Proceeds DEF CommandEffect

LEMMA ReadsPrior ==
    ASSUME ShareInv, NEW c \in Commands, ReadPrior(c)
    PROVE  CommandEffect
<1>1. CloudGrows /\ Writes
      BY Quietly DEF ReadPrior
<1>2. PICK k : k = [cmd[c] EXCEPT !.prior = Answer(Res(c)), !.pc = "authorize"]
      OBVIOUS
<1>3. Answer(Res(c)) \in Reply /\ "authorize" \in Calls
      BY Answered, Fields DEF ShareInv, Calls
<1>4. /\ k \in Command /\ k.res = cmd[c].res /\ k.sharing = cmd[c].sharing
      /\ k.pc = "authorize" /\ k.kind = cmd[c].kind /\ k.target = cmd[c].target
      BY <1>2, <1>3, Fields DEF ShareInv, Command
<1>5. cmd' = [cmd EXCEPT ![c] = k]
      BY <1>2 DEF ReadPrior, ShareInv, Shape
<1>6. k.kind \in {"move", "publish"} => k.target \in Targets
      BY <1>4 DEF ShareInv, CommandsBacked, Sound
<1>7. Backed(k.res, k.sharing.on, k.sharing.epoch)'
      BY <1>1, <1>4, Holds
<1> QED BY <1>1, <1>4, <1>5, <1>6, <1>7, Proceeds DEF CommandEffect

\* A request that was answered.
LEMMA AnsweredTo ==
    ASSUME ShareInv, NEW c \in Commands, NEW on \in BOOLEAN, NEW state,
           Follows(Res(c), on, state), state \in [on : BOOLEAN, epoch : Nat],
           Apply(Res(c), state), NEW pc \in Calls, pc = "store" => on,
           cmd' = [cmd EXCEPT ![c].sharing = state, ![c].pc = pc]
    PROVE  CommandsKept /\ CloudGrows
<1>1. PICK r \in Resources : r = Res(c)
      BY Fields DEF ShareInv
<1>2. /\ CloudGrows /\ state.epoch \in Epochs
      /\ Backed(r, on, state.epoch)'
      BY <1>1, Applied
<1>3. state.on = on /\ state \in Reply
      BY <1>2 DEF Follows, Reply
<1> QED BY <1>1, <1>2, <1>3, Learns

LEMMA SetShape ==
    ASSUME Shape, NEW c \in Commands, NEW on \in BOOLEAN,
           NEW state \in AfterSet(Res(c), on)
    PROVE  state \in [on : BOOLEAN, epoch : Nat]
<1>1. /\ cloud[Res(c)].epoch \in Nat /\ cloud[Res(c)].on \in BOOLEAN
      BY Fields, RowFields, EpochsAreNumbers
<1> QED BY <1>1 DEF AfterSet, Answer

LEMMA RequestShape ==
    ASSUME Shape, NEW c \in Commands, NEW state \in Requested(c)
    PROVE  state \in [on : BOOLEAN, epoch : Nat]
<1>1. CASE Restarts(cmd[c])
  <2>1. cloud[Res(c)].epoch \in Nat
        BY Fields, RowFields, EpochsAreNumbers
  <2>2. PICK n \in Nat : n = cloud[Res(c)].epoch + 1
        BY <2>1
  <2>3. state = [on |-> TRUE, epoch |-> n]
        BY <1>1, <2>2 DEF Requested, AfterRestart
  <2> QED BY <2>3
<1>2. CASE ~Restarts(cmd[c])
      BY <1>2, SetShape DEF Requested
<1> QED BY <1>1, <1>2

LEMMA Authorizes ==
    ASSUME ShareInv, NEW c \in Commands, Authorize(c)
    PROVE  CommandEffect
<1>1. PICK state \in Requested(c) :
          /\ Apply(Res(c), state)
          /\ cmd' = [cmd EXCEPT ![c].sharing = state, ![c].pc = "store"]
      BY DEF Authorize
<1>2. Follows(Res(c), TRUE, state) /\ state \in [on : BOOLEAN, epoch : Nat]
      BY RequestFollows, RequestShape DEF ShareInv
<1>3. "store" \in Calls
      BY DEF Calls
<1>4. CommandsKept /\ CloudGrows
      BY <1>1, <1>2, <1>3, AnsweredTo
<1> QED BY <1>4 DEF Authorize, Writes, CommandEffect

LEMMA LosesAuthorization ==
    ASSUME ShareInv, NEW c \in Commands, AuthorizeLost(c)
    PROVE  CommandEffect
<1>1. CloudGrows
  <2>1. \A state \in Requested(c) : Follows(Res(c), TRUE, state)
        BY RequestFollows DEF ShareInv
  <2> QED BY <2>1, Lost, Fields DEF AuthorizeLost, ShareInv
<1>2. "reconcile" \in Calls \ {"store"}
      BY DEF Calls
<1>3. CommandsKept
      BY <1>1, <1>2, Goes, Fails DEF AuthorizeLost
<1> QED BY <1>1, <1>3 DEF AuthorizeLost, Writes, CommandEffect

LEMMA Reconciled ==
    ASSUME ShareInv, NEW c \in Commands, Reconcile(c)
    PROVE  CommandEffect
<1>1. CloudGrows /\ Writes
      BY Quietly DEF Reconcile
<1>2. CASE Fail(c)
      BY <1>1, <1>2, Fails DEF CommandEffect
<1>3. CASE ~Fail(c)
  <2>1. PICK r \in Resources : r = Res(c)
        BY Fields DEF ShareInv
  <2>2. PICK state : state = Answer(r)
        OBVIOUS
  <2>3. /\ state.on
        /\ cmd' = [cmd EXCEPT ![c].sharing = state, ![c].pc = "store"]
        BY <1>3, <2>1, <2>2 DEF Reconcile, RestartAdvanced
  <2>4. state \in Reply /\ Backed(r, state.on, state.epoch)
        BY <2>2, Answered DEF ShareInv
  <2>5. Backed(r, state.on, state.epoch)'
        BY <2>4 DEF Backed, Reconcile
  <2>6. "store" \in Calls
        BY DEF Calls
  <2> QED BY <1>1, <2>1, <2>3, <2>4, <2>5, <2>6, Learns DEF CommandEffect
<1> QED BY <1>2, <1>3

\* A command writes what it was told.
LEMMA Stores ==
    ASSUME ShareInv, NEW c \in Commands, Store(c)
    PROVE  CommandEffect
<1>1. CloudGrows
      BY CloudStill DEF Store
<1>2. "ensure" \in Calls \ {"store"}
      BY DEF Calls
<1>3. CommandsKept
      BY <1>1, <1>2, Goes DEF Store
<1>4. Writes
  <2>1. PICK k \in Command : k = cmd[c]
        BY Fields DEF ShareInv
  <2>2. k.pc = "store" /\ StoreRow(k)
        BY <2>1 DEF Store, At
  <2>3. /\ Backed(k.res, TRUE, k.sharing.epoch) /\ k.sharing.on
        /\ k.kind \in {"move", "publish"} => k.target \in Targets
        BY <2>1, <2>2 DEF ShareInv, CommandsBacked, Sound, Backed
  <2>4. /\ k.res \in Resources
        /\ k.sharing.on = TRUE /\ k.sharing.epoch \in Epochs
        BY <2>3 DEF Command, Reply
  <2>5. CASE k.kind = "publish"
    <3> DEFINE new == [on |-> k.sharing.on, epoch |-> k.sharing.epoch,
                       target |-> k.target]
    <3>1. new \in Row /\ new.on = TRUE /\ new.epoch = k.sharing.epoch
          BY <2>3, <2>4, <2>5, NewRow
    <3>2. Put(k.res, new)
          BY <2>2, <2>5 DEF StoreRow
    <3> HIDE DEF new
    <3> QED BY <2>3, <2>4, <3>1, <3>2 DEF Writes
  <2>6. CASE k.kind = "move"
        BY <2>2, <2>3, <2>4, <2>6 DEF StoreRow, Writes
  <2>7. CASE k.kind \notin {"publish", "move"}
        BY <2>2, <2>3, <2>4, <2>7 DEF StoreRow, Writes
  <2> QED BY <2>5, <2>6, <2>7
<1> QED BY <1>1, <1>3, <1>4 DEF CommandEffect

\* An off answer that is written.
LEMMA OffWritten ==
    ASSUME ShareInv, NEW c \in Commands,
           WriteOff(Res(c), cmd[c].local, cmd[c].sharing)
    PROVE  Writes
<1>1. PICK r \in Resources : r = Res(c)
      BY Fields DEF ShareInv
<1>2. PICK off \in Reply : off = cmd[c].sharing
      BY Fields DEF ShareInv
<1>3. /\ Backed(r, off.on, off.epoch)
      /\ off.on \in BOOLEAN /\ off.epoch \in Epochs
      BY <1>1, <1>2, Fields DEF ShareInv, CommandsBacked, Sound, Reply
<1>4. Backed(r, FALSE, off.epoch)
      BY <1>3 DEF Backed
<1>5. DisableAtCurrentEpoch(r, off.epoch) \/ SetDesired(r, off.on, off.epoch)
      BY <1>1, <1>2 DEF WriteOff
<1>6. CASE DisableAtCurrentEpoch(r, off.epoch)
      BY <1>3, <1>4, <1>6 DEF DisableAtCurrentEpoch, Writes
<1>7. CASE SetDesired(r, off.on, off.epoch)
      BY <1>3, <1>7 DEF Writes
<1> QED BY <1>5, <1>6, <1>7

LEMMA TurnsOff ==
    ASSUME ShareInv, NEW c \in Commands, CompensateCloud(c) \/ StopCloud(c)
    PROVE  CommandEffect
<1>1. PICK state \in AfterSet(Res(c), FALSE) :
          /\ Apply(Res(c), state)
          /\ \/ Finish(c)
             \/ \E pc \in {"compGet", "stopStore"} :
                    cmd' = [cmd EXCEPT ![c].sharing = state, ![c].pc = pc]
      BY DEF CompensateCloud, StopCloud
<1>2. Follows(Res(c), FALSE, state) /\ state \in [on : BOOLEAN, epoch : Nat]
      BY Fields, SetFollows, SetShape DEF ShareInv
<1>3. CloudGrows
      BY <1>1, <1>2, Fields, Applied DEF ShareInv
<1>4. CommandsKept
  <2>1. CASE Finish(c)
        BY <1>3, <2>1, Finishes
  <2>2. ASSUME NEW pc \in {"compGet", "stopStore"},
               cmd' = [cmd EXCEPT ![c].sharing = state, ![c].pc = pc]
        PROVE  CommandsKept
    <3>1. pc \in Calls /\ pc # "store"
          BY DEF Calls
    <3> QED BY <1>1, <1>2, <2>2, <3>1, AnsweredTo
  <2> QED BY <1>1, <2>1, <2>2
<1>5. Writes
      BY DEF CompensateCloud, StopCloud, Writes
<1> QED BY <1>3, <1>4, <1>5 DEF CommandEffect

LEMMA FailsToTurnOff ==
    ASSUME ShareInv, NEW c \in Commands,
           CompensateCloudFails(c) \/ StopCloudFails(c)
    PROVE  CommandEffect
<1>1. \A state \in AfterSet(Res(c), FALSE) : Follows(Res(c), FALSE, state)
      BY SetFollows, Fields DEF ShareInv
<1>2. CloudGrows
      BY <1>1, Lost, Fields DEF CompensateCloudFails, StopCloudFails, ShareInv
<1>3. CommandsKept
      BY <1>2, Finishes DEF CompensateCloudFails, StopCloudFails
<1>4. Writes
      BY DEF CompensateCloudFails, StopCloudFails, Writes
<1> QED BY <1>2, <1>3, <1>4 DEF CommandEffect

LEMMA ReadsRow ==
    ASSUME ShareInv, NEW c \in Commands, CompensateRead(c)
    PROVE  CommandEffect
<1>1. CloudGrows /\ Writes
      BY Quietly DEF CompensateRead
<1>2. CASE Finish(c)
      BY <1>1, <1>2, Finishes DEF CommandEffect
<1>3. CASE ~Finish(c)
  <2>1. PICK k : k = [cmd[c] EXCEPT !.local = rows[Res(c)], !.pc = "compStore"]
        OBVIOUS
  <2>2. rows[Res(c)] \in Row \cup {NoRow} /\ "compStore" \in Calls
        BY RowFields, Fields DEF ShareInv, Calls
  <2>3. /\ k \in Command /\ k.res = cmd[c].res /\ k.sharing = cmd[c].sharing
        /\ k.pc = "compStore" /\ k.kind = cmd[c].kind
        /\ k.target = cmd[c].target
        BY <2>1, <2>2, Fields DEF ShareInv, Command
  <2>4. cmd' = [cmd EXCEPT ![c] = k]
        BY <1>3, <2>1 DEF CompensateRead, ShareInv, Shape
  <2>5. k.kind \in {"move", "publish"} => k.target \in Targets
        BY <2>3 DEF ShareInv, CommandsBacked, Sound
  <2>6. Backed(k.res, k.sharing.on, k.sharing.epoch)'
        BY <1>1, <2>3, Holds
  <2> QED BY <1>1, <2>3, <2>4, <2>5, <2>6, Proceeds DEF CommandEffect
<1> QED BY <1>2, <1>3

LEMMA StoresOff ==
    ASSUME ShareInv, NEW c \in Commands, CompensateStore(c) \/ StopStore(c)
    PROVE  CommandEffect
<1>1. CloudGrows
      BY CloudStill DEF CompensateStore, StopStore
<1>2. Writes
  <2>1. \/ WriteOff(Res(c), cmd[c].local, cmd[c].sharing)
        \/ UNCHANGED rows
        BY DEF CompensateStore, StopStore
  <2> QED BY <2>1, OffWritten DEF Writes
<1>3. Finish(c) \/ Goto(c, "reload")
      BY DEF CompensateStore, StopStore
<1>4. "reload" \in Calls \ {"store"}
      BY DEF Calls
<1> QED BY <1>1, <1>2, <1>3, <1>4, Goes, Finishes DEF CommandEffect

LEMMA Deletes ==
    ASSUME ShareInv, NEW c \in Commands,
           DeleteCloud(c) \/ DeleteCloudLost(c) \/ DeleteRow(c)
    PROVE  CommandEffect
<1>1. CloudGrows
      BY CloudStill, Revoked, Fields
         DEF DeleteCloud, DeleteCloudLost, DeleteRow, ShareInv
<1>2. Writes
  <2>1. Delete(Res(c)) \/ UNCHANGED rows
        BY DEF DeleteCloud, DeleteCloudLost, DeleteRow
  <2> QED BY <2>1, Fields DEF Writes, ShareInv
<1>3. \/ Finish(c)
      \/ \E pc \in {"deleteRow", "deleteCheck", "reload"} : Goto(c, pc)
      BY DEF DeleteCloud, DeleteCloudLost, DeleteRow
<1>4. {"deleteRow", "deleteCheck", "reload"} \subseteq Calls \ {"store"}
      BY DEF Calls
<1> QED BY <1>1, <1>2, <1>3, <1>4, Goes, Finishes DEF CommandEffect

\* The rest reads, gives up or is killed.
LEMMA MovesOn ==
    ASSUME ShareInv, NEW c \in Commands, UNCHANGED <<rows, cloud, authorized>>,
           \/ Finish(c) \/ Fail(c)
           \/ \E pc \in {"wait", "deleteRow"} : Goto(c, pc)
    PROVE  CommandEffect
<1>1. CloudGrows /\ Writes
      BY Quietly
<1>2. {"wait", "deleteRow"} \subseteq Calls \ {"store"}
      BY DEF Calls
<1> QED BY <1>1, <1>2, Goes, Finishes, Fails DEF CommandEffect

\* Every step of a command.
LEMMA CommandMoves ==
    ASSUME ShareInv, NEW c \in Commands,
           \/ CommandBegins(c) \/ CommandStep(c) \/ CommandFault(c)
           \/ Ensured(c) \/ Reloaded(c)
    PROVE  CommandEffect
<1>1. CASE CommandBegins(c)
  <2>1. ASSUME NEW kind \in {"start", "restart"}, NEW r \in Resources,
               BeginChange(c, kind, r, "none")
        PROVE  CommandEffect
        BY <2>1, BeginsChange
  <2>2. ASSUME NEW kind \in {"move", "publish"}, NEW r \in Resources,
               NEW t \in Targets, BeginChange(c, kind, r, t)
        PROVE  CommandEffect
        BY <2>2, BeginsChange
  <2> QED BY <1>1, <2>1, <2>2, BeginsStop, BeginsDelete DEF CommandBegins
<1>2. CASE CommandStep(c)
  <2>1. CASE \/ StoreRefused(c) \/ WaitEnds(c) \/ AnswersGone(c)
             \/ DeleteCheck(c)
    <3>1. /\ UNCHANGED <<rows, cloud, authorized>>
          /\ Finish(c) \/ Fail(c) \/ Goto(c, "deleteRow")
          BY <2>1 DEF StoreRefused, WaitEnds, AnswersGone, DeleteCheck
    <3> QED BY <3>1, MovesOn
  <2> QED BY <1>2, <2>1, ReadsPrior, Authorizes, Reconciled, Stores, TurnsOff,
             ReadsRow, StoresOff, Deletes DEF CommandStep
<1>3. CASE CommandFault(c)
  <2>1. CASE \/ ReadPriorFails(c) \/ AuthorizeRefused(c) \/ ReconcileFails(c)
             \/ EnsureFails(c) \/ Killed(c)
    <3>1. /\ UNCHANGED <<rows, cloud, authorized>>
          /\ Finish(c) \/ Fail(c)
          BY <2>1 DEF ReadPriorFails, AuthorizeRefused, ReconcileFails,
                      EnsureFails, Killed
    <3> QED BY <3>1, MovesOn
  <2> QED BY <1>3, <2>1, LosesAuthorization, FailsToTurnOff, Deletes
             DEF CommandFault
<1>4. CASE Ensured(c) \/ Reloaded(c)
  <2>1. /\ UNCHANGED <<rows, cloud, authorized>>
        /\ Finish(c) \/ Goto(c, "wait")
        BY <1>4 DEF Ensured, Reloaded
  <2> QED BY <2>1, MovesOn
<1> QED BY <1>1, <1>2, <1>3, <1>4
-----------------------------------------------------------------------------
(* Headless starts, the daemon, and everything together.                   *)

LEMMA ReauthStays ==
    ASSUME ShareInv, CloudGrows, reauth' = reauth
    PROVE  ReauthBacked'
<1> DEFINE r == reauth.res  on == reauth.reply.on  e == reauth.reply.epoch
<1>1. r \in Resources /\ e \in Epochs /\ Backed(r, on, e)
      BY DEF ShareInv, Shape, Reply, ReauthBacked
<1>2. e <= cloud'[r].epoch /\ (on => e \in authorized'[r])
  <2> HIDE DEF r, on, e
  <2>1. cloud[r].epoch \in Nat /\ cloud'[r].epoch \in Nat /\ e \in Nat
        BY <1>1, EpochsAreNumbers DEF ShareInv, Shape, CloudGrows, CloudShape
  <2> QED BY <1>1, <2>1 DEF Backed, CloudGrows
<1> QED BY <1>2 DEF ReauthBacked, Backed

LEMMA CommandsStay ==
    ASSUME ShareInv, UNCHANGED commandVars
    PROVE  CloudGrows /\ CommandsKept
<1>1. CloudGrows
      BY CloudStill DEF commandVars
<1>2. CommandsKept
      BY DEF CommandsKept, CommandsBacked, Sound, Backed, commandVars, ShareInv,
             Shape
<1> QED BY <1>1, <1>2

LEMMA NoReauthFits ==
    /\ NoReauth \in [pc : {"idle", "cloud", "write"}, res : Resources,
                     local : Row \cup {NoRow}, reply : Reply]
    /\ NoReauth.reply.on = FALSE /\ NoReauth.reply.epoch = 0
<1>1. (CHOOSE r \in Resources : TRUE) \in Resources
      BY ShareAssumption
<1>2. NoReply \in Reply /\ NoReply.on = FALSE /\ NoReply.epoch = 0
      BY EpochsAreNumbers DEF NoReply, Reply
<1> QED BY <1>1, <1>2 DEF NoReauth

ReauthShape ==
    reauth \in [pc : {"idle", "cloud", "write"}, res : Resources,
                local : Row \cup {NoRow}, reply : Reply]

\* A headless start holds backed answers, and writes no other.
LEMMA NothingHeard ==
    ASSUME ShareInv, CloudGrows, ReauthShape', reauth'.reply = NoReply
    PROVE  ReauthBacked'
<1>1. reauth'.res \in Resources
      BY DEF ReauthShape
<1>2. cloud'[reauth'.res].epoch \in Nat
      BY <1>1, EpochsAreNumbers DEF CloudGrows, CloudShape
<1>3. reauth'.reply.on = FALSE /\ reauth'.reply.epoch = 0
      BY DEF NoReply
<1> QED BY <1>2, <1>3 DEF ReauthBacked, Backed

LEMMA HeadlessMoves ==
    ASSUME ShareInv,
           \/ \E r \in Resources : HeadlessGets(r)
           \/ HeadlessReads \/ HeadlessWrites
    PROVE  ReauthShape' /\ ReauthBacked' /\ Writes /\ UNCHANGED commandVars
<1>1. UNCHANGED commandVars
      BY DEF HeadlessGets, HeadlessReads, HeadlessWrites
<1>2. CloudGrows
      BY <1>1, CommandsStay
<1>3. ASSUME reauth' = NoReauth
      PROVE  ReauthShape' /\ ReauthBacked'
  <2>1. ReauthShape' /\ reauth'.reply = NoReply
        BY <1>3, NoReauthFits DEF ReauthShape, NoReauth
  <2> QED BY <1>2, <2>1, NothingHeard
<1>4. ASSUME NEW r \in Resources, HeadlessGets(r)
      PROVE  ReauthShape' /\ ReauthBacked' /\ Writes
  <2>1. rows[r] \in Row \cup {NoRow}
        BY RowFields DEF ShareInv
  <2>2. reauth' = [NoReauth EXCEPT !.pc = "cloud", !.res = r, !.local = rows[r]]
        BY <1>4 DEF HeadlessGets
  <2>3. reauth' = [pc |-> "cloud", res |-> r, local |-> rows[r], reply |-> NoReply]
        BY <2>2 DEF NoReauth
  <2>4. NoReply \in Reply
        BY EpochsAreNumbers DEF NoReply, Reply
  <2>5. ReauthShape' /\ reauth'.reply = NoReply
        BY <2>1, <2>3, <2>4 DEF ReauthShape
  <2> QED BY <1>2, <1>4, <2>5, NothingHeard DEF HeadlessGets, Writes
<1>5. CASE HeadlessReads
  <2>1. Writes
        BY <1>5 DEF HeadlessReads, Writes
  <2>2. CASE reauth' = NoReauth
        BY <1>1, <1>3, <2>1, <2>2
  <2>3. CASE reauth' # NoReauth
    <3>1. PICK r \in Resources : r = reauth.res
          BY DEF ShareInv, Shape
    <3>2. PICK state : state = Answer(r)
          OBVIOUS
    <3>3. state \in Reply /\ Backed(r, state.on, state.epoch)
          BY <3>2, Answered DEF ShareInv
    <3>4. reauth' = [reauth EXCEPT !.pc = "write", !.reply = state]
          BY <1>5, <2>3, <3>1, <3>2 DEF HeadlessReads
    <3>5. ReauthShape' /\ reauth'.res = r /\ reauth'.reply = state
          BY <3>1, <3>3, <3>4 DEF ReauthShape, ShareInv, Shape
    <3>6. cloud' = cloud /\ authorized' = authorized
          BY <1>1 DEF commandVars
    <3>7. ReauthBacked'
          BY <3>3, <3>5, <3>6 DEF ReauthBacked, Backed
    <3> QED BY <1>1, <2>1, <3>5, <3>7
  <2> QED BY <2>2, <2>3
<1>6. CASE HeadlessWrites
  <2>1. reauth' = NoReauth
        BY <1>6 DEF HeadlessWrites
  <2>2. Writes
    <3>1. PICK r \in Resources, reply \in Reply :
              r = reauth.res /\ reply = reauth.reply
          BY DEF ShareInv, Shape
    <3>2. /\ Backed(r, reply.on, reply.epoch)
          /\ reply.on \in BOOLEAN /\ reply.epoch \in Epochs
          BY <3>1 DEF ShareInv, ReauthBacked, Reply
    <3>3. \/ UNCHANGED rows
          \/ reply.on /\ EnableAtCurrentEpoch(r, reply.epoch)
          \/ SetDesired(r, reply.on, reply.epoch)
          BY <1>6, <3>1 DEF HeadlessWrites, HeadlessStores, HeadlessKeeps
    <3>4. CASE reply.on /\ EnableAtCurrentEpoch(r, reply.epoch)
      <4>1. Backed(r, TRUE, reply.epoch)
            BY <3>2, <3>4 DEF Backed
      <4> QED BY <3>2, <3>4, <4>1 DEF EnableAtCurrentEpoch, Writes
    <3>5. CASE SetDesired(r, reply.on, reply.epoch)
          BY <3>2, <3>5 DEF Writes
    <3> QED BY <3>3, <3>4, <3>5 DEF Writes
  <2> QED BY <1>1, <1>3, <2>1, <2>2
<1> QED BY <1>1, <1>4, <1>5, <1>6

\* A denial turns its own epoch off.
LEMMA Denies ==
    ASSUME ShareInv, NEW r \in Resources, PersistResourceGone(r)
    PROVE  Writes
<1>1. CASE UNCHANGED rows
      BY <1>1 DEF Writes
<1>2. CASE DisableAtCurrentEpoch(r, persisting[r])
  <2>1. persisting[r] = rows[r].epoch
        BY <1>2 DEF DisableAtCurrentEpoch, SetAtCurrentEpoch, AtCurrentEpoch
  <2>2. PICK e \in Epochs : e = rows[r].epoch
        BY RowFields DEF ShareInv
  <2>3. Backed(r, FALSE, e)
        BY <2>2 DEF ShareInv, RowsBacked, Backed
  <2>4. SetAtCurrentEpoch(r, FALSE, e)
        BY <1>2, <2>1, <2>2 DEF DisableAtCurrentEpoch
  <2> QED BY <2>3, <2>4 DEF Writes
<1> QED BY <1>1, <1>2 DEF PersistResourceGone

\* Every step of the system is a step of this kind.
LEMMA SystemMoves ==
    ASSUME ShareInv, [Next]_vars
    PROVE  /\ CommandsKept /\ CloudGrows /\ Writes
           /\ ReauthShape' /\ ReauthBacked'
<1>1. ASSUME CommandEffect, reauth' = reauth
      PROVE  /\ CommandsKept /\ CloudGrows /\ Writes
             /\ ReauthShape' /\ ReauthBacked'
      BY <1>1, ReauthStays DEF CommandEffect, ReauthShape, ShareInv, Shape
<1>2. ASSUME NEW c \in Commands,
             \/ Commanded(c) \/ CommandFails(c) \/ Ensure(c)
             \/ ReloadIfRunning(c)
      PROVE  CommandEffect /\ reauth' = reauth
  <2>1. /\ reauth' = reauth
        /\ \/ CommandBegins(c) \/ CommandStep(c) \/ CommandFault(c)
           \/ Ensured(c) \/ Reloaded(c)
        BY <1>2 DEF Commanded, CommandFails, Ensure, ReloadIfRunning, systemVars
  <2> QED BY <2>1, CommandMoves
<1>3. ASSUME UNCHANGED commandVars, reauth' = reauth, Writes
      PROVE  CommandEffect
      BY <1>3, CommandsStay DEF CommandEffect
<1>4. ASSUME NEW t \in Targets, RetargetLocal(t)
      PROVE  UNCHANGED commandVars /\ reauth' = reauth /\ Writes
      BY <1>4 DEF RetargetLocal, Writes
<1>5. ASSUME NEW r \in Resources, Serves(r) \/ Refuses(r)
      PROVE  UNCHANGED commandVars /\ reauth' = reauth /\ Writes
      BY <1>5 DEF Serves, Refuses, Daemon, systemVars, Writes
<1>6. ASSUME NEW r \in Resources, Persists(r)
      PROVE  UNCHANGED commandVars /\ reauth' = reauth /\ Writes
      BY <1>6, Denies DEF Persists, systemVars
<1>7. ASSUME \/ Daemon(Reconciles) \/ Daemon(TimersFire) \/ Daemon(SessionEnds)
             \/ DaemonFails \/ ServiceManagerRestarts
      PROVE  UNCHANGED commandVars /\ reauth' = reauth /\ Writes
      BY <1>7 DEF Daemon, DaemonFails, ServiceManagerRestarts, systemVars, Writes
<1>8. CASE UNCHANGED vars
      BY <1>1, <1>3, <1>8 DEF vars, systemVars, Writes
<1>9. ASSUME \/ \E r \in Resources : HeadlessGets(r)
             \/ HeadlessReads \/ HeadlessWrites
      PROVE  /\ CommandsKept /\ CloudGrows /\ Writes
             /\ ReauthShape' /\ ReauthBacked'
      BY <1>9, HeadlessMoves, CommandsStay
<1> QED BY <1>1, <1>2, <1>3, <1>4, <1>5, <1>6, <1>7, <1>8, <1>9 DEF Next

LEMMA ShareInvKept ==
    ASSUME ShareInv, [Next]_vars
    PROVE  ShareInv'
<1>1. /\ CommandsKept /\ CloudGrows /\ Writes
      /\ ReauthShape' /\ ReauthBacked'
      BY SystemMoves
<1>2. RowsOK' /\ RowsBacked'
      BY <1>1, WritesKeepBacked
<1> QED BY <1>1, <1>2 DEF ShareInv, Shape, CommandsKept, CloudGrows, ReauthShape

LEMMA ShareInvBegins ==
    ASSUME Init
    PROVE  ShareInv
<1> DEFINE first == CHOOSE t \in Targets : TRUE
<1>1. first \in Targets
      BY ShareAssumption
<1>2. [on |-> TRUE, epoch |-> 1, target |-> first] \in Row
      BY <1>1, EpochsAreNumbers DEF Row
<1> HIDE DEF first
<1>3. RowsOK
      BY <1>2 DEF Init, RowsOK, first
<1>4. CloudShape
      BY EpochsAreNumbers DEF Init, CloudShape
<1>5. cmd \in [Commands -> Command] /\ \A c \in Commands : cmd[c] = Fresh
      BY FreshCommand DEF Init
<1>6. PlatformOwn
  <2>1. ASSUME NEW r \in Resources
        PROVE  Backed(r, cloud[r].on, cloud[r].epoch)
    <3>1. CASE r \in scenario.published
      <4>1. cloud[r].epoch = 1 /\ authorized[r] = {1}
            BY <3>1 DEF Init
      <4> QED BY <4>1 DEF Backed
    <3>2. CASE r \notin scenario.published
      <4>1. cloud[r].epoch = 0
            BY <3>2 DEF Init
      <4>2. ~cloud[r].on
            BY <3>2 DEF Init
      <4> QED BY <4>1, <4>2 DEF Backed
    <3> QED BY <3>1, <3>2
  <2> QED BY <2>1 DEF PlatformOwn
<1>7. \A r \in Resources : cloud[r].epoch \in Nat
      BY <1>4, EpochsAreNumbers DEF CloudShape
<1>8. RowsBacked
  <2>1. ASSUME NEW r \in Resources
        PROVE  Backed(r, rows[r].on, rows[r].epoch)
    <3>1. CASE r \in scenario.published
      <4>1. /\ rows[r].on = TRUE /\ rows[r].epoch = 1
            /\ cloud[r].epoch = 1 /\ authorized[r] = {1}
            BY <3>1 DEF Init
      <4> QED BY <4>1 DEF Backed
    <3>2. CASE r \notin scenario.published
      <4>1. rows[r] = NoRow
            BY <3>2 DEF Init
      <4> QED BY <4>1, <1>7, NoRowIsNone DEF Backed
    <3> QED BY <3>1, <3>2
  <2> QED BY <2>1 DEF RowsBacked
<1>9. CommandsBacked
  <2>1. Fresh.res \in Resources
        BY FreshCommand DEF Command
  <2>2. Sound(Fresh)
        BY <1>7, <2>1, FreshCommand DEF Sound, Backed
  <2> QED BY <1>5, <2>2 DEF CommandsBacked
<1>10. reauth = NoReauth /\ ReauthShape
       BY NoReauthFits DEF Init, ReauthShape
<1>11. ReauthBacked
  <2>1. NoReauth.res \in Resources
        BY NoReauthFits
  <2> QED BY <1>7, <1>10, <2>1, NoReauthFits DEF ReauthBacked, Backed
<1> QED BY <1>3, <1>4, <1>5, <1>6, <1>8, <1>9, <1>10, <1>11
        DEF ShareInv, Shape, ReauthShape

\* In every state of every behaviour.
THEOREM AnswersAreBacked == Spec => []ShareInv
<1>1. Init => ShareInv
      BY ShareInvBegins
<1>2. ShareInv /\ [Next]_vars => ShareInv'
      BY ShareInvKept
<1> QED BY <1>1, <1>2, PTL DEF Spec

-----------------------------------------------------------------------------
(* The properties.                                                         *)

\* No answer, however late, no compensation and no headless start brings a
\* row to an epoch, or on at an epoch, that the platform never had.
THEOREM RowsFollow == Spec => []RowFollowsCloud
<1>1. ShareInv => RowFollowsCloud
      BY DEF ShareInv, RowsBacked, Backed, RowFollowsCloud
<1> QED BY <1>1, AnswersAreBacked, PTL

\* Commands, compensation, headless starts and denials write the registry by
\* its operations alone.
THEOREM SystemImplementsRegistry == Spec => ImplementsRegistry
<1>1. ShareInv /\ [Next]_vars => [RegistryNext]_rows
  <2> SUFFICES ASSUME ShareInv, [Next]_vars
               PROVE  RegistryNext \/ UNCHANGED rows
      OBVIOUS
  <2>1. Writes
        BY SystemMoves
  <2> QED BY <2>1 DEF Writes, RegistryNext
<1> QED BY <1>1, AnswersAreBacked, PTL DEF Spec, ImplementsRegistry

\* A row's origin changes with a newer epoch, or while no daemon runs.
THEOREM OriginsAreFenced == Spec => TargetFence
<1> DEFINE Fenced ==
        \A r \in Resources :
            /\ Present(r) /\ rows'[r] # NoRow
            /\ rows'[r].epoch <= rows[r].epoch
            => /\ rows'[r].epoch = rows[r].epoch
               /\ rows'[r].target = rows[r].target \/ ~daemon
<1>1. ShareInv /\ [Next]_vars => Fenced
  <2> SUFFICES ASSUME ShareInv, [Next]_vars, NEW r \in Resources,
                      Present(r), rows'[r] # NoRow,
                      rows'[r].epoch <= rows[r].epoch
               PROVE  /\ rows'[r].epoch = rows[r].epoch
                      /\ rows'[r].target = rows[r].target \/ ~daemon
      OBVIOUS
  <2>1. Rewrites(r)
        BY SystemMoves, WritesRows DEF ShareInv
  <2> QED BY <2>1 DEF Rewrites
<1>2. ShareInv /\ [Next]_vars => [Fenced]_vars
      BY <1>1
<1> HIDE DEF Fenced
<1>3. Spec => [][Fenced]_vars
      BY <1>2, AnswersAreBacked, PTL DEF Spec
<1> QED BY <1>3 DEF TargetFence, Fenced
-----------------------------------------------------------------------------
(* Types.                                                                  *)

LoopStates == [pc : {"idle", "listed", "record", "start", "eligible", "push",
                     "restart", "stop"},
               snap : [Resources -> Row \cup {NoRow}],
               restart : SUBSET Resources, routes : SUBSET Resources]
Definitions == [epoch : Epochs, target : Targets \cup {"none"}]
Reports == {"none", "starting", "retrying", "serving", "failed"}
SessionStates == [state : {"none", "live", "exited"},
                  why : {"none", "empty", "stopped", "error", "gone"},
                  routes : [Resources -> Routes]]

LEMMA Constants ==
    /\ Untracked \in Definitions /\ NoRoute \in Routes
    /\ Idle \in LoopStates
    /\ NoSession \in SessionStates
    /\ NoSession.routes = [r \in Resources |-> NoRoute]
<1>1. Untracked \in Definitions /\ NoRoute \in Routes
      BY EpochsAreNumbers DEF Untracked, NoRoute, Definitions, Routes
<1>2. Idle \in LoopStates
      BY DEF Idle, LoopStates
<1>3. NoSession \in SessionStates
      BY <1>1 DEF NoSession, SessionStates
<1> QED BY <1>1, <1>2, <1>3 DEF NoSession

Loops == trigger \in BOOLEAN /\ loop \in LoopStates
Backoffs == /\ withheld \in SUBSET Resources
            /\ groupBackoff \in BOOLEAN
            /\ timers \in SUBSET (Resources \cup {"group", "push"})
Tables == /\ tracked \in [Resources -> Definitions]
          /\ diagnostics \in [Resources -> Reports]
          /\ persisting \in [Resources -> Epochs]
Runners == session \in SessionStates /\ stopRequested \in BOOLEAN

LEMMA DaemonParts ==
    DaemonOK <=> daemon \in BOOLEAN /\ Loops /\ Backoffs /\ Tables /\ Runners
BY DEF DaemonOK, Loops, Backoffs, Tables, Runners, LoopStates, Definitions,
       Reports, SessionStates

\* What the loop holds.
LEMMA Snapshots ==
    ASSUME Loops
    PROVE  /\ loop.restart \subseteq Resources
           /\ \A r \in Resources : Definition(r) \in Definitions
<1>1. /\ loop.snap \in [Resources -> Row \cup {NoRow}]
      /\ loop.restart \subseteq Resources
      BY DEF Loops, LoopStates
<1>2. ASSUME NEW r \in Resources
      PROVE  Definition(r) \in Definitions
  <2>1. loop.snap[r] \in Row \cup {NoRow}
        BY <1>1
  <2>2. /\ loop.snap[r].epoch \in Epochs
        /\ loop.snap[r].target \in Targets \cup {"none"}
        BY <2>1, NoRowIsNone, EpochsAreNumbers DEF Row
  <2> QED BY <2>2 DEF Definition, Definitions
<1> QED BY <1>1, <1>2

LEMMA LoopGoes ==
    ASSUME Loops, NEW pc \in {"idle", "listed", "record", "start", "eligible",
                              "push", "restart", "stop"}
    PROVE  /\ [loop EXCEPT !.pc = pc] \in LoopStates
           /\ \A s \in SUBSET Resources :
                  /\ [loop EXCEPT !.restart = s] \in LoopStates
                  /\ [loop EXCEPT !.pc = pc, !.restart = s] \in LoopStates
                  /\ \A q \in SUBSET Resources :
                         [loop EXCEPT !.pc = pc, !.routes = q, !.restart = s]
                             \in LoopStates
BY DEF Loops, LoopStates

LEMMA Recorded ==
    ASSUME Loops, Tables, NEW commit \in SUBSET Desired, Record(commit)
    PROVE  /\ tracked' \in [Resources -> Definitions]
           /\ diagnostics' \in [Resources -> Reports]
<1>1. \A r \in Resources : Definition(r) \in Definitions
      BY Snapshots
<1>2. tracked' \in [Resources -> Definitions]
      BY <1>1 DEF Record, Tables
<1>3. diagnostics' \in [Resources -> Reports]
      BY DEF Record, Tables, Reports
<1> QED BY <1>2, <1>3

\* One move of the daemon, given that it reads a registry and a platform of
\* their types.
DaemonMove ==
    \/ DaemonStarts \/ Reload \/ Reconciles \/ TimersFire \/ SessionEnds
    \/ DaemonFault
    \/ \E r \in Resources : \/ RouteRefused(r) \/ PersistResourceGone(r)
                            \/ \E e \in Epochs : RouteServes(r, e)
    \/ UNCHANGED daemonVars

LEMMA LoopTyped ==
    ASSUME DaemonOK, RowsOK, DaemonMove
    PROVE  Loops' /\ daemon' \in BOOLEAN
<1> USE DaemonParts
<1>1. Loops /\ daemon \in BOOLEAN
      OBVIOUS
<1>2. CASE List
  <2>1. [r \in Resources |-> IF rows[r].on THEN rows[r] ELSE NoRow]
            \in [Resources -> Row \cup {NoRow}]
        BY DEF RowsOK
  <2> QED BY <1>1, <1>2, <2>1 DEF List, Loops, LoopStates, Idle
<1>3. CASE PruneUndesired
  <2>1. loop' \in {Idle} \cup
            {[loop EXCEPT !.pc = pc] : pc \in {"stop", "start", "record"}}
        BY <1>3 DEF PruneUndesired
  <2> QED BY <1>1, <1>3, <2>1, LoopGoes, Constants DEF PruneUndesired, Loops
<1>4. CASE RecordDesired
  <2>1. loop' = Idle \/ loop' = [loop EXCEPT !.pc = "eligible", !.restart = ToRestart]
        BY <1>4 DEF RecordDesired
  <2>2. ToRestart \in SUBSET Resources
        BY DEF ToRestart, Desired
  <2> QED BY <1>1, <1>4, <2>1, <2>2, LoopGoes, Constants DEF RecordDesired, Loops
<1>5. CASE EligibleRoutes
  <2>1. \/ loop' = [loop EXCEPT !.pc = "stop"]
        \/ loop' = [loop EXCEPT !.pc = "push", !.routes = Desired \ withheld,
                                !.restart = loop.restart \ withheld]
        BY <1>5 DEF EligibleRoutes, Loops, LoopStates
  <2>2. /\ Desired \ withheld \in SUBSET Resources
        /\ loop.restart \ withheld \in SUBSET Resources
        BY <1>1, Snapshots DEF Desired
  <2>3. loop' \in LoopStates
    <3>1. PICK q \in SUBSET Resources, s \in SUBSET Resources :
              q = Desired \ withheld /\ s = loop.restart \ withheld
          BY <2>2
    <3>2. /\ [loop EXCEPT !.pc = "stop"] \in LoopStates
          /\ [loop EXCEPT !.pc = "push", !.routes = q, !.restart = s]
                 \in LoopStates
          BY <1>1 DEF Loops, LoopStates
    <3> QED BY <2>1, <3>1, <3>2
  <2> QED BY <1>1, <1>5, <2>3 DEF EligibleRoutes, Loops
<1>6. CASE PushRoutes \/ PushFails
      BY <1>1, <1>6, LoopGoes, Constants
         DEF PushRoutes, PushFails, AfterPush, Loops
<1>7. ASSUME NEW r \in Resources, RestartRoute(r) \/ RestartFails(r)
      PROVE  Loops' /\ daemon' \in BOOLEAN
  <2>1. loop' = Idle \/ loop' = [loop EXCEPT !.restart = loop.restart \ {r}]
        BY <1>1, <1>7 DEF RestartRoute, RestartFails, AfterRestartOf, Loops,
                          LoopStates
  <2>2. loop.restart \ {r} \in SUBSET Resources
        BY <1>1, Snapshots
  <2> QED BY <1>1, <1>7, <2>1, <2>2, LoopGoes, Constants
             DEF RestartRoute, RestartFails, Loops
<1>8. CASE StartWaits \/ StartWithholds \/ LaunchRunner \/ StartFails \/ RunnerStopped
      BY <1>1, <1>8, Constants
         DEF StartWaits, StartWithholds, LaunchRunner, StartFails, RunnerStopped,
             Starting, Loops
<1>9. CASE TimersFire
      BY <1>1, <1>9 DEF TimersFire, RetryDue, GroupRetryDue, PushRetryDue, Loops
<1>10. CASE SessionEnds
       BY <1>1, <1>10 DEF SessionEnds, SessionStops, FinishBenign, FinishFailed,
          FinishGone, managerVars, Loops
<1>11. CASE SessionFails("error") \/ SessionFails("gone") \/ DaemonDies
       BY <1>1, <1>11, Constants DEF SessionFails, DaemonDies, managerVars, Loops
<1>12. CASE DaemonStarts \/ Reload \/ UNCHANGED daemonVars
       BY <1>1, <1>12 DEF DaemonStarts, Reload, daemonVars, managerVars, Loops
<1>13. ASSUME NEW r \in Resources,
              \/ RouteRefused(r) \/ PersistResourceGone(r)
              \/ \E e \in Epochs : RouteServes(r, e)
       PROVE  Loops' /\ daemon' \in BOOLEAN
       BY <1>1, <1>13 DEF RouteRefused, PersistResourceGone, RouteServes, Loops
<1> QED BY <1>2, <1>3, <1>4, <1>5, <1>6, <1>7, <1>8, <1>9, <1>10, <1>11, <1>12,
           <1>13 DEF DaemonMove, Reconciles, DaemonFault

LEMMA BackoffsTyped ==
    ASSUME DaemonOK, DaemonMove
    PROVE  Backoffs'
<1> USE DaemonParts
<1>1. Backoffs /\ Desired \subseteq Resources
      BY DEF Desired
<1>2. ASSUME NEW held \in SUBSET Resources, ScheduleNextDue(held)
      PROVE  timers' \in SUBSET (Resources \cup {"group", "push"})
      BY <1>1, <1>2 DEF ScheduleNextDue, Backoffs
<1>3. CASE List \/ PruneUndesired \/ RecordDesired
      BY <1>1, <1>3 DEF List, PruneUndesired, Prune, RecordDesired, Backoffs
<1>4. CASE EligibleRoutes
  <2>1. timers' \in SUBSET (Resources \cup {"group", "push"})
        BY <1>1, <1>2, <1>4 DEF EligibleRoutes
  <2> QED BY <1>1, <1>4, <2>1 DEF EligibleRoutes, Backoffs
<1>5. CASE PushRoutes \/ PushFails \/ RunnerStopped
      BY <1>1, <1>5 DEF PushRoutes, PushFails, RunnerStopped, Backoffs
<1>6. ASSUME NEW r \in Resources, RestartRoute(r) \/ RestartFails(r)
      PROVE  Backoffs'
      BY <1>1, <1>6 DEF RestartRoute, RestartFails, Backoffs
<1>7. CASE StartWaits
      BY <1>1, <1>7 DEF StartWaits, Starting, Backoffs
<1>8. CASE StartWithholds \/ LaunchRunner
  <2>1. /\ withheld' \in SUBSET Resources
        /\ groupBackoff' = groupBackoff
        BY <1>1, <1>8 DEF StartWithholds, LaunchRunner, Starting, Backoffs
  <2>2. ScheduleNextDue(Desired) \/ ScheduleNextDue(Desired \cap withheld')
        BY <1>8 DEF StartWithholds, LaunchRunner
  <2>3. timers' \in SUBSET (Resources \cup {"group", "push"})
        BY <1>1, <1>2, <2>2
  <2> QED BY <1>1, <2>1, <2>3 DEF Backoffs
<1>9. CASE StartFails
      BY <1>1, <1>9 DEF StartFails, Backoffs
<1>10. CASE TimersFire
       BY <1>1, <1>10 DEF TimersFire, RetryDue, GroupRetryDue, PushRetryDue,
                          Backoffs
<1>11. CASE SessionEnds
       BY <1>1, <1>11 DEF SessionEnds, SessionStops, FinishBenign, FinishFailed,
          FinishGone, managerVars, Backoffs
<1>12. CASE SessionFails("error") \/ SessionFails("gone") \/ DaemonDies
       BY <1>1, <1>12 DEF SessionFails, DaemonDies, managerVars, Backoffs
<1>13. CASE DaemonStarts \/ Reload \/ UNCHANGED daemonVars
       BY <1>1, <1>13 DEF DaemonStarts, Reload, daemonVars, managerVars, Backoffs
<1>14. ASSUME NEW r \in Resources, RouteRefused(r) \/ PersistResourceGone(r)
       PROVE  Backoffs'
       BY <1>1, <1>14 DEF RouteRefused, PersistResourceGone, Backoffs
<1>15. ASSUME NEW r \in Resources, NEW e \in Epochs, RouteServes(r, e)
       PROVE  Backoffs'
  <2>1. /\ withheld' = withheld \ {r} \/ withheld' = withheld
        /\ groupBackoff' = FALSE \/ groupBackoff' = groupBackoff
        /\ timers' = timers
        BY <1>15 DEF RouteServes
  <2> QED BY <1>1, <2>1 DEF Backoffs
<1> QED BY <1>3, <1>4, <1>5, <1>6, <1>7, <1>8, <1>9, <1>10, <1>11, <1>12, <1>13,
           <1>14, <1>15 DEF DaemonMove, Reconciles, DaemonFault

LEMMA TablesTyped ==
    ASSUME DaemonOK, DaemonMove
    PROVE  Tables'
<1> USE DaemonParts
<1>1. Tables /\ Loops /\ Desired \subseteq Resources
      BY DEF Desired
<1>2. ASSUME NEW commit \in SUBSET Desired, Record(commit),
             UNCHANGED persisting
      PROVE  Tables'
      BY <1>1, <1>2, Recorded DEF Tables
<1>3. CASE List \/ EligibleRoutes \/ PushRoutes \/ PushFails \/ RunnerStopped
      BY <1>1, <1>3 DEF List, EligibleRoutes, PushRoutes, PushFails,
                        RunnerStopped, Tables
<1>4. CASE PruneUndesired
  <2>1. /\ tracked' = [r \in Resources |->
                          IF r \in Desired THEN tracked[r] ELSE Untracked]
        /\ diagnostics' = [r \in Resources |->
                              IF r \notin Desired /\ Tracks(r)
                                  THEN "none" ELSE diagnostics[r]]
        /\ persisting' = persisting
        BY <1>4 DEF PruneUndesired, Prune
  <2> QED BY <1>1, <2>1, Constants DEF Tables, Reports
<1>5. CASE RecordDesired
      BY <1>2, <1>5 DEF RecordDesired
<1>6. ASSUME NEW r \in Resources, RestartRoute(r)
      PROVE  Tables'
  <2>1. r \in loop.restart /\ tracked' = [tracked EXCEPT ![r] = Definition(r)]
        BY <1>6 DEF RestartRoute
  <2>2. Definition(r) \in Definitions
        BY <1>1, Snapshots
  <2> QED BY <1>1, <1>6, <2>1, <2>2 DEF RestartRoute, Tables
<1>7. ASSUME NEW r \in Resources, RestartFails(r)
      PROVE  Tables'
      BY <1>1, <1>7 DEF RestartFails, Tables
<1>8. CASE StartWaits \/ StartWithholds \/ LaunchRunner
      BY <1>2, <1>8 DEF StartWaits, StartWithholds, LaunchRunner, Starting
<1>9. CASE StartFails
  <2>1. \A r \in Resources : Definition(r) \in Definitions
        BY <1>1, Snapshots
  <2>2. /\ tracked' = [r \in Resources |->
                          IF r \in Desired THEN Definition(r) ELSE tracked[r]]
        /\ diagnostics' = [r \in Resources |->
                              IF r \in Desired \ withheld' THEN "retrying"
                                                           ELSE diagnostics[r]]
        /\ persisting' = persisting
        BY <1>9 DEF StartFails
  <2> QED BY <1>1, <2>1, <2>2 DEF Tables, Reports
<1>10. CASE TimersFire
       BY <1>1, <1>10 DEF TimersFire, RetryDue, GroupRetryDue, PushRetryDue, Tables
<1>11. CASE SessionStops \/ FinishBenign \/ FinishFailed
       BY <1>1, <1>11 DEF SessionStops, FinishBenign, FinishFailed, MarkRetrying,
          managerVars, Tables, Reports
<1>12. CASE FinishGone
  <2>1. \A r \in Resources : tracked[r].epoch \in Epochs
        BY <1>1 DEF Tables, Definitions
  <2>2. /\ persisting' = [r \in Resources |->
                             IF Tracks(r) /\ persisting[r] = 0
                                 THEN tracked[r].epoch ELSE persisting[r]]
        /\ diagnostics' = [r \in Resources |->
                              IF Tracks(r) THEN "failed" ELSE diagnostics[r]]
        /\ tracked' = tracked
        BY <1>12 DEF FinishGone
  <2> QED BY <1>1, <2>1, <2>2 DEF Tables, Reports
<1>13. CASE SessionFails("error") \/ SessionFails("gone")
       BY <1>1, <1>13 DEF SessionFails, managerVars, Tables
<1>14. CASE DaemonDies
       BY <1>14, Constants, EpochsAreNumbers DEF DaemonDies, Tables, Reports
<1>15. CASE DaemonStarts \/ Reload \/ UNCHANGED daemonVars
       BY <1>1, <1>15 DEF DaemonStarts, Reload, daemonVars, managerVars, Tables
<1>16. ASSUME NEW r \in Resources,
              \/ RouteRefused(r) \/ PersistResourceGone(r)
              \/ \E e \in Epochs : RouteServes(r, e)
       PROVE  Tables'
       BY <1>1, <1>16, EpochsAreNumbers
          DEF RouteRefused, PersistResourceGone, RouteServes, Tables, Reports
<1> QED BY <1>3, <1>4, <1>5, <1>6, <1>7, <1>8, <1>9, <1>10, <1>11, <1>12, <1>13,
           <1>14, <1>15, <1>16
        DEF DaemonMove, Reconciles, DaemonFault, SessionEnds

LEMMA RunnersTyped ==
    ASSUME DaemonOK, DaemonMove
    PROVE  Runners'
<1> USE DaemonParts
<1>1. Runners /\ session.routes \in [Resources -> Routes]
      BY DEF Runners, SessionStates
<1>2. \A r \in Resources :
          /\ loop.snap[r].target \in Targets \cup {"none"}
          /\ [target |-> loop.snap[r].target, epoch |-> 0] \in Routes
  <2>1. \A r \in Resources : Definition(r) \in Definitions
        BY Snapshots
  <2> QED BY <2>1, EpochsAreNumbers DEF Definition, Definitions, Routes
<1>3. ASSUME session' = session \/ session' = NoSession,
             stopRequested' \in BOOLEAN
      PROVE  Runners'
      BY <1>1, <1>3, Constants DEF Runners
<1>4. ASSUME NEW routes \in [Resources -> Routes],
             session' = [session EXCEPT !.routes = routes],
             stopRequested' = stopRequested
      PROVE  Runners'
      BY <1>1, <1>4 DEF Runners, SessionStates
<1>5. ASSUME NEW why \in {"empty", "stopped", "error", "gone"},
             session' = [NoSession EXCEPT !.state = "exited", !.why = why],
             stopRequested' = stopRequested
      PROVE  Runners'
  <2>1. [NoSession EXCEPT !.state = "exited", !.why = why] \in SessionStates
        BY Constants DEF SessionStates
  <2> QED BY <1>1, <1>5, <2>1 DEF Runners
<1>6. CASE List \/ RecordDesired \/ PushFails \/ StartWaits \/ StartWithholds
           \/ StartFails \/ RunnerStopped
      BY <1>1, <1>3, <1>6 DEF List, RecordDesired, PushFails, StartWaits,
         StartWithholds, StartFails, RunnerStopped, runnerVars, Runners
<1>7. CASE PruneUndesired \/ EligibleRoutes
      BY <1>1, <1>3, <1>7 DEF PruneUndesired, EligibleRoutes, Runners
<1>8. CASE PushRoutes
  <2>1. Pushed(loop.routes) \in [Resources -> Routes]
        BY <1>1, <1>2, Constants DEF Pushed
  <2>2. /\ \/ session' = [session EXCEPT !.routes = Pushed(loop.routes)]
           \/ session' = session
        /\ stopRequested' = stopRequested
        BY <1>8 DEF PushRoutes
  <2> QED BY <1>1, <1>3, <1>4, <2>1, <2>2 DEF Runners
<1>9. ASSUME NEW r \in Resources, RestartRoute(r)
      PROVE  Runners'
  <2>1. PICK routes : routes = [session.routes EXCEPT ![r].epoch = 0]
        OBVIOUS
  <2>2. routes \in [Resources -> Routes]
        BY <1>1, <2>1, EpochsAreNumbers DEF Routes
  <2>3. /\ \/ session' = [session EXCEPT !.routes = routes]
           \/ session' = session
        /\ stopRequested' = stopRequested
        BY <1>1, <1>9, <2>1 DEF RestartRoute, Runners, SessionStates
  <2> QED BY <1>1, <1>3, <1>4, <2>2, <2>3 DEF Runners
<1>10. ASSUME NEW r \in Resources, NEW e \in Epochs, RouteServes(r, e)
       PROVE  Runners'
  <2>1. PICK routes : routes = [session.routes EXCEPT ![r].epoch = e]
        OBVIOUS
  <2>2. routes \in [Resources -> Routes]
        BY <1>1, <2>1 DEF Routes
  <2>3. /\ session' = [session EXCEPT !.routes = routes]
        /\ stopRequested' = stopRequested
        BY <1>1, <1>10, <2>1 DEF RouteServes, Runners, SessionStates
  <2> QED BY <1>4, <2>2, <2>3
<1>11. ASSUME NEW r \in Resources, RouteRefused(r)
       PROVE  Runners'
  <2>1. PICK routes : routes = [session.routes EXCEPT ![r] = NoRoute]
        OBVIOUS
  <2>2. routes \in [Resources -> Routes]
        BY <1>1, <2>1, Constants
  <2>3. /\ \/ session' = [NoSession EXCEPT !.state = "exited", !.why = "empty"]
           \/ session' = [session EXCEPT !.routes = routes]
        /\ stopRequested' = stopRequested
        BY <1>1, <1>11, <2>1 DEF RouteRefused, Runners, SessionStates
  <2> QED BY <1>4, <1>5, <2>2, <2>3
<1>12. CASE LaunchRunner
  <2>1. PICK routes : routes = [r \in Resources |->
                                   IF r \in Desired \ withheld'
                                       THEN [target |-> loop.snap[r].target,
                                             epoch |-> 0]
                                       ELSE NoRoute]
        OBVIOUS
  <2>2. routes \in [Resources -> Routes]
        BY <1>2, <2>1, Constants
  <2>3. /\ session' = [state |-> "live", why |-> "none", routes |-> routes]
        /\ stopRequested' = FALSE
        BY <1>12, <2>1 DEF LaunchRunner
  <2> QED BY <2>2, <2>3 DEF Runners, SessionStates
<1>13. CASE TimersFire
       BY <1>1, <1>3, <1>13 DEF TimersFire, RetryDue, GroupRetryDue, PushRetryDue,
          runnerVars, Runners
<1>14. CASE SessionEnds \/ SessionFails("error") \/ SessionFails("gone")
       BY <1>1, <1>3, <1>5, <1>14 DEF SessionEnds, SessionStops, SessionFails,
          FinishBenign, FinishFailed, FinishGone, Runners
<1>15. CASE DaemonDies \/ DaemonStarts \/ Reload \/ UNCHANGED daemonVars
       BY <1>1, <1>3, <1>15 DEF DaemonDies, DaemonStarts, Reload, daemonVars,
          runnerVars, Runners
<1>16. ASSUME NEW r \in Resources, PersistResourceGone(r) \/ RestartFails(r)
       PROVE  Runners'
       BY <1>1, <1>3, <1>16 DEF PersistResourceGone, RestartFails, runnerVars,
          Runners
<1> QED BY <1>6, <1>7, <1>8, <1>9, <1>10, <1>11, <1>12, <1>13, <1>14, <1>15,
           <1>16 DEF DaemonMove, Reconciles, DaemonFault

LEMMA DaemonTyped ==
    ASSUME DaemonOK, RowsOK, DaemonMove
    PROVE  DaemonOK'
BY LoopTyped, BackoffsTyped, TablesTyped, RunnersTyped, DaemonParts
   DEF DaemonOK, Loops, Backoffs, Tables, Runners, LoopStates, Definitions,
       Reports, SessionStates

-----------------------------------------------------------------------------

SystemOK ==
    /\ scenario \in Scenarios
    /\ faults \in 0 .. scenario.faults
    /\ installed \in BOOLEAN

LEMMA StepsOfTheDaemon ==
    ASSUME ShareInv, [Next]_vars
    PROVE  DaemonMove
<1>1. ASSUME NEW r \in Resources, Serves(r)
      PROVE  DaemonMove
  <2>1. cloud[r].epoch \in Epochs
        BY RowFields DEF ShareInv
  <2> QED BY <1>1, <2>1 DEF Serves, Daemon, DaemonMove
<1>2. ASSUME NEW c \in Commands,
             \/ Commanded(c) \/ CommandFails(c) \/ Ensure(c)
             \/ ReloadIfRunning(c)
      PROVE  DaemonMove
      BY <1>2 DEF Commanded, CommandFails, Ensure, ReloadIfRunning, DaemonMove
<1>3. ASSUME NEW t \in Targets, RetargetLocal(t)
      PROVE  DaemonMove
      BY <1>3 DEF RetargetLocal, DaemonMove
<1>4. ASSUME NEW r \in Resources, HeadlessGets(r) \/ Refuses(r) \/ Persists(r)
      PROVE  DaemonMove
      BY <1>4 DEF HeadlessGets, Refuses, Persists, DaemonMove
<1>5. CASE HeadlessReads \/ HeadlessWrites
      BY <1>5 DEF HeadlessReads, HeadlessWrites, DaemonMove
<1>6. CASE \/ Daemon(Reconciles) \/ Daemon(TimersFire) \/ Daemon(SessionEnds)
           \/ DaemonFails \/ ServiceManagerRestarts
      BY <1>6 DEF Daemon, DaemonFails, ServiceManagerRestarts, DaemonMove
<1>7. CASE UNCHANGED vars
      BY <1>7 DEF vars, DaemonMove
<1> QED BY <1>1, <1>2, <1>3, <1>4, <1>5, <1>6, <1>7 DEF Next

LEMMA SystemTyped ==
    ASSUME SystemOK, [Next]_vars
    PROVE  SystemOK'
<1>1. scenario.faults \in Nat /\ faults \in 0 .. scenario.faults
      BY ShareAssumption DEF SystemOK
<1>2. /\ scenario' = scenario
      /\ faults' = faults \/ Fault
      /\ installed' = installed \/ installed' = TRUE
      BY DEF Next, Commanded, CommandFails, Ensure, ReloadIfRunning,
         RetargetLocal, HeadlessGets, HeadlessReads, HeadlessWrites, Serves,
         Refuses, Persists, Daemon, DaemonFails, ServiceManagerRestarts, vars,
         systemVars
<1>3. faults' \in 0 .. scenario.faults
      BY <1>1, <1>2 DEF Fault
<1> QED BY <1>2, <1>3 DEF SystemOK

\* Every reachable state is well typed.
THEOREM TypeCorrect == Spec => []TypeOK
<1>1. Init => DaemonOK /\ SystemOK
  <2> SUFFICES ASSUME Init
               PROVE  DaemonOK /\ SystemOK
      OBVIOUS
  <2>1. DaemonOK
        BY Constants, EpochsAreNumbers
           DEF Init, DaemonInit, Empty, DaemonOK, LoopStates, Definitions,
               SessionStates
  <2>2. scenario \in Scenarios /\ faults = scenario.faults
        /\ scenario.faults \in Nat
        BY ShareAssumption DEF Init
  <2>3. installed \in BOOLEAN
        BY DEF Init
  <2> QED BY <2>1, <2>2, <2>3 DEF SystemOK
<1>2. ShareInv /\ DaemonOK /\ SystemOK /\ [Next]_vars => (DaemonOK /\ SystemOK)'
  <2> SUFFICES ASSUME ShareInv, DaemonOK, SystemOK, [Next]_vars
               PROVE  DaemonOK' /\ SystemOK'
      OBVIOUS
  <2> QED BY StepsOfTheDaemon, DaemonTyped, SystemTyped DEF ShareInv, Shape
<1>3. ShareInv /\ DaemonOK /\ SystemOK => TypeOK
      BY DEF ShareInv, Shape, CloudShape, CommandsOK, Command, SystemOK, TypeOK
<1> QED BY <1>1, <1>2, <1>3, AnswersAreBacked, PTL DEF Spec

-----------------------------------------------------------------------------
(* Whatever a reconcile leaves undone has a retry on its way.              *)

LoopIn(pcs) == loop.pc \in pcs

\* What a reconcile has established of tracked at each point of its pass.
LoopKnows ==
    /\ LoopIn({"record", "start", "eligible", "push", "restart"}) => Desired # {}
    /\ LoopIn({"record", "start", "eligible", "push", "restart", "stop"})
           => \A r \in Resources : Tracks(r) => r \in Desired
    /\ LoopIn({"eligible", "push", "restart"}) =>
           /\ loop.restart \subseteq Desired
           /\ \A r \in Desired : /\ Tracks(r)
                                 /\ tracked[r].target = loop.snap[r].target
    /\ LoopIn({"start"}) => session.state = "none"

\* What is held back is tracked, and has its timer.
HeldBack ==
    /\ \A r \in withheld : r \in timers /\ Tracks(r)
    /\ groupBackoff => "group" \in timers

Scheduled ==
    \/ trigger \/ timers # {} \/ session.state = "exited"
    \/ \E r \in Resources : persisting[r] # 0

InOrder ==
    /\ \A r \in Resources :
           Tracks(r) => Live /\ session.routes[r].target = tracked[r].target
    /\ Live => \E r \in Resources : Tracks(r)

\* Where a pass stands that nothing has interrupted.
OnCourse ==
    /\ LoopIn({"idle", "restart"}) => InOrder
    /\ LoopIn({"record", "eligible", "push", "stop"}) => session.state # "none"
    /\ LoopIn({"push"}) => loop.routes = Desired

Retried == Scheduled \/ OnCourse

LoopInv == LoopKnows /\ HeldBack /\ Retried

\* The definition of a desired row is one that is tracked.
LEMMA DesiredDefined ==
    ASSUME Loops, NEW r \in Desired
    PROVE  /\ r \in Resources
           /\ Definition(r) # Untracked
           /\ Definition(r).target = loop.snap[r].target
<1>1. r \in Resources /\ loop.snap[r] \in Row
      BY DEF Desired, Loops, LoopStates
<1>2. loop.snap[r].target # "none"
      BY <1>1, TargetAssumption DEF Row
<1> QED BY <1>1, <1>2 DEF Definition, Untracked

\* Recording what is new or has moved leaves the rest where it was.
LEMMA RecordTracks ==
    ASSUME Loops, Tables, NEW commit \in SUBSET Desired, Record(commit)
    PROVE  /\ \A r \in Resources : Tracks(r) \/ r \in commit <=> Tracks(r)'
           /\ \A r \in commit : tracked'[r].target = loop.snap[r].target
           /\ \A r \in Resources \ commit : tracked'[r] = tracked[r]
<1>1. tracked' = [r \in Resources |-> IF r \in commit THEN Definition(r)
                                                       ELSE tracked[r]]
      BY DEF Record
<1>2. \A r \in commit : /\ r \in Resources /\ Definition(r) # Untracked
                        /\ Definition(r).target = loop.snap[r].target
      BY DesiredDefined
<1> QED BY <1>1, <1>2 DEF Tracks

\* What the steps of the loop make of it.
Onward(pc) == /\ loop'.pc = pc /\ loop'.snap = loop.snap
              /\ Desired' = Desired
              /\ loop'.restart = loop.restart /\ loop'.routes = loop.routes

LEMMA GoesOnward ==
    ASSUME Loops, NEW pc \in {"idle", "listed", "record", "start", "eligible",
                              "push", "restart", "stop"},
           loop' = [loop EXCEPT !.pc = pc]
    PROVE  Onward(pc)
BY DEF Loops, LoopStates, Onward, Desired

LEMMA IdleAgain == Idle.pc = "idle"
BY DEF Idle

LEMMA IdleKnows ==
    ASSUME loop'.pc \in {"idle", "listed"}
    PROVE  LoopKnows'
BY DEF LoopKnows, LoopIn

\* Outside the loop nothing moves it, and no session comes from nothing.
LEMMA KnowsStill ==
    ASSUME LoopKnows, loop' = loop, tracked' = tracked,
           session.state = "none" => session'.state = "none"
    PROVE  LoopKnows'
<1>1. Desired' = Desired
      BY DEF Desired
<1>2. \A r \in Resources : Tracks(r)' <=> Tracks(r)
      BY DEF Tracks
<1>3. /\ LoopIn({"record", "start", "eligible", "push", "restart"})' => Desired' # {}
      /\ LoopIn({"record", "start", "eligible", "push", "restart", "stop"})'
             => \A r \in Resources : Tracks(r)' => r \in Desired'
      BY <1>1, <1>2 DEF LoopKnows, LoopIn
<1>4. LoopIn({"eligible", "push", "restart"})' =>
          /\ loop'.restart \subseteq Desired'
          /\ \A r \in Desired' : /\ Tracks(r)'
                                 /\ tracked'[r].target = loop'.snap[r].target
      BY <1>1, <1>2 DEF LoopKnows, LoopIn, Desired
<1>5. LoopIn({"start"})' => session'.state = "none"
      BY DEF LoopKnows, LoopIn
<1> QED BY <1>3, <1>4, <1>5 DEF LoopKnows

LEMMA LoopKnowsKept ==
    ASSUME DaemonOK, LoopKnows, DaemonMove
    PROVE  LoopKnows'
<1>1. Loops /\ Tables /\ Desired \subseteq Resources
      BY DaemonParts DEF Desired
<1>2. CASE List
      BY <1>2, IdleKnows DEF List
<1>3. CASE PruneUndesired
  <2>1. \A r \in Resources : Tracks(r)' => r \in Desired
        BY <1>1, <1>3 DEF PruneUndesired, Prune, Tracks
  <2>2. CASE loop' = [loop EXCEPT !.pc = "stop"]
    <3>1. Onward("stop")
          BY <1>1, <2>2, GoesOnward
    <3> QED BY <2>1, <3>1 DEF Onward, LoopKnows, LoopIn
  <2>3. CASE loop' = Idle
        BY <2>3, IdleAgain, IdleKnows
  <2>4. CASE /\ Desired # {} /\ session.state = "none"
             /\ loop' = [loop EXCEPT !.pc = "start"]
    <3>1. Onward("start")
          BY <1>1, <2>4, GoesOnward
    <3>2. session' = session
          BY <1>3 DEF PruneUndesired
    <3> QED BY <2>1, <2>4, <3>1, <3>2 DEF Onward, LoopKnows, LoopIn
  <2>5. CASE Desired # {} /\ loop' = [loop EXCEPT !.pc = "record"]
    <3>1. Onward("record")
          BY <1>1, <2>5, GoesOnward
    <3> QED BY <2>1, <2>5, <3>1 DEF Onward, LoopKnows, LoopIn
  <2> QED BY <1>3, <2>2, <2>3, <2>4, <2>5 DEF PruneUndesired
<1>4. CASE RecordDesired
  <2>1. /\ loop.pc = "record" /\ Record(Desired \ ToRestart)
        /\ loop' = Idle
           \/ loop' = [loop EXCEPT !.pc = "eligible", !.restart = ToRestart]
        BY <1>4 DEF RecordDesired, LoopAt
  <2>2. CASE loop' = Idle
        BY <2>2, IdleAgain, IdleKnows
  <2>3. CASE loop' = [loop EXCEPT !.pc = "eligible", !.restart = ToRestart]
    <3>1. /\ loop'.pc = "eligible" /\ loop'.snap = loop.snap
          /\ loop'.restart = ToRestart
          BY <1>1, <2>3 DEF Loops, LoopStates
    <3>2. Desired' = Desired
          BY <3>1 DEF Desired
    <3>3. Desired # {} /\ \A r \in Resources : Tracks(r) => r \in Desired
          BY <2>1 DEF LoopKnows, LoopIn
    <3>4. /\ \A r \in Resources : Tracks(r) \/ r \in Desired \ ToRestart <=> Tracks(r)'
          /\ \A r \in Desired \ ToRestart : tracked'[r].target = loop.snap[r].target
          /\ \A r \in Resources \ (Desired \ ToRestart) : tracked'[r] = tracked[r]
          BY <1>1, <2>1, RecordTracks
    <3>5. \A r \in ToRestart : /\ r \in Desired /\ Tracks(r)
                               /\ tracked[r].target = loop.snap[r].target
          BY DEF ToRestart, Moved
    <3>6. \A r \in Desired : /\ Tracks(r)'
                             /\ tracked'[r].target = loop.snap[r].target
          BY <1>1, <3>4, <3>5
    <3>7. \A r \in Resources : Tracks(r)' => r \in Desired
          BY <3>3, <3>4
    <3> QED BY <3>1, <3>2, <3>3, <3>5, <3>6, <3>7 DEF LoopKnows, LoopIn
  <2> QED BY <2>1, <2>2, <2>3
<1>5. CASE EligibleRoutes
  <2>1. loop.pc = "eligible" /\ tracked' = tracked
        BY <1>5 DEF EligibleRoutes, LoopAt
  <2>2. /\ Desired # {} /\ loop.restart \subseteq Desired
        /\ \A r \in Resources : Tracks(r)' => r \in Desired
        /\ \A r \in Desired : /\ Tracks(r)'
                              /\ tracked'[r].target = loop.snap[r].target
        BY <2>1 DEF LoopKnows, LoopIn, Tracks
  <2>3. CASE loop' = [loop EXCEPT !.pc = "stop"]
    <3>1. Onward("stop")
          BY <1>1, <2>3, GoesOnward
    <3> QED BY <2>2, <3>1 DEF Onward, LoopKnows, LoopIn
  <2>4. CASE loop' = [loop EXCEPT !.pc = "push", !.routes = Desired \ withheld,
                                  !.restart = loop.restart \ withheld]
    <3>1. /\ loop'.pc = "push" /\ loop'.snap = loop.snap
          /\ loop'.restart = loop.restart \ withheld
          BY <1>1, <2>4 DEF Loops, LoopStates
    <3>2. Desired' = Desired
          BY <3>1 DEF Desired
    <3> QED BY <2>2, <3>1, <3>2 DEF LoopKnows, LoopIn
  <2>5. \/ loop' = [loop EXCEPT !.pc = "stop"]
        \/ loop' = [loop EXCEPT !.pc = "push", !.routes = Desired \ withheld,
                                !.restart = loop.restart \ withheld]
        BY <1>1, <1>5 DEF EligibleRoutes, Loops, LoopStates
  <2> QED BY <2>3, <2>4, <2>5
<1>6. CASE PushRoutes \/ PushFails
  <2>1. loop.pc = "push" /\ tracked' = tracked
        BY <1>6 DEF PushRoutes, PushFails, LoopAt
  <2>2. /\ Desired # {} /\ loop.restart \subseteq Desired
        /\ \A r \in Resources : Tracks(r)' => r \in Desired
        /\ \A r \in Desired : /\ Tracks(r)'
                              /\ tracked'[r].target = loop.snap[r].target
        BY <2>1 DEF LoopKnows, LoopIn, Tracks
  <2>3. CASE loop' = Idle
        BY <2>3, IdleAgain, IdleKnows
  <2>4. CASE loop' = [loop EXCEPT !.pc = "restart"]
    <3>1. Onward("restart")
          BY <1>1, <2>4, GoesOnward
    <3> QED BY <2>2, <3>1 DEF Onward, LoopKnows, LoopIn
  <2> QED BY <1>6, <2>3, <2>4 DEF PushRoutes, PushFails, AfterPush
<1>7. ASSUME NEW r \in Resources, RestartRoute(r) \/ RestartFails(r)
      PROVE  LoopKnows'
  <2>1. /\ loop.pc = "restart" /\ r \in loop.restart
        /\ tracked' = tracked \/ tracked' = [tracked EXCEPT ![r] = Definition(r)]
        /\ loop' = Idle \/ loop' = [loop EXCEPT !.restart = loop.restart \ {r}]
        BY <1>1, <1>7 DEF RestartRoute, RestartFails, LoopAt, AfterRestartOf,
                          Loops, LoopStates
  <2>2. CASE loop' = Idle
        BY <2>2, IdleAgain, IdleKnows
  <2>3. CASE loop' = [loop EXCEPT !.restart = loop.restart \ {r}]
    <3>1. /\ loop'.pc = "restart" /\ loop'.snap = loop.snap
          /\ loop'.restart = loop.restart \ {r}
          BY <1>1, <2>1, <2>3 DEF Loops, LoopStates
    <3>2. Desired' = Desired
          BY <3>1 DEF Desired
    <3>3. /\ Desired # {} /\ loop.restart \subseteq Desired
          /\ \A x \in Resources : Tracks(x) => x \in Desired
          /\ \A x \in Desired : /\ Tracks(x)
                                /\ tracked[x].target = loop.snap[x].target
          BY <2>1 DEF LoopKnows, LoopIn
    <3>4. Definition(r) # Untracked /\ Definition(r).target = loop.snap[r].target
          BY <1>1, <2>1, <3>3, DesiredDefined
    <3>5. \A x \in Resources : /\ Tracks(x)' <=> Tracks(x)
                               /\ x \in Desired => tracked'[x].target = loop.snap[x].target
          BY <1>1, <2>1, <3>3, <3>4 DEF Tables, Tracks
    <3> QED BY <1>1, <3>1, <3>2, <3>3, <3>5 DEF LoopKnows, LoopIn
  <2> QED BY <2>1, <2>2, <2>3
<1>8. CASE StartWaits \/ StartWithholds \/ LaunchRunner \/ StartFails \/ RunnerStopped
      BY <1>8, IdleAgain, IdleKnows
         DEF StartWaits, StartWithholds, LaunchRunner, StartFails, RunnerStopped,
             Starting
<1>9. CASE TimersFire \/ Reload \/ DaemonStarts
      BY <1>9, KnowsStill DEF TimersFire, RetryDue, GroupRetryDue, PushRetryDue,
         Reload, DaemonStarts, runnerVars
<1>10. CASE SessionEnds \/ SessionFails("error") \/ SessionFails("gone")
       BY <1>10, KnowsStill DEF SessionEnds, SessionStops, SessionFails,
          FinishBenign, FinishFailed, FinishGone, managerVars, Live, NoSession
<1>11. CASE DaemonDies
       BY <1>11, IdleAgain, IdleKnows DEF DaemonDies
<1>12. CASE UNCHANGED daemonVars
       BY <1>12, KnowsStill DEF daemonVars, managerVars, runnerVars
<1>13. ASSUME NEW r \in Resources,
              \/ RouteRefused(r) \/ PersistResourceGone(r)
              \/ \E e \in Epochs : RouteServes(r, e)
       PROVE  LoopKnows'
  <2>1. /\ loop' = loop /\ tracked' = tracked
        /\ session.state = "live" \/ session' = session
        BY <1>13 DEF RouteRefused, PersistResourceGone, RouteServes, Live,
                     runnerVars
  <2> QED BY <2>1, KnowsStill
<1> QED BY <1>2, <1>3, <1>4, <1>5, <1>6, <1>7, <1>8, <1>9, <1>10, <1>11, <1>12,
           <1>13 DEF DaemonMove, Reconciles, DaemonFault

\* What lets go of what is held back, and what only adds to it.
LEMMA HeldBackStays ==
    ASSUME HeldBack, withheld' \subseteq withheld, timers \subseteq timers',
           groupBackoff' => groupBackoff,
           \A r \in Resources : r \in withheld' /\ Tracks(r) => Tracks(r)',
           withheld \subseteq Resources
    PROVE  HeldBack'
BY DEF HeldBack

LEMMA DueGrows ==
    ASSUME NEW held, ScheduleNextDue(held)
    PROVE  timers \subseteq timers' /\ (held # {} => timers' # {})
BY DEF ScheduleNextDue

LEMMA HeldBackKept ==
    ASSUME DaemonOK, LoopKnows, HeldBack, DaemonMove
    PROVE  HeldBack'
<1>1. /\ Loops /\ Tables /\ Desired \subseteq Resources
      /\ withheld \subseteq Resources /\ groupBackoff \in BOOLEAN
      BY DaemonParts DEF Desired, Backoffs
<1>2. CASE tracked' = tracked /\ UNCHANGED <<withheld, groupBackoff, timers>>
  <2>1. \A r \in Resources : Tracks(r) => Tracks(r)'
        BY <1>2 DEF Tracks
  <2> QED BY <1>1, <1>2, <2>1, HeldBackStays
<1>3. CASE PruneUndesired
  <2>1. /\ withheld' = withheld \cap Desired /\ timers' = timers
        /\ groupBackoff' = groupBackoff
        BY <1>3 DEF PruneUndesired, Prune
  <2>2. \A r \in Resources : r \in withheld' /\ Tracks(r) => Tracks(r)'
        BY <1>3, <2>1 DEF PruneUndesired, Prune, Tracks
  <2> QED BY <1>1, <2>1, <2>2, HeldBackStays
<1>4. ASSUME NEW commit \in SUBSET Desired, Record(commit),
             withheld' \subseteq withheld, groupBackoff' = groupBackoff,
             timers \subseteq timers'
      PROVE  HeldBack'
  <2>1. \A r \in Resources : Tracks(r) => Tracks(r)'
        BY <1>1, <1>4, RecordTracks
  <2> QED BY <1>1, <1>4, <2>1, HeldBackStays
<1>5. CASE RecordDesired
      BY <1>4, <1>5 DEF RecordDesired
<1>6. CASE EligibleRoutes
  <2>1. /\ timers \subseteq timers' /\ tracked' = tracked
        /\ withheld' = withheld /\ groupBackoff' = groupBackoff
        BY <1>6, DueGrows DEF EligibleRoutes
  <2>2. \A r \in Resources : Tracks(r) => Tracks(r)'
        BY <2>1 DEF Tracks
  <2> QED BY <1>1, <2>1, <2>2, HeldBackStays
<1>7. CASE StartWaits
      BY <1>4, <1>7 DEF StartWaits, Starting
<1>8. CASE StartWithholds \/ LaunchRunner
  <2>1. /\ Record(Desired) /\ withheld' \subseteq withheld
        /\ groupBackoff' = groupBackoff
        BY <1>8 DEF StartWithholds, LaunchRunner, Starting
  <2>2. timers \subseteq timers'
        BY <1>8, DueGrows DEF StartWithholds, LaunchRunner
  <2> QED BY <1>4, <2>1, <2>2
<1>9. CASE StartFails
  <2>1. \A r \in Desired : r \in Resources /\ Definition(r) # Untracked
        BY <1>1, DesiredDefined
  <2>2. \A r \in Resources : Tracks(r) => Tracks(r)'
        BY <1>1, <1>9, <2>1 DEF StartFails, Tracks
  <2>3. /\ withheld' \subseteq withheld /\ timers \subseteq timers'
        /\ "group" \in timers'
        BY <1>9 DEF StartFails
  <2> QED BY <1>1, <2>2, <2>3 DEF HeldBack
<1>10. ASSUME NEW r \in Resources, RestartRoute(r)
       PROVE  HeldBack'
  <2>1. /\ loop.pc = "restart" /\ r \in loop.restart
        /\ tracked' = [tracked EXCEPT ![r] = Definition(r)]
        /\ UNCHANGED <<withheld, groupBackoff, timers>>
        BY <1>10 DEF RestartRoute, LoopAt
  <2>2. Definition(r) # Untracked
    <3>1. r \in Desired
          BY <2>1 DEF LoopKnows, LoopIn
    <3> QED BY <1>1, <3>1, DesiredDefined
  <2>3. \A x \in Resources : Tracks(x) => Tracks(x)'
        BY <1>1, <2>1, <2>2 DEF Tables, Tracks
  <2> QED BY <1>1, <2>1, <2>3, HeldBackStays
<1>11. CASE PushFails \/ \E r \in Resources : RestartFails(r)
  <2>1. /\ tracked' = tracked /\ timers \subseteq timers'
        /\ UNCHANGED <<withheld, groupBackoff>>
        BY <1>11 DEF PushFails, RestartFails
  <2>2. \A x \in Resources : Tracks(x) => Tracks(x)'
        BY <2>1 DEF Tracks
  <2> QED BY <1>1, <2>1, <2>2, HeldBackStays
<1>12. CASE TimersFire
  <2>1. tracked' = tracked /\ \A x \in Resources : Tracks(x)' <=> Tracks(x)
        BY <1>12 DEF TimersFire, RetryDue, GroupRetryDue, PushRetryDue, Tracks
  <2>2. ASSUME NEW r \in Resources, RetryDue(r)
        PROVE  HeldBack'
        BY <1>1, <2>1, <2>2, TimerAssumption DEF RetryDue, HeldBack
  <2>3. CASE GroupRetryDue
        BY <1>1, <2>1, <2>3, TimerAssumption DEF GroupRetryDue, HeldBack
  <2>4. CASE PushRetryDue
        BY <1>1, <2>1, <2>4, TimerAssumption DEF PushRetryDue, HeldBack
  <2> QED BY <1>12, <2>2, <2>3, <2>4 DEF TimersFire
<1>13. CASE FinishBenign \/ FinishFailed \/ FinishGone
  <2>1. /\ tracked' = tracked /\ withheld' = withheld
        /\ timers \subseteq timers'
        /\ groupBackoff' = FALSE \/ "group" \in timers'
        BY <1>13 DEF FinishBenign, FinishFailed, FinishGone
  <2>2. \A x \in Resources : Tracks(x)' <=> Tracks(x)
        BY <2>1 DEF Tracks
  <2> QED BY <1>1, <2>1, <2>2 DEF HeldBack
<1>14. CASE DaemonDies
       BY <1>14 DEF DaemonDies, HeldBack
<1>15. ASSUME NEW r \in Resources, NEW e \in Epochs, RouteServes(r, e)
       PROVE  HeldBack'
  <2>1. /\ tracked' = tracked /\ timers' = timers
        /\ withheld' \subseteq withheld
        /\ groupBackoff' = FALSE \/ groupBackoff' = groupBackoff
        BY <1>15 DEF RouteServes
  <2>2. \A x \in Resources : Tracks(x) => Tracks(x)'
        BY <2>1 DEF Tracks
  <2> QED BY <1>1, <2>1, <2>2, HeldBackStays
<1>16. ASSUME NEW r \in Resources, RouteRefused(r)
       PROVE  HeldBack'
  <2>1. /\ tracked' = tracked /\ groupBackoff' = groupBackoff
        /\ timers \subseteq timers'
        /\ \/ withheld' = withheld
           \/ withheld' = withheld \cup {r} /\ r \in timers' /\ Tracks(r)
        BY <1>16 DEF RouteRefused
  <2>2. \A x \in Resources : Tracks(x)' <=> Tracks(x)
        BY <2>1 DEF Tracks
  <2> QED BY <1>1, <2>1, <2>2 DEF HeldBack
<1>17. CASE List \/ PushRoutes \/ RunnerStopped \/ Reload \/ DaemonStarts
            \/ SessionStops \/ SessionFails("error") \/ SessionFails("gone")
            \/ UNCHANGED daemonVars \/ \E r \in Resources : PersistResourceGone(r)
       BY <1>2, <1>17 DEF List, PushRoutes, RunnerStopped, Reload, DaemonStarts,
          SessionStops, SessionFails, PersistResourceGone, daemonVars, managerVars
<1> QED BY <1>3, <1>5, <1>6, <1>7, <1>8, <1>9, <1>10, <1>11, <1>12, <1>13,
           <1>14, <1>15, <1>16, <1>17
        DEF DaemonMove, Reconciles, DaemonFault, SessionEnds

\* Nothing that is scheduled is forgotten before a reconcile takes it up.
LEMMA ScheduledStays ==
    ASSUME DaemonOK, LoopKnows, HeldBack, DaemonMove, Scheduled
    PROVE  Scheduled' \/ List \/ DaemonDies
<1>1. /\ \A r \in withheld : r \in timers
      /\ groupBackoff => "group" \in timers
      BY DEF HeldBack
<1>2. CASE \/ PruneUndesired \/ RecordDesired \/ PushFails \/ RunnerStopped
           \/ Reload \/ DaemonStarts \/ StartWaits \/ StartFails
           \/ UNCHANGED daemonVars
      BY <1>2 DEF PruneUndesired, Prune, RecordDesired, PushFails, RunnerStopped,
         Reload, DaemonStarts, StartWaits, Starting, StartFails, Scheduled,
         daemonVars, managerVars, runnerVars
<1>3. CASE EligibleRoutes \/ StartWithholds
  <2>1. /\ timers \subseteq timers' /\ trigger' = trigger
        /\ session' = session /\ persisting' = persisting
        BY <1>3, DueGrows DEF EligibleRoutes, StartWithholds, Starting, runnerVars
  <2> QED BY <2>1 DEF Scheduled
<1>4. CASE LaunchRunner
  <2>1. /\ timers \subseteq timers' /\ trigger' = trigger
        /\ persisting' = persisting
        BY <1>4, DueGrows DEF LaunchRunner, Starting
  <2>2. session.state = "none"
        BY <1>4 DEF LaunchRunner, Starting, LoopAt, LoopKnows, LoopIn
  <2> QED BY <2>1, <2>2 DEF Scheduled
<1>5. CASE PushRoutes \/ \E r \in Resources : RestartRoute(r)
  <2>1. /\ UNCHANGED <<timers, trigger, persisting>>
        /\ session.state = "exited" => session' = session
        BY <1>5 DEF PushRoutes, RestartRoute, Live
  <2> QED BY <2>1 DEF Scheduled
<1>6. CASE \E r \in Resources : RestartFails(r)
      BY <1>6 DEF RestartFails, Scheduled
<1>7. CASE TimersFire
  <2>1. trigger' = TRUE
        BY <1>1, <1>7 DEF TimersFire, RetryDue, GroupRetryDue, PushRetryDue
  <2> QED BY <2>1 DEF Scheduled
<1>8. CASE SessionEnds \/ SessionFails("error") \/ SessionFails("gone")
  <2>1. trigger' = TRUE \/ timers' # {} \/ session'.state = "exited"
        BY <1>8 DEF SessionEnds, SessionStops, SessionFails, FinishBenign,
           FinishFailed, FinishGone, NoSession
  <2> QED BY <2>1 DEF Scheduled
<1>9. ASSUME NEW r \in Resources, RouteRefused(r)
      PROVE  Scheduled'
  <2>1. /\ trigger' = trigger /\ timers \subseteq timers'
        /\ persisting' = persisting
        /\ session.state # "exited"
        BY <1>9 DEF RouteRefused, Live
  <2> QED BY <2>1 DEF Scheduled
<1>10. ASSUME NEW r \in Resources, PersistResourceGone(r)
       PROVE  Scheduled'
       BY <1>10 DEF PersistResourceGone, Scheduled
<1>11. ASSUME NEW r \in Resources, NEW e \in Epochs, RouteServes(r, e)
       PROVE  Scheduled'
  <2>1. /\ UNCHANGED <<trigger, timers, persisting>>
        /\ session.state # "exited"
        BY <1>11 DEF RouteServes, Live
  <2> QED BY <2>1 DEF Scheduled
<1> QED BY <1>2, <1>3, <1>4, <1>5, <1>6, <1>7, <1>8, <1>9, <1>10, <1>11
        DEF DaemonMove, Reconciles, DaemonFault

\* A pass that nothing interrupts goes on as it should, or schedules the next.
LEMMA CourseKept ==
    ASSUME DaemonOK, LoopKnows, HeldBack, DaemonMove, OnCourse, ~Scheduled
    PROVE  Retried'
<1>1. /\ Loops /\ Tables /\ Runners /\ Desired \subseteq Resources
      /\ session.routes \in [Resources -> Routes]
      BY DaemonParts DEF Desired, Runners, SessionStates
<1>2. /\ ~trigger /\ timers = {} /\ withheld = {} /\ ~groupBackoff
      /\ session.state # "exited"
      BY DEF Scheduled, HeldBack
<1>3. ASSUME NEW pc, loop'.pc = pc,
             pc \in {"listed", "start"}
      PROVE  Retried'
      BY <1>3 DEF Retried, OnCourse, LoopIn
<1>4. ASSUME loop' = loop, tracked' = tracked, session'.state = session.state,
             \A r \in Resources : Tracks(r) => session'.routes[r].target
                                               = session.routes[r].target
      PROVE  Retried'
  <2>1. Desired' = Desired
        BY <1>4 DEF Desired
  <2>2. \A r \in Resources : Tracks(r)' <=> Tracks(r)
        BY <1>4 DEF Tracks
  <2>3. InOrder => InOrder'
        BY <1>4, <2>2 DEF InOrder, Live
  <2> QED BY <1>4, <2>1, <2>3 DEF Retried, OnCourse, LoopIn
<1>5. CASE List
      BY <1>2, <1>5 DEF List
<1>6. CASE PruneUndesired
  <2>1. session' = session
        BY <1>6 DEF PruneUndesired
  <2>2. CASE session.state # "none" /\ loop' = [loop EXCEPT !.pc = "stop"]
    <3>1. Onward("stop")
          BY <1>1, <2>2, GoesOnward
    <3> QED BY <2>1, <2>2, <3>1 DEF Onward, Retried, OnCourse, LoopIn
  <2>3. CASE Desired = {} /\ session.state = "none" /\ loop' = Idle
    <3>1. \A r \in Resources : ~Tracks(r)'
          BY <1>6, <2>3 DEF PruneUndesired, Prune, Tracks
    <3>2. InOrder'
          BY <2>1, <2>3, <3>1 DEF InOrder, Live
    <3> QED BY <2>3, <3>2, IdleAgain DEF Retried, OnCourse, LoopIn
  <2>4. CASE loop' = [loop EXCEPT !.pc = "start"]
    <3>1. Onward("start")
          BY <1>1, <2>4, GoesOnward
    <3> QED BY <1>3, <3>1 DEF Onward
  <2>5. CASE session.state # "none" /\ loop' = [loop EXCEPT !.pc = "record"]
    <3>1. Onward("record")
          BY <1>1, <2>5, GoesOnward
    <3> QED BY <2>1, <2>5, <3>1 DEF Onward, Retried, OnCourse, LoopIn
  <2> QED BY <1>6, <2>2, <2>3, <2>4, <2>5 DEF PruneUndesired
<1>7. CASE RecordDesired
  <2>1. session.state # "none" /\ session' = session
        BY <1>7 DEF RecordDesired, LoopAt, OnCourse, LoopIn, runnerVars
  <2>2. loop' = [loop EXCEPT !.pc = "eligible", !.restart = ToRestart]
        BY <1>7, <2>1 DEF RecordDesired
  <2>3. loop'.pc = "eligible"
        BY <1>1, <2>2 DEF Loops, LoopStates
  <2> QED BY <2>1, <2>3 DEF Retried, OnCourse, LoopIn
<1>8. CASE EligibleRoutes
  <2>1. session.state # "none" /\ session' = session
        BY <1>8 DEF EligibleRoutes, LoopAt, OnCourse, LoopIn
  <2>2. Desired # {}
        BY <1>8 DEF EligibleRoutes, LoopAt, LoopKnows, LoopIn
  <2>3. loop' = [loop EXCEPT !.pc = "push", !.routes = Desired \ withheld,
                             !.restart = loop.restart \ withheld]
        BY <1>1, <1>2, <1>8, <2>2 DEF EligibleRoutes, Loops, LoopStates
  <2>4. loop'.pc = "push" /\ loop'.routes = Desired /\ loop'.snap = loop.snap
        BY <1>1, <1>2, <2>3 DEF Loops, LoopStates
  <2>5. Desired' = Desired
        BY <2>4 DEF Desired
  <2> QED BY <2>1, <2>4, <2>5 DEF Retried, OnCourse, LoopIn
<1>9. CASE PushRoutes
  <2>1. /\ loop.pc = "push" /\ loop.routes = Desired /\ session.state = "live"
        /\ tracked' = tracked
        BY <1>1, <1>2, <1>9 DEF PushRoutes, LoopAt, OnCourse, LoopIn, Runners,
                                SessionStates
  <2>2. /\ Desired # {}
        /\ \A r \in Resources : Tracks(r)' <=> r \in Desired
        /\ \A r \in Desired : tracked'[r].target = loop.snap[r].target
        BY <1>1, <2>1 DEF LoopKnows, LoopIn, Tracks
  <2>3. /\ session'.state = "live" /\ session'.routes = Pushed(Desired)
        BY <1>1, <1>9, <2>1 DEF PushRoutes, Live, Runners, SessionStates
  <2>4. \A r \in Desired : Pushed(Desired)[r].target = loop.snap[r].target
        BY <1>1 DEF Pushed
  <2>5. InOrder'
        BY <1>1, <2>2, <2>3, <2>4 DEF InOrder, Live
  <2>6. loop'.pc \in {"idle", "restart"}
        BY <1>1, <1>9, IdleAgain DEF PushRoutes, AfterPush, Loops, LoopStates
  <2> QED BY <2>5, <2>6 DEF Retried, OnCourse, LoopIn
<1>10. ASSUME NEW r \in Resources, RestartRoute(r)
       PROVE  Retried'
  <2>1. /\ loop.pc = "restart" /\ r \in loop.restart
        /\ tracked' = [tracked EXCEPT ![r] = Definition(r)]
        /\ session' = session
           \/ session' = [session EXCEPT !.routes[r].epoch = 0]
        BY <1>10 DEF RestartRoute, LoopAt
  <2>2. r \in Desired /\ Tracks(r) /\ tracked[r].target = loop.snap[r].target
        /\ InOrder
        BY <2>1 DEF LoopKnows, OnCourse, LoopIn
  <2>3. Definition(r) # Untracked /\ Definition(r).target = loop.snap[r].target
        BY <1>1, <2>2, DesiredDefined
  <2>4. \A x \in Resources : /\ Tracks(x)' <=> Tracks(x)
                             /\ tracked'[x].target = tracked[x].target
        BY <1>1, <2>1, <2>2, <2>3 DEF Tables, Tracks
  <2>5. /\ session'.state = session.state
        /\ \A x \in Resources : session'.routes[x].target
                                = session.routes[x].target
        BY <1>1, <2>1 DEF Runners, SessionStates, Routes
  <2>6. InOrder'
        BY <2>2, <2>4, <2>5 DEF InOrder, Live
  <2>7. loop'.pc \in {"idle", "restart"}
        BY <1>1, <1>10, <2>1, IdleAgain
           DEF RestartRoute, AfterRestartOf, Loops, LoopStates
  <2> QED BY <2>6, <2>7 DEF Retried, OnCourse, LoopIn
<1>11. CASE \/ PushFails \/ StartWaits \/ StartFails
            \/ \E r \in Resources : RestartFails(r)
  <2>1. timers' # {}
        BY <1>11 DEF PushFails, StartWaits, StartFails, RestartFails
  <2> QED BY <2>1 DEF Retried, Scheduled
<1>12. CASE StartWithholds
  <2>1. Desired # {} /\ ScheduleNextDue(Desired)
        BY <1>12 DEF StartWithholds, Starting, LoopAt, LoopKnows, LoopIn
  <2> QED BY <2>1, DueGrows DEF Retried, Scheduled
<1>13. CASE LaunchRunner
  <2>1. /\ loop.pc = "start" /\ Record(Desired) /\ loop' = Idle
        /\ withheld' = {}
        BY <1>2, <1>13 DEF LaunchRunner, Starting, LoopAt
  <2>2. Desired # {} /\ \A r \in Resources : Tracks(r) => r \in Desired
        BY <2>1 DEF LoopKnows, LoopIn
  <2>3. /\ \A r \in Resources : Tracks(r)' <=> r \in Desired
        /\ \A r \in Desired : tracked'[r].target = loop.snap[r].target
        BY <1>1, <2>1, <2>2, RecordTracks
  <2>4. /\ session'.state = "live"
        /\ \A r \in Desired : session'.routes[r].target = loop.snap[r].target
        BY <1>1, <1>13, <2>1 DEF LaunchRunner
  <2>5. InOrder'
        BY <1>1, <2>2, <2>3, <2>4 DEF InOrder, Live
  <2> QED BY <2>1, <2>5, IdleAgain DEF Retried, OnCourse, LoopIn
<1>14. CASE RunnerStopped
       BY <1>14 DEF RunnerStopped, LoopAt, OnCourse, LoopIn
<1>15. CASE SessionStops \/ SessionFails("error") \/ SessionFails("gone")
  <2>1. session'.state = "exited"
        BY <1>15 DEF SessionStops, SessionFails, NoSession
  <2> QED BY <2>1 DEF Retried, Scheduled
<1>16. CASE FinishBenign \/ FinishFailed \/ FinishGone
       BY <1>2, <1>16 DEF FinishBenign, FinishFailed, FinishGone
<1>17. ASSUME NEW r \in Resources, NEW e \in Epochs, RouteServes(r, e)
       PROVE  Retried'
  <2>1. /\ loop' = loop /\ tracked' = tracked
        /\ session' = [session EXCEPT !.routes[r].epoch = e]
        BY <1>17 DEF RouteServes
  <2>2. /\ session'.state = session.state
        /\ \A x \in Resources : session'.routes[x].target
                                = session.routes[x].target
        BY <1>1, <2>1 DEF Runners, SessionStates, Routes
  <2> QED BY <1>4, <2>1, <2>2
<1>18. ASSUME NEW r \in Resources, RouteRefused(r)
       PROVE  Retried'
  <2>1. /\ loop' = loop /\ tracked' = tracked
        /\ \/ session' = [NoSession EXCEPT !.state = "exited", !.why = "empty"]
           \/ session' = [session EXCEPT !.routes[r] = NoRoute]
        /\ Tracks(r) => timers' # {}
        BY <1>18 DEF RouteRefused
  <2>2. CASE Tracks(r)
        BY <2>1, <2>2 DEF Retried, Scheduled
  <2>3. CASE session' = [NoSession EXCEPT !.state = "exited", !.why = "empty"]
    <3>1. session'.state = "exited"
          BY <2>3 DEF NoSession
    <3> QED BY <3>1 DEF Retried, Scheduled
  <2>4. CASE ~Tracks(r) /\ session' = [session EXCEPT !.routes[r] = NoRoute]
    <3>1. /\ session'.state = session.state
          /\ \A x \in Resources \ {r} : session'.routes[x] = session.routes[x]
          BY <1>1, <2>4 DEF Runners, SessionStates
    <3> QED BY <1>4, <2>1, <2>4, <3>1
  <2> QED BY <2>1, <2>2, <2>3, <2>4
<1>19. CASE \/ Reload \/ DaemonStarts
            \/ \E r \in Resources : PersistResourceGone(r)
       BY <1>19 DEF Reload, DaemonStarts, PersistResourceGone, Retried, Scheduled
<1>20. CASE TimersFire
       BY <1>2, <1>20 DEF TimersFire, RetryDue, GroupRetryDue, PushRetryDue
<1>21. CASE DaemonDies
  <2>1. /\ loop' = Idle /\ session'.state = "none"
        /\ \A r \in Resources : ~Tracks(r)'
        BY <1>21 DEF DaemonDies, Tracks, NoSession
  <2> QED BY <2>1, IdleAgain DEF Retried, OnCourse, LoopIn, InOrder, Live
<1>22. CASE UNCHANGED daemonVars
       BY <1>4, <1>22 DEF daemonVars, managerVars, runnerVars
<1> QED BY <1>5, <1>6, <1>7, <1>8, <1>9, <1>10, <1>11, <1>12, <1>13, <1>14,
           <1>15, <1>16, <1>17, <1>18, <1>19, <1>20, <1>21, <1>22
        DEF DaemonMove, Reconciles, DaemonFault, SessionEnds

LEMMA LoopInvKept ==
    ASSUME DaemonOK, LoopInv, DaemonMove
    PROVE  LoopInv'
<1>1. LoopKnows' /\ HeldBack'
      BY LoopKnowsKept, HeldBackKept DEF LoopInv
<1>2. CASE ~Scheduled
      BY <1>2, CourseKept, <1>1 DEF LoopInv, Retried
<1>3. CASE Scheduled /\ List
  <2>1. loop'.pc = "listed"
        BY <1>3, IdleAgain DEF List, Idle
  <2> QED BY <1>1, <2>1 DEF LoopInv, Retried, OnCourse, LoopIn
<1>4. CASE Scheduled /\ DaemonDies
  <2>1. /\ loop' = Idle /\ session'.state = "none"
        /\ \A r \in Resources : ~Tracks(r)'
        BY <1>4 DEF DaemonDies, Tracks, NoSession
  <2>2. OnCourse'
        BY <2>1, IdleAgain DEF OnCourse, LoopIn, InOrder, Live
  <2> QED BY <1>1, <2>2 DEF LoopInv, Retried
<1>5. CASE Scheduled /\ ~List /\ ~DaemonDies
      BY <1>1, <1>5, ScheduledStays DEF LoopInv, Retried
<1> QED BY <1>2, <1>3, <1>4, <1>5

LEMMA LoopInvBegins ==
    ASSUME Init
    PROVE  LoopInv
<1>1. /\ loop = Idle /\ session.state = "none" /\ withheld = {}
      /\ groupBackoff = FALSE /\ \A r \in Resources : ~Tracks(r)
      BY DEF Init, DaemonInit, Empty, Tracks, NoSession
<1> QED BY <1>1, IdleAgain DEF LoopInv, LoopKnows, LoopIn, HeldBack, Retried,
           OnCourse, InOrder, Live

\* manager.go: whatever a reconcile leaves undone has a retry on its way, at
\* whatever point a callback, an exit, a timer or a command breaks in.
THEOREM NothingIsForgotten == Spec => []NothingForgotten
<1>1. Init => LoopInv
      BY LoopInvBegins
<1>2. ShareInv /\ TypeOK /\ LoopInv /\ [Next]_vars => LoopInv'
      BY StepsOfTheDaemon, LoopInvKept DEF TypeOK
<1>3. TypeOK /\ LoopInv => NothingForgotten
  <2> SUFFICES ASSUME TypeOK, LoopInv
               PROVE  NothingForgotten
      OBVIOUS
  <2>1. Settled => InOrder
    <3>1. Settled => ~Scheduled /\ LoopIn({"idle", "restart"})
          BY DEF Settled, Scheduled, LoopIn
    <3> QED BY <3>1 DEF LoopInv, Retried, OnCourse
  <2>2. withheld \subseteq timers \cap TrackedResources
    <3>1. withheld \subseteq Resources
          BY DaemonParts DEF TypeOK, Backoffs
    <3> QED BY <3>1 DEF LoopInv, HeldBack, TrackedResources
  <2>3. groupBackoff => "group" \in timers
        BY DEF LoopInv, HeldBack
  <2> QED BY <2>1, <2>2, <2>3 DEF NothingForgotten, InOrder
<1> QED BY <1>1, <1>2, <1>3, AnswersAreBacked, TypeCorrect, PTL DEF Spec

=============================================================================
