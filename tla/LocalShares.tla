----------------------------- MODULE LocalShares -----------------------------
(***************************************************************************)
(* The durable registry of local shares (connector/state/shares.go): one   *)
(* row per resource, with the desired state, the serving epoch the         *)
(* platform returned, and the local origin.  Every operation takes the     *)
(* cross-process lock, reads the file, decides and writes it back, so each *)
(* is one atomic step; a refusal leaves the file as it was.                *)
(*                                                                         *)
(* This module is both the store the commands and the daemon write through *)
(* and, as RegistrySpec, the contract their composition has to keep.       *)
(***************************************************************************)
EXTENDS Naturals

CONSTANTS
    Resources,   \* resource IDs
    Targets,     \* local origins
    MaxEpoch     \* bound: the highest serving epoch of an instance

ASSUME EpochAssumption == MaxEpoch \in Nat

VARIABLE rows    \* localSharesState.Shares

Epochs == 0 .. MaxEpoch
Row == [on : BOOLEAN, epoch : Epochs, target : Targets]
NoRow == [on |-> FALSE, epoch |-> 0, target |-> "none"]

ASSUME TargetAssumption == "none" \notin Targets

RowsOK == rows \in [Resources -> Row \cup {NoRow}]

RegistryInit == rows = [r \in Resources |-> NoRow]

Present(r) == rows[r] # NoRow

\* What Put, SetDesired and Retarget refuse.
PutAccepts(r, new) ==
    Present(r) =>
        /\ new.epoch >= rows[r].epoch
        /\ new.epoch = rows[r].epoch =>
               new.on = rows[r].on /\ new.target = rows[r].target

SetDesiredAccepts(r, on, epoch) ==
    /\ Present(r)
    /\ epoch >= rows[r].epoch
    /\ epoch = rows[r].epoch => on = rows[r].on

RetargetAccepts(r, epoch) == Present(r) /\ epoch > rows[r].epoch

AtCurrentEpoch(r, epoch) == Present(r) /\ epoch = rows[r].epoch

-----------------------------------------------------------------------------

Put(r, new) ==
    /\ PutAccepts(r, new)
    /\ rows' = [rows EXCEPT ![r] = new]

SetDesired(r, on, epoch) ==
    /\ SetDesiredAccepts(r, on, epoch)
    /\ rows' = [rows EXCEPT ![r] =
                    [on |-> on, epoch |-> epoch, target |-> rows[r].target]]

Retarget(r, target, epoch) ==
    /\ RetargetAccepts(r, epoch)
    /\ rows' = [rows EXCEPT ![r] =
                    [on |-> TRUE, epoch |-> epoch, target |-> target]]

SetAtCurrentEpoch(r, on, epoch) ==
    /\ AtCurrentEpoch(r, epoch)
    /\ rows' = [rows EXCEPT ![r] =
                    [on |-> on, epoch |-> epoch, target |-> rows[r].target]]

DisableAtCurrentEpoch(r, epoch) == SetAtCurrentEpoch(r, FALSE, epoch)
EnableAtCurrentEpoch(r, epoch) == SetAtCurrentEpoch(r, TRUE, epoch)

Delete(r) == rows' = [rows EXCEPT ![r] = NoRow]

\* The offline conversion, under the daemon lease: every row, no new epoch.
RetargetStopped(target) ==
    rows' = [r \in Resources |->
                IF Present(r)
                    THEN [on |-> rows[r].on, epoch |-> rows[r].epoch,
                          target |-> target]
                    ELSE NoRow]

RegistryNext ==
    \/ \E r \in Resources, new \in Row : Put(r, new)
    \/ \E r \in Resources, on \in BOOLEAN, e \in Epochs :
           SetDesired(r, on, e) \/ SetAtCurrentEpoch(r, on, e)
    \/ \E r \in Resources, t \in Targets, e \in Epochs : Retarget(r, t, e)
    \/ \E r \in Resources : Delete(r)
    \/ \E t \in Targets : RetargetStopped(t)

RegistrySpec == RegistryInit /\ [][RegistryNext]_rows
=============================================================================
