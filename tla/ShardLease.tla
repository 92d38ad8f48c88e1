----------------------------- MODULE ShardLease -----------------------------
(***************************************************************************)
(* What the per-shard leader lock of the Discord gateway tier promises,    *)
(* with the lock row, its versions and its clocks abstracted away: the     *)
(* lease has at most one owner, and while it is live it leaves its owner   *)
(* only where that owner has decided to let it go.                         *)
(***************************************************************************)
CONSTANTS
    Instance,   \* gateway replicas that compete for the shard
    None        \* the owner of a lease nobody owns; not an Instance

VARIABLES
    owner,      \* the replica the lease belongs to, or None
    live,       \* the lease has not run out on any replica's clock
    successors  \* whom each replica is willing to lose the lease to; None
                \* among them stands for giving it up

vars == <<owner, live, successors>>

Init ==
    /\ owner = None
    /\ live = FALSE
    /\ successors = [i \in Instance |-> {}]

\* A replica makes up its mind about who may follow it (SIGTERM, exit).
Decide(i) ==
    /\ \E s \in SUBSET (Instance \cup {None}) :
           successors' = [successors EXCEPT ![i] = s]
    /\ UNCHANGED <<owner, live>>

\* Anybody takes a lease that has run out or that nobody owns.
Take(i) ==
    /\ owner = None \/ ~live
    /\ owner' = i
    /\ live' \in BOOLEAN
    /\ UNCHANGED successors

\* The lease passes to a successor its owner has chosen.
Pass ==
    /\ owner # None
    /\ owner' \in successors[owner]
    /\ live' \in BOOLEAN
    /\ UNCHANGED successors

\* The owner prolongs the lease, or time runs it out.
Refresh ==
    /\ live' \in BOOLEAN
    /\ UNCHANGED <<owner, successors>>

Next ==
    \/ \E i \in Instance : Decide(i) \/ Take(i)
    \/ Pass
    \/ Refresh

Spec == Init /\ [][Next]_vars
=============================================================================
