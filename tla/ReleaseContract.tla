-------------------------- MODULE ReleaseContract --------------------------
(***************************************************************************)
(* What the release workflows promise about one tag, whatever the runs     *)
(* that tried to release it did: at most one candidate ever becomes        *)
(* public, it is never replaced or taken back, it becomes immutable, and   *)
(* only its own run announces it, after that                               *)
(* (docs/guarantees-and-evidence.md, "Policy guarantees").                 *)
(***************************************************************************)
CONSTANTS Runs, Nobody

VARIABLES
    owner,    \* the run whose candidate is public
    sealed,   \* that release is immutable
    announced \* runs that reported success

Init ==
    /\ owner = Nobody
    /\ sealed = FALSE
    /\ announced = {}

MakePublic(r) ==
    /\ owner = Nobody
    /\ owner' = r
    /\ UNCHANGED <<sealed, announced>>

Seal ==
    /\ owner # Nobody /\ ~sealed
    /\ sealed' = TRUE
    /\ UNCHANGED <<owner, announced>>

Announce ==
    /\ sealed /\ announced = {}
    /\ announced' = {owner}
    /\ UNCHANGED <<owner, sealed>>

Next == (\E r \in Runs : MakePublic(r)) \/ Seal \/ Announce

Spec == Init /\ [][Next]_<<owner, sealed, announced>>

=============================================================================
