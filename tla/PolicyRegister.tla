--------------------------- MODULE PolicyRegister ---------------------------
(***************************************************************************)
(* What the migration journal promises the fleet operator: one register    *)
(* that is provisioned once and whose policy state and epoch never move    *)
(* backwards, although the storage below it may lose power at any moment.  *)
(* An update either takes effect or does not.                              *)
(***************************************************************************)
EXTENDS Naturals

CONSTANTS PolicyStates,  \* the migration states, ordered by strictness
          Epochs,        \* the provisioning epochs
          Keys,          \* active key slot and key identifier, as one value
          Unprovisioned  \* the register before first provisioning

VARIABLE policy

Policies == [state : PolicyStates, epoch : Epochs, key : Keys]

Init == policy = Unprovisioned

\* First provisioning installs any policy.
Provision == /\ policy = Unprovisioned
             /\ policy' \in Policies

\* An update keeps or raises the state and keeps or raises the epoch.
Advance == /\ policy # Unprovisioned
           /\ policy' \in Policies
           /\ policy'.state >= policy.state
           /\ policy'.epoch >= policy.epoch

Next == Provision \/ Advance

Spec == Init /\ [][Next]_policy
=============================================================================
