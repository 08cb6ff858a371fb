------------------------------ MODULE Failures ------------------------------
(***************************************************************************)
(* The failures of a behaviour: only kinds the deployment admits, and at   *)
(* most MaxFaults of them.  The bound keeps the state space finite and     *)
(* says that a failing service recovers.                                   *)
(***************************************************************************)
EXTENDS Deployment

VARIABLE faults  \* how many failures there have been

FailuresTypeOK == faults \in 0 .. MaxFaults

FailuresInit == faults = 0

Strikes(kind) ==
  /\ kind \in Faults
  /\ faults < MaxFaults
  /\ faults' = faults + 1

=============================================================================
