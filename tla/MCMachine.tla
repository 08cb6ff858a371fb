----------------------------- MODULE MCMachine -----------------------------
(* A machine for TLC. *)
EXTENDS Machine

=============================================================================
