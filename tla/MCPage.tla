------------------------------- MODULE MCPage -------------------------------
(* An instance of Page for TLC: see page.cfg. *)
EXTENDS Page

=============================================================================
