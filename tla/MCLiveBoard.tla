----------------------------- MODULE MCLiveBoard -----------------------------
(* LiveBoard on small instances. *)
EXTENDS LiveBoard

=============================================================================
