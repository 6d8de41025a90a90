----------------------------- MODULE MCDnsFixer -----------------------------
(* Instances of DnsFixer for TLC. *)
EXTENDS DnsFixer
=============================================================================
