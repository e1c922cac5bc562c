------------------------------ MODULE MCBirth ------------------------------
(* Birth with two requests at a time. *)
EXTENDS Birth, TLC

Perms == Permutations(Slots)
=============================================================================
