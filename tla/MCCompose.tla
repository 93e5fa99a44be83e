------------------------------- MODULE MCCompose -------------------------------
(* A small instance of Compose. *)
EXTENDS Compose, TLC

NameSymmetry ==
  Permutations(Keys) \cup Permutations(Inboxes) \cup Permutations(Uploads) \cup Permutations(Files)
================================================================================
