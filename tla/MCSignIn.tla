-------------------------------- MODULE MCSignIn --------------------------------
(* A small instance of SignIn. *)
EXTENDS SignIn, TLC

\* Requests differ in name only, which links and sessions take from them, and so do people
\* and mailboxes.
NameSymmetry == Permutations(Requests) \cup Permutations(Emails) \cup Permutations(Addresses)
================================================================================
