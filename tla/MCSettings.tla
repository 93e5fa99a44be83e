------------------------------- MODULE MCSettings -------------------------------
(* A small instance of Settings: an inbox that forwards and a hidden       *)
(* mailbox with other preferences.                                         *)
EXTENDS Settings, TLC

CONSTANTS shown, hidden, owner, plain, rich

InitialRows ==
  shown  :> [whitelisted |-> TRUE, forwardTo |-> owner, preference |-> plain] @@
  hidden :> [whitelisted |-> FALSE, forwardTo |-> Null, preference |-> rich]
================================================================================
