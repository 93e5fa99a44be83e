------------------------------ MODULE MCRetention ------------------------------
(* A small instance of Retention: two deliveries of the same bytes, in two *)
(* mailboxes, and a reply in the thread of the first.                      *)
EXTENDS Retention, TLC

CONSTANTS first, second, reply, here, there

Conversations == first :> here @@ second :> there @@ reply :> here
Bytes == first :> "mail" @@ second :> "mail" @@ reply :> "reply"
TwoDays == {<<2, 3>>}

Claimants == Permutations(Jobs)
================================================================================
