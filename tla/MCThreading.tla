------------------------------ MODULE MCThreading ------------------------------
(* A small instance of Threading: two mails of a customer, one of a        *)
(* colleague with the customer and a friend in copy, all sent blind to the *)
(* mailbox, and one send of the owner to customer and friend.  Together    *)
(* they have more messages, recipients and people than the limits.         *)
EXTENDS Threading, TLC

CONSTANTS q, a, b, r, box, alice, bob, carol

FromOf     == q :> alice @@ a :> alice @@ b :> bob @@ r :> box
Row(n, kind, position, address) ==
  [message |-> n, kind |-> kind, position |-> position, address |-> address]
Rows == {Row(b, "cc", 0, alice), Row(b, "cc", 1, carol), Row(r, "to", 0, alice), Row(r, "to", 1, carol)}
MailsAlike == [n \in {q, a, b, r} |-> IF n = r THEN None ELSE "topic"]
Sizes      == [id \in Ids |-> 1]
Alike      == Permutations({q, a})
================================================================================
