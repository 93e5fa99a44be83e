--------------------------- MODULE DeliveryContract ---------------------------
(***************************************************************************)
(* What the outbound path promises to whoever holds an idempotency key:    *)
(* the message behind the key is handed to the email provider at most      *)
(* once, a claim is durable before the hand-over, and the outcome that is  *)
(* finally recorded never changes and follows a hand-over.                 *)
(***************************************************************************)
EXTENDS Naturals

CONSTANT Keys

VARIABLES phase,      \* what is recorded for each key
          handedOver  \* how often the provider was called for each key

vars == <<phase, handedOver>>

Phases == {"absent", "accepted", "claimed", "sent", "unknown", "failed"}

TypeOK == /\ phase \in [Keys -> Phases]
          /\ handedOver \in [Keys -> 0..1]

Init == /\ phase = [k \in Keys |-> "absent"]
        /\ handedOver = [k \in Keys |-> 0]

Advance(k, from, to) == /\ phase[k] = from
                        /\ phase' = [phase EXCEPT ![k] = to]
                        /\ UNCHANGED handedOver

Accept(k) == Advance(k, "absent", "accepted")
Refuse(k) == Advance(k, "accepted", "failed")
Claim(k)  == Advance(k, "accepted", "claimed")

HandOver(k) == /\ phase[k] = "claimed"
               /\ handedOver[k] = 0
               /\ handedOver' = [handedOver EXCEPT ![k] = 1]
               /\ UNCHANGED phase

Settle(k) == /\ handedOver[k] = 1
             /\ \E outcome \in {"sent", "unknown"} : Advance(k, "claimed", outcome)

Next == \E k \in Keys : Accept(k) \/ Refuse(k) \/ Claim(k) \/ HandOver(k) \/ Settle(k)

Spec == Init /\ [][Next]_vars
===============================================================================
