-------------------------------- MODULE SetOnce --------------------------------
(* What an installation promises: a value is chosen once, by one of many   *)
(* who compete for it; whoever is told it was theirs asked for it, and     *)
(* whoever is denied asked for another.                                    *)
CONSTANTS Values, None

VARIABLES
  value, \* the value chosen, None before
  told,  \* the values somebody was told are in force
  denied \* the values somebody was told are not

Init == value = None /\ told = {} /\ denied = {}

Choose == value = None /\ value' \in Values /\ UNCHANGED <<told, denied>>

Tell == value # None /\ told' = {value} /\ UNCHANGED <<value, denied>>

Deny(v) ==
  value # None /\ v # value /\ denied' = denied \cup {v} /\ UNCHANGED <<value, told>>

Next == Choose \/ Tell \/ \E v \in Values : Deny(v)

Spec == Init /\ [][Next]_<<value, told, denied>>
================================================================================
