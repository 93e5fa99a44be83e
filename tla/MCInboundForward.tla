--------------------------- MODULE MCInboundForward ---------------------------
(* Small instances of InboundForward. *)
EXTENDS InboundForward, TLC

CONSTANTS h1, h2, h3, m1, m2, ownerAddress, otherAddress, blacklist, mid

\* One mail that its rule matches, delivered again and again.
OneMatches      == [r \in {blacklist} |-> {m1}]
OneMessageIdOf  == [m \in {m1} |-> mid]

\* Two mails of a thread, only the first of which a rule matches.
TwoMatches       == [r \in {blacklist} |-> {m1}]
TwoMessageIdOf   == [m \in {m1, m2} |-> None]
SharedMessageIdOf == [m \in {m1, m2} |-> mid]

HandlerSymmetry == Permutations(Handlers)
===============================================================================
