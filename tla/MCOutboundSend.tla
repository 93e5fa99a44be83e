---------------------------- MODULE MCOutboundSend ----------------------------
(* Small instances of OutboundSend. *)
EXTENDS OutboundSend, TLC

CONSTANTS h1, h2, h3, compose, rival, relay, relayCc, k1, k2, k3, k4, t1, f1, f2

\* Two different submissions under one key, one with a linked file.
OneKeyKeyOf    == [r \in {compose, rival} |-> k1]
OneKeyThreadOf == (compose :> None) @@ (rival :> t1)
OneKeyFilesOf  == (compose :> <<f1>>) @@ (rival :> <<>>)
OneKeyRawOf    == [r \in {compose, rival} |-> r]

\* Two submissions that link the same two files in opposite orders, and one mail of the
\* owner to two reply aliases: one raw message, two relays.
MixedKeyOf    == (compose :> k1) @@ (rival :> k2) @@ (relay :> k3) @@ (relayCc :> k4)
MixedThreadOf == (compose :> None) @@ [r \in {rival, relay, relayCc} |-> t1]
MixedFilesOf  == (compose :> <<f1, f2>>) @@ (rival :> <<f2, f1>>) @@ [r \in {relay, relayCc} |-> <<>>]
MixedRawOf    == [r \in {compose, rival} |-> r] @@ [r \in {relay, relayCc} |-> relay]

HandlerSymmetry == Permutations(Handlers)
===============================================================================
