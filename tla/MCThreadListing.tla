--------------------------- MODULE MCThreadListing ----------------------------
(***************************************************************************)
(* The instances of ThreadListing that TLC checks.                         *)
(***************************************************************************)
EXTENDS ThreadListing

\* The second message was written before the first, the third at the time of the first.
MCSentAt == <<2, 1, 2>>
=============================================================================
