------------------------------ MODULE MCInboxView ------------------------------
(* A small instance of InboxView.  Without symmetry, which a liveness property *)
(* such as DetailSettles does not allow.                                       *)
EXTENDS InboxView
================================================================================
