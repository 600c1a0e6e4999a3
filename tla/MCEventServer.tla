--------------------------- MODULE MCEventServer ---------------------------
(***************************************************************************)
(* A small instance of EventServer: the buffer wraps more than once.       *)
(***************************************************************************)
EXTENDS EventServer

CONSTANTS completed, redeemed

\* No limit, and limits below and at the capacity.
SomeLimits == {0, 1, 2, 3}

=============================================================================
