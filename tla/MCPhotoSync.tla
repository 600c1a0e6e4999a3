---------------------------- MODULE MCPhotoSync ----------------------------
(***************************************************************************)
(* Small instances of PhotoSync for TLC.                                   *)
(***************************************************************************)
EXTENDS PhotoSync, TLC

CONSTANTS p1, p2

=============================================================================
