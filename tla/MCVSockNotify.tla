--------------------------- MODULE MCVSockNotify ---------------------------
(***************************************************************************)
(* Instances of VSockNotify for TLC: every constant is a number, so the    *)
(* configurations give them all.                                           *)
(***************************************************************************)
EXTENDS VSockNotify
=============================================================================
