----------------------------- MODULE MCProfile ------------------------------
(***************************************************************************)
(* Profile for TLC.                                                        *)
(***************************************************************************)
EXTENDS Profile
=============================================================================
