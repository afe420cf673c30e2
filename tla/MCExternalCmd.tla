---------------------------- MODULE MCExternalCmd ----------------------------
(* ExternalCmd with the shell and one other client for TLC.                 *)
EXTENDS ExternalCmd
=============================================================================
