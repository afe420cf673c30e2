------------------------------ MODULE MCSession ------------------------------
(* Session with two shells on one repository for TLC.                       *)
EXTENDS Session
=============================================================================
