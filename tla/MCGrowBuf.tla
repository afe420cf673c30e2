------------------------------ MODULE MCGrowBuf ------------------------------
(* GrowBuf with two readers for TLC.                                        *)
EXTENDS GrowBuf
=============================================================================
