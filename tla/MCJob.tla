-------------------------------- MODULE MCJob --------------------------------
(* Job with a few clients for TLC.  The clients are interchangeable.        *)
EXTENDS Job, TLC

Symmetry == Permutations(Clients)
=============================================================================
