-------------------------------- MODULE MCStack --------------------------------
(* Instances of Stack for TLC: the bounds are numbers in the cfg.          *)
EXTENDS Stack
=============================================================================
