------------------------------ MODULE MCPlayer ------------------------------
(* Instances of Player for TLC: see the comments of the .cfg files.        *)
EXTENDS Player
=============================================================================
