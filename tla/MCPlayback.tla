----------------------------- MODULE MCPlayback -----------------------------
(* Instances of Playback for TLC: see the comments of the .cfg files.      *)
EXTENDS Playback
=============================================================================
