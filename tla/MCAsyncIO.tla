----------------------------- MODULE MCAsyncIO ------------------------------
(* A file of three bytes behind a ring of one byte ahead and one behind.   *)
EXTENDS AsyncIO
=============================================================================
