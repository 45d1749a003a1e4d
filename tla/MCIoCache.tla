----------------------------- MODULE MCIoCache ------------------------------
(* IoCache and its read ahead with three bytes of stream in a cache file   *)
(* that is begun again with the third: it holds up to two, in any order.   *)
EXTENDS IoCacheAhead
=============================================================================
