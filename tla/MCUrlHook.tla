----------------------------- MODULE MCUrlHook ------------------------------
(* UrlHook with the six protocols, three bytes of stream and an application *)
(* that offers another connection for what is being read.                   *)
EXTENDS UrlHook
=============================================================================
