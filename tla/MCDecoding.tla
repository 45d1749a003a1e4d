----------------------------- MODULE MCDecoding -----------------------------
(***************************************************************************)
(* One stream longer than its ring, and a file with both streams.          *)
(***************************************************************************)
EXTENDS Decoding, TLC

MCFiles == {"audio" :> 3, "video" :> 3, "audio" :> 1 @@ "video" :> 0}
=============================================================================
