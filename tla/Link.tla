-------------------------------- MODULE Link --------------------------------
(***************************************************************************)
(* What one IM session promises about its connection: the listeners of     *)
(* ImSocketClient run one at a time on the EventThread, so the connection  *)
(* and the flag isConnect follow each other round a cycle.  ImSocket       *)
(* implements it; ChatDelivery is built on it.                             *)
(***************************************************************************)
VARIABLES
  up,         \* the current socket is connected to the server
  isConnect   \* what the client believes

linkVars == <<up, isConnect>>

LinkTypeOK == up \in BOOLEAN /\ isConnect \in BOOLEAN

LinkInit == up = FALSE /\ isConnect = FALSE

Rise  == ~up /\ ~isConnect /\ up' = TRUE  /\ UNCHANGED isConnect
Raise ==  up /\ ~isConnect /\ isConnect' = TRUE  /\ UNCHANGED up
Fall  ==  up /\  isConnect /\ up' = FALSE /\ UNCHANGED isConnect
Clear == ~up /\  isConnect /\ isConnect' = FALSE /\ UNCHANGED up

LinkNext == Rise \/ Raise \/ Fall \/ Clear

LinkSpec == LinkInit /\ [][LinkNext]_linkVars
=============================================================================
