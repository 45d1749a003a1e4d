--------------------------- MODULE MCChatDelivery ---------------------------
(* A text, which is sent again, and an emoji, which is not.                *)
EXTENDS ChatDelivery
CONSTANTS t1, e1
OneText == {t1}
Emojis == {e1}
=============================================================================
