------------------------------ MODULE MCWallet ------------------------------
(* A user with 3 units, an envelope worth 2, and a profile of a picture    *)
(* and a name.                                                             *)
EXTENDS Wallet
CONSTANTS e1, imageUrl, username, old, new
Envelopes == {e1}
WorthTwo == [e \in Envelopes |-> 2]
Fields == {imageUrl, username}
Values == {old, new}
OldProfile == [f \in Fields |-> old]
Amounts == {1, 3}
=============================================================================
