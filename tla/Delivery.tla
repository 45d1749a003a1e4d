------------------------------ MODULE Delivery ------------------------------
(***************************************************************************)
(* What the chat promises of the messages a user sends: only a message     *)
(* the server has taken is shown as delivered, nothing is taken back, and  *)
(* a message that is retried is delivered in the end.                      *)
(***************************************************************************)
CONSTANTS Pid, Retried   \* all messages; those that are sent again

VARIABLES sent, taken, confirmed
vars == <<sent, taken, confirmed>>

Init == sent = {} /\ taken = {} /\ confirmed = {}

Send(p) ==
  /\ p \notin sent
  /\ sent' = sent \cup {p}
  /\ UNCHANGED <<taken, confirmed>>

Take(p) ==
  /\ p \in sent \ taken
  /\ taken' = taken \cup {p}
  /\ UNCHANGED <<sent, confirmed>>

Confirm(p) ==
  /\ p \in taken \ confirmed
  /\ confirmed' = confirmed \cup {p}
  /\ UNCHANGED <<sent, taken>>

Next == \E p \in Pid : Send(p) \/ Take(p) \/ Confirm(p)

Spec ==
  /\ Init /\ [][Next]_vars
  /\ \A p \in Retried : WF_vars(Take(p)) /\ WF_vars(Confirm(p))
=============================================================================
