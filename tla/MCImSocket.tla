----------------------------- MODULE MCImSocket -----------------------------
(* Small environments for ImSocket: how many logins, logouts, sends, lost  *)
(* links, connectivity changes and process deaths a behaviour may contain. *)
EXTENDS ImSocket

Budget(i, o, s, d, n, k) ==
  [login |-> i, logout |-> o, send |-> s, drop |-> d, net |-> n, kill |-> k]

TwoSessions == Budget(2, 1, 1, 1, 2, 0)
Sessions == Budget(2, 1, 2, 2, 3, 1)
Twice == Budget(2, 0, 0, 1, 0, 0)
=============================================================================
