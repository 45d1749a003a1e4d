---------------------------- MODULE ChatDelivery ----------------------------
(***************************************************************************)
(* A message's way from ChatActivity to the server and the way back of its *)
(* acknowledgement: SocketManager, ImService and the callbacks, over the   *)
(* connection of module Link.  Service intents, broadcasts and EventBus    *)
(* posts reach the main looper through three queues that are each FIFO.    *)
(* The wire loses what is under way when the connection breaks.            *)
(***************************************************************************)
EXTENDS Link, Naturals, Sequences, Functions, FiniteSets

CONSTANTS
  Text,       \* messages of type MSG_BODY_TYPE_TEXT the user sends
  Other,      \* emojis and red envelopes the user sends
  MaxFalls,   \* how often the connection may break
  MaxErrors,  \* how many failed attempts are reported
  MaxSys      \* how many system messages the server pushes

ASSUME KindsAssumption == Text \cap Other = {}
ASSUME BudgetAssumption == MaxFalls \in Nat /\ MaxErrors \in Nat /\ MaxSys \in Nat

Pid == Text \cup Other

VARIABLES
  mList,        \* messages the user has sent, in the order of the chat list
  status,       \* pid -> "loading" or "success"
  mCallBackMap, \* pids with a callback in SocketManager
  svc,          \* service intents: sends, acknowledgements, received messages
  bc,           \* broadcasts to the receivers of SocketManager
  bus,          \* String events posted by the EventThread and not yet handled
  hint,         \* is fl_socket_hint visible?
  out, in,      \* the wire
  stored,       \* pid -> how many copies the server has taken
  falls, errors, sys

ui   == <<mList, status, mCallBackMap, hint>>
wire == <<out, in, stored>>
env  == <<falls, errors, sys>>
vars == <<linkVars, ui, svc, bc, bus, wire, env>>

None == "none"
Note == [kind : {"send", "ack"}, pid : Pid] \cup [kind : {"sys"}, pid : {None}]

TypeOK ==
  /\ LinkTypeOK
  /\ mList \in Seq(Pid) /\ status \in [Pid -> {"loading", "success"}]
  /\ mCallBackMap \subseteq Pid /\ hint \in BOOLEAN
  /\ svc \in Seq(Note) /\ bc \in Seq(Note) /\ bus \in Nat
  /\ out \in Seq(Pid) /\ in \in Seq(Note)
  /\ stored \in [Pid -> Nat]
  /\ falls \in 0 .. MaxFalls /\ errors \in 0 .. MaxErrors /\ sys \in 0 .. MaxSys

(* The chat is open and its adapter set up.  A sticky event replayed while *)
(* it registered was ignored: fl_socket_hint was still null.               *)
Init ==
  /\ LinkInit
  /\ mList = <<>> /\ status = [p \in Pid |-> "loading"]
  /\ mCallBackMap = {} /\ hint = FALSE
  /\ svc = <<>> /\ bc = <<>> /\ bus = 0
  /\ out = <<>> /\ in = <<>> /\ stored = [p \in Pid |-> 0]
  /\ falls = 0 /\ errors = 0 /\ sys = 0

Mail(k, p) == [kind |-> k, pid |-> p]

-----------------------------------------------------------------------------
(* The main thread.                                                        *)

(* SocketManager.sendMsgSocket for each of the messages of a sequence      *)
sendMsgSocket(pids) ==
  /\ svc' = svc \o [i \in DOMAIN pids |-> Mail("send", pids[i])]
  /\ mCallBackMap' = mCallBackMap \cup Range(pids)

(* sendText, sendEmoji, sendRedEnvelope                                    *)
Send(p) ==
  /\ p \notin Range(mList)
  /\ mList' = Append(mList, p)
  /\ sendMsgSocket(<<p>>)
  /\ UNCHANGED <<linkVars, status, hint, bc, bus, wire, env>>

TakeSvc(k) == svc # <<>> /\ Head(svc).kind = k

(* ImSocketClient.sendMsgSocket: emit if the socket counts as usable, else *)
(* drop the message.  What is emitted on a connection that has just broken *)
(* is lost.                                                                *)
EmitMsg ==
  /\ TakeSvc("send")
  /\ svc' = Tail(svc)
  /\ out' = IF isConnect /\ up THEN Append(out, Head(svc).pid) ELSE out
  /\ UNCHANGED <<linkVars, ui, bc, bus, in, stored, env>>

(* callMsg2UI and callChatMsg2UI: the intent goes on as a broadcast        *)
callMsg2UI ==
  /\ TakeSvc("ack") \/ TakeSvc("sys")
  /\ svc' = Tail(svc)
  /\ bc' = Append(bc, Head(svc))
  /\ UNCHANGED <<linkVars, ui, bus, wire, env>>

(* sendMsgBRCallReceiver: the callback updates the list and is removed     *)
AckReceived ==
  /\ bc # <<>> /\ Head(bc).kind = "ack"
  /\ bc' = Tail(bc)
  /\ LET p == Head(bc).pid IN
       /\ status' = IF p \in mCallBackMap THEN [status EXCEPT ![p] = "success"]
                                          ELSE status
       /\ mCallBackMap' = mCallBackMap \ {p}
  /\ UNCHANGED <<linkVars, mList, hint, svc, bus, wire, env>>

MutUnconfirmedAnyType == {i \in DOMAIN mList : status[mList[i]] # "success"}
(* ChatActivity.socketError: on a usable socket every text without success *)
(* is sent once more, otherwise the hint is shown.                         *)
Unconfirmed == {i \in DOMAIN mList : mList[i] \in Text /\ status[mList[i]] # "success"}

(* The one way through some places of the list from the first to the last. *)
InOrder(places) ==
  {q \in [1 .. Cardinality(places) -> places] : \A i, j \in DOMAIN q : i < j => q[i] < q[j]}

socketError ==
  /\ hint' = ~isConnect
  /\ IF isConnect
     THEN \E q \in InOrder(Unconfirmed) : sendMsgSocket([i \in DOMAIN q |-> mList[q[i]]])
     ELSE UNCHANGED <<svc, mCallBackMap>>
  /\ UNCHANGED <<mList, status>>

(* msgBRCallReceiver: the body of a system message is posted as a String   *)
(* event, on the main thread, where the subscriber runs at once.           *)
SysReceived ==
  /\ bc # <<>> /\ Head(bc).kind = "sys"
  /\ bc' = Tail(bc)
  /\ socketError
  /\ UNCHANGED <<linkVars, bus, wire, env>>

(* A "connect" event posted by the EventThread is delivered.               *)
ConnectEvent ==
  /\ bus > 0
  /\ bus' = bus - 1
  /\ socketError
  /\ UNCHANGED <<linkVars, bc, wire, env>>

-----------------------------------------------------------------------------
(* The EventThread and the server.                                         *)

LinkUp == Rise /\ UNCHANGED <<ui, svc, bc, bus, wire, env>>

MutOnConnectSilent == Raise /\ UNCHANGED <<ui, svc, bc, bus, wire, env>>

OnConnect ==
  /\ Raise
  /\ bus' = bus + 1
  /\ UNCHANGED <<ui, svc, bc, wire, env>>

(* The connection breaks: some of what was sent may still have arrived,    *)
(* which is ServerTake before the break; the rest is gone.                 *)
LinkLost ==
  /\ Fall
  /\ falls < MaxFalls /\ falls' = falls + 1
  /\ out' = <<>> /\ in' = <<>>
  /\ UNCHANGED <<ui, svc, bc, bus, stored, errors, sys>>

MutOnDisconnectSilent == Clear /\ UNCHANGED <<ui, svc, bc, bus, wire, env>>

OnDisconnect ==
  /\ Clear
  /\ bus' = bus + 1
  /\ UNCHANGED <<ui, svc, bc, wire, env>>

OnConnectError ==
  /\ ~up /\ ~isConnect
  /\ errors < MaxErrors /\ errors' = errors + 1
  /\ bus' = bus + 1
  /\ UNCHANGED <<linkVars, ui, svc, bc, wire, falls, sys>>

(* SocketSendMsgCallBackAck and SocketChatMsgListener hand what arrives to *)
(* the service.                                                            *)
WireReceived ==
  /\ in # <<>>
  /\ in' = Tail(in)
  /\ svc' = Append(svc, Head(in))
  /\ UNCHANGED <<linkVars, ui, bc, bus, out, stored, env>>

(* The server stores a message and acknowledges it.                        *)
ServerTake ==
  /\ out # <<>>
  /\ out' = Tail(out)
  /\ stored' = [stored EXCEPT ![Head(out)] = @ + 1]
  /\ in' = Append(in, Mail("ack", Head(out)))
  /\ UNCHANGED <<linkVars, ui, svc, bc, bus, env>>

ServerPush ==
  /\ up /\ sys < MaxSys
  /\ sys' = sys + 1
  /\ in' = Append(in, Mail("sys", None))
  /\ UNCHANGED <<linkVars, ui, svc, bc, bus, out, stored, falls, errors>>

MainStep == EmitMsg \/ callMsg2UI \/ AckReceived \/ SysReceived \/ ConnectEvent

NetStep == OnConnect \/ OnDisconnect \/ LinkUp

Next ==
  \/ \E p \in Pid : Send(p)
  \/ MainStep \/ NetStep
  \/ LinkLost \/ OnConnectError \/ WireReceived \/ ServerTake \/ ServerPush

(* The looper drains its queues, listeners run, the client keeps trying    *)
(* until it is connected (ImSocket!Reconnects), the server answers.        *)
Fairness ==
  /\ WF_vars(EmitMsg) /\ WF_vars(callMsg2UI) /\ WF_vars(AckReceived)
  /\ WF_vars(SysReceived) /\ WF_vars(ConnectEvent)
  /\ WF_vars(NetStep) /\ WF_vars(WireReceived) /\ WF_vars(ServerTake)

Spec == Init /\ [][Next]_vars /\ Fairness

-----------------------------------------------------------------------------
Posted(p, q) == Cardinality({i \in DOMAIN q : q[i] = Mail("send", p)})

(* The hint tells the truth once every event has been delivered and one    *)
(* was: the flag is written before the event is posted, so no event can    *)
(* leave an outdated hint behind.                                          *)
HintHonest ==
  (bus = 0 /\ (isConnect <=> up) /\ (isConnect \/ falls + errors > 0)) => (hint <=> ~isConnect)

(* An emoji or red envelope is in one place at most once, from the intent  *)
(* to the server: only texts are ever sent again (socketError).            *)
OthersAtMostOnce ==
  \A p \in Other :
    Posted(p, svc) + Cardinality({i \in DOMAIN out : out[i] = p}) + stored[p] <= 1

(* What the user is promised: module Delivery.                             *)
AbstractDelivery == INSTANCE Delivery WITH
  Retried   <- Text,
  sent      <- Range(mList),
  taken     <- {p \in Pid : stored[p] > 0},
  confirmed <- {p \in Pid : status[p] = "success"}
ImplementsDelivery == AbstractDelivery!Spec
=============================================================================
