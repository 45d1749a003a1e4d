------------------------------ MODULE ImSocket ------------------------------
(***************************************************************************)
(* The life cycle of the IM connection: ImSocketClient (its static fields, *)
(* the listeners it hangs on socket.io sockets) driven by ImService on the *)
(* main looper, and by socket.io's single EventThread.  The two threads    *)
(* share the static fields without a lock, so every write of a field that  *)
(* the other thread reads is a step of its own.                            *)
(*                                                                         *)
(* A token is the reference of the String carried by one INIT intent: the  *)
(* code compares tokens with !=, and every intent unparcels its own String,*)
(* so the n-th login carries token n.  0 is null.                          *)
(***************************************************************************)
EXTENDS Integers, Sequences, FiniteSets

CONSTANTS
  Bound,      \* how many times each event of the environment may happen
  Relogin     \* may MainActivity be created again while it is logged in?

EnvEvent == {"login", "logout", "send", "drop", "net", "kill"}

ASSUME BoundAssumption == Bound \in [EnvEvent -> Nat]
ASSUME ReloginAssumption == Relogin \in BOOLEAN

null == 0

(* The four events initSocketListener subscribes to, in the order in which *)
(* removeSocketListener takes them off.                                    *)
OffOrder == <<"chat", "connect", "disconnect", "connect_error">>
Listener == {"chat", "connect", "disconnect", "connect_error"}

VARIABLES
  mSocket, mToken, mContext, isConnect,  \* static fields of ImSocketClient
  netBroadcastReceiver,                  \* registered in this process?
  sock,         \* the sockets IO.socket has returned, in order of creation
  cmds,         \* main looper: service intents and connectivity broadcasts
  main,         \* where the main thread is inside a handler
  evq,          \* EventThread: calls handed over by EventThread.exec
  ev,           \* where the EventThread is inside a listener
  net,          \* NetState.hasNetWorkConnection
  ui,           \* "out", "in" or "restored" (killed, MainActivity not back yet)
  used          \* environment events spent

statics == <<mSocket, mToken, mContext, isConnect, netBroadcastReceiver>>
env     == <<net, ui, used>>
vars    == <<statics, sock, cmds, main, evq, ev, env>>

Cmd == [cmd : {"INIT"}, token : Nat \ {null}]
         \cup [cmd : {"RESET", "SEND", "NET"}, token : {null}]
Call == [do : {"connect", "disconnect"}, s : Nat \ {null}]
Sock == [query : Nat, on : SUBSET Listener, link : {"idle", "opening", "open"}]

TypeOK ==
  /\ mSocket \in Nat /\ mToken \in Nat
  /\ mContext \in BOOLEAN /\ isConnect \in BOOLEAN
  /\ netBroadcastReceiver \in BOOLEAN
  /\ sock \in Seq(Sock)
  /\ cmds \in Seq(Cmd)
  /\ main \in {"idle", "create", "listen", "forget", "off", "clear"}
  /\ evq \in Seq(Call)
  /\ ev \in {"idle", "connected", "disconnected", "tokenCheck",
             "error", "open", "use"}
  /\ net \in BOOLEAN
  /\ ui \in {"out", "in", "restored"}
  /\ used \in [EnvEvent -> Nat]

Init ==
  /\ mSocket = null /\ mToken = null /\ mContext = FALSE /\ isConnect = FALSE
  /\ netBroadcastReceiver = FALSE
  /\ sock = <<>> /\ cmds = <<>> /\ evq = <<>>
  /\ main = "idle" /\ ev = "idle"
  /\ net = TRUE /\ ui = "out"
  /\ used = [e \in EnvEvent |-> 0]

checkSocket == mSocket # null /\ isConnect

-----------------------------------------------------------------------------
(* The user and the system: what starts handlers.                          *)

Spend(e) == used[e] < Bound[e] /\ used' = [used EXCEPT ![e] = @ + 1]

Post(c, t) == cmds' = Append(cmds, [cmd |-> c, token |-> t])

(* SocketManager.loginSocket, from MainActivity.initData                   *)
Login ==
  /\ ui = "in" => Relogin
  /\ Spend("login")
  /\ Post("INIT", used["login"] + 1)
  /\ ui' = "in"
  /\ UNCHANGED <<statics, sock, main, evq, ev, net>>

(* SocketManager.logOutSocket, from the menu of MainActivity               *)
Logout ==
  /\ ui = "in"
  /\ Spend("logout")
  /\ Post("RESET", null)
  /\ ui' = "out"
  /\ UNCHANGED <<statics, sock, main, evq, ev, net>>

(* SocketManager.sendMsgSocket, from a ChatActivity                        *)
Send ==
  /\ ui # "out"
  /\ Spend("send")
  /\ Post("SEND", null)
  /\ UNCHANGED <<statics, sock, main, evq, ev, net, ui>>

(* Connectivity is lost or comes back; the broadcast is queued for the     *)
(* receiver, which initSocketListener registers and nothing unregisters.   *)
NetChange ==
  /\ Spend("net")
  /\ net' = ~net
  /\ IF netBroadcastReceiver THEN Post("NET", null) ELSE UNCHANGED cmds
  /\ UNCHANGED <<statics, sock, main, evq, ev, ui>>

(* The process is gone: every static field with it.  Android brings back   *)
(* the top activity first (a ChatActivity, which may send), MainActivity   *)
(* only when the user returns to it; START_STICKY redelivers no intent.    *)
Die ==
  /\ mSocket' = null /\ mToken' = null /\ mContext' = FALSE
  /\ isConnect' = FALSE /\ netBroadcastReceiver' = FALSE
  /\ sock' = [s \in DOMAIN sock |-> [query |-> sock[s].query, on |-> {}, link |-> "idle"]]
  /\ cmds' = <<>> /\ evq' = <<>>
  /\ main' = "idle" /\ ev' = "idle"
  /\ ui' = IF ui = "in" THEN "restored" ELSE ui

Kill == Spend("kill") /\ Die /\ UNCHANGED net

-----------------------------------------------------------------------------
(* The main thread.                                                        *)

Listeners(s, l) == sock' = [sock EXCEPT ![s].on = l]
Link(s, l) == sock' = [sock EXCEPT ![s].link = l]

Handle(c) == main = "idle" /\ cmds # <<>> /\ Head(cmds).cmd = c /\ cmds' = Tail(cmds)

Exec(d, s) == evq' = Append(evq, [do |-> d, s |-> s])

(* openSocket off the EventThread: connect() is handed to it.              *)
openSocket == IF mSocket # null THEN Exec("connect", mSocket) ELSE UNCHANGED evq

(* newSocket up to IO.socket: the context and the token are replaced.      *)
newSocket(t, c) == main' = "create" /\ mToken' = t /\ mContext' = c

MutInitSocketAnyToken(t, c) ==
  IF mSocket # null
  THEN openSocket /\ UNCHANGED <<main, mToken, mContext>>
  ELSE newSocket(t, c) /\ UNCHANGED evq

(* initSocket: reuse only for the very same token reference.               *)
initSocket(t, c) ==
  IF mSocket # null /\ mToken = t
  THEN openSocket /\ UNCHANGED <<main, mToken, mContext>>
  ELSE newSocket(t, c) /\ UNCHANGED evq

HandleInit ==
  /\ Handle("INIT")
  /\ initSocket(Head(cmds).token, TRUE)
  /\ UNCHANGED <<mSocket, isConnect, netBroadcastReceiver, sock, ev, env>>

(* sendMsgSocket: emit on a usable socket, else drop and initSocket.       *)
HandleSend ==
  /\ Handle("SEND")
  /\ IF checkSocket THEN UNCHANGED <<main, mToken, mContext, evq>>
                    ELSE initSocket(mToken, mContext)
  /\ UNCHANGED <<mSocket, isConnect, netBroadcastReceiver, sock, ev, env>>

HandleNet ==
  /\ Handle("NET")
  /\ IF net /\ ~checkSocket THEN openSocket ELSE UNCHANGED evq
  /\ UNCHANGED <<statics, sock, main, ev, env>>

(* release: disconnect() is handed to the EventThread ...                  *)
HandleReset ==
  /\ Handle("RESET")
  /\ IF mSocket # null
     THEN main' = "forget" /\ Exec("disconnect", mSocket)
     ELSE UNCHANGED <<main, evq>>
  /\ UNCHANGED <<statics, sock, ev, env>>

(* ... the token is forgotten only then ...                                *)
ForgetToken ==
  /\ main = "forget"
  /\ main' = "off" /\ mToken' = null
  /\ UNCHANGED <<mSocket, mContext, isConnect, netBroadcastReceiver, sock,
                 cmds, evq, ev, env>>

MutRemoveListenerForgetsLast ==
  /\ main = "off"
  /\ LET left == {k \in 1 .. 3 : OffOrder[k] \in sock[mSocket].on}
     IN  IF left = {}
         THEN main' = "clear" /\ UNCHANGED sock
         ELSE LET k == CHOOSE k \in left : \A j \in left : k <= j
              IN  /\ Listeners(mSocket, sock[mSocket].on \ {OffOrder[k]})
                  /\ UNCHANGED main
  /\ UNCHANGED <<statics, cmds, evq, ev, env>>

(* ... the listeners go one at a time ...                                  *)
RemoveListener ==
  /\ main = "off"
  /\ LET left == {k \in 1 .. 4 : OffOrder[k] \in sock[mSocket].on}
     IN  IF left = {}
         THEN main' = "clear" /\ UNCHANGED sock
         ELSE LET k == CHOOSE k \in left : \A j \in left : k <= j
              IN  /\ Listeners(mSocket, sock[mSocket].on \ {OffOrder[k]})
                  /\ UNCHANGED main
  /\ UNCHANGED <<statics, cmds, evq, ev, env>>

(* ... and the field is cleared last.                                      *)
ClearSocket ==
  /\ main = "clear"
  /\ main' = "idle" /\ mSocket' = null
  /\ UNCHANGED <<mToken, mContext, isConnect, netBroadcastReceiver, sock,
                 cmds, evq, ev, env>>

CreateSocket ==
  /\ main = "create"
  /\ main' = "listen"
  /\ sock' = Append(sock, [query |-> mToken, on |-> {}, link |-> "idle"])
  /\ mSocket' = Len(sock) + 1
  /\ UNCHANGED <<mToken, mContext, isConnect, netBroadcastReceiver,
                 cmds, evq, ev, env>>

(* initSocketListener and openSocket; a null context throws inside the try *)
(* block and leaves mSocket set, with no listener.                         *)
InitSocketListener ==
  /\ main = "listen"
  /\ main' = "idle"
  /\ IF mContext
     THEN /\ netBroadcastReceiver' = TRUE
          /\ Listeners(mSocket, Listener)
          /\ openSocket
     ELSE UNCHANGED <<netBroadcastReceiver, sock, evq>>
  /\ UNCHANGED <<mSocket, mToken, mContext, isConnect, cmds, ev, env>>

MainStep ==
  \/ HandleInit \/ HandleSend \/ HandleNet \/ HandleReset
  \/ ForgetToken \/ RemoveListener \/ ClearSocket
  \/ CreateSocket \/ InitSocketListener

-----------------------------------------------------------------------------
(* socket.io and the listeners it calls, all on the EventThread.  Outside  *)
(* src/: a socket that was connected and not disconnected keeps retrying   *)
(* ("opening"), connect() on such a socket or an open one does nothing.    *)

Connect(s) == IF sock[s].link = "idle" THEN Link(s, "opening") ELSE UNCHANGED sock

(* An event reaches a listener only if one is attached when it is emitted. *)
Emit(s, event, pc) == ev' = IF event \in sock[s].on THEN pc ELSE "idle"

RunConnect ==
  /\ ev = "idle" /\ evq # <<>> /\ Head(evq).do = "connect"
  /\ evq' = Tail(evq)
  /\ Connect(Head(evq).s)
  /\ UNCHANGED <<statics, cmds, main, ev, env>>

RunDisconnect ==
  /\ ev = "idle" /\ evq # <<>> /\ Head(evq).do = "disconnect"
  /\ evq' = Tail(evq)
  /\ LET s == Head(evq).s IN
       /\ Link(s, "idle")
       /\ IF sock[s].link = "open" THEN Emit(s, "disconnect", "disconnected")
                                   ELSE UNCHANGED ev
  /\ UNCHANGED <<statics, cmds, main, env>>

WireUp(s) ==
  /\ ev = "idle" /\ sock[s].link = "opening" /\ net
  /\ Link(s, "open")
  /\ Emit(s, "connect", "connected")
  /\ UNCHANGED <<statics, cmds, main, evq, env>>

WireError(s) ==
  /\ ev = "idle" /\ sock[s].link = "opening"
  /\ Emit(s, "connect_error", "error")
  /\ UNCHANGED <<statics, sock, cmds, main, evq, env>>

(* The transport breaks (the client retries) or the server disconnects the *)
(* socket (it does not).                                                   *)
WireLost(s) ==
  /\ ev = "idle" /\ sock[s].link = "open"
  /\ Spend("drop")
  /\ \E to \in {"opening", "idle"} : Link(s, to)
  /\ Emit(s, "disconnect", "disconnected")
  /\ UNCHANGED <<statics, cmds, main, evq, net, ui>>

(* mConnectListener *)
OnConnect ==
  /\ ev = "connected"
  /\ isConnect' = TRUE /\ ev' = "idle"
  /\ UNCHANGED <<mSocket, mToken, mContext, netBroadcastReceiver, sock,
                 cmds, main, evq, env>>

MutOnDisconnectKeepsFlag ==
  /\ ev = "disconnected"
  /\ ev' = "tokenCheck"
  /\ UNCHANGED <<statics, sock, cmds, main, evq, env>>

(* mDisConnectListener: the flag, then the token and the network           *)
OnDisconnect ==
  /\ ev = "disconnected"
  /\ isConnect' = FALSE /\ ev' = "tokenCheck"
  /\ UNCHANGED <<mSocket, mToken, mContext, netBroadcastReceiver, sock,
                 cmds, main, evq, env>>

MutCheckTokenNeverOpens ==
  /\ ev = "tokenCheck"
  /\ ev' = "idle"
  /\ UNCHANGED <<statics, sock, cmds, main, evq, env>>

CheckToken ==
  /\ ev = "tokenCheck"
  /\ ev' = IF mToken # null /\ net THEN "open" ELSE "idle"
  /\ UNCHANGED <<statics, sock, cmds, main, evq, env>>

(* mConnectErrorListener *)
OnConnectError ==
  /\ ev = "error"
  /\ isConnect' = FALSE
  /\ ev' = IF net THEN "open" ELSE "idle"
  /\ UNCHANGED <<mSocket, mToken, mContext, netBroadcastReceiver, sock,
                 cmds, main, evq, env>>

(* openSocket on the EventThread reads mSocket twice: for the null test    *)
(* and for the call.  A null in between kills the process.                 *)
OpenTest ==
  /\ ev = "open"
  /\ ev' = IF mSocket # null THEN "use" ELSE "idle"
  /\ UNCHANGED <<statics, sock, cmds, main, evq, env>>

OpenUse ==
  /\ ev = "use" /\ mSocket # null
  /\ ev' = "idle"
  /\ Connect(mSocket)
  /\ UNCHANGED <<statics, cmds, main, evq, env>>

OpenNull == ev = "use" /\ mSocket = null /\ Die /\ UNCHANGED <<net, used>>

Listen == OnConnect \/ OnDisconnect \/ CheckToken \/ OnConnectError
            \/ OpenTest \/ OpenUse \/ OpenNull

RunCall == RunConnect \/ RunDisconnect

Wire == \E s \in DOMAIN sock : WireUp(s) \/ WireError(s) \/ WireLost(s)

-----------------------------------------------------------------------------
Next == Login \/ Logout \/ Send \/ NetChange \/ Kill
          \/ MainStep \/ RunCall \/ Listen \/ Wire

(* The main looper and the listeners run on; EventThread is a FIFO         *)
(* executor, so wire events cannot overtake a call for ever; a server that *)
(* keeps being asked accepts in the end.                                   *)
Fairness ==
  /\ WF_vars(MainStep) /\ WF_vars(Listen) /\ SF_vars(RunCall)
  /\ SF_vars(\E s \in DOMAIN sock : s = mSocket /\ WireUp(s))

Spec == Init /\ [][Next]_vars /\ Fairness

-----------------------------------------------------------------------------
Quiet == main = "idle" /\ ev = "idle" /\ cmds = <<>> /\ evq = <<>>

(* A socket that was replaced or released has no listener left: only the   *)
(* current one can report a message or change isConnect (release takes all *)
(* listeners off before it drops the socket).  Without MainActivity being  *)
(* created twice, no interleaving of sends, kills and logouts breaks this. *)
OnlyCurrentListens ==
  \A s \in DOMAIN sock : sock[s].on # {} => s = mSocket

(* Whatever sends, logouts, deaths and races came before, once the threads *)
(* are idle a logged-in user is served by a socket that was created with   *)
(* the token of the last login and has all four listeners.                 *)
SessionInstalled ==
  (Quiet /\ ui = "in") =>
    /\ mSocket # null
    /\ mToken = used["login"]
    /\ sock[mSocket].query = mToken
    /\ sock[mSocket].on = Listener

(* The first session of a process implements Link: over any drops, errors  *)
(* and connectivity changes isConnect follows the state of the socket, and *)
(* the socket never changes state again before it has followed.            *)
AbstractLink == INSTANCE Link WITH
  up <- mSocket # null /\ sock[mSocket].link = "open"
FirstSession == used["login"] <= 1 /\ used["logout"] = 0 /\ used["kill"] = 0
ImplementsLink ==
  AbstractLink!LinkInit /\ [][FirstSession' => AbstractLink!LinkNext]_(AbstractLink!linkVars)

(* A user who never logs out and stays logged in with the network up ends  *)
(* with a usable socket and keeps it: no drop, server disconnect, death or *)
(* missed broadcast leaves the client waiting for nothing.  After a logout *)
(* a listener of the old session may open the next socket before it has    *)
(* its listeners, so that its connect event is lost (README).              *)
Reconnects ==
  [](used["logout"] = 0) /\ <>[](ui = "in" /\ net) => <>[]checkSocket

(* ImSocketClient.java:56 "判断Socket是否可以复用" and :67 "复用Socket": a    *)
(* second login of a session reuses its socket, so that one socket at a    *)
(* time delivers chat messages.                                            *)
SocketReused ==
  Cardinality({s \in DOMAIN sock : sock[s].link = "open"
                                     /\ "chat" \in sock[s].on}) <= 1

(* ImService.java:28 "断开,关闭所有监听": after SOCKET_RESET has been carried  *)
(* out nothing is connected or connecting.                                 *)
ResetDisconnects ==
  (Quiet /\ ui = "out") => \A s \in DOMAIN sock : sock[s].link = "idle"
=============================================================================
