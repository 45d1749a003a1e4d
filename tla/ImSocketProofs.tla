--------------------------- MODULE ImSocketProofs ---------------------------
(* Theorems about ImSocket, for every bound of the environment.            *)
EXTENDS ImSocket, SequenceTheorems, TLAPS

(* Replacing one element of a sequence, present or not, by one of the same *)
(* set keeps the sequence in Seq.                                          *)
LEMMA Replace ==
  ASSUME NEW S, NEW q \in Seq(S), NEW i, NEW e, i \in DOMAIN q => e \in S
  PROVE  [q EXCEPT ![i] = e] \in Seq(S)
<1> DEFINE r == [q EXCEPT ![i] = e]
<1>1. Len(q) \in Nat /\ q \in [1 .. Len(q) -> S] /\ DOMAIN q = 1 .. Len(q)
  OBVIOUS
<1>2. r \in [1 .. Len(q) -> S]
  BY <1>1
<1>3. QED
  BY <1>1, <1>2

(* Every socket of a list of sockets is a record of its three fields.      *)
LEMMA Element ==
  ASSUME NEW q \in Seq(Sock), NEW s \in DOMAIN q
  PROVE  q[s] \in Sock
OBVIOUS

LEMMA RecordUpdate ==
  ASSUME NEW r \in Sock
  PROVE  /\ \A o \in SUBSET Listener : [r EXCEPT !.on = o] \in Sock
         /\ \A l \in {"idle", "opening", "open"} : [r EXCEPT !.link = l] \in Sock
BY DEF Sock

LEMMA SetOn ==
  ASSUME sock \in Seq(Sock), NEW s, NEW o,
         s \in DOMAIN sock => o \in SUBSET Listener,
         Listeners(s, o)
  PROVE  sock' \in Seq(Sock)
<1> DEFINE e == [sock[s] EXCEPT !.on = o]
<1>1. s \in DOMAIN sock => e \in Sock
  BY Element, RecordUpdate
<1>2. sock' = [sock EXCEPT ![s] = e]
  BY DEF Listeners
<1> HIDE DEF e
<1>3. QED
  BY <1>1, <1>2, Replace

LEMMA SetLink ==
  ASSUME sock \in Seq(Sock), NEW s, NEW l \in {"idle", "opening", "open"},
         Link(s, l)
  PROVE  sock' \in Seq(Sock)
<1> DEFINE e == [sock[s] EXCEPT !.link = l]
<1>1. s \in DOMAIN sock => e \in Sock
  BY Element, RecordUpdate
<1>2. sock' = [sock EXCEPT ![s] = e]
  BY DEF Link
<1> HIDE DEF e
<1>3. QED
  BY <1>1, <1>2, Replace

-----------------------------------------------------------------------------
(* Commands handed to the main looper and calls handed to the EventThread  *)
(* stay well formed.                                                       *)
LEMMA PostType ==
  ASSUME cmds \in Seq(Cmd), NEW c, NEW t,
         \/ c = "INIT" /\ t \in Nat \ {null}
         \/ c \in {"RESET", "SEND", "NET"} /\ t = null,
         Post(c, t)
  PROVE  cmds' \in Seq(Cmd)
<1>1. [cmd |-> c, token |-> t] \in Cmd
  BY DEF Cmd
<1>2. QED
  BY <1>1 DEF Post

LEMMA ExecType ==
  ASSUME evq \in Seq(Call), NEW d \in {"connect", "disconnect"},
         NEW s \in Nat \ {null}, Exec(d, s)
  PROVE  evq' \in Seq(Call)
<1>1. [do |-> d, s |-> s] \in Call
  BY DEF Call
<1>2. QED
  BY <1>1 DEF Exec

LEMMA OpenType ==
  ASSUME evq \in Seq(Call), mSocket \in Nat, openSocket
  PROVE  evq' \in Seq(Call)
BY ExecType DEF openSocket

LEMMA ConnectType ==
  ASSUME sock \in Seq(Sock), NEW s, Connect(s)
  PROVE  sock' \in Seq(Sock)
BY SetLink DEF Connect

LEMMA HeadTail ==
  ASSUME NEW S, NEW q \in Seq(S), q # <<>>
  PROVE  Head(q) \in S /\ Tail(q) \in Seq(S)
OBVIOUS

LEMMA DieType ==
  ASSUME TypeOK, Die
  PROVE  /\ mSocket' \in Nat /\ mToken' \in Nat
         /\ mContext' \in BOOLEAN /\ isConnect' \in BOOLEAN
         /\ netBroadcastReceiver' \in BOOLEAN
         /\ sock' \in Seq(Sock)
         /\ cmds' \in Seq(Cmd) /\ evq' \in Seq(Call)
         /\ main' = "idle" /\ ev' = "idle"
         /\ ui' \in {"out", "in", "restored"}
<1> DEFINE e(s) == [query |-> sock[s].query, on |-> {}, link |-> "idle"]
<1>1. Len(sock) \in Nat /\ DOMAIN sock = 1 .. Len(sock)
  BY DEF TypeOK
<1>2. ASSUME NEW s \in DOMAIN sock
      PROVE  e(s) \in Sock
  BY <1>2, Element DEF TypeOK, Sock
<1>3. sock' = [s \in 1 .. Len(sock) |-> e(s)]
  BY <1>1 DEF Die
<1>4. sock' \in Seq(Sock)
  <2> HIDE DEF e
  <2>1. sock' \in [1 .. Len(sock) -> Sock]
    BY <1>1, <1>2, <1>3
  <2>2. QED
    BY <1>1, <2>1
<1>5. /\ mSocket' \in Nat /\ mToken' \in Nat
      /\ mContext' \in BOOLEAN /\ isConnect' \in BOOLEAN
      /\ netBroadcastReceiver' \in BOOLEAN
  BY DEF Die, null
<1>6. /\ cmds' \in Seq(Cmd) /\ evq' \in Seq(Call)
      /\ main' = "idle" /\ ev' = "idle"
  BY DEF Die
<1>7. ui' \in {"out", "in", "restored"}
  BY DEF TypeOK, Die
<1>8. QED
  BY <1>4, <1>5, <1>6, <1>7
LEMMA SpendType ==
  ASSUME used \in [EnvEvent -> Nat], NEW e \in EnvEvent, Spend(e)
  PROVE  used' \in [EnvEvent -> Nat]
BY DEF Spend

LEMMA InitSocketType ==
  ASSUME TypeOK, NEW t \in Nat, NEW c \in BOOLEAN, main = "idle",
         initSocket(t, c)
  PROVE  /\ evq' \in Seq(Call) /\ main' \in {"idle", "create"}
         /\ mToken' \in Nat /\ mContext' \in BOOLEAN
BY OpenType DEF TypeOK, initSocket, newSocket

(* Every step keeps the types: the identifiers, the records in the two     *)
(* queues and the state of every socket.                                   *)
LEMMA TypeStep == TypeOK /\ [Next]_vars => TypeOK'
<1> SUFFICES ASSUME TypeOK, [Next]_vars PROVE TypeOK'
  OBVIOUS
<1> USE DEF TypeOK
<1>1. CASE Login
  <2>1. used["login"] + 1 \in Nat \ {null}
    BY DEF EnvEvent, null
  <2>2. cmds' \in Seq(Cmd)
    BY <1>1, <2>1, PostType DEF Login
  <2>3. QED
    BY <1>1, <2>2, SpendType DEF Login, statics, EnvEvent
<1>2. CASE Logout
  BY <1>2, PostType, SpendType DEF Logout, statics, EnvEvent
<1>3. CASE Send
  BY <1>3, PostType, SpendType DEF Send, statics, EnvEvent
<1>4. CASE NetChange
  BY <1>4, PostType, SpendType DEF NetChange, statics, EnvEvent
<1>5. CASE Kill
  BY <1>5, DieType, SpendType DEF Kill, EnvEvent
<1>6. CASE MainStep
  <2> USE HeadTail DEF Handle, statics, env
  <2>1. CASE HandleInit
    <3>1. Head(cmds) \in Cmd /\ cmds' \in Seq(Cmd)
      BY <2>1 DEF HandleInit
    <3>2. Head(cmds).token \in Nat
      BY <3>1 DEF Cmd, null
    <3>3. QED
      BY <2>1, <3>1, <3>2, InitSocketType DEF HandleInit
  <2>2. CASE HandleSend
    BY <2>2, InitSocketType DEF HandleSend
  <2>3. CASE HandleNet
    BY <2>3, OpenType DEF HandleNet
  <2>4. CASE HandleReset
    BY <2>4, ExecType DEF HandleReset, null
  <2>5. CASE ForgetToken
    BY <2>5 DEF ForgetToken, null
  <2>6. CASE RemoveListener
    <3>1. sock' \in Seq(Sock)
      <4>1. \A k : mSocket \in DOMAIN sock =>
                     sock[mSocket].on \ {OffOrder[k]} \in SUBSET Listener
        BY Element DEF Sock
      <4>2. QED
        BY <2>6, <4>1, SetOn DEF RemoveListener
    <3>2. main' \in {"off", "clear"}
      BY <2>6 DEF RemoveListener
    <3>3. QED
      BY <2>6, <3>1, <3>2 DEF RemoveListener
  <2>7. CASE ClearSocket
    BY <2>7 DEF ClearSocket, null
  <2>8. CASE CreateSocket
    <3>1. [query |-> mToken, on |-> {}, link |-> "idle"] \in Sock
      BY DEF Sock
    <3>2. sock' \in Seq(Sock) /\ mSocket' \in Nat
      BY <2>8, <3>1 DEF CreateSocket
    <3>3. QED
      BY <2>8, <3>2 DEF CreateSocket
  <2>9. CASE InitSocketListener
    BY <2>9, SetOn, OpenType DEF InitSocketListener
  <2>10. QED
    BY <1>6, <2>1, <2>2, <2>3, <2>4, <2>5, <2>6, <2>7, <2>8, <2>9 DEF MainStep
<1>7. CASE RunCall
  <2> USE HeadTail DEF statics, env
  <2>1. CASE RunConnect
    BY <2>1, ConnectType DEF RunConnect
  <2>2. CASE RunDisconnect
    BY <2>2, SetLink DEF RunDisconnect, Emit
  <2>3. QED
    BY <1>7, <2>1, <2>2 DEF RunCall
<1>8. CASE Listen
  <2> USE DEF statics, env
  <2>1. CASE OpenUse
    BY <2>1, ConnectType DEF OpenUse
  <2>2. CASE OpenNull
    BY <2>2, DieType DEF OpenNull
  <2>3. CASE OnConnect \/ OnDisconnect \/ CheckToken \/ OnConnectError \/ OpenTest
    BY <2>3 DEF OnConnect, OnDisconnect, CheckToken, OnConnectError, OpenTest
  <2>4. QED
    BY <1>8, <2>1, <2>2, <2>3 DEF Listen
<1>9. CASE Wire
  <2> USE DEF statics, env, Emit
  <2>1. PICK s \in DOMAIN sock : WireUp(s) \/ WireError(s) \/ WireLost(s)
    BY <1>9 DEF Wire
  <2>2. CASE WireUp(s)
    BY <2>2, SetLink DEF WireUp
  <2>3. CASE WireError(s)
    BY <2>3 DEF WireError
  <2>4. CASE WireLost(s)
    <3>1. sock' \in Seq(Sock)
      BY <2>4, SetLink DEF WireLost
    <3>2. used' \in [EnvEvent -> Nat]
      BY <2>4, SpendType DEF WireLost, EnvEvent
    <3>3. QED
      BY <2>4, <3>1, <3>2 DEF WireLost
  <2>5. QED
    BY <2>1, <2>2, <2>3, <2>4
<1>10. CASE UNCHANGED vars
  BY <1>10 DEF vars, statics, env
<1>11. QED
  BY <1>1, <1>2, <1>3, <1>4, <1>5, <1>6, <1>7, <1>8, <1>9, <1>10 DEF Next

(* Type correctness of the connection model.                               *)
THEOREM TypeCorrect == Spec => []TypeOK
<1>1. ASSUME Init PROVE TypeOK
  <2>1. used \in [EnvEvent -> Nat]
    BY <1>1 DEF Init
  <2>2. sock \in Seq(Sock) /\ cmds \in Seq(Cmd) /\ evq \in Seq(Call)
    BY <1>1 DEF Init
  <2>3. QED
    BY <1>1, <2>1, <2>2 DEF Init, TypeOK, null
<1>2. QED
  BY <1>1, TypeStep, PTL DEF Spec

-----------------------------------------------------------------------------
(* The commands waiting in the looper's queue take the client through a    *)
(* schedule of stages, one before each command: the mode ("in" while a     *)
(* session is installed, "out" after its release, "restored" in a process  *)
(* that has not seen a login yet) and the number of the last login.        *)
Stage == [mode : {"out", "in", "restored"}, last : Nat]

(* Where the user stands: the end of the schedule.                         *)
Now == [mode |-> ui, last |-> used["login"]]

Clean == \A s \in DOMAIN sock : sock[s].on = {}

Takes(a, c, b) ==
  CASE c.cmd = "INIT"  -> /\ a.mode = "in" => Relogin
                          /\ b.mode = "in" /\ b.last = a.last + 1
                          /\ c.token = b.last
    [] c.cmd = "RESET" -> a.mode = "in" /\ b.mode = "out"
    [] c.cmd = "SEND"  -> a.mode # "out" /\ b = a
    [] OTHER           -> b = a

Path(a, q, b) ==
  \E m \in [1 .. Len(q) + 1 -> Stage] :
    /\ m[1] = a /\ m[Len(q) + 1] = b
    /\ \A i \in 1 .. Len(q) : Takes(m[i], q[i], m[i + 1])

(* What the main thread may be doing in each mode.                         *)
DoingOut == main \notin {"create", "listen"} /\ (main = "idle" => mSocket = null)

DoingIn(last) ==
  /\ main \in {"idle", "create", "listen"}
  /\ mToken = last /\ mContext
  /\ main # "create" => mSocket # null /\ sock[mSocket].query = mToken
  /\ main = "idle" => sock[mSocket].on = Listener

DoingRestored ==
  main \in {"idle", "create", "listen"} /\ mToken = null /\ ~mContext /\ Clean

Doing(a) ==
  /\ a.mode = "out" => DoingOut
  /\ a.mode = "in" => DoingIn(a.last)
  /\ a.mode = "restored" => DoingRestored

IInv ==
  /\ mSocket \in DOMAIN sock \cup {null}
  /\ main \in {"listen", "forget", "off", "clear"} => mSocket # null
  /\ main = "clear" => sock[mSocket].on = {}
  /\ \E a \in Stage : Path(a, cmds, Now) /\ Doing(a)

(* What holds besides if MainActivity is not created twice in a session.   *)
Alone ==
  /\ OnlyCurrentListens
  /\ main \in {"create", "listen"} => Clean

LEMMA PathEmpty == ASSUME NEW a \in Stage PROVE Path(a, <<>>, a)
<1> DEFINE m == [i \in 1 .. 1 |-> a]
<1>1. Len(<<>>) = 0 /\ m \in [1 .. 1 -> Stage] /\ m[1] = a
  OBVIOUS
<1>2. \A i \in 1 .. 0 : FALSE
  OBVIOUS
<1> HIDE DEF m
<1>3. QED
  BY <1>1, <1>2 DEF Path

LEMMA PathNone == ASSUME NEW a, NEW b, Path(a, <<>>, b) PROVE a = b
BY DEF Path

LEMMA PathAppend ==
  ASSUME NEW q \in Seq(Cmd), NEW a, NEW b, NEW c \in Cmd, NEW d \in Stage,
         Path(a, q, b), Takes(b, c, d)
  PROVE  Path(a, Append(q, c), d)
<1> DEFINE r == Append(q, c)
<1>1. PICK m \in [1 .. Len(q) + 1 -> Stage] :
        /\ m[1] = a /\ m[Len(q) + 1] = b
        /\ \A i \in 1 .. Len(q) : Takes(m[i], q[i], m[i + 1])
  BY DEF Path
<1> DEFINE n == [i \in 1 .. Len(r) + 1 |-> IF i = Len(q) + 2 THEN d ELSE m[i]]
<1>2. Len(q) \in Nat /\ Len(r) = Len(q) + 1
  OBVIOUS
<1>3. n \in [1 .. Len(r) + 1 -> Stage]
  BY <1>2
<1>4. n[1] = a /\ n[Len(r) + 1] = d
  BY <1>1, <1>2
<1>5. ASSUME NEW i \in 1 .. Len(r) PROVE Takes(n[i], r[i], n[i + 1])
  <2>1. CASE i = Len(q) + 1
    <3>1. r[i] = c /\ n[i] = b /\ n[i + 1] = d
      BY <1>1, <1>2, <2>1
    <3>2. QED
      BY <3>1
  <2>2. CASE i \in 1 .. Len(q)
    <3>1. r[i] = q[i] /\ n[i] = m[i] /\ n[i + 1] = m[i + 1]
      BY <1>2, <2>2
    <3>2. QED
      BY <1>1, <2>2, <3>1
  <2>3. QED
    BY <1>2, <2>1, <2>2
<1>6. QED
  BY <1>3, <1>4, <1>5 DEF Path

LEMMA PathTail ==
  ASSUME NEW q \in Seq(Cmd), NEW a, NEW b, q # <<>>, Path(a, q, b)
  PROVE  \E d \in Stage : Takes(a, Head(q), d) /\ Path(d, Tail(q), b)
<1> DEFINE r == Tail(q)
<1>1. PICK m \in [1 .. Len(q) + 1 -> Stage] :
        /\ m[1] = a /\ m[Len(q) + 1] = b
        /\ \A i \in 1 .. Len(q) : Takes(m[i], q[i], m[i + 1])
  BY DEF Path
<1> DEFINE n == [i \in 1 .. Len(r) + 1 |-> m[i + 1]]
<1>2. Len(q) \in Nat /\ Len(q) >= 1 /\ Len(r) = Len(q) - 1 /\ Head(q) = q[1]
  OBVIOUS
<1>3. n \in [1 .. Len(r) + 1 -> Stage]
  BY <1>2
<1>4. n[1] = m[2] /\ n[Len(r) + 1] = b
  BY <1>1, <1>2
<1>5. ASSUME NEW i \in 1 .. Len(r) PROVE Takes(n[i], r[i], n[i + 1])
  <2>1. r[i] = q[i + 1] /\ n[i] = m[i + 1] /\ n[i + 1] = m[i + 1 + 1] /\ i + 1 \in 1 .. Len(q)
    BY <1>2
  <2>2. QED
    BY <1>1, <2>1
<1>6. m[2] \in Stage /\ Takes(a, Head(q), m[2])
  <2>1. 1 \in 1 .. Len(q)
    BY <1>2
  <2>2. Takes(m[1], q[1], m[1 + 1])
    BY <1>1, <2>1
  <2>3. QED
    BY <1>1, <1>2, <2>2
<1>7. QED
  BY <1>3, <1>4, <1>5, <1>6 DEF Path

(* What the two ways of changing a socket do to its listeners and token.   *)
LEMMA OnAfterLink ==
  ASSUME sock \in Seq(Sock), NEW s, NEW l, Link(s, l)
  PROVE  /\ DOMAIN sock' = DOMAIN sock
         /\ \A t \in DOMAIN sock :
              sock'[t].on = sock[t].on /\ sock'[t].query = sock[t].query
<1>1. DOMAIN sock' = DOMAIN sock
  BY DEF Link
<1>2. ASSUME NEW t \in DOMAIN sock
      PROVE  sock'[t].on = sock[t].on /\ sock'[t].query = sock[t].query
  <2>1. CASE t = s
    <3> DEFINE r == sock[t]
    <3>1. r \in Sock
      BY Element
    <3>2. sock'[t] = [r EXCEPT !.link = l]
      BY <2>1 DEF Link
    <3> HIDE DEF r
    <3>3. [r EXCEPT !.link = l].on = r.on /\ [r EXCEPT !.link = l].query = r.query
      BY <3>1 DEF Sock
    <3>4. QED
      BY <3>2, <3>3 DEF r
  <2>2. CASE t # s
    BY <2>2 DEF Link
  <2>3. QED
    BY <2>1, <2>2
<1>3. QED
  BY <1>1, <1>2

LEMMA OnAfterListeners ==
  ASSUME sock \in Seq(Sock), NEW s, NEW o, Listeners(s, o)
  PROVE  /\ DOMAIN sock' = DOMAIN sock
         /\ \A t \in DOMAIN sock :
              /\ sock'[t].on = IF t = s THEN o ELSE sock[t].on
              /\ sock'[t].query = sock[t].query
<1>1. DOMAIN sock' = DOMAIN sock
  BY DEF Listeners
<1>2. ASSUME NEW t \in DOMAIN sock
      PROVE  /\ sock'[t].on = IF t = s THEN o ELSE sock[t].on
             /\ sock'[t].query = sock[t].query
  <2>1. CASE t = s
    <3> DEFINE r == sock[t]
    <3>1. r \in Sock
      BY Element
    <3>2. sock'[t] = [r EXCEPT !.on = o]
      BY <2>1 DEF Listeners
    <3> HIDE DEF r
    <3>3. [r EXCEPT !.on = o].on = o /\ [r EXCEPT !.on = o].query = r.query
      BY <3>1 DEF Sock
    <3>4. QED
      BY <2>1, <3>2, <3>3 DEF r
  <2>2. CASE t # s
    BY <2>2 DEF Listeners
  <2>3. QED
    BY <2>1, <2>2
<1>3. QED
  BY <1>1, <1>2

(* A step that leaves the main thread, the fields and all listeners alone  *)
(* keeps the invariant if the schedule still ends where the user stands.   *)
LEMMA Frame ==
  ASSUME IInv, main' = main, mSocket' = mSocket, mContext' = mContext,
         mToken' = mToken, DOMAIN sock' = DOMAIN sock,
         \A t \in DOMAIN sock : sock'[t].on = sock[t].on /\ sock'[t].query = sock[t].query,
         \A a \in Stage : Path(a, cmds, Now) => Path(a, cmds', Now')
  PROVE  IInv' /\ (Alone => Alone')
<1>1. PICK a \in Stage : Path(a, cmds, Now) /\ Doing(a)
  BY DEF IInv
<1>2. Clean' <=> Clean
  BY DEF Clean
<1>3. mSocket # null => sock'[mSocket].on = sock[mSocket].on
                          /\ sock'[mSocket].query = sock[mSocket].query
  BY DEF IInv
<1>5. Doing(a)'
  <2>1. DoingOut => DoingOut'
    BY DEF DoingOut
  <2>2. DoingIn(a.last) => DoingIn(a.last)'
    BY <1>3 DEF DoingIn
  <2>3. DoingRestored => DoingRestored'
    BY <1>2 DEF DoingRestored
  <2>4. QED
    BY <1>1, <2>1, <2>2, <2>3 DEF Doing
<1>6. Path(a, cmds', Now')
  BY <1>1
<1>7. /\ (mSocket \in DOMAIN sock \cup {null})'
      /\ (main \in {"listen", "forget", "off", "clear"} => mSocket # null)'
  BY DEF IInv
<1>8. (main = "clear" => sock[mSocket].on = {})'
  BY <1>3 DEF IInv
<1>9. Alone => Alone'
  BY <1>2 DEF Alone, OnlyCurrentListens
<1>10. QED
  BY <1>5, <1>6, <1>7, <1>8, <1>9 DEF IInv

LEMMA NowIs == TypeOK => Now \in Stage /\ Now.mode = ui /\ Now.last = used["login"]
BY DEF TypeOK, Now, Stage, EnvEvent

LEMMA PathPost ==
  ASSUME cmds \in Seq(Cmd), NEW c, NEW t, Post(c, t),
         [cmd |-> c, token |-> t] \in Cmd,
         Now' \in Stage, Takes(Now, [cmd |-> c, token |-> t], Now')
  PROVE  \A a \in Stage : Path(a, cmds, Now) => Path(a, cmds', Now')
<1> DEFINE r == [cmd |-> c, token |-> t]
<1>1. cmds' = Append(cmds, r)
  BY DEF Post
<1> HIDE DEF r
<1>2. QED
  BY <1>1, PathAppend DEF r

LEMMA SpendOther ==
  ASSUME TypeOK, NEW e \in EnvEvent \ {"login"}, Spend(e)
  PROVE  used'["login"] = used["login"]
BY DEF TypeOK, Spend, EnvEvent

LEMMA DieInv ==
  ASSUME TypeOK, TypeOK', Die, used'["login"] = used["login"]
  PROVE  IInv' /\ Alone'
<1>1. Len(sock) \in Nat /\ DOMAIN sock = 1 .. Len(sock) /\ DOMAIN sock' = DOMAIN sock
  BY DEF TypeOK, Die
<1>2. Clean'
  BY <1>1 DEF Clean, Die
<1>3. Now' \in Stage /\ Now'.mode = ui' /\ ui' # "in"
  <2>1. (Now \in Stage /\ Now.mode = ui)'
    BY NowIs, PTL
  <2>2. QED
    BY <2>1 DEF Die
<1>4. Doing(Now)'
  <2>1. DoingRestored' /\ DoingOut'
    BY <1>2 DEF DoingRestored, DoingOut, Die
  <2>2. QED
    BY <1>3, <2>1 DEF Doing
<1>5. Path(Now, cmds, Now)'
  BY <1>3, PathEmpty DEF Die
<1>6. Alone'
  BY <1>2 DEF Clean, OnlyCurrentListens, Alone, Die
<1>7. mSocket' = null /\ main' = "idle"
  BY DEF Die
<1>8. QED
  BY <1>3, <1>4, <1>5, <1>6, <1>7 DEF IInv

LEMMA InvStep ==
  TypeOK /\ TypeOK' /\ IInv /\ [Next]_vars => IInv' /\ (~Relogin /\ Alone => Alone')
<1> SUFFICES ASSUME TypeOK, TypeOK', IInv, [Next]_vars
             PROVE  IInv' /\ (~Relogin /\ Alone => Alone')
  OBVIOUS
<1> cmds \in Seq(Cmd) /\ sock \in Seq(Sock) /\ used["login"] \in Nat
  BY DEF TypeOK, EnvEvent
<1>n. /\ Now \in Stage /\ Now.mode = ui /\ Now.last = used["login"]
      /\ Now' \in Stage /\ Now'.mode = ui' /\ Now'.last = used'["login"]
  <2>1. (Now \in Stage /\ Now.mode = ui /\ Now.last = used["login"])'
    BY NowIs, PTL
  <2>2. QED
    BY <2>1, NowIs
<1>s. ASSUME used'["login"] = used["login"], ui' = ui PROVE Now' = Now
  BY <1>s DEF Now
<1>1. CASE Login
  <2> DEFINE r == [cmd |-> "INIT", token |-> used["login"] + 1]
  <2>1. used["login"] + 1 \in Nat \ {null} /\ used'["login"] = used["login"] + 1
    BY <1>1 DEF Login, Spend, TypeOK, EnvEvent, null
  <2>2. r \in Cmd
    BY <2>1 DEF Cmd
  <2>3. ui' = "in" /\ (ui = "in" => Relogin)
    BY <1>1 DEF Login
  <2>4. Takes(Now, r, Now')
    BY <1>n, <2>1, <2>3 DEF Takes
  <2>5. \A a \in Stage : Path(a, cmds, Now) => Path(a, cmds', Now')
    BY <1>1, <1>n, <2>2, <2>4, PathPost DEF Login
  <2>6. QED
    BY <1>1, <2>5, Frame DEF Login, statics
<1>2. CASE Logout
  <2> DEFINE r == [cmd |-> "RESET", token |-> null]
  <2>1. r \in Cmd
    BY DEF Cmd
  <2>2. Takes(Now, r, Now')
    BY <1>2, <1>n DEF Logout, Takes
  <2>3. \A a \in Stage : Path(a, cmds, Now) => Path(a, cmds', Now')
    BY <1>2, <1>n, <2>1, <2>2, PathPost DEF Logout
  <2>4. QED
    BY <1>2, <2>3, Frame DEF Logout, statics
<1>3. CASE Send
  <2> DEFINE r == [cmd |-> "SEND", token |-> null]
  <2>1. r \in Cmd
    BY DEF Cmd
  <2>2. Now' = Now
    BY <1>3, <1>s, SpendOther DEF Send, EnvEvent
  <2>3. Takes(Now, r, Now')
    BY <1>3, <1>n, <2>2 DEF Send, Takes
  <2>4. \A a \in Stage : Path(a, cmds, Now) => Path(a, cmds', Now')
    BY <1>3, <1>n, <2>1, <2>3, PathPost DEF Send
  <2>5. QED
    BY <1>3, <2>4, Frame DEF Send, statics
<1>4. CASE NetChange
  <2> DEFINE r == [cmd |-> "NET", token |-> null]
  <2>1. r \in Cmd
    BY DEF Cmd
  <2>2. Now' = Now
    BY <1>4, <1>s, SpendOther DEF NetChange, EnvEvent
  <2>3. Takes(Now, r, Now')
    BY <2>2 DEF Takes
  <2>4. \A a \in Stage : Path(a, cmds, Now) => Path(a, cmds', Now')
    <3>1. CASE Post("NET", null)
      BY <3>1, <1>n, <2>1, <2>3, PathPost
    <3>2. CASE UNCHANGED cmds
      BY <2>2, <3>2
    <3>3. QED
      BY <1>4, <3>1, <3>2 DEF NetChange
  <2>5. QED
    BY <1>4, <2>4, Frame DEF NetChange, statics
<1>5. CASE Kill
  BY <1>5, DieInv, SpendOther DEF Kill, EnvEvent
<1>6. CASE RunCall \/ Listen \/ Wire \/ UNCHANGED vars
  <2>1. CASE OpenNull
    BY <2>1, DieInv DEF OpenNull
  <2>2. CASE ~OpenNull
    <3>1. /\ main' = main /\ mSocket' = mSocket /\ mContext' = mContext
          /\ mToken' = mToken /\ cmds' = cmds /\ ui' = ui
      BY <1>6, <2>2 DEF RunCall, RunConnect, RunDisconnect, Listen, OnConnect,
         OnDisconnect, CheckToken, OnConnectError, OpenTest, OpenUse, Wire,
         WireUp, WireError, WireLost, vars, statics, env
    <3>2. (\E s, l : Link(s, l)) \/ sock' = sock
      BY <1>6, <2>2 DEF RunCall, RunConnect, RunDisconnect, Listen, OnConnect,
         OnDisconnect, CheckToken, OnConnectError, OpenTest, OpenUse, Wire,
         WireUp, WireError, WireLost, vars, Connect
    <3>3. /\ DOMAIN sock' = DOMAIN sock
          /\ \A t \in DOMAIN sock :
               sock'[t].on = sock[t].on /\ sock'[t].query = sock[t].query
      BY <3>2, OnAfterLink
    <3>4. used' = used \/ Spend("drop")
      BY <1>6, <2>2 DEF RunCall, RunConnect, RunDisconnect, Listen, OnConnect,
         OnDisconnect, CheckToken, OnConnectError, OpenTest, OpenUse, Wire,
         WireUp, WireError, WireLost, vars, env
    <3>5. Now' = Now
      BY <1>s, <3>1, <3>4, SpendOther DEF EnvEvent
    <3>6. \A a \in Stage : Path(a, cmds, Now) => Path(a, cmds', Now')
      BY <3>1, <3>5
    <3>7. QED
      BY <3>1, <3>3, <3>6, Frame
  <2>3. QED
    BY <2>1, <2>2
<1>7. CASE MainStep
  <2>1. PICK a \in Stage : Path(a, cmds, Now) /\ Doing(a)
    BY DEF IInv
  <2>2. /\ Len(sock) \in Nat /\ DOMAIN sock = 1 .. Len(sock)
        /\ null \notin DOMAIN sock
    BY DEF null
  <2>3. Now' = Now
    BY <1>7, <1>s DEF MainStep, HandleInit, HandleSend, HandleNet, HandleReset,
       ForgetToken, RemoveListener, ClearSocket, CreateSocket,
       InitSocketListener, env
  <2>4. ASSUME NEW c, Handle(c)
        PROVE  /\ main = "idle"
               /\ \E d \in Stage, m \in Cmd :
                    m = Head(cmds) /\ m.cmd = c /\ Takes(a, m, d) /\ Path(d, cmds', Now')
    <3>1. Head(cmds) \in Cmd
      BY <2>4, HeadTail DEF Handle
    <3>2. QED
      BY <2>1, <2>3, <2>4, <3>1, PathTail DEF Handle
  <2>5. CASE HandleInit
    <3>1. PICK d \in Stage, m \in Cmd :
            m = Head(cmds) /\ m.cmd = "INIT" /\ Takes(a, m, d) /\ Path(d, cmds', Now')
      BY <2>4, <2>5 DEF HandleInit
    <3>2. /\ a.mode = "in" => Relogin
          /\ d.mode = "in" /\ d.last = a.last + 1 /\ m.token = d.last
          /\ main = "idle" /\ a.last \in Nat
          /\ a.mode \in {"out", "in", "restored"}
      BY <2>4, <2>5, <3>1 DEF Takes, HandleInit, Stage
    <3>3. mSocket # null => mToken # m.token
      BY <2>1, <3>2 DEF Doing, DoingOut, DoingIn, DoingRestored, null
    <3>4. /\ mSocket' = mSocket /\ sock' = sock
          /\ main' = "create" /\ mToken' = m.token /\ mContext' = TRUE
      BY <2>5, <3>1, <3>3 DEF HandleInit, initSocket, newSocket
    <3>5. Doing(d)'
      BY <3>2, <3>4 DEF Doing, DoingIn
    <3>6. ~Relogin /\ Alone => Alone'
      <4> SUFFICES ASSUME ~Relogin, Alone PROVE Alone'
        OBVIOUS
      <4>1. mSocket = null \/ Clean
        BY <2>1, <3>2 DEF Doing, DoingOut, DoingRestored
      <4>2. Clean
        BY <2>2, <4>1 DEF Alone, OnlyCurrentListens, Clean
      <4>3. QED
        BY <3>4, <4>2 DEF Alone, OnlyCurrentListens, Clean
    <3>7. QED
      BY <3>1, <3>4, <3>5, <3>6 DEF IInv
  <2>6. CASE HandleSend
    <3>1. PICK d \in Stage, m \in Cmd :
            m = Head(cmds) /\ m.cmd = "SEND" /\ Takes(a, m, d) /\ Path(d, cmds', Now')
      BY <2>4, <2>6 DEF HandleSend
    <3>2. a.mode # "out" /\ d = a /\ main = "idle"
      BY <2>4, <2>6, <3>1 DEF Takes, HandleSend
    <3>3. /\ mSocket' = mSocket /\ sock' = sock /\ mContext' = mContext
          /\ mToken' = mToken
          /\ main' = "idle" \/ (main' = "create" /\ mSocket = null)
      BY <2>6, <3>2 DEF HandleSend, checkSocket, initSocket, newSocket
    <3>4. mSocket = null /\ Alone => Clean
      BY <2>2 DEF Alone, OnlyCurrentListens, Clean
    <3>5. (Clean' <=> Clean) /\ (OnlyCurrentListens' <=> OnlyCurrentListens)
      BY <3>3 DEF Clean, OnlyCurrentListens
    <3>6. Doing(d)'
      <4>1. DoingIn(d.last) => DoingIn(d.last)'
        BY <3>2, <3>3 DEF DoingIn
      <4>2. DoingRestored => DoingRestored'
        BY <3>2, <3>3, <3>5 DEF DoingRestored
      <4>3. QED
        BY <2>1, <3>2, <4>1, <4>2 DEF Doing
    <3>7. Alone => Alone'
      BY <3>2, <3>3, <3>4, <3>5 DEF Alone
    <3>8. QED
      BY <3>1, <3>3, <3>6, <3>7 DEF IInv
  <2>7. CASE HandleNet
    <3>1. PICK d \in Stage, m \in Cmd :
            m = Head(cmds) /\ m.cmd = "NET" /\ Takes(a, m, d) /\ Path(d, cmds', Now')
      BY <2>4, <2>7 DEF HandleNet
    <3>2. d = a
      BY <3>1 DEF Takes
    <3>3. /\ mSocket' = mSocket /\ sock' = sock /\ mContext' = mContext
          /\ mToken' = mToken /\ main' = main
      BY <2>7 DEF HandleNet, statics
    <3>4. (Clean' <=> Clean) /\ (OnlyCurrentListens' <=> OnlyCurrentListens)
      BY <3>3 DEF Clean, OnlyCurrentListens
    <3>5. Doing(d)'
      BY <2>1, <3>2, <3>3, <3>4 DEF Doing, DoingOut, DoingIn, DoingRestored
    <3>6. Alone => Alone'
      BY <3>3, <3>4 DEF Alone
    <3>7. QED
      BY <3>1, <3>3, <3>5, <3>6 DEF IInv
  <2>8. CASE HandleReset
    <3>1. PICK d \in Stage, m \in Cmd :
            m = Head(cmds) /\ m.cmd = "RESET" /\ Takes(a, m, d) /\ Path(d, cmds', Now')
      BY <2>4, <2>8 DEF HandleReset
    <3>2. a.mode = "in" /\ d.mode = "out" /\ main = "idle"
      BY <2>4, <2>8, <3>1 DEF Takes, HandleReset
    <3>3. mSocket # null
      BY <2>1, <3>2 DEF Doing, DoingIn
    <3>4. mSocket' = mSocket /\ sock' = sock /\ main' = "forget"
      BY <2>8, <3>3 DEF HandleReset, statics
    <3>5. Doing(d)'
      BY <3>2, <3>4 DEF Doing, DoingOut
    <3>6. Alone => Alone'
      BY <3>4 DEF Alone, OnlyCurrentListens
    <3>7. QED
      BY <3>1, <3>3, <3>4, <3>5, <3>6 DEF IInv
  <2>d. ASSUME main \in {"forget", "off", "clear"} PROVE a.mode = "out"
    BY <2>1, <2>d DEF Doing, DoingIn, DoingRestored, Stage
  <2>9. CASE ForgetToken
    <3>1. /\ mSocket' = mSocket /\ sock' = sock /\ cmds' = cmds
          /\ main = "forget" /\ main' = "off"
      BY <2>9 DEF ForgetToken
    <3>2. Doing(a)'
      BY <2>d, <3>1 DEF Doing, DoingOut
    <3>3. Alone => Alone'
      BY <3>1 DEF Alone, OnlyCurrentListens
    <3>4. QED
      BY <2>1, <2>3, <3>1, <3>2, <3>3 DEF IInv
  <2>10. CASE RemoveListener
    <3>1. main = "off" /\ mSocket' = mSocket /\ cmds' = cmds
      BY <2>10 DEF RemoveListener, statics
    <3>2. mSocket \in DOMAIN sock
      BY <3>1 DEF IInv
    <3>3. a.mode = "out"
      BY <2>d, <3>1
    <3>4. CASE main' = "clear" /\ sock' = sock /\ sock[mSocket].on = {}
      <4>1. Doing(a)'
        BY <3>3, <3>4 DEF Doing, DoingOut
      <4>2. Alone => Alone'
        BY <3>1, <3>4 DEF Alone, OnlyCurrentListens
      <4>3. QED
        BY <2>1, <2>3, <3>1, <3>4, <4>1, <4>2 DEF IInv
    <3>5. CASE main' = main /\ \E o : Listeners(mSocket, o)
      <4>1. PICK o : Listeners(mSocket, o)
        BY <3>5
      <4>2. /\ DOMAIN sock' = DOMAIN sock
            /\ \A t \in DOMAIN sock : sock'[t].on = IF t = mSocket THEN o ELSE sock[t].on
        BY <4>1, OnAfterListeners
      <4>3. Alone => Alone'
        BY <3>1, <3>5, <4>2 DEF Alone, OnlyCurrentListens
      <4>4. Doing(a)'
        BY <3>1, <3>3, <3>5 DEF Doing, DoingOut
      <4>5. QED
        BY <2>1, <2>3, <3>1, <3>5, <4>2, <4>3, <4>4 DEF IInv
    <3>6. \/ main' = "clear" /\ sock' = sock /\ sock[mSocket].on = {}
          \/ main' = main /\ \E o : Listeners(mSocket, o)
      <4> DEFINE left == {k \in 1 .. 4 : OffOrder[k] \in sock[mSocket].on}
      <4>1. CASE left = {}
        <5>1. sock[mSocket].on \in SUBSET Listener
          BY <3>2, Element DEF Sock
        <5>2. \A e \in Listener : \E k \in 1 .. 4 : OffOrder[k] = e
          BY DEF Listener, OffOrder
        <5>3. sock[mSocket].on = {}
          BY <4>1, <5>1, <5>2
        <5>4. QED
          BY <2>10, <4>1, <5>3 DEF RemoveListener
      <4>2. CASE left # {}
        BY <2>10, <4>2 DEF RemoveListener
      <4>3. QED
        BY <4>1, <4>2
    <3>7. QED
      BY <3>4, <3>5, <3>6
  <2>11. CASE ClearSocket
    <3>1. /\ main = "clear" /\ main' = "idle" /\ mSocket' = null
          /\ sock' = sock /\ cmds' = cmds
      BY <2>11 DEF ClearSocket
    <3>2. Alone => Alone'
      BY <3>1 DEF IInv, Alone, OnlyCurrentListens
    <3>3. Doing(a)'
      BY <2>d, <3>1 DEF Doing, DoingOut
    <3>4. QED
      BY <2>1, <2>3, <3>1, <3>2, <3>3 DEF IInv
  <2>c. ASSUME main \in {"create", "listen"} PROVE a.mode # "out"
    BY <2>1, <2>c DEF Doing, DoingOut
  <2>12. CASE CreateSocket
    <3> DEFINE r == [query |-> mToken, on |-> {}, link |-> "idle"]
    <3>1. /\ main = "create" /\ main' = "listen" /\ mSocket' = Len(sock) + 1
          /\ sock' = Append(sock, r) /\ cmds' = cmds /\ mContext' = mContext
          /\ mToken' = mToken
      BY <2>12 DEF CreateSocket
    <3>2. r.on = {} /\ r.query = mToken
      OBVIOUS
    <3> HIDE DEF r
    <3>3. DOMAIN sock' = 1 .. Len(sock) + 1
      BY <2>2, <3>1
    <3>4. \A t \in DOMAIN sock' : sock'[t] = IF t = Len(sock) + 1 THEN r ELSE sock[t]
      BY <2>2, <3>1, <3>3
    <3>5. Clean => Clean' /\ OnlyCurrentListens'
      BY <2>2, <3>2, <3>3, <3>4 DEF Clean, OnlyCurrentListens
    <3>6. /\ mSocket' \in DOMAIN sock' /\ mSocket' # null
          /\ sock'[mSocket'].query = mToken'
      BY <2>2, <3>1, <3>2, <3>3, <3>4 DEF null
    <3>7. Doing(a)'
      <4>1. DoingIn(a.last) => DoingIn(a.last)'
        BY <3>1, <3>6 DEF DoingIn
      <4>2. DoingRestored => DoingRestored'
        BY <3>1, <3>5 DEF DoingRestored
      <4>3. QED
        BY <2>1, <2>c, <3>1, <4>1, <4>2 DEF Doing
    <3>8. Alone => Alone'
      BY <3>1, <3>5 DEF Alone
    <3>9. QED
      BY <2>1, <2>3, <3>1, <3>6, <3>7, <3>8 DEF IInv
  <2>13. CASE InitSocketListener
    <3>1. /\ main = "listen" /\ main' = "idle" /\ mSocket' = mSocket
          /\ cmds' = cmds /\ mContext' = mContext /\ mToken' = mToken
      BY <2>13 DEF InitSocketListener
    <3>2. mSocket # null /\ mSocket \in DOMAIN sock
      BY <3>1 DEF IInv
    <3>3. CASE mContext
      <4>1. Listeners(mSocket, Listener)
        BY <2>13, <3>3 DEF InitSocketListener
      <4>2. /\ DOMAIN sock' = DOMAIN sock
            /\ \A t \in DOMAIN sock :
                 /\ sock'[t].on = IF t = mSocket THEN Listener ELSE sock[t].on
                 /\ sock'[t].query = sock[t].query
        BY <4>1, OnAfterListeners
      <4>3. Alone => Alone'
        BY <3>1, <3>2, <4>2 DEF Alone, Clean, OnlyCurrentListens
      <4>4. a.mode = "in"
        BY <2>1, <2>c, <3>1, <3>3 DEF Doing, DoingRestored, Stage
      <4>5. DoingIn(a.last)'
        BY <2>1, <3>1, <3>2, <4>2, <4>4 DEF Doing, DoingIn
      <4>6. Doing(a)'
        BY <4>4, <4>5 DEF Doing
      <4>7. QED
        BY <2>1, <2>3, <3>1, <3>2, <4>2, <4>3, <4>6 DEF IInv
    <3>4. CASE ~mContext
      <4>1. sock' = sock
        BY <2>13, <3>4 DEF InitSocketListener
      <4>2. (Clean' <=> Clean) /\ (OnlyCurrentListens' <=> OnlyCurrentListens)
        BY <3>1, <4>1 DEF Clean, OnlyCurrentListens
      <4>3. a.mode = "restored"
        BY <2>1, <2>c, <3>1, <3>4 DEF Doing, DoingIn, Stage
      <4>4. Doing(a)'
        BY <2>1, <3>1, <4>2, <4>3 DEF Doing, DoingRestored
      <4>5. Alone => Alone'
        BY <3>1, <4>2 DEF Alone
      <4>6. QED
        BY <2>1, <2>3, <3>1, <3>2, <4>1, <4>4, <4>5 DEF IInv
    <3>5. QED
      BY <3>3, <3>4
  <2>14. QED
    BY <1>7, <2>5, <2>6, <2>7, <2>8, <2>9, <2>10, <2>11, <2>12, <2>13 DEF MainStep
<1>8. QED
  BY <1>1, <1>2, <1>3, <1>4, <1>5, <1>6, <1>7 DEF Next

LEMMA InvInit == Init => IInv /\ Alone
<1> SUFFICES ASSUME Init PROVE IInv /\ Alone
  OBVIOUS
<1>1. DOMAIN sock = {} /\ mSocket = null /\ main = "idle" /\ cmds = <<>>
  BY DEF Init
<1>2. Now \in Stage /\ Now.mode = "out"
  BY DEF Init, Now, Stage, EnvEvent
<1>3. Path(Now, cmds, Now) /\ Doing(Now)
  BY <1>1, <1>2, PathEmpty DEF Doing, DoingOut
<1>4. QED
  BY <1>1, <1>2, <1>3 DEF IInv, Alone, OnlyCurrentListens

(* A released or replaced socket never calls back: as long as MainActivity *)
(* is not created a second time within a session, only the socket in       *)
(* mSocket has listeners, whatever is sent, lost, killed or raced.         *)
THEOREM OnlyCurrentSocketListens ==
  ASSUME ~Relogin
  PROVE  Spec => []OnlyCurrentListens
<1>1. TypeOK /\ TypeOK' /\ IInv /\ Alone /\ [Next]_vars => IInv' /\ Alone'
  BY InvStep
<1>2. Alone => OnlyCurrentListens
  BY DEF Alone
<1>3. QED
  BY <1>1, <1>2, InvInit, TypeCorrect, PTL DEF Spec

(* Whatever was sent, lost, killed or raced before, and however often      *)
(* MainActivity is created: when the threads have nothing left to do, a    *)
(* user who is logged in has a socket made with the token of the last      *)
(* login, and all four listeners on it.                                    *)
THEOREM LoginServed == Spec => []SessionInstalled
<1>1. TypeOK /\ TypeOK' /\ IInv /\ [Next]_vars => IInv'
  BY InvStep
<1>2. ASSUME TypeOK, IInv PROVE SessionInstalled
  <2> SUFFICES ASSUME Quiet, ui = "in"
               PROVE  /\ mSocket # null /\ mToken = used["login"]
                      /\ sock[mSocket].query = mToken
                      /\ sock[mSocket].on = Listener
    BY DEF SessionInstalled
  <2>1. PICK a \in Stage : Path(a, cmds, Now) /\ Doing(a)
    BY <1>2 DEF IInv
  <2>2. a = Now
    BY <2>1, PathNone DEF Quiet
  <2>3. DoingIn(used["login"])
    BY <1>2, <2>1, <2>2, NowIs DEF Doing
  <2>4. QED
    BY <2>3 DEF DoingIn, Quiet
<1>3. QED
  BY <1>1, <1>2, InvInit, TypeCorrect, PTL DEF Spec
-----------------------------------------------------------------------------
(* The first session goes round the cycle of Link.  It passes through five *)
(* situations: before the login, its INIT waiting in the looper's queue,   *)
(* the socket about to be made, its listeners about to be attached, and a  *)
(* socket that is served.                                                  *)
Up == mSocket # null /\ sock[mSocket].link = "open"

NoInit(q) == \A i \in DOMAIN q : q[i].cmd \in {"SEND", "NET"}
Connects(q) == \A i \in DOMAIN q : q[i] = [do |-> "connect", s |-> 1]

NoSocket == mSocket = null /\ sock = <<>>
OneSocket == mSocket = 1 /\ Len(sock) = 1

(* Each place of the EventThread has its corner of the cycle.              *)
Cycle ==
  /\ ev = "idle" => (isConnect <=> Up)
  /\ ev = "connected" => Up /\ ~isConnect
  /\ ev = "disconnected" => ~Up /\ isConnect
  /\ ev \in {"tokenCheck", "error", "open", "use"} => ~Up /\ ~isConnect

Calm == ev = "idle" /\ evq = <<>> /\ ~isConnect /\ ~netBroadcastReceiver
Before  == used["login"] = 0 /\ ui = "out" /\ cmds = <<>> /\ main = "idle" /\ NoSocket /\ Calm
Waiting ==
  /\ cmds # <<>> /\ Head(cmds).cmd = "INIT" /\ NoInit(Tail(cmds))
  /\ main = "idle" /\ NoSocket /\ Calm
Making  == main = "create" /\ mContext /\ NoInit(cmds) /\ NoSocket /\ Calm
Made    ==
  /\ main = "listen" /\ mContext /\ NoInit(cmds) /\ OneSocket /\ Calm
  /\ sock[1].link = "idle"
Served  ==
  /\ main = "idle" /\ NoInit(cmds) /\ OneSocket /\ Cycle
  /\ sock[1].on = Listener /\ Connects(evq)

Situation ==
  \/ Before
  \/ used["login"] = 1 /\ (Waiting \/ Making \/ Made \/ Served)

FirstInv == FirstSession => Situation

(* What is taken from the two queues or added to them in the first session. *)
LEMMA NoInitKept ==
  ASSUME NEW q \in Seq(Cmd), NoInit(q)
  PROVE  /\ q # <<>> => NoInit(Tail(q)) /\ Head(q).cmd \in {"SEND", "NET"}
         /\ \A c \in {"SEND", "NET"} : \A t : NoInit(Append(q, [cmd |-> c, token |-> t]))
BY DEF NoInit

LEMMA ConnectsKept ==
  ASSUME NEW q \in Seq(Call), Connects(q)
  PROVE  /\ q # <<>> => Connects(Tail(q)) /\ Head(q) = [do |-> "connect", s |-> 1]
         /\ Connects(Append(q, [do |-> "connect", s |-> 1]))
BY DEF Connects

LEMMA NotEmpty ==
  ASSUME cmds \in Seq(Cmd), NEW e, cmds' = Append(cmds, e) PROVE cmds' # <<>>
<1>1. Len(cmds') = Len(cmds) + 1 /\ Len(cmds) \in Nat
  OBVIOUS
<1>2. QED
  BY <1>1

(* The first session was one before the step, and it is not about to end.  *)
LEMMA StillFirst ==
  ASSUME TypeOK, [Next]_vars, FirstSession'
  PROVE  FirstSession /\ ~Logout /\ ~Kill
<1> USE DEF TypeOK, FirstSession, EnvEvent, null
<1>1. CASE Login
  BY <1>1 DEF Login, Logout, Kill, Spend
<1>2. ~Logout /\ ~Kill
  BY DEF Logout, Kill, Spend
<1>3. CASE Send \/ NetChange
  BY <1>2, <1>3 DEF Send, NetChange, Spend
<1>4. CASE MainStep
  BY <1>2, <1>4 DEF MainStep, HandleInit, HandleSend, HandleNet, HandleReset, ForgetToken,
                    RemoveListener, ClearSocket, CreateSocket, InitSocketListener, env
<1>5. CASE RunCall
  BY <1>2, <1>5 DEF RunCall, RunConnect, RunDisconnect, env
<1>6. CASE Listen
  BY <1>2, <1>6 DEF Listen, OnConnect, OnDisconnect, CheckToken, OnConnectError,
                    OpenTest, OpenUse, OpenNull, env
<1>7. CASE Wire
  BY <1>2, <1>7 DEF Wire, WireUp, WireError, WireLost, Spend, env
<1>8. CASE UNCHANGED vars
  BY <1>2, <1>8 DEF vars, env
<1>9. QED
  BY <1>1, <1>2, <1>3, <1>4, <1>5, <1>6, <1>7, <1>8 DEF Next

(* A step of Link or none.                                                 *)
LinkStep == AbstractLink!LinkNext \/ ((Up' <=> Up) /\ UNCHANGED isConnect)

LEMMA ApartStutters ==
  ASSUME UNCHANGED <<mSocket, isConnect, sock>> PROVE LinkStep
BY DEF LinkStep, Up

(* A command that is queued, or one of the user's.                         *)
LEMMA FirstUser ==
  ASSUME TypeOK, TypeOK', Situation, FirstSession', Login \/ Send \/ NetChange
  PROVE  Situation' /\ LinkStep
<1> USE DEF TypeOK, EnvEvent
<1>0. LinkStep
  BY ApartStutters DEF Login, Send, NetChange, statics
<1>1. CASE Login
  <2>1. Before
    BY <1>1 DEF Situation, Login, Spend, FirstSession
  <2>2. Head(cmds').cmd = "INIT" /\ Tail(cmds') = <<>> /\ cmds' # <<>>
    BY <1>1, <2>1 DEF Login, Post, Before
  <2>3. used'["login"] = 1
    BY <1>1, <2>1 DEF Login, Spend, Before
  <2>4. Waiting'
    BY <1>1, <2>1, <2>2 DEF Login, Waiting, Before, NoSocket, Calm, NoInit, statics
  <2>5. QED
    BY <1>0, <2>3, <2>4 DEF Situation
<1>2. CASE Send \/ NetChange
  <2> DEFINE posted == \E c \in {"SEND", "NET"} : Post(c, null)
  <2>1. used'["login"] = used["login"]
    BY <1>2 DEF Send, NetChange, Spend
  <2>2. /\ UNCHANGED <<statics, sock, main, evq, ev>>
        /\ cmds' = cmds \/ posted
    BY <1>2 DEF Send, NetChange
  <2>3. CASE Before
    BY <1>0, <1>2, <2>1, <2>2, <2>3 DEF Before, NoSocket, Calm, Send, NetChange, statics, Situation
  <2>4. ASSUME Waiting PROVE Waiting'
    <3>1. CASE cmds' = cmds
      BY <2>2, <2>4, <3>1 DEF Waiting, NoSocket, Calm, NoInit, statics
    <3>2. CASE posted
      <4>1. PICK c \in {"SEND", "NET"} : cmds' = Append(cmds, [cmd |-> c, token |-> null])
        BY <3>2 DEF Post
      <4>2. NoInit(Tail(cmds)) /\ Tail(cmds) \in Seq(Cmd) /\ cmds # <<>> /\ cmds \in Seq(Cmd)
        BY <2>4, HeadTail DEF Waiting
      <4> DEFINE last == [cmd |-> c, token |-> null]
      <4>3. NoInit(Append(Tail(cmds), last))
        BY <4>2, NoInitKept
      <4> HIDE DEF last
      <4>4. /\ cmds' # <<>> /\ Head(cmds') = Head(cmds)
            /\ Tail(cmds') = Append(Tail(cmds), last)
        <5>1. cmds' = Append(cmds, last)
          BY <4>1 DEF last
        <5>2. cmds' # <<>>
          BY <4>2, <5>1, NotEmpty
        <5>3. QED
          BY <4>2, <5>1, <5>2, HeadTailAppend
      <4>5. NoInit(Tail(cmds'))
        BY <4>3, <4>4
      <4>6. QED
        BY <2>2, <2>4, <4>4, <4>5 DEF Waiting, NoSocket, Calm, NoInit, statics
    <3>3. QED
      BY <2>2, <3>1, <3>2
  <2>5. ASSUME NoInit(cmds) PROVE NoInit(cmds')
    BY <2>2, <2>5, NoInitKept DEF Post
  <2>6. ASSUME Making PROVE Making'
    BY <2>2, <2>5, <2>6 DEF Making, NoSocket, Calm, NoInit, statics
  <2>7. ASSUME Made PROVE Made'
    BY <2>2, <2>5, <2>7 DEF Made, OneSocket, Calm, NoInit, statics
  <2>8. ASSUME Served PROVE Served'
    BY <2>2, <2>5, <2>8 DEF Served, OneSocket, Cycle, Up, NoInit, Connects, statics
  <2>9. QED
    BY <1>0, <2>1, <2>3, <2>4, <2>6, <2>7, <2>8 DEF Situation
<1>3. QED
  BY <1>1, <1>2

LEMMA TheSocket ==
  ASSUME TypeOK, OneSocket PROVE 1 \in DOMAIN sock /\ DOMAIN sock = {1} /\ sock[1] \in Sock
<1>1. sock \in Seq(Sock) /\ DOMAIN sock = 1 .. 1
  BY DEF TypeOK, OneSocket
<1>2. 1 .. 1 = {1}
  OBVIOUS
<1>3. QED
  BY <1>1, <1>2, Element

(* The main thread: an INIT is the first command, a SEND finds the token   *)
(* of the socket unless the client is connected anyway.                    *)
LEMMA FirstMain ==
  ASSUME TypeOK, Situation, MainStep
  PROVE  Situation' /\ LinkStep
<1> USE DEF TypeOK, null
<1>0. /\ UNCHANGED env /\ UNCHANGED ev /\ UNCHANGED isConnect
      /\ used["login"] = 1 /\ ~Before
  <2>1. UNCHANGED <<env, ev, isConnect>>
    BY DEF MainStep, HandleInit, HandleSend, HandleNet, HandleReset, ForgetToken,
           RemoveListener, ClearSocket, CreateSocket, InitSocketListener, statics, env
  <2>2. ~Before
    BY DEF Before, MainStep, HandleInit, HandleSend, HandleNet, HandleReset, ForgetToken,
           RemoveListener, ClearSocket, CreateSocket, InitSocketListener, Handle
  <2>3. QED
    BY <2>1, <2>2 DEF Situation
<1>1. used'["login"] = 1
  BY <1>0 DEF env
<1>2. ASSUME Waiting PROVE Making' /\ LinkStep
  <2>1. HandleInit
    BY <1>2 DEF Waiting, MainStep, HandleInit, HandleSend, HandleNet, HandleReset, ForgetToken,
           RemoveListener, ClearSocket, CreateSocket, InitSocketListener, Handle
  <2>2. /\ main' = "create" /\ mContext' /\ cmds' = Tail(cmds)
        /\ UNCHANGED <<mSocket, sock, evq, netBroadcastReceiver>>
    BY <1>2, <2>1 DEF HandleInit, Handle, initSocket, newSocket, Waiting, NoSocket
  <2>3. QED
    BY <1>0, <1>2, <2>2, ApartStutters DEF Waiting, Making, NoSocket, Calm, NoInit
<1>3. ASSUME Making PROVE Made' /\ LinkStep
  <2>1. CreateSocket
    BY <1>3 DEF Making, MainStep, HandleInit, HandleSend, HandleNet, HandleReset, ForgetToken,
           RemoveListener, ClearSocket, CreateSocket, InitSocketListener, Handle
  <2> DEFINE new == [query |-> mToken, on |-> {}, link |-> "idle"]
  <2>2. sock' = Append(sock, new) /\ mSocket' = Len(sock) + 1 /\ Len(sock) = 0
    BY <1>3, <2>1 DEF CreateSocket, Making, NoSocket
  <2>3. Len(sock') = 1 /\ sock'[1] = new /\ mSocket' = 1
    <3> HIDE DEF new
    <3>1. QED
      BY <2>2
  <2>4. sock'[1].link = "idle"
    BY <2>3
  <2>5. main' = "listen" /\ UNCHANGED <<mContext, cmds, evq, netBroadcastReceiver>>
    BY <2>1 DEF CreateSocket
  <2>6. Made'
    BY <1>0, <1>3, <2>3, <2>4, <2>5 DEF Making, Made, OneSocket, Calm, NoInit
  <2>7. ~Up /\ ~Up'
    BY <1>3, <2>3, <2>4 DEF Up, Making, NoSocket
  <2>8. QED
    BY <1>0, <2>6, <2>7 DEF LinkStep
<1>4. ASSUME Made PROVE Served' /\ LinkStep
  <2>1. InitSocketListener
    BY <1>4 DEF Made, MainStep, HandleInit, HandleSend, HandleNet, HandleReset, ForgetToken,
           RemoveListener, ClearSocket, CreateSocket, InitSocketListener, Handle
  <2>2. /\ main' = "idle" /\ UNCHANGED <<mSocket, cmds>>
        /\ sock' = [sock EXCEPT ![1].on = Listener]
        /\ evq' = Append(evq, [do |-> "connect", s |-> 1])
    BY <1>4, <2>1 DEF Made, OneSocket, InitSocketListener, Listeners, openSocket, Exec
  <2>3. sock[1] \in Sock /\ 1 \in DOMAIN sock
    BY <1>4, TheSocket DEF Made
  <2>4. Len(sock') = 1 /\ sock'[1].on = Listener /\ sock'[1].link = "idle"
    BY <1>4, <2>2, <2>3 DEF Made, OneSocket, Sock
  <2>5. Connects(evq')
    BY <1>4, <2>2 DEF Made, Calm, Connects
  <2>6. ~Up /\ ~Up'
    BY <1>4, <2>2, <2>4 DEF Up, Made, OneSocket
  <2>7. Served'
    BY <1>0, <1>4, <2>2, <2>4, <2>5, <2>6 DEF Made, Served, OneSocket, Calm, NoInit, Connects, Cycle
  <2>8. QED
    BY <1>0, <2>6, <2>7 DEF LinkStep
<1>5. ASSUME Served PROVE Served' /\ LinkStep
  <2>1. NoInit(cmds) /\ Head(cmds).cmd \in {"SEND", "NET"} /\ NoInit(Tail(cmds)) /\ cmds # <<>>
    BY <1>5, NoInitKept DEF Served, MainStep, HandleInit, HandleSend, HandleNet, HandleReset,
           ForgetToken, RemoveListener, ClearSocket, CreateSocket, InitSocketListener, Handle
  <2>2. HandleSend \/ HandleNet
    BY <1>5, <2>1 DEF Served, MainStep, HandleInit, HandleSend, HandleNet, HandleReset, ForgetToken,
           RemoveListener, ClearSocket, CreateSocket, InitSocketListener, Handle
  <2>3. /\ cmds' = Tail(cmds) /\ main' = "idle" /\ UNCHANGED <<mSocket, sock>>
        /\ evq' = evq \/ evq' = Append(evq, [do |-> "connect", s |-> 1])
    BY <1>5, <2>2 DEF Served, OneSocket, HandleSend, HandleNet, Handle, initSocket, openSocket,
                         Exec, statics
  <2>4. Connects(evq')
    BY <1>5, <2>3, ConnectsKept DEF Served
  <2>5. Served'
    BY <1>0, <1>5, <2>1, <2>3, <2>4 DEF Served, OneSocket, Cycle, Up, NoInit, Connects
  <2>6. QED
    BY <1>0, <2>3, <2>5, ApartStutters
<1>6. QED
  BY <1>0, <1>1, <1>2, <1>3, <1>4, <1>5 DEF Situation

(* The one socket, after its link or nothing of it has changed.            *)
LEMMA OneSocketLink ==
  ASSUME TypeOK, OneSocket, sock[1].on = Listener, UNCHANGED mSocket,
         NEW l, sock' = [sock EXCEPT ![1].link = l]
  PROVE  /\ OneSocket' /\ sock'[1].on = Listener
         /\ Up' <=> l = "open"
<1>1. sock[1] \in Sock /\ 1 \in DOMAIN sock
  BY TheSocket
<1>2. Len(sock') = 1 /\ sock'[1].on = Listener /\ sock'[1].link = l
  BY <1>1 DEF OneSocket, TypeOK, Sock
<1>3. QED
  BY <1>2 DEF OneSocket, Up, null

(* Only a served session has the EventThread do anything.                  *)
LEMMA EventsServed ==
  ASSUME TypeOK, Situation, RunCall \/ Listen \/ Wire
  PROVE  Served /\ used["login"] = 1
<1> USE DEF TypeOK
<1>1. CASE RunCall
  BY <1>1 DEF Situation, Before, Waiting, Making, Made, Calm, RunCall, RunConnect, RunDisconnect
<1>2. CASE Listen
  BY <1>2 DEF Situation, Before, Waiting, Making, Made, Calm, Listen, OnConnect, OnDisconnect,
              CheckToken, OnConnectError, OpenTest, OpenUse, OpenNull
<1>3. CASE Wire
  <2>1. PICK s \in DOMAIN sock : WireUp(s) \/ WireError(s) \/ WireLost(s)
    BY <1>3 DEF Wire
  <2>2. sock # <<>> /\ sock[s].link \in {"opening", "open"}
    BY <2>1 DEF WireUp, WireError, WireLost
  <2>3. ~Made
    BY <2>1, <2>2 DEF Made, OneSocket
  <2>4. QED
    BY <2>2, <2>3 DEF Situation, Before, Waiting, Making, NoSocket
<1>4. QED
  BY <1>1, <1>2, <1>3

(* The EventThread: it moves the socket and the flag round the cycle.      *)
LEMMA FirstEvents ==
  ASSUME TypeOK, Served, RunCall \/ Listen \/ Wire
  PROVE  Served' /\ LinkStep
<1> USE DEF TypeOK, null
<1>0. /\ mSocket = 1 /\ Len(sock) = 1 /\ DOMAIN sock = {1} /\ OneSocket
      /\ sock[1] \in Sock /\ sock[1].on = Listener
      /\ NoInit(cmds) /\ Connects(evq) /\ main = "idle" /\ Cycle
  BY TheSocket DEF Served, OneSocket
<1>1. ASSUME OneSocket', sock'[1].on = Listener, Connects(evq'), Cycle', UNCHANGED <<cmds, main>>
      PROVE  Served'
  BY <1>0, <1>1 DEF Served, NoInit, Connects
<1>2. ASSUME UNCHANGED <<mSocket, sock>> PROVE OneSocket' /\ sock'[1].on = Listener /\ (Up' <=> Up)
  BY <1>0, <1>2 DEF OneSocket, Up
<1>3. Up <=> sock[1].link = "open"
  BY <1>0 DEF Up
<1> DEFINE opening == sock' = [sock EXCEPT ![1].link = "opening"]
<1>open. ASSUME opening, sock[1].link = "idle", UNCHANGED mSocket
      PROVE  OneSocket' /\ sock'[1].on = Listener /\ (Up' <=> Up)
  <2>1. OneSocket' /\ sock'[1].on = Listener /\ (Up' <=> "opening" = "open")
    BY <1>0, <1>open, OneSocketLink
  <2>2. ~Up /\ ~Up'
    BY <1>3, <1>open, <2>1
  <2>3. QED
    BY <2>1, <2>2
<1>4. CASE RunConnect
  <2>1. Head(evq).s = 1 /\ Connects(Tail(evq)) /\ evq' = Tail(evq)
    BY <1>0, <1>4, ConnectsKept DEF RunConnect
  <2>2. UNCHANGED <<mSocket, cmds, main, ev, isConnect>> /\ ev = "idle" /\ Connect(1)
    BY <1>4, <2>1 DEF RunConnect, statics
  <2>3. OneSocket' /\ sock'[1].on = Listener /\ (Up' <=> Up)
    <3>1. (opening /\ sock[1].link = "idle") \/ UNCHANGED sock
      BY <2>2 DEF Connect, Link
    <3>2. QED
      BY <1>2, <1>open, <2>2, <3>1
  <2>4. Cycle'
    BY <1>0, <2>2, <2>3 DEF Cycle
  <2>5. QED
    BY <1>1, <2>1, <2>2, <2>3, <2>4 DEF LinkStep
<1>5. ~RunDisconnect
  BY <1>0, ConnectsKept DEF RunDisconnect
<1>6. CASE Listen
  <2>1. CASE OnConnect
    <3>1. /\ UNCHANGED <<mSocket, sock, cmds, main, evq>> /\ Up /\ ~isConnect
          /\ isConnect' = TRUE /\ ev' = "idle"
      BY <1>0, <2>1 DEF OnConnect, Cycle
    <3>2. Cycle'
      BY <1>2, <3>1 DEF Cycle
    <3>3. AbstractLink!Raise
      BY <1>2, <3>1 DEF AbstractLink!Raise, Up
    <3>4. Served'
      BY <1>0, <1>1, <1>2, <3>1, <3>2
    <3>5. QED
      BY <3>3, <3>4 DEF LinkStep, AbstractLink!LinkNext
  <2>2. CASE OnDisconnect
    <3>1. /\ UNCHANGED <<mSocket, sock, cmds, main, evq>> /\ ~Up /\ isConnect
          /\ isConnect' = FALSE /\ ev' = "tokenCheck"
      BY <1>0, <2>2 DEF OnDisconnect, Cycle
    <3>2. Cycle'
      BY <1>2, <3>1 DEF Cycle
    <3>3. AbstractLink!Clear
      BY <1>2, <3>1 DEF AbstractLink!Clear, Up
    <3>4. Served'
      BY <1>0, <1>1, <1>2, <3>1, <3>2
    <3>5. QED
      BY <3>3, <3>4 DEF LinkStep, AbstractLink!LinkNext
  <2>3. CASE CheckToken \/ OnConnectError \/ OpenTest
    <3>1. /\ UNCHANGED <<mSocket, sock, cmds, main, evq>> /\ ~Up /\ ~isConnect
          /\ isConnect' = isConnect /\ ev' \in {"idle", "open", "use"}
      BY <1>0, <2>3 DEF CheckToken, OnConnectError, OpenTest, Cycle, statics
    <3>2. Cycle'
      BY <1>2, <3>1 DEF Cycle
    <3>3. QED
      BY <1>0, <1>1, <1>2, <3>1, <3>2 DEF LinkStep
  <2>4. CASE OpenUse
    <3>1. /\ UNCHANGED <<mSocket, cmds, main, evq, isConnect>> /\ ~Up /\ ~isConnect
          /\ ev' = "idle" /\ Connect(1)
      BY <1>0, <2>4 DEF OpenUse, Cycle, statics
    <3>2. OneSocket' /\ sock'[1].on = Listener /\ (Up' <=> Up)
      <4>1. (opening /\ sock[1].link = "idle") \/ UNCHANGED sock
        BY <3>1 DEF Connect, Link
      <4>2. QED
        BY <1>2, <1>open, <3>1, <4>1
    <3>3. Cycle'
      BY <3>1, <3>2 DEF Cycle
    <3>4. QED
      BY <1>0, <1>1, <3>1, <3>2, <3>3 DEF LinkStep
  <2>5. ~OpenNull
    BY <1>0 DEF OpenNull
  <2>6. QED
    BY <1>6, <2>1, <2>2, <2>3, <2>4, <2>5 DEF Listen
<1>7. CASE Wire
  <2>1. WireUp(1) \/ WireError(1) \/ WireLost(1)
    BY <1>0, <1>7 DEF Wire
  <2>2. CASE WireUp(1)
    <3>1. /\ UNCHANGED <<mSocket, cmds, main, evq, isConnect>> /\ ~Up /\ ~isConnect
          /\ ev' = "connected" /\ sock' = [sock EXCEPT ![1].link = "open"]
      BY <1>0, <1>3, <2>2 DEF WireUp, Emit, Link, Cycle, Listener, statics
    <3>2. OneSocket' /\ sock'[1].on = Listener /\ Up'
      BY <1>0, <3>1, OneSocketLink
    <3>3. Cycle'
      BY <3>1, <3>2 DEF Cycle
    <3>4. AbstractLink!Rise
      BY <3>1, <3>2 DEF AbstractLink!Rise, Up
    <3>5. QED
      BY <1>0, <1>1, <3>1, <3>2, <3>3, <3>4 DEF LinkStep, AbstractLink!LinkNext
  <2>3. CASE WireError(1)
    <3>1. /\ UNCHANGED <<mSocket, sock, cmds, main, evq, isConnect>> /\ ~Up /\ ~isConnect
          /\ ev' = "error"
      BY <1>0, <1>3, <2>3 DEF WireError, Emit, Cycle, Listener, statics
    <3>2. Cycle'
      BY <1>2, <3>1 DEF Cycle
    <3>3. QED
      BY <1>0, <1>1, <1>2, <3>1, <3>2 DEF LinkStep
  <2>4. CASE WireLost(1)
    <3>1. PICK to \in {"opening", "idle"} : Link(1, to)
      BY <2>4 DEF WireLost
    <3>2. /\ UNCHANGED <<mSocket, cmds, main, evq, isConnect>> /\ Up /\ isConnect
          /\ ev' = "disconnected" /\ sock' = [sock EXCEPT ![1].link = to]
      BY <1>0, <1>3, <2>4, <3>1 DEF WireLost, Emit, Link, Cycle, Listener, statics
    <3>3. OneSocket' /\ sock'[1].on = Listener /\ ~Up'
      BY <1>0, <3>2, OneSocketLink
    <3>4. Cycle'
      BY <3>2, <3>3 DEF Cycle
    <3>5. AbstractLink!Fall
      BY <3>2, <3>3 DEF AbstractLink!Fall, Up
    <3>6. QED
      BY <1>0, <1>1, <3>2, <3>3, <3>4, <3>5 DEF LinkStep, AbstractLink!LinkNext
  <2>5. QED
    BY <2>1, <2>2, <2>3, <2>4
<1>8. QED
  BY <1>4, <1>5, <1>6, <1>7 DEF RunCall

(* A step of the first session keeps it in its course and is Link's.       *)
LEMMA FirstStep == TypeOK /\ FirstInv /\ [Next]_vars => FirstInv' /\ (FirstSession' => LinkStep)
<1> SUFFICES ASSUME TypeOK, FirstInv, [Next]_vars, FirstSession' PROVE Situation' /\ LinkStep
  BY DEF FirstInv
<1>1. TypeOK' /\ FirstSession /\ Situation /\ ~Logout /\ ~Kill
  BY TypeStep, StillFirst DEF FirstInv
<1>2. CASE Login \/ Send \/ NetChange
  BY <1>1, <1>2, FirstUser
<1>3. CASE MainStep
  BY <1>1, <1>3, FirstMain
<1>4. CASE RunCall \/ Listen \/ Wire
  <2>1. Served /\ used["login"] = 1
    BY <1>1, <1>4, EventsServed
  <2>2. Served' /\ LinkStep
    BY <1>4, <2>1, FirstEvents
  <2>3. used'["login"] = used["login"]
    <3>1. CASE RunCall
      BY <3>1 DEF RunCall, RunConnect, RunDisconnect, env
    <3>2. CASE Listen
      BY <3>2 DEF Listen, OnConnect, OnDisconnect, CheckToken, OnConnectError,
                  OpenTest, OpenUse, OpenNull, env
    <3>3. CASE Wire
      BY <3>3 DEF Wire, WireUp, WireError, WireLost, Spend, env, TypeOK, EnvEvent
    <3>4. QED
      BY <1>4, <3>1, <3>2, <3>3
  <2>4. QED
    BY <2>1, <2>2, <2>3 DEF Situation
<1>5. CASE UNCHANGED vars
  BY <1>1, <1>5 DEF vars, statics, env, Situation, Before, Waiting, Making, Made, Served, NoSocket,
                    OneSocket, Calm, Cycle, Up, NoInit, Connects, LinkStep
<1>6. QED
  BY <1>1, <1>2, <1>3, <1>4, <1>5 DEF Next

(* Refinement: within the first session of a process the socket and the    *)
(* flag isConnect take the steps of Link and no others, whatever is sent,  *)
(* lost and refused and however the threads interleave.                    *)
THEOREM FirstSessionIsALink == Spec => ImplementsLink
<1>1. ASSUME Init PROVE FirstInv /\ AbstractLink!LinkInit
  BY <1>1 DEF Init, FirstInv, Situation, Before, NoSocket, Calm, AbstractLink!LinkInit,
                 null, EnvEvent
<1>2. (FirstSession' => LinkStep) =>
         [FirstSession' => AbstractLink!LinkNext]_(AbstractLink!linkVars)
  BY DEF LinkStep, AbstractLink!linkVars, Up
<1>3. ASSUME TypeOK, FirstInv, [Next]_vars
      PROVE  FirstInv' /\ [FirstSession' => AbstractLink!LinkNext]_(AbstractLink!linkVars)
  BY <1>2, <1>3, FirstStep
<1>4. QED
  BY <1>1, <1>3, TypeCorrect, PTL DEF Spec, ImplementsLink
=============================================================================
