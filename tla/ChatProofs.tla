----------------------------- MODULE ChatProofs -----------------------------
(***************************************************************************)
(* Theorems about the two halves of the chat: ChatDelivery, for any number *)
(* of messages of both kinds, broken connections, failed attempts and      *)
(* pushed messages, and Wallet, for any envelopes, amounts and names, any  *)
(* number of clicks and of lost replies.  The two share no variable; a red *)
(* envelope is one of ChatDelivery's messages once Wallet has handed it    *)
(* over.                                                                   *)
(***************************************************************************)
EXTENDS ChatDelivery, Wallet, FiniteSetTheorems, TLAPS

-----------------------------------------------------------------------------
(* ChatDelivery.                                                           *)

(* The hint is right, or an event is on its way that will put it right.    *)
HintInv == bus = 0 => (hint <=> ~isConnect) \/ (~isConnect /\ falls + errors = 0)

(* A message that is not sent again is under way once, or has arrived.     *)
AtMostOne(q, e) == \A i, j \in DOMAIN q : q[i] = e /\ q[j] = e => i = j
Without(q, e) == \A i \in DOMAIN q : q[i] # e

SentOnce(p) ==
  /\ p \notin Range(mList) =>
       Without(svc, Mail("send", p)) /\ Without(out, p) /\ stored[p] = 0
  /\ AtMostOne(svc, Mail("send", p)) /\ AtMostOne(out, p) /\ stored[p] <= 1
  /\ Without(svc, Mail("send", p)) \/ (Without(out, p) /\ stored[p] = 0)
  /\ Without(out, p) \/ stored[p] = 0

(* No intent to send comes from the wire.                                  *)
WireAnswers == \A i \in DOMAIN in : in[i].kind # "send"

OnceInv == WireAnswers /\ \A p \in Other : SentOnce(p)

(* Only what the user sent is under way, and an acknowledgement only of    *)
(* what the server has.                                                    *)
Honest(n) ==
  /\ n.kind = "send" => n.pid \in Range(mList)
  /\ n.kind = "ack" => stored[n.pid] > 0

Notes == Range(svc) \cup Range(bc) \cup Range(in)

DeliveryInv ==
  /\ \A n \in Notes : Honest(n)
  /\ Range(out) \subseteq Range(mList)
  /\ \A p \in Pid : status[p] = "success" => stored[p] > 0

-----------------------------------------------------------------------------
(* Sequences.                                                              *)

LEMMA AppendIs ==
  ASSUME NEW S, NEW q \in Seq(S), NEW e \in S
  PROVE  /\ Append(q, e) \in Seq(S) /\ Len(q) \in Nat /\ DOMAIN q = 1 .. Len(q)
         /\ DOMAIN Append(q, e) = 1 .. Len(q) + 1 /\ Append(q, e)[Len(q) + 1] = e
         /\ \A i \in 1 .. Len(q) : Append(q, e)[i] = q[i]
  OBVIOUS

LEMMA TailIs ==
  ASSUME NEW S, NEW q \in Seq(S), q # <<>>
  PROVE  /\ Tail(q) \in Seq(S) /\ Len(q) \in Nat /\ Len(q) > 0 /\ DOMAIN q = 1 .. Len(q)
         /\ DOMAIN Tail(q) = 1 .. Len(q) - 1 /\ Head(q) = q[1] /\ Head(q) \in S
         /\ \A i \in 1 .. Len(q) - 1 : Tail(q)[i] = q[i + 1]
  OBVIOUS

LEMMA ConcatIs ==
  ASSUME NEW S, NEW q \in Seq(S), NEW r \in Seq(S)
  PROVE  /\ q \o r \in Seq(S) /\ Len(q) \in Nat /\ Len(r) \in Nat
         /\ DOMAIN q = 1 .. Len(q) /\ DOMAIN r = 1 .. Len(r)
         /\ DOMAIN (q \o r) = 1 .. Len(q) + Len(r)
         /\ \A i \in 1 .. Len(q) : (q \o r)[i] = q[i]
         /\ \A i \in Len(q) + 1 .. Len(q) + Len(r) : (q \o r)[i] = r[i - Len(q)]
  OBVIOUS

(* What is in a sequence after an append, without its head, and after      *)
(* another was added.                                                      *)
LEMMA AppendHas ==
  ASSUME NEW S, NEW q \in Seq(S), NEW e \in S
  PROVE  /\ Append(q, e) \in Seq(S) /\ Range(Append(q, e)) = Range(q) \cup {e}
         /\ \A x : x # e /\ Without(q, x) => Without(Append(q, e), x)
         /\ \A x : x # e /\ AtMostOne(q, x) => AtMostOne(Append(q, e), x)
         /\ Without(q, e) => AtMostOne(Append(q, e), e)
<1> DEFINE n == Len(q)
           r == Append(q, e)
<1>1. /\ r \in Seq(S) /\ n \in Nat /\ DOMAIN q = 1 .. n /\ DOMAIN r = 1 .. n + 1 /\ r[n + 1] = e
      /\ \A i \in 1 .. n : r[i] = q[i]
  BY AppendIs
<1> HIDE DEF n, r
<1>2. \A i \in 1 .. n + 1 : i = n + 1 \/ i \in 1 .. n
  BY <1>1
<1>3. 1 .. n \subseteq 1 .. n + 1 /\ n + 1 \in 1 .. n + 1
  BY <1>1
<1>4. Range(r) = Range(q) \cup {e}
  BY <1>1, <1>2, <1>3 DEF Range
<1>5. \A x : x # e /\ Without(q, x) => Without(r, x)
  BY <1>1, <1>2 DEF Without
<1>6. \A x : x # e /\ AtMostOne(q, x) => AtMostOne(r, x)
  BY <1>1, <1>2 DEF AtMostOne
<1>7. Without(q, e) => AtMostOne(r, e)
  BY <1>1, <1>2 DEF AtMostOne, Without
<1> QED
  BY <1>1, <1>4, <1>5, <1>6, <1>7 DEF r

LEMMA TailHas ==
  ASSUME NEW S, NEW q \in Seq(S), q # <<>>
  PROVE  /\ Tail(q) \in Seq(S) /\ Head(q) \in S /\ 1 \in DOMAIN q /\ Head(q) = q[1]
         /\ \A i \in DOMAIN Tail(q) : i + 1 \in DOMAIN q /\ Tail(q)[i] = q[i + 1]
         /\ Range(Tail(q)) \subseteq Range(q) /\ Head(q) \in Range(q)
         /\ \A x : Without(q, x) => Without(Tail(q), x)
         /\ \A x : AtMostOne(q, x) => AtMostOne(Tail(q), x)
         /\ AtMostOne(q, Head(q)) => Without(Tail(q), Head(q))
<1> DEFINE n == Len(q)
           r == Tail(q)
<1>1. /\ r \in Seq(S) /\ n \in Nat /\ n > 0 /\ DOMAIN q = 1 .. n /\ DOMAIN r = 1 .. n - 1
      /\ Head(q) = q[1] /\ Head(q) \in S
      /\ \A i \in 1 .. n - 1 : r[i] = q[i + 1]
  BY TailIs
<1> HIDE DEF n, r
<1>2. 1 \in 1 .. n /\ \A i \in 1 .. n - 1 : i + 1 \in 1 .. n /\ i + 1 # 1 /\ i \in Int
  BY <1>1
<1>3. \A i, j \in 1 .. n - 1 : i + 1 = j + 1 => i = j
  BY <1>1
<1>4. \A x : Without(q, x) => Without(r, x)
  BY <1>1, <1>2 DEF Without
<1>5. \A x : AtMostOne(q, x) => AtMostOne(r, x)
  <2> SUFFICES ASSUME NEW x, AtMostOne(q, x), NEW i \in 1 .. n - 1, NEW j \in 1 .. n - 1,
                      r[i] = x, r[j] = x
               PROVE  i = j
    BY <1>1 DEF AtMostOne
  <2>1. i + 1 \in DOMAIN q /\ j + 1 \in DOMAIN q /\ q[i + 1] = x /\ q[j + 1] = x
    BY <1>1, <1>2
  <2>2. i + 1 = j + 1
    BY <2>1 DEF AtMostOne
  <2> QED
    BY <1>3, <2>2
<1>6. AtMostOne(q, Head(q)) => Without(r, Head(q))
  BY <1>1, <1>2 DEF AtMostOne, Without
<1>7. Range(r) \subseteq Range(q) /\ Head(q) \in Range(q)
  BY <1>1, <1>2 DEF Range
<1> QED
  BY <1>1, <1>2, <1>4, <1>5, <1>6, <1>7 DEF r

LEMMA ConcatHas ==
  ASSUME NEW S, NEW q \in Seq(S), NEW r \in Seq(S)
  PROVE  /\ q \o r \in Seq(S) /\ Range(q \o r) \subseteq Range(q) \cup Range(r)
         /\ \A x : Without(r, x) /\ Without(q, x) => Without(q \o r, x)
         /\ \A x : Without(r, x) /\ AtMostOne(q, x) => AtMostOne(q \o r, x)
         /\ \A i \in DOMAIN (q \o r) : \/ i \in DOMAIN q /\ (q \o r)[i] = q[i]
                                       \/ \E j \in DOMAIN r : (q \o r)[i] = r[j]
<1> DEFINE n == Len(q)
           m == Len(r)
           c == q \o r
<1>1. /\ c \in Seq(S) /\ n \in Nat /\ m \in Nat /\ DOMAIN q = 1 .. n /\ DOMAIN r = 1 .. m
      /\ DOMAIN c = 1 .. n + m
      /\ \A i \in 1 .. n : c[i] = q[i]
      /\ \A i \in n + 1 .. n + m : c[i] = r[i - n]
  BY ConcatIs
<1> HIDE DEF n, m, c
<1>2. \A i \in 1 .. n + m : i \in 1 .. n \/ (i \in n + 1 .. n + m /\ i - n \in 1 .. m)
  BY <1>1
<1>3. \A i \in DOMAIN c : (i \in DOMAIN q /\ c[i] = q[i]) \/ \E j \in DOMAIN r : c[i] = r[j]
  BY <1>1, <1>2
<1>4. \A x : Without(r, x) /\ Without(q, x) => Without(c, x)
  BY <1>3 DEF Without
<1>5. \A x : Without(r, x) /\ AtMostOne(q, x) => AtMostOne(c, x)
  BY <1>3 DEF Without, AtMostOne
<1>6. Range(c) \subseteq Range(q) \cup Range(r)
  BY <1>3 DEF Range
<1> QED
  BY <1>1, <1>3, <1>4, <1>5, <1>6 DEF c

-----------------------------------------------------------------------------
(* What is sent through SocketManager.                                     *)

LEMMA SendsAre ==
  ASSUME TypeOK, NEW n \in Nat, NEW pids \in [1 .. n -> Pid], sendMsgSocket(pids)
  PROVE  /\ svc' \in Seq(Note) /\ mCallBackMap' \subseteq Pid
         /\ \E r \in Seq(Note) :
              /\ svc' = svc \o r /\ DOMAIN r = 1 .. n
              /\ \A j \in 1 .. n : r[j] = Mail("send", pids[j])
<1> DEFINE r == [i \in 1 .. n |-> Mail("send", pids[i])]
<1>1. svc' = svc \o r /\ mCallBackMap' = mCallBackMap \cup Range(pids)
  BY DEF sendMsgSocket
<1>2. r \in [1 .. n -> Note]
  BY DEF Mail, Note
<1>3. r \in Seq(Note) /\ DOMAIN r = 1 .. n /\ \A j \in 1 .. n : r[j] = Mail("send", pids[j])
  BY <1>2
<1> HIDE DEF r
<1>4. svc' \in Seq(Note)
  BY <1>1, <1>3, ConcatIs DEF TypeOK
<1>5. mCallBackMap' \subseteq Pid
  BY <1>1 DEF Range, TypeOK
<1> QED
  BY <1>1, <1>3, <1>4, <1>5

LEMMA UnconfirmedIs ==
  ASSUME TypeOK, NEW q \in InOrder(Unconfirmed)
  PROVE  \E n \in Nat : /\ [i \in DOMAIN q |-> mList[q[i]]] \in [1 .. n -> Pid]
                        /\ \A i \in 1 .. n : mList[q[i]] \in Range(mList) \cap Text
                        /\ DOMAIN q = 1 .. n
<1> DEFINE n == Cardinality(Unconfirmed)
<1>1. Unconfirmed \subseteq 1 .. Len(mList) /\ Len(mList) \in Nat /\ DOMAIN mList = 1 .. Len(mList)
  BY DEF Unconfirmed, TypeOK
<1>2. IsFiniteSet(1 .. Len(mList))
  BY <1>1, FS_Interval
<1>3. n \in Nat
  BY <1>1, <1>2, FS_Subset, FS_CardinalityType
<1>4. q \in [1 .. n -> Unconfirmed]
  BY DEF InOrder
<1> HIDE DEF n
<1>5. \A i \in 1 .. n : mList[q[i]] \in Range(mList) \cap Text /\ mList[q[i]] \in Pid
  BY <1>1, <1>4 DEF Unconfirmed, Range, Pid
<1>6. [i \in DOMAIN q |-> mList[q[i]]] \in [1 .. n -> Pid]
  BY <1>4, <1>5
<1> QED
  BY <1>3, <1>4, <1>5, <1>6

(* What socketError does to the queue of intents: texts follow, or nothing *)
LEMMA ResendIs ==
  ASSUME TypeOK, socketError
  PROVE  /\ svc' \in Seq(Note) /\ mCallBackMap' \subseteq Pid
         /\ \E r \in Seq(Note) :
              /\ svc' = svc \o r
              /\ \A j \in DOMAIN r : \E p \in Range(mList) \cap Text : r[j] = Mail("send", p)
<1>1. CASE isConnect
  <2>1. PICK q \in InOrder(Unconfirmed) : sendMsgSocket([i \in DOMAIN q |-> mList[q[i]]])
    BY <1>1 DEF socketError
  <2>2. PICK n \in Nat : /\ [i \in DOMAIN q |-> mList[q[i]]] \in [1 .. n -> Pid]
                         /\ \A i \in 1 .. n : mList[q[i]] \in Range(mList) \cap Text
                         /\ DOMAIN q = 1 .. n
    BY UnconfirmedIs
  <2> DEFINE pids == [i \in DOMAIN q |-> mList[q[i]]]
  <2>3. \A j \in 1 .. n : pids[j] \in Range(mList) \cap Text
    BY <2>2
  <2>4. pids \in [1 .. n -> Pid] /\ sendMsgSocket(pids)
    BY <2>1, <2>2
  <2> HIDE DEF pids
  <2>5. /\ svc' \in Seq(Note) /\ mCallBackMap' \subseteq Pid
        /\ \E r \in Seq(Note) :
             /\ svc' = svc \o r /\ DOMAIN r = 1 .. n
             /\ \A j \in 1 .. n : r[j] = Mail("send", pids[j])
    BY <2>4, SendsAre
  <2>6. PICK r \in Seq(Note) : svc' = svc \o r /\ DOMAIN r = 1 .. n
                               /\ \A j \in 1 .. n : r[j] = Mail("send", pids[j])
    BY <2>5
  <2>7. \A j \in DOMAIN r : \E p \in Range(mList) \cap Text : r[j] = Mail("send", p)
    BY <2>3, <2>6
  <2> QED
    BY <2>5, <2>6, <2>7
<1>2. CASE ~isConnect
  <2>1. UNCHANGED <<svc, mCallBackMap>>
    BY <1>2 DEF socketError
  <2>2. <<>> \in Seq(Note) /\ svc = svc \o <<>> /\ DOMAIN <<>> = {}
    BY DEF TypeOK
  <2> QED
    BY <2>1, <2>2 DEF TypeOK
<1> QED
  BY <1>1, <1>2

-----------------------------------------------------------------------------
(* Types.                                                                  *)

LEMMA SendTypes == ASSUME TypeOK, NEW p \in Pid, Send(p) PROVE TypeOK'
<1>1. svc' \in Seq(Note) /\ mCallBackMap' \subseteq Pid
  <2>1. sendMsgSocket(<<p>>) /\ <<p>> \in [1 .. 1 -> Pid]
    BY DEF Send
  <2> QED
    BY <2>1, SendsAre
<1>2. mList' \in Seq(Pid)
  BY AppendIs DEF Send, TypeOK
<1> QED
  BY <1>1, <1>2 DEF Send, TypeOK, LinkTypeOK, linkVars, wire, env

LEMMA MainTypes == ASSUME TypeOK, MainStep PROVE TypeOK'
<1>1. CASE EmitMsg
  <2>1. svc # <<>> /\ svc' = Tail(svc) /\ Head(svc).kind = "send"
    BY <1>1 DEF EmitMsg, TakeSvc
  <2>2. svc' \in Seq(Note) /\ Head(svc) \in Note
    BY <2>1, TailIs DEF TypeOK
  <2>3. Head(svc).pid \in Pid
    BY <2>1, <2>2 DEF Note
  <2>4. out' \in Seq(Pid)
    BY <1>1, <2>3, AppendIs DEF EmitMsg, TypeOK
  <2> QED
    BY <1>1, <2>2, <2>4 DEF EmitMsg, TypeOK, LinkTypeOK, linkVars, ui, env
<1>2. CASE callMsg2UI
  <2>1. svc # <<>> /\ svc' = Tail(svc) /\ bc' = Append(bc, Head(svc))
    BY <1>2 DEF callMsg2UI, TakeSvc
  <2>2. svc' \in Seq(Note) /\ Head(svc) \in Note
    BY <2>1, TailIs DEF TypeOK
  <2>3. bc' \in Seq(Note)
    BY <2>1, <2>2, AppendIs DEF TypeOK
  <2> QED
    BY <1>2, <2>2, <2>3 DEF callMsg2UI, TypeOK, LinkTypeOK, linkVars, ui, wire, env
<1>3. CASE AckReceived
  <2>1. bc # <<>> /\ bc' = Tail(bc)
    BY <1>3 DEF AckReceived
  <2>2. bc' \in Seq(Note)
    BY <2>1, TailIs DEF TypeOK
  <2>3. status' = status \/ status' = [status EXCEPT ![Head(bc).pid] = "success"]
    BY <1>3 DEF AckReceived
  <2>4. status' \in [Pid -> {"loading", "success"}]
    BY <2>3 DEF TypeOK
  <2>5. mCallBackMap' \subseteq Pid
    BY <1>3 DEF AckReceived, TypeOK
  <2> QED
    BY <1>3, <2>2, <2>4, <2>5 DEF AckReceived, TypeOK, LinkTypeOK, linkVars, wire, env
<1>4. CASE SysReceived
  <2>1. bc # <<>> /\ bc' = Tail(bc) /\ socketError
    BY <1>4 DEF SysReceived
  <2>2. bc' \in Seq(Note)
    BY <2>1, TailIs DEF TypeOK
  <2>3. svc' \in Seq(Note) /\ mCallBackMap' \subseteq Pid
    BY <2>1, ResendIs
  <2>4. hint' \in BOOLEAN /\ UNCHANGED <<mList, status>>
    BY <2>1 DEF socketError, TypeOK, LinkTypeOK
  <2> QED
    BY <1>4, <2>2, <2>3, <2>4 DEF SysReceived, TypeOK, LinkTypeOK, linkVars, wire, env
<1>5. CASE ConnectEvent
  <2>1. bus > 0 /\ bus' = bus - 1 /\ socketError
    BY <1>5 DEF ConnectEvent
  <2>2. bus' \in Nat
    BY <2>1 DEF TypeOK
  <2>3. svc' \in Seq(Note) /\ mCallBackMap' \subseteq Pid
    BY <2>1, ResendIs
  <2>4. hint' \in BOOLEAN /\ UNCHANGED <<mList, status>>
    BY <2>1 DEF socketError, TypeOK, LinkTypeOK
  <2> QED
    BY <1>5, <2>2, <2>3, <2>4 DEF ConnectEvent, TypeOK, LinkTypeOK, linkVars, wire, env
<1> QED
  BY <1>1, <1>2, <1>3, <1>4, <1>5 DEF MainStep

LEMMA NetTypes ==
  ASSUME TypeOK, NetStep \/ LinkLost \/ OnConnectError \/ WireReceived \/ ServerTake \/ ServerPush
  PROVE  TypeOK'
<1>1. CASE LinkUp
  BY <1>1 DEF LinkUp, Rise, TypeOK, LinkTypeOK, ui, wire, env
<1>2. CASE OnConnect
  BY <1>2 DEF OnConnect, Raise, TypeOK, LinkTypeOK, ui, wire, env
<1>3. CASE OnDisconnect
  <2>1. isConnect' = FALSE /\ up' = up
    BY <1>3 DEF OnDisconnect, Clear
  <2>2. LinkTypeOK'
    BY <2>1 DEF TypeOK, LinkTypeOK
  <2>3. bus' \in Nat
    BY <1>3 DEF OnDisconnect, TypeOK
  <2> QED
    BY <1>3, <2>2, <2>3 DEF OnDisconnect, TypeOK, ui, wire, env
<1>4. CASE LinkLost
  <2>1. falls' \in 0 .. MaxFalls /\ out' \in Seq(Pid) /\ in' \in Seq(Note)
    BY <1>4, BudgetAssumption DEF LinkLost, TypeOK
  <2> QED
    BY <1>4, <2>1 DEF LinkLost, Fall, TypeOK, LinkTypeOK, ui
<1>5. CASE OnConnectError
  <2>1. errors' \in 0 .. MaxErrors /\ bus' \in Nat
    BY <1>5, BudgetAssumption DEF OnConnectError, TypeOK
  <2> QED
    BY <1>5, <2>1 DEF OnConnectError, linkVars, TypeOK, LinkTypeOK, ui, wire
<1>6. CASE WireReceived
  <2>1. in # <<>> /\ in' = Tail(in) /\ svc' = Append(svc, Head(in))
    BY <1>6 DEF WireReceived
  <2>2. in' \in Seq(Note) /\ Head(in) \in Note
    BY <2>1, TailIs DEF TypeOK
  <2>3. svc' \in Seq(Note)
    BY <2>1, <2>2, AppendIs DEF TypeOK
  <2> QED
    BY <1>6, <2>2, <2>3 DEF WireReceived, linkVars, TypeOK, LinkTypeOK, ui, env
<1>7. CASE ServerTake
  <2>1. out # <<>> /\ out' = Tail(out) /\ in' = Append(in, Mail("ack", Head(out)))
    BY <1>7 DEF ServerTake
  <2>2. out' \in Seq(Pid) /\ Head(out) \in Pid
    BY <2>1, TailIs DEF TypeOK
  <2>3. in' \in Seq(Note)
    BY <2>1, <2>2, AppendIs DEF TypeOK, Mail, Note
  <2>4. stored' \in [Pid -> Nat]
    <3>1. stored \in [Pid -> Nat] /\ stored[Head(out)] + 1 \in Nat
      BY <2>2 DEF TypeOK
    <3> QED
      BY <1>7, <3>1 DEF ServerTake
  <2> QED
    BY <1>7, <2>2, <2>3, <2>4 DEF ServerTake, linkVars, TypeOK, LinkTypeOK, ui, env
<1>8. CASE ServerPush
  <2>1. sys' \in 0 .. MaxSys
    BY <1>8, BudgetAssumption DEF ServerPush, TypeOK
  <2>2. in' \in Seq(Note)
    BY <1>8, AppendIs DEF ServerPush, TypeOK, Mail, Note
  <2> QED
    BY <1>8, <2>1, <2>2 DEF ServerPush, linkVars, TypeOK, LinkTypeOK, ui
<1> QED
  BY <1>1, <1>2, <1>3, <1>4, <1>5, <1>6, <1>7, <1>8 DEF NetStep

(* Every variable keeps its type.                                          *)
THEOREM TypeCorrect == Spec => []TypeOK
<1>1. Init => TypeOK
  <2> SUFFICES ASSUME Init PROVE TypeOK
    OBVIOUS
  <2>1. status \in [Pid -> {"loading", "success"}] /\ stored \in [Pid -> Nat]
    BY DEF Init
  <2>2. <<>> \in Seq(Pid) /\ <<>> \in Seq(Note)
    OBVIOUS
  <2>3. 0 \in 0 .. MaxFalls /\ 0 \in 0 .. MaxErrors /\ 0 \in 0 .. MaxSys
    BY BudgetAssumption
  <2> QED
    BY <2>1, <2>2, <2>3 DEF Init, LinkInit, TypeOK, LinkTypeOK
<1>2. TypeOK /\ [Next]_vars => TypeOK'
  <2> SUFFICES ASSUME TypeOK, [Next]_vars PROVE TypeOK'
    OBVIOUS
  <2>1. CASE UNCHANGED vars
    BY <2>1 DEF vars, linkVars, ui, wire, env, TypeOK, LinkTypeOK
  <2> QED
    BY <2>1, SendTypes, MainTypes, NetTypes DEF Next
<1> QED
  BY <1>1, <1>2, PTL DEF Spec

-----------------------------------------------------------------------------
(* The hint.                                                               *)

LEMMA NextHint == ASSUME TypeOK, HintInv, [Next]_vars PROVE HintInv'
<1> USE DEF HintInv
<1>1. CASE socketError /\ UNCHANGED <<linkVars, env>>
  BY <1>1 DEF socketError, linkVars, env
<1>2. CASE bus' = bus + 1
  BY <1>2 DEF TypeOK
<1>3. CASE UNCHANGED <<bus, hint, linkVars, falls, errors>>
  BY <1>3 DEF linkVars
<1>4. ASSUME NEW p \in Pid, Send(p) PROVE HintInv'
  BY <1>3, <1>4 DEF Send, env
<1>5. CASE EmitMsg \/ callMsg2UI \/ AckReceived \/ WireReceived \/ ServerTake \/ ServerPush
  BY <1>3, <1>5 DEF EmitMsg, callMsg2UI, AckReceived, WireReceived, ServerTake, ServerPush, ui, env, wire
<1>6. CASE SysReceived \/ ConnectEvent
  BY <1>1, <1>6 DEF SysReceived, ConnectEvent
<1>7. CASE OnConnect \/ OnDisconnect \/ OnConnectError
  BY <1>2, <1>7 DEF OnConnect, OnDisconnect, OnConnectError
<1>8. CASE LinkUp
  BY <1>8 DEF LinkUp, Rise, ui, env
<1>9. CASE LinkLost
  BY <1>9 DEF LinkLost, Fall, ui
<1>10. CASE UNCHANGED vars
  BY <1>3, <1>10 DEF vars, ui, env
<1> QED
  BY <1>4, <1>5, <1>6, <1>7, <1>8, <1>9, <1>10 DEF Next, MainStep, NetStep

(* Whatever the order in which events, broken connections and system       *)
(* messages meet, no hint outlives the last event that was posted          *)
(* (ChatActivity.socketError, mConnectListener, mDisConnectListener).      *)
THEOREM HintTellsTruth == Spec => []HintHonest
<1>1. Init => HintInv
  BY DEF Init, LinkInit, HintInv
<1>2. TypeOK /\ HintInv => HintHonest
  <2> SUFFICES ASSUME TypeOK, HintInv, bus = 0, isConnect \/ falls + errors > 0
               PROVE  hint <=> ~isConnect
    BY DEF HintHonest
  <2>1. isConnect \/ falls + errors # 0
    BY BudgetAssumption DEF TypeOK
  <2> QED
    BY <2>1 DEF HintInv
<1> QED
  BY <1>1, <1>2, NextHint, TypeCorrect, PTL DEF Spec

-----------------------------------------------------------------------------
(* What is not sent again.                                                 *)

LEMMA Mails ==
  /\ \A p, q : Mail("send", p) = Mail("send", q) => p = q
  /\ \A p, q : Mail("send", p) # Mail("ack", q) /\ Mail("send", p) # Mail("sys", q)
  /\ \A n : n.kind # "send" => \A p : n # Mail("send", p)
  BY DEF Mail

(* The wire and the intents may lose, but nothing is added for p.          *)
LEMMA OnceKept ==
  ASSUME NEW p, SentOnce(p), p \in Range(mList)' => p \in Range(mList),
         Without(svc, Mail("send", p)) => Without(svc, Mail("send", p))',
         AtMostOne(svc, Mail("send", p)) => AtMostOne(svc, Mail("send", p))',
         Without(out, p) => Without(out, p)', AtMostOne(out, p) => AtMostOne(out, p)',
         stored'[p] = stored[p], Range(mList) = Range(mList)'
  PROVE  SentOnce(p)'
  BY DEF SentOnce

LEMMA NextWire == ASSUME TypeOK, WireAnswers, [Next]_vars PROVE WireAnswers'
<1>1. CASE in' = in
  BY <1>1 DEF WireAnswers
<1>2. CASE WireReceived
  <2>1. in # <<>> /\ in' = Tail(in)
    BY <1>2 DEF WireReceived
  <2> QED
    BY <2>1, TailHas DEF TypeOK, WireAnswers
<1>3. ASSUME NEW e \in Note, e.kind # "send", in' = Append(in, e) PROVE WireAnswers'
  <2>1. in \in Seq(Note)
    BY DEF TypeOK
  <2>2. /\ Len(in) \in Nat /\ DOMAIN in = 1 .. Len(in) /\ DOMAIN in' = 1 .. Len(in) + 1
        /\ in'[Len(in) + 1] = e /\ \A i \in 1 .. Len(in) : in'[i] = in[i]
    BY <1>3, <2>1, AppendIs
  <2>3. \A i \in 1 .. Len(in) + 1 : i = Len(in) + 1 \/ i \in 1 .. Len(in)
    BY <2>2
  <2> QED
    BY <1>3, <2>2, <2>3 DEF WireAnswers
<1>4. CASE ServerTake
  <2>1. Head(out) \in Pid /\ in' = Append(in, Mail("ack", Head(out)))
    BY <1>4, TailHas DEF ServerTake, TypeOK
  <2>2. Mail("ack", Head(out)) \in Note /\ Mail("ack", Head(out)).kind # "send"
    BY <2>1 DEF Mail, Note
  <2> QED
    BY <1>3, <2>1, <2>2
<1>5. CASE ServerPush
  <2>1. in' = Append(in, Mail("sys", None))
    BY <1>5 DEF ServerPush
  <2>2. Mail("sys", None) \in Note /\ Mail("sys", None).kind # "send"
    BY DEF Mail, Note
  <2> QED
    BY <1>3, <2>1, <2>2
<1>6. CASE LinkLost
  BY <1>6 DEF LinkLost, WireAnswers
<1> QED
  BY <1>1, <1>2, <1>4, <1>5, <1>6 DEF Next, Send, MainStep, EmitMsg, callMsg2UI, AckReceived, SysReceived,
     ConnectEvent, NetStep, OnConnect, OnDisconnect, LinkUp, OnConnectError, vars, wire

LEMMA NextOnce == ASSUME TypeOK, OnceInv, [Next]_vars PROVE OnceInv'
<1> SUFFICES ASSUME NEW p \in Other PROVE SentOnce(p)'
  BY NextWire DEF OnceInv
<1> DEFINE m == Mail("send", p)
<1>1. SentOnce(p) /\ p \in Pid /\ p \notin Text
  BY KindsAssumption DEF OnceInv, Pid
<1>2. ASSUME NEW r \in Pid, Send(r) PROVE SentOnce(p)'
  <2>1. r \notin Range(mList) /\ mList' = Append(mList, r) /\ UNCHANGED <<out, stored>>
        /\ sendMsgSocket(<<r>>)
    BY <1>2 DEF Send, wire
  <2>2. svc' = Append(svc, Mail("send", r))
    <3>1. <<r>> \in [1 .. 1 -> Pid]
      OBVIOUS
    <3>2. PICK x \in Seq(Note) : svc' = svc \o x /\ DOMAIN x = 1 .. 1
                                 /\ \A j \in 1 .. 1 : x[j] = Mail("send", <<r>>[j])
      BY <2>1, <3>1, SendsAre
    <3>3. x = <<Mail("send", r)>>
      <4>1. Len(x) = 1 /\ x[1] = Mail("send", r)
        BY <3>2
      <4> QED
        BY <4>1
    <3> QED
      BY <3>2, <3>3 DEF TypeOK
  <2>3. Range(mList)' = Range(mList) \cup {r}
    BY <2>1, AppendHas DEF TypeOK
  <2>4. Mail("send", r) \in Note
    BY DEF Mail, Note
  <2>5. CASE r = p
    <3>1. Without(svc, m) /\ Without(out, p) /\ stored[p] = 0
      BY <1>1, <2>1, <2>5 DEF SentOnce
    <3>2. AtMostOne(svc, m)'
      BY <2>2, <2>4, <2>5, <3>1, AppendHas DEF TypeOK
    <3> QED
      BY <1>1, <2>1, <2>3, <2>5, <3>1, <3>2 DEF SentOnce
  <2>6. CASE r # p
    <3>1. Mail("send", r) # m
      BY <2>6, Mails
    <3>2. (Without(svc, m) => Without(svc, m)') /\ (AtMostOne(svc, m) => AtMostOne(svc, m)')
      BY <2>2, <2>4, <3>1, AppendHas DEF TypeOK
    <3> QED
      BY <1>1, <2>1, <2>3, <2>6, <3>2 DEF SentOnce
  <2> QED
    BY <2>5, <2>6
<1>3. CASE EmitMsg
  <2>1. /\ svc # <<>> /\ Head(svc).kind = "send" /\ svc' = Tail(svc)
        /\ out' = Append(out, Head(svc).pid) \/ out' = out
        /\ UNCHANGED <<mList, stored>>
    BY <1>3 DEF EmitMsg, TakeSvc, ui
  <2>2. /\ Head(svc) \in Note /\ 1 \in DOMAIN svc /\ Head(svc) = svc[1]
        /\ Without(svc, m) => Without(svc', m)
        /\ AtMostOne(svc, m) => AtMostOne(svc', m)
        /\ AtMostOne(svc, Head(svc)) => Without(svc', Head(svc))
    BY <2>1, TailHas DEF TypeOK
  <2>3. Head(svc) = Mail("send", Head(svc).pid) /\ Head(svc).pid \in Pid
    BY <2>1, <2>2 DEF Mail, Note
  <2>4. CASE Head(svc).pid = p
    <3>1. Head(svc) = m /\ ~Without(svc, m)
      BY <2>2, <2>3, <2>4 DEF Without
    <3>2. Without(out, p) /\ stored[p] = 0 /\ p \in Range(mList)
      BY <1>1, <3>1 DEF SentOnce
    <3>3. Without(svc', m) /\ AtMostOne(svc', m)
      BY <1>1, <2>2, <3>1 DEF SentOnce
    <3>4. AtMostOne(out', p)
      <4>1. CASE out' = Append(out, p)
        BY <2>3, <2>4, <3>2, <4>1, AppendHas DEF TypeOK
      <4>2. CASE out' = out
        BY <1>1, <4>2 DEF SentOnce
      <4> QED
        BY <2>1, <2>4, <4>1, <4>2
    <3> QED
      BY <2>1, <3>2, <3>3, <3>4 DEF SentOnce
  <2>5. CASE Head(svc).pid # p
    <3>1. (Without(out, p) => Without(out', p)) /\ (AtMostOne(out, p) => AtMostOne(out', p))
      <4>1. CASE out' = Append(out, Head(svc).pid)
        BY <2>3, <2>5, <4>1, AppendHas DEF TypeOK
      <4>2. CASE out' = out
        BY <4>2
      <4> QED
        BY <2>1, <4>1, <4>2
    <3> QED
      BY <1>1, <2>1, <2>2, <3>1, OnceKept
  <2> QED
    BY <2>4, <2>5
<1>4. CASE callMsg2UI
  <2>1. svc # <<>> /\ svc' = Tail(svc) /\ UNCHANGED <<mList, out, stored>>
    BY <1>4 DEF callMsg2UI, TakeSvc, ui, wire
  <2>2. (Without(svc, m) => Without(svc', m)) /\ (AtMostOne(svc, m) => AtMostOne(svc', m))
    BY <2>1, TailHas DEF TypeOK
  <2> QED
    BY <1>1, <2>1, <2>2, OnceKept
<1>5. CASE SysReceived \/ ConnectEvent
  <2>1. socketError /\ UNCHANGED <<mList, out, stored>>
    BY <1>5 DEF SysReceived, ConnectEvent, socketError, wire
  <2>2. PICK r \in Seq(Note) :
          /\ svc' = svc \o r
          /\ \A j \in DOMAIN r : \E x \in Range(mList) \cap Text : r[j] = Mail("send", x)
    BY <2>1, ResendIs
  <2>3. Without(r, m)
    BY <1>1, <2>2, Mails DEF Without
  <2>4. (Without(svc, m) => Without(svc', m)) /\ (AtMostOne(svc, m) => AtMostOne(svc', m))
    BY <2>2, <2>3, ConcatHas DEF TypeOK
  <2> QED
    BY <1>1, <2>1, <2>4, OnceKept
<1>6. CASE WireReceived
  <2>1. in # <<>> /\ svc' = Append(svc, Head(in)) /\ UNCHANGED <<mList, out, stored>>
    BY <1>6 DEF WireReceived, ui
  <2>2. Head(in) \in Note /\ Head(in) # m
    <3>1. Head(in) \in Note /\ 1 \in DOMAIN in /\ Head(in) = in[1]
      BY <2>1, TailHas DEF TypeOK
    <3> QED
      BY <3>1, Mails DEF OnceInv, WireAnswers
  <2>3. (Without(svc, m) => Without(svc', m)) /\ (AtMostOne(svc, m) => AtMostOne(svc', m))
    BY <2>1, <2>2, AppendHas DEF TypeOK
  <2> QED
    BY <1>1, <2>1, <2>3, OnceKept
<1>7. CASE ServerTake
  <2>1. /\ out # <<>> /\ out' = Tail(out) /\ stored' = [stored EXCEPT ![Head(out)] = @ + 1]
        /\ UNCHANGED <<mList, svc>>
    BY <1>7 DEF ServerTake, ui
  <2>2. /\ Head(out) \in Pid /\ 1 \in DOMAIN out /\ Head(out) = out[1]
        /\ Without(out, p) => Without(out', p)
        /\ AtMostOne(out, p) => AtMostOne(out', p)
        /\ AtMostOne(out, Head(out)) => Without(out', Head(out))
    BY <2>1, TailHas DEF TypeOK
  <2>3. CASE Head(out) = p
    <3>1. ~Without(out, p)
      BY <2>2, <2>3 DEF Without
    <3>2. stored[p] = 0 /\ p \in Range(mList) /\ Without(svc, m)
      BY <1>1, <3>1 DEF SentOnce
    <3>3. Without(out', p) /\ AtMostOne(out', p) /\ stored'[p] = 1
      BY <1>1, <2>1, <2>2, <2>3, <3>2 DEF SentOnce, TypeOK
    <3> QED
      BY <1>1, <2>1, <3>2, <3>3 DEF SentOnce
  <2>4. CASE Head(out) # p
    BY <1>1, <2>1, <2>2, <2>4, OnceKept DEF TypeOK
  <2> QED
    BY <2>3, <2>4
<1>8. CASE LinkLost
  <2>1. out' = <<>> /\ UNCHANGED <<mList, svc, stored>>
    BY <1>8 DEF LinkLost, ui
  <2>2. Without(out', p) /\ AtMostOne(out', p)
    BY <2>1 DEF Without, AtMostOne
  <2> QED
    BY <1>1, <2>1, <2>2, OnceKept
<1>9. CASE AckReceived \/ LinkUp \/ OnConnect \/ OnDisconnect \/ OnConnectError \/ ServerPush \/ UNCHANGED vars
  <2>1. UNCHANGED <<mList, svc, out, stored>>
    BY <1>9 DEF AckReceived, LinkUp, OnConnect, OnDisconnect, OnConnectError, ServerPush, vars, ui, wire
  <2> QED
    BY <1>1, <2>1, OnceKept
<1> QED
  BY <1>2, <1>3, <1>4, <1>5, <1>6, <1>7, <1>8, <1>9 DEF Next, MainStep, NetStep

(* Where a message is at most once it is counted at most once.             *)
LEMMA AtMostOneCounts ==
  ASSUME NEW q, NEW e, AtMostOne(q, e)
  PROVE  /\ Cardinality({i \in DOMAIN q : q[i] = e}) \in {0, 1}
         /\ Without(q, e) => Cardinality({i \in DOMAIN q : q[i] = e}) = 0
<1> DEFINE P == {i \in DOMAIN q : q[i] = e}
<1>1. CASE P = {}
  BY <1>1, FS_EmptySet
<1>2. CASE P # {}
  <2>1. PICK i : i \in P
    BY <1>2
  <2>2. P = {i}
    BY <2>1 DEF AtMostOne
  <2>3. Cardinality(P) = 1
    BY <2>2, FS_Singleton
  <2>4. ~Without(q, e)
    BY <2>1 DEF Without
  <2> QED
    BY <2>3, <2>4
<1> QED
  BY <1>1, <1>2

(* A gift or an emoji is never doubled, however often the connection       *)
(* breaks and texts are sent again (ChatActivity.socketError).             *)
THEOREM NotSentTwice == Spec => []OthersAtMostOnce
<1>1. Init => OnceInv
  <2> SUFFICES ASSUME Init PROVE OnceInv
    OBVIOUS
  <2>1. WireAnswers
    BY DEF Init, WireAnswers
  <2>2. ASSUME NEW p \in Other PROVE SentOnce(p)
    <3>1. stored[p] = 0
      BY DEF Init, Pid
    <3> QED
      BY <3>1 DEF Init, SentOnce, Without, AtMostOne
  <2> QED
    BY <2>1, <2>2 DEF OnceInv
<1>2. TypeOK /\ OnceInv => OthersAtMostOnce
  <2> SUFFICES ASSUME TypeOK, OnceInv, NEW p \in Other
               PROVE  Posted(p, svc) + Cardinality({i \in DOMAIN out : out[i] = p}) + stored[p] <= 1
    BY DEF OthersAtMostOnce
  <2> DEFINE a == Posted(p, svc)
             b == Cardinality({i \in DOMAIN out : out[i] = p})
  <2>1. SentOnce(p)
    BY DEF OnceInv
  <2>2. a \in {0, 1} /\ (Without(svc, Mail("send", p)) => a = 0)
    BY <2>1, AtMostOneCounts DEF SentOnce, Posted
  <2>3. b \in {0, 1} /\ (Without(out, p) => b = 0)
    BY <2>1, AtMostOneCounts DEF SentOnce
  <2> HIDE DEF a, b
  <2>4. stored[p] \in Nat
    BY DEF TypeOK, Pid
  <2>5. a + b + stored[p] <= 1
    BY <2>1, <2>2, <2>3, <2>4 DEF SentOnce
  <2> QED
    BY <2>5 DEF a, b
<1> QED
  BY <1>1, <1>2, NextOnce, TypeCorrect, PTL DEF Spec

-----------------------------------------------------------------------------
(* What the user is promised.                                              *)

(* Nothing that was stored is lost, and the list only grows.               *)
Grows == Range(mList) \subseteq Range(mList)' /\ \A p \in Pid : stored[p] <= stored'[p]

LEMMA NextGrows == ASSUME TypeOK, [Next]_vars PROVE Grows
<1>1. ASSUME UNCHANGED <<mList, stored>> PROVE Grows
  BY <1>1 DEF Grows, TypeOK
<1>2. ASSUME NEW p \in Pid, Send(p) PROVE Grows
  <2>1. Range(mList)' = Range(mList) \cup {p} /\ stored' = stored
    BY <1>2, AppendHas DEF Send, wire, TypeOK
  <2> QED
    BY <2>1 DEF Grows, TypeOK
<1>3. CASE ServerTake
  <2>1. Head(out) \in Pid
    BY <1>3, TailHas DEF ServerTake, TypeOK
  <2> QED
    BY <1>3, <2>1 DEF ServerTake, Grows, TypeOK, ui
<1> QED
  BY <1>1, <1>2, <1>3 DEF Next, MainStep, EmitMsg, callMsg2UI, AckReceived, SysReceived, ConnectEvent,
     socketError, NetStep, OnConnect, OnDisconnect, LinkUp, LinkLost, OnConnectError, WireReceived,
     ServerPush, vars, ui, wire


(* What becomes of the notes: an old one, a send of what is in the list, an *)
(* acknowledgement of what was stored.                                     *)
LEMMA NextNotes ==
  ASSUME TypeOK, DeliveryInv, [Next]_vars, NEW n \in Notes'
  PROVE  \/ n \in Notes
         \/ \E p \in Range(mList)' : n = Mail("send", p)
         \/ \E p \in Pid : n = Mail("ack", p) /\ stored'[p] > 0
         \/ n = Mail("sys", None)
<1>1. svc \in Seq(Note) /\ bc \in Seq(Note) /\ in \in Seq(Note) /\ out \in Seq(Pid)
  BY DEF TypeOK
<1>2. ASSUME NEW p \in Pid, Send(p)
      PROVE  n \in Notes \/ \E r \in Range(mList)' : n = Mail("send", r)
  <2>1. UNCHANGED <<bc, in>> /\ sendMsgSocket(<<p>>) /\ mList' = Append(mList, p)
    BY <1>2 DEF Send, wire
  <2>2. <<p>> \in [1 .. 1 -> Pid]
    OBVIOUS
  <2>3. PICK x \in Seq(Note) : svc' = svc \o x /\ DOMAIN x = 1 .. 1
                               /\ \A j \in 1 .. 1 : x[j] = Mail("send", <<p>>[j])
    BY <2>1, <2>2, SendsAre
  <2>4. Range(x) = {Mail("send", p)}
    BY <2>3 DEF Range
  <2>5. p \in Range(mList)'
    BY <2>1, AppendHas DEF TypeOK
  <2>6. Range(svc') \subseteq Range(svc) \cup Range(x)
    BY <1>1, <2>3, ConcatHas
  <2> QED
    BY <2>1, <2>4, <2>5, <2>6 DEF Notes
<1>3. CASE EmitMsg
  BY <1>1, <1>3, TailHas DEF EmitMsg, TakeSvc, Notes
<1>4. CASE callMsg2UI
  <2>1. svc # <<>> /\ svc' = Tail(svc) /\ bc' = Append(bc, Head(svc)) /\ in' = in
    BY <1>4 DEF callMsg2UI, TakeSvc, wire
  <2>2. Range(svc') \subseteq Range(svc) /\ Head(svc) \in Range(svc) /\ Head(svc) \in Note
    BY <1>1, <2>1, TailHas
  <2>3. Range(bc') = Range(bc) \cup {Head(svc)}
    BY <1>1, <2>1, <2>2, AppendHas
  <2> QED
    BY <2>1, <2>2, <2>3 DEF Notes
<1>5. CASE AckReceived
  BY <1>1, <1>5, TailHas DEF AckReceived, wire, Notes
<1>6. CASE SysReceived \/ ConnectEvent
  <2>1. socketError /\ in' = in /\ mList' = mList /\ (bc' = bc \/ (bc # <<>> /\ bc' = Tail(bc)))
    BY <1>6 DEF SysReceived, ConnectEvent, socketError, wire
  <2>2. PICK r \in Seq(Note) :
          /\ svc' = svc \o r
          /\ \A j \in DOMAIN r : \E x \in Range(mList) \cap Text : r[j] = Mail("send", x)
    BY <2>1, ResendIs
  <2>3. \A x \in Range(r) : \E p \in Range(mList)' : x = Mail("send", p)
    BY <2>1, <2>2 DEF Range
  <2>4. Range(svc') \subseteq Range(svc) \cup Range(r)
    BY <1>1, <2>2, ConcatHas
  <2>5. Range(bc') \subseteq Range(bc)
    BY <1>1, <2>1, TailHas
  <2> QED
    BY <2>1, <2>3, <2>4, <2>5 DEF Notes
<1>7. CASE WireReceived
  <2>1. in # <<>> /\ in' = Tail(in) /\ svc' = Append(svc, Head(in)) /\ bc' = bc
    BY <1>7 DEF WireReceived
  <2>2. Range(in') \subseteq Range(in) /\ Head(in) \in Range(in) /\ Head(in) \in Note
    BY <1>1, <2>1, TailHas
  <2>3. Range(svc') = Range(svc) \cup {Head(in)}
    BY <1>1, <2>1, <2>2, AppendHas
  <2> QED
    BY <2>1, <2>2, <2>3 DEF Notes
<1>8. CASE ServerTake
  <2>1. /\ out # <<>> /\ in' = Append(in, Mail("ack", Head(out))) /\ UNCHANGED <<svc, bc>>
        /\ stored' = [stored EXCEPT ![Head(out)] = @ + 1]
    BY <1>8 DEF ServerTake
  <2>2. Head(out) \in Pid /\ Mail("ack", Head(out)) \in Note
    BY <1>1, <2>1, TailHas DEF Mail, Note
  <2>3. stored'[Head(out)] > 0
    BY <2>1, <2>2 DEF TypeOK
  <2>4. Range(in') = Range(in) \cup {Mail("ack", Head(out))}
    BY <1>1, <2>1, <2>2, AppendHas
  <2> QED
    BY <2>1, <2>2, <2>3, <2>4 DEF Notes
<1>9. CASE ServerPush
  <2>1. in' = Append(in, Mail("sys", None)) /\ UNCHANGED <<svc, bc>>
    BY <1>9 DEF ServerPush
  <2>2. Mail("sys", None) \in Note
    BY DEF Mail, Note
  <2>3. Range(in') = Range(in) \cup {Mail("sys", None)}
    BY <1>1, <2>1, <2>2, AppendHas
  <2> QED
    BY <2>1, <2>3 DEF Notes
<1>10. CASE LinkLost
  <2>1. in' = <<>> /\ UNCHANGED <<svc, bc>>
    BY <1>10 DEF LinkLost, ui
  <2> QED
    BY <2>1 DEF Notes, Range
<1>11. CASE LinkUp \/ OnConnect \/ OnDisconnect \/ OnConnectError \/ UNCHANGED vars
  <2>1. UNCHANGED <<svc, bc, in>>
    BY <1>11 DEF LinkUp, OnConnect, OnDisconnect, OnConnectError, vars, wire
  <2> QED
    BY <2>1 DEF Notes
<1> QED
  BY <1>2, <1>3, <1>4, <1>5, <1>6, <1>7, <1>8, <1>9, <1>10, <1>11 DEF Next, MainStep, NetStep

LEMMA NextDelivery == ASSUME TypeOK, TypeOK', DeliveryInv, [Next]_vars PROVE DeliveryInv'
<1>1. Grows
  BY NextGrows
<1>2. Notes \subseteq Note
  BY SMTT(20) DEF Notes, Range, TypeOK
<1>3. ASSUME NEW n \in Notes' PROVE Honest(n)'
  <2>1. CASE n \in Notes
    <3>1. n \in Note /\ Honest(n)
      BY <1>2, <2>1 DEF DeliveryInv
    <3>2. n.kind = "ack" => stored'[n.pid] > 0
      <4> SUFFICES ASSUME n.kind = "ack" PROVE stored'[n.pid] > 0
        OBVIOUS
      <4>1. n.pid \in Pid /\ stored[n.pid] > 0
        BY <3>1 DEF Note, Honest
      <4>2. stored[n.pid] \in Nat /\ stored'[n.pid] \in Nat
        BY <4>1 DEF TypeOK
      <4>3. stored[n.pid] <= stored'[n.pid]
        BY <1>1, <4>1 DEF Grows
      <4> QED
        BY <4>1, <4>2, <4>3
    <3> QED
      BY <1>1, <3>1, <3>2 DEF Grows, Honest
  <2>2. CASE \E p \in Range(mList)' : n = Mail("send", p)
    BY <2>2 DEF Honest, Mail
  <2>3. CASE \E p \in Pid : n = Mail("ack", p) /\ stored'[p] > 0
    BY <2>3 DEF Honest, Mail
  <2>4. CASE n = Mail("sys", None)
    BY <2>4 DEF Honest, Mail
  <2> QED
    BY <2>1, <2>2, <2>3, <2>4, NextNotes
<1>4. Range(out)' \subseteq Range(mList)'
  <2>1. CASE EmitMsg
    <3>1. svc # <<>> /\ Head(svc).kind = "send" /\ mList' = mList
          /\ (out' = out \/ out' = Append(out, Head(svc).pid))
      BY <2>1 DEF EmitMsg, TakeSvc, ui
    <3>2. Head(svc) \in Range(svc) /\ Head(svc) \in Note
      BY <3>1, TailHas DEF TypeOK
    <3>3. Head(svc).pid \in Range(mList) /\ Head(svc).pid \in Pid
      BY <3>1, <3>2 DEF DeliveryInv, Honest, Notes, Note
    <3>5. out \in Seq(Pid)
      BY DEF TypeOK
    <3>4. Range(Append(out, Head(svc).pid)) = Range(out) \cup {Head(svc).pid}
      BY <3>3, <3>5, AppendHas
    <3> QED
      BY <3>1, <3>3, <3>4 DEF DeliveryInv
  <2>2. CASE ServerTake
    <3>1. out # <<>> /\ out' = Tail(out)
      BY <2>2 DEF ServerTake
    <3>2. Range(out') \subseteq Range(out)
      BY <3>1, TailHas DEF TypeOK
    <3> QED
      BY <1>1, <3>2 DEF DeliveryInv, Grows
  <2>3. CASE LinkLost
    BY <2>3 DEF LinkLost, Range
  <2>4. CASE out' = out
    BY <1>1, <2>4 DEF DeliveryInv, Grows
  <2> QED
    BY <2>1, <2>2, <2>3, <2>4 DEF Next, Send, MainStep, callMsg2UI, AckReceived, SysReceived, ConnectEvent,
       NetStep, OnConnect, OnDisconnect, LinkUp, OnConnectError, WireReceived, ServerPush, vars, wire
<1>5. ASSUME NEW p \in Pid, status'[p] = "success" PROVE stored'[p] > 0
  <2>1. CASE status[p] = "success"
    <3>1. stored[p] \in Nat /\ stored'[p] \in Nat
      BY <1>5 DEF TypeOK
    <3>2. stored[p] > 0
      BY <1>5, <2>1 DEF DeliveryInv
    <3>3. stored[p] <= stored'[p]
      BY <1>1, <1>5 DEF Grows
    <3> QED
      BY <3>1, <3>2, <3>3
  <2>2. CASE AckReceived
    <3>1. bc # <<>> /\ Head(bc).kind = "ack" /\ stored' = stored
          /\ (status' = status \/ status' = [status EXCEPT ![Head(bc).pid] = "success"])
      BY <2>2 DEF AckReceived, wire
    <3>2. Head(bc) \in Range(bc)
      BY <3>1, TailHas DEF TypeOK
    <3>3. stored[Head(bc).pid] > 0
      BY <3>1, <3>2 DEF DeliveryInv, Honest, Notes
    <3>4. status[p] = "success" \/ p = Head(bc).pid
      BY <1>5, <3>1 DEF TypeOK
    <3> QED
      BY <2>1, <3>1, <3>3, <3>4
  <2>3. CASE status' = status
    BY <1>5, <2>1, <2>3
  <2> QED
    BY <2>2, <2>3 DEF Next, Send, MainStep, EmitMsg, callMsg2UI, SysReceived, ConnectEvent, socketError,
       NetStep, OnConnect, OnDisconnect, LinkUp, LinkLost, OnConnectError, WireReceived, ServerTake,
       ServerPush, vars, ui, wire
<1> QED
  BY <1>3, <1>4, <1>5 DEF DeliveryInv

-----------------------------------------------------------------------------
(* The refinement, step by step.                                           *)

Sent == Range(mList)
Taken == {p \in Pid : stored[p] > 0}
Confirmed == {p \in Pid : status[p] = "success"}

LEMMA StepsAre ==
  ASSUME TypeOK, DeliveryInv, [Next]_vars
  PROVE  \/ Sent' = Sent /\ Taken' = Taken /\ Confirmed' = Confirmed
         \/ \E p \in Pid : /\ p \notin Sent /\ Sent' = Sent \cup {p}
                           /\ Taken' = Taken /\ Confirmed' = Confirmed
         \/ \E p \in Pid : /\ p \in Sent \ Taken /\ Taken' = Taken \cup {p}
                           /\ Sent' = Sent /\ Confirmed' = Confirmed
         \/ \E p \in Pid : /\ p \in Taken \ Confirmed /\ Confirmed' = Confirmed \cup {p}
                           /\ Sent' = Sent /\ Taken' = Taken
<1> USE DEF Sent, Taken, Confirmed
<1>1. CASE UNCHANGED <<mList, stored, status>>
  BY <1>1
<1>2. ASSUME NEW p \in Pid, Send(p)
      PROVE  p \notin Sent /\ Sent' = Sent \cup {p} /\ Taken' = Taken /\ Confirmed' = Confirmed
  <2>1. p \notin Range(mList) /\ mList' = Append(mList, p) /\ UNCHANGED <<stored, status>>
    BY <1>2 DEF Send, wire
  <2>2. Range(mList') = Range(mList) \cup {p}
    BY <2>1, AppendHas DEF TypeOK
  <2> QED
    BY <2>1, <2>2
<1>3. CASE ServerTake
  <2> DEFINE p == Head(out)
  <2>1. out # <<>> /\ stored' = [stored EXCEPT ![p] = @ + 1] /\ UNCHANGED <<mList, status>>
    BY <1>3 DEF ServerTake, ui
  <2>2. p \in Pid /\ p \in Range(mList)
    BY <2>1, TailHas DEF TypeOK, DeliveryInv
  <2> HIDE DEF p
  <2>3. \A r \in Pid : stored'[r] > 0 <=> stored[r] > 0 \/ r = p
    BY <2>1, <2>2 DEF TypeOK
  <2>4. Taken' = Taken \cup {p}
    BY <2>2, <2>3
  <2>5. CASE p \in Taken
    BY <2>1, <2>4, <2>5
  <2>6. CASE p \notin Taken
    BY <2>1, <2>2, <2>4, <2>6
  <2> QED
    BY <2>5, <2>6
<1>4. CASE AckReceived
  <2> DEFINE p == Head(bc).pid
  <2>1. bc # <<>> /\ Head(bc).kind = "ack" /\ UNCHANGED <<mList, stored>>
        /\ (status' = status \/ status' = [status EXCEPT ![p] = "success"])
    BY <1>4 DEF AckReceived, wire
  <2>2. Head(bc) \in Range(bc) /\ Head(bc) \in Note
    BY <2>1, TailHas DEF TypeOK
  <2>3. p \in Pid /\ stored[p] > 0
    BY <2>1, <2>2 DEF Note, DeliveryInv, Honest, Notes
  <2> HIDE DEF p
  <2>4. CASE status' = [status EXCEPT ![p] = "success"]
    <3>1. \A r \in Pid : status'[r] = "success" <=> status[r] = "success" \/ r = p
      BY <2>3, <2>4 DEF TypeOK
    <3>2. Confirmed' = Confirmed \cup {p}
      BY <2>3, <3>1
    <3>3. CASE p \in Confirmed
      BY <2>1, <3>2, <3>3
    <3>4. CASE p \notin Confirmed
      BY <2>1, <2>3, <3>2, <3>4
    <3> QED
      BY <3>3, <3>4
  <2> QED
    BY <2>1, <2>4
<1> QED
  BY <1>1, <1>2, <1>3, <1>4 DEF Next, MainStep, EmitMsg, callMsg2UI, SysReceived, ConnectEvent,
     socketError, NetStep, OnConnect, OnDisconnect, LinkUp, LinkLost, OnConnectError, WireReceived,
     ServerPush, vars, ui, wire

(* What the chat shows as delivered the server has, and it never takes     *)
(* anything back: the safety half of ImplementsDelivery, for any number of *)
(* messages (sendMsgBRCallReceiver, SocketSendMsgCallBackAck).             *)
THEOREM DeliversAsPromised ==
  Spec => AbstractDelivery!Init /\ [][AbstractDelivery!Next]_(AbstractDelivery!vars)
<1>1. Init => DeliveryInv /\ AbstractDelivery!Init
  <2> SUFFICES ASSUME Init PROVE DeliveryInv /\ AbstractDelivery!Init
    OBVIOUS
  <2>1. Range(<<>>) = {}
    BY DEF Range
  <2>2. \A p \in Pid : stored[p] = 0 /\ status[p] = "loading"
    BY DEF Init
  <2> QED
    BY <2>1, <2>2 DEF Init, DeliveryInv, Notes, AbstractDelivery!Init
<1>2. TypeOK /\ DeliveryInv /\ [Next]_vars => [AbstractDelivery!Next]_(AbstractDelivery!vars)
  BY StepsAre DEF AbstractDelivery!Next, AbstractDelivery!Send, AbstractDelivery!Take,
     AbstractDelivery!Confirm, AbstractDelivery!vars, Sent, Taken, Confirmed
<1>3. TypeOK /\ TypeOK' /\ DeliveryInv /\ [Next]_vars => DeliveryInv'
  BY NextDelivery
<1> QED
  BY <1>1, <1>2, <1>3, TypeCorrect, PTL DEF Spec

-----------------------------------------------------------------------------
(* Wallet.                                                                 *)

Requests == Request({"debit"}, Amount) \cup Request({"edit"}, SUBSET Field)
              \cup Request({"credit", "mark"}, Envelope)

-----------------------------------------------------------------------------
(* Types.                                                                  *)

\* What the type of the requests says of one of them.
LEMMA RequestFields ==
  ASSUME NEW r \in Requests
  PROVE  /\ r.kind \in {"debit", "edit", "credit", "mark"}
         /\ r.money \in Nat /\ r.bean \in Bean /\ r.phase \in Phase /\ r.awaited \in BOOLEAN
         /\ r.kind = "debit" => r.of \in Amount /\ r.of \in Nat
         /\ r.kind = "edit" => r.of \subseteq Field
         /\ r.kind \in {"credit", "mark"} => r.of \in Envelope
  BY AmountAssumption DEF Requests, Request

\* The phase changes and the client gives up: a request remains.
LEMMA RequestChanges ==
  ASSUME NEW r \in Requests, NEW p \in Phase
  PROVE  /\ [r EXCEPT !.phase = p] \in Requests
         /\ [r EXCEPT !.awaited = FALSE] \in Requests
  BY DEF Requests, Request

LEMMA RequestAsked ==
  ASSUME NEW m \in Nat, NEW b \in Bean
  PROVE  /\ \A a \in Amount : Ask("debit", a, m, b) \in Requests
         /\ \A fs \in SUBSET Field : Ask("edit", fs, m, b) \in Requests
         /\ \A e \in Envelope : Ask("credit", e, m, b) \in Requests
         /\ \A e \in Envelope : Ask("mark", e, m, b) \in Requests
  BY DEF Requests, Request, Ask, Phase

LEMMA InitTypes == ASSUME WalletInit PROVE WalletTypeOK
<1>1. cache \in Bean /\ userInfo \in Bean /\ server \in Bean
  BY WorthAssumption, ProfileAssumption DEF WalletInit, Bean
<1>2. screen \in Screen /\ dialogs \subseteq Screen /\ marked \subseteq Envelope
  BY DEF WalletInit, Screen
<1>3. clicks \in 0 .. MaxClicks /\ lost \in 0 .. MaxLost /\ debits \in Nat /\ gifts \in Nat
  BY ClicksAssumption DEF WalletInit
<1>4. received \in [Envelope -> BOOLEAN] /\ credited \subseteq Envelope /\ credits \in Nat
  BY DEF WalletInit
<1>5. image_url \in Value /\ unsent \subseteq Field
  BY ProfileAssumption DEF WalletInit
<1> QED
  BY <1>1, <1>2, <1>3, <1>4, <1>5 DEF WalletInit, WalletTypeOK

LEMMA GoTypes ==
  ASSUME WalletTypeOK, OpenChat \/ OpenEnvelope \/ OpenProfile \/ Back PROVE WalletTypeOK'
<1>1. screen' \in Screen /\ userInfo' \in Bean
  BY DEF WalletTypeOK, OpenChat, OpenEnvelope, OpenProfile, Back, Go, Screen, profile
<1>5. image_url' \in Value /\ unsent' \subseteq Field
  BY ProfileAssumption DEF WalletTypeOK, OpenChat, OpenEnvelope, OpenProfile, Back, Bean, profile
<1>4. received' \in [Envelope -> BOOLEAN]
  <2>1. \A e \in Envelope : (e \in marked) \in BOOLEAN
    OBVIOUS
  <2>2. received' = received \/ received' = [e \in Envelope |-> e \in marked]
    BY DEF OpenChat, OpenEnvelope, OpenProfile, Back
  <2> QED
    BY <2>1, <2>2 DEF WalletTypeOK
<1>2. hasty' \in BOOLEAN
  BY Zenon DEF OpenChat, OpenEnvelope, OpenProfile, Back, Go, MayClick
<1>3. UNCHANGED <<cache, dialogs, pending, store, gifts, budget>>
  BY DEF OpenChat, OpenEnvelope, OpenProfile, Back, Go
<1> QED
  BY <1>1, <1>2, <1>3, <1>4, <1>5 DEF WalletTypeOK, store, budget

LEMMA sendRedEnvelopeTypes ==
  ASSUME WalletTypeOK, NEW a \in Amount, sendRedEnvelope(a) PROVE WalletTypeOK'
<1> DEFINE sub == cache.money - a
           r == Ask("debit", a, sub, [cache EXCEPT !.money = sub])
<1>1. pending' \subseteq Requests
  <2>1. CASE Affordable(a)
    <3>1. sub \in Nat /\ [cache EXCEPT !.money = sub] \in Bean
      BY <2>1, AmountAssumption DEF Affordable, WalletTypeOK, Bean
    <3>2. r \in Requests
      BY <3>1, RequestAsked
    <3>3. pending' = pending \cup {r}
      BY <2>1 DEF sendRedEnvelope
    <3> QED
      BY <3>2, <3>3 DEF WalletTypeOK, Requests
  <2> QED
    BY <2>1 DEF sendRedEnvelope, WalletTypeOK, Requests
<1>2. clicks' \in 0 .. MaxClicks
  BY ClicksAssumption DEF sendRedEnvelope, WalletTypeOK
<1>3. dialogs' \subseteq Screen
  BY DEF sendRedEnvelope, WalletTypeOK, Screen
<1> QED
  BY <1>1, <1>2, <1>3 DEF sendRedEnvelope, MayClick, WalletTypeOK, Requests, store, profile

LEMMA onClickRedEnvelopeTypes ==
  ASSUME WalletTypeOK, NEW e \in Envelope, onClickRedEnvelope(e) PROVE WalletTypeOK'
<1> DEFINE b == CreditedBean(e)
<1>1. b \in Bean /\ b.money \in Nat /\ cache \in Bean
  BY WorthAssumption DEF CreditedBean, WalletTypeOK, Bean
<1>2. pending' = pending \cup {Ask("mark", e, 0, cache), Ask("credit", e, b.money, b)}
  BY DEF onClickRedEnvelope
<1>3. pending' \subseteq Requests
  <2> HIDE DEF b
  <2>1. Ask("mark", e, 0, cache) \in Requests /\ Ask("credit", e, b.money, b) \in Requests
    BY <1>1, RequestAsked
  <2> QED
    BY <1>2, <2>1 DEF WalletTypeOK, Requests
<1>4. clicks' \in 0 .. MaxClicks /\ dialogs' \subseteq Screen
  BY ClicksAssumption DEF onClickRedEnvelope, WalletTypeOK, Screen
<1>5. received' \in [Envelope -> BOOLEAN]
  BY DEF onClickRedEnvelope, WalletTypeOK
<1> QED
  BY <1>3, <1>4, <1>5 DEF onClickRedEnvelope, MayClick, WalletTypeOK, Requests, store, profile

LEMMA PictureUploadedTypes ==
  ASSUME WalletTypeOK, NEW url \in Value, PictureUploaded(url) PROVE WalletTypeOK'
<1>1. cache' \in Bean
  BY DEF PictureUploaded, WalletTypeOK, Bean
<1>2. unsent' \subseteq Field /\ clicks' \in 0 .. MaxClicks
  BY ClicksAssumption, ProfileAssumption DEF PictureUploaded, WalletTypeOK
<1> QED
  BY <1>1, <1>2 DEF PictureUploaded, MayClick, WalletTypeOK, store

LEMMA changeUserInfoTypes ==
  ASSUME WalletTypeOK, NEW shown \in [Field -> Value], changeUserInfo(shown) PROVE WalletTypeOK'
<1> DEFINE changed == {f \in Field : shown[f] # userInfo.profile[f]}
<1>1. userInfo' \in Bean
  BY DEF changeUserInfo, WalletTypeOK, Bean
<1>2. Ask("edit", changed, 0, userInfo') \in Requests
  BY <1>1, RequestAsked
<1>3. pending' \subseteq Requests
  BY <1>2 DEF changeUserInfo, WalletTypeOK, Requests
<1>4. clicks' \in 0 .. MaxClicks /\ dialogs' \subseteq Screen
  BY ClicksAssumption DEF changeUserInfo, WalletTypeOK, Screen
<1> QED
  BY <1>1, <1>3, <1>4 DEF changeUserInfo, MayClick, WalletTypeOK, Requests, store

LEMMA AnswerTypes ==
  ASSUME WalletTypeOK, NEW r \in pending, NEW p \in Phase, Answer(r, p)
  PROVE  pending' \subseteq Requests
<1>1. r \in Requests /\ pending \subseteq Requests
  BY DEF WalletTypeOK, Requests
<1>2. [r EXCEPT !.phase = p] \in Requests
  BY <1>1, RequestChanges
<1> QED
  BY <1>1, <1>2 DEF Answer

LEMMA ServeTypes == ASSUME WalletTypeOK, NEW r \in pending, Serve(r) PROVE WalletTypeOK'
<1>1. r \in Requests
  BY DEF WalletTypeOK, Requests
<1>2. pending' \subseteq Requests
  BY AnswerTypes DEF Serve, Phase
<1>3. server' \in Bean
  BY <1>1, RequestFields DEF Serve, WalletTypeOK, Bean
<1>4. marked' \subseteq Envelope /\ debits' \in Nat
  BY <1>1, RequestFields DEF Serve, WalletTypeOK
<1>5. credited' \subseteq Envelope /\ credits' \in Nat
  BY <1>1, RequestFields, WorthAssumption DEF Serve, WalletTypeOK
<1> QED
  BY <1>2, <1>3, <1>4, <1>5 DEF Serve, WalletTypeOK, Requests, budget, profile

LEMMA RefuseTypes == ASSUME WalletTypeOK, NEW r \in pending, Refuse(r) PROVE WalletTypeOK'
<1>1. pending' \subseteq Requests
  BY AnswerTypes DEF Refuse, Phase
<1> QED
  BY <1>1 DEF Refuse, WalletTypeOK, Requests, budget, store, profile

LEMMA ReplyTypes == ASSUME WalletTypeOK, NEW r \in pending, Reply(r) PROVE WalletTypeOK'
<1>1. r \in Requests
  BY DEF WalletTypeOK, Requests
<1>2. CASE Success(r)
  <2>1. cache' \in Bean /\ gifts' \in Nat /\ screen' \in Screen
    BY <1>1, <1>2, RequestFields DEF Success, HandOver, WalletTypeOK, Screen
  <2>2. unsent' \subseteq Field
    BY <1>2 DEF Success, Written, WalletTypeOK
  <2> QED
    BY <1>2, <2>1, <2>2 DEF Success, WalletTypeOK, budget, store
<1>3. CASE Refused(r)
  BY <1>3 DEF Refused, WalletTypeOK, budget, store, profile
<1>4. CASE Timeout(r)
  <2>1. pending' \subseteq Requests
    BY <1>1, <1>4, RequestChanges DEF Timeout, WalletTypeOK, Requests, Phase
  <2>2. lost' \in 0 .. MaxLost
    BY <1>4, ClicksAssumption DEF Timeout, WalletTypeOK
  <2> QED
    BY <1>4, <2>1, <2>2 DEF Timeout, WalletTypeOK, Requests, store, profile
<1> QED
  BY <1>2, <1>3, <1>4 DEF Reply

\* Every variable keeps its type: no reply, refusal or timeout leaves a bean
\* without its money, and money is never negative (Affordable).
THEOREM WalletTypeCorrect == WalletSpec => []WalletTypeOK
<1>1. ASSUME WalletTypeOK, [WalletNext]_walletVars PROVE WalletTypeOK'
  <2>1. CASE Click
    BY <1>1, <2>1, GoTypes, sendRedEnvelopeTypes, onClickRedEnvelopeTypes,
       PictureUploadedTypes, changeUserInfoTypes
       DEF Click
  <2>2. CASE \E r \in pending : Serve(r) \/ Refuse(r) \/ Reply(r)
    BY <1>1, <2>2, ServeTypes, RefuseTypes, ReplyTypes
  <2>3. CASE UNCHANGED walletVars
    BY <1>1, <2>3 DEF walletVars, store, budget, profile, WalletTypeOK
  <2> QED
    BY <1>1, <2>1, <2>2, <2>3 DEF WalletNext
<1> QED
  BY <1>1, InitTypes, PTL DEF WalletSpec

-----------------------------------------------------------------------------
(* Gifts are paid: an awaited debit is the only one, because its dialog    *)
(* keeps the user from asking again; once served, its money is in "debits" *)
(* and not yet in "gifts".                                                 *)

AwaitedDebit(r) == r \in pending /\ r.kind = "debit" /\ r.awaited

DebitsAlone ==
  /\ \A r, q \in pending : AwaitedDebit(r) /\ AwaitedDebit(q) => r = q
  /\ \A r \in pending : AwaitedDebit(r) => "envelope" \in dialogs

ServedDebitCounts ==
  \A r \in pending : AwaitedDebit(r) /\ r.phase = "done" => gifts + r.of <= debits

PaidInv == WalletTypeOK /\ DebitsAlone /\ ServedDebitCounts /\ GiftsArePaid

LEMMA ClickPays == ASSUME PaidInv, WalletTypeOK', Click PROVE PaidInv'
<1>1. UNCHANGED <<gifts, debits>>
  BY DEF Click, OpenChat, OpenEnvelope, OpenProfile, Back, Go, store,
         sendRedEnvelope, onClickRedEnvelope, PictureUploaded, changeUserInfo
<1>2. dialogs \subseteq dialogs'
  BY DEF Click, OpenChat, OpenEnvelope, OpenProfile, Back, Go,
         sendRedEnvelope, onClickRedEnvelope, PictureUploaded, changeUserInfo
<1>3. CASE \E a \in Amount : sendRedEnvelope(a)
  <2>1. PICK a \in Amount : sendRedEnvelope(a)
    BY <1>3
  <2>2. CASE UNCHANGED pending
    BY <1>1, <1>2, <2>2 DEF PaidInv, DebitsAlone, AwaitedDebit, ServedDebitCounts, GiftsArePaid
  <2>3. CASE pending' # pending
    <3>1. PICK r : /\ pending' = pending \cup {r} /\ r.phase = "asked"
                   /\ "envelope" \in dialogs' /\ "envelope" \notin dialogs
      BY <2>1, <2>3 DEF sendRedEnvelope, MayClick, Ask
    <3>2. \A q \in pending : ~AwaitedDebit(q)
      BY <3>1 DEF PaidInv, DebitsAlone
    <3> QED
      BY <1>1, <3>1, <3>2 DEF PaidInv, DebitsAlone, AwaitedDebit, ServedDebitCounts, GiftsArePaid
  <2> QED
    BY <2>2, <2>3
<1>4. CASE ~\E a \in Amount : sendRedEnvelope(a)
  <2>1. \A r \in pending' : AwaitedDebit(r)' => AwaitedDebit(r)
    BY <1>4 DEF Click, OpenChat, OpenEnvelope, OpenProfile, Back, Go,
         onClickRedEnvelope, PictureUploaded, changeUserInfo, Ask, AwaitedDebit
  <2> QED
    BY <1>1, <1>2, <2>1 DEF PaidInv, DebitsAlone, AwaitedDebit, ServedDebitCounts, GiftsArePaid
<1> QED
  BY <1>3, <1>4

LEMMA ServePays == ASSUME PaidInv, WalletTypeOK', NEW r \in pending, Serve(r) PROVE PaidInv'
<1> DEFINE s == [r EXCEPT !.phase = "done"]
<1>1. r \in Requests /\ debits \in Nat /\ gifts \in Nat
  BY DEF PaidInv, WalletTypeOK, Requests
<1>2. s.kind = r.kind /\ s.of = r.of /\ s.awaited = r.awaited /\ s.phase = "done"
  BY <1>1 DEF Requests, Request
<1> HIDE DEF s
<1>3. pending' = (pending \ {r}) \cup (IF r.awaited THEN {s} ELSE {})
  BY DEF Serve, Answer, s
<1>4. UNCHANGED <<gifts, dialogs>>
  BY DEF Serve
<1>5. debits' = IF r.kind = "debit" THEN debits + r.of ELSE debits
  BY DEF Serve
<1>6. r.kind = "debit" => r.of \in Nat
  BY <1>1, RequestFields
<1>7. debits <= debits' /\ debits' \in Nat
  BY <1>1, <1>5, <1>6
<1>8. ASSUME NEW q \in pending', AwaitedDebit(q)' 
      PROVE  \/ q = s /\ AwaitedDebit(r) /\ debits' = debits + r.of
             \/ q # s /\ AwaitedDebit(q) /\ q # r
  BY <1>2, <1>3, <1>5, <1>8 DEF AwaitedDebit
<1>9. DebitsAlone'
  BY <1>4, <1>8 DEF PaidInv, DebitsAlone, AwaitedDebit
<1>10. ServedDebitCounts'
  <2> SUFFICES ASSUME NEW q \in pending', AwaitedDebit(q)', q.phase = "done"
               PROVE  gifts + q.of <= debits'
    BY <1>4 DEF ServedDebitCounts
  <2>1. CASE q = s /\ AwaitedDebit(r) /\ debits' = debits + r.of
    BY <1>1, <1>2, <1>6, <2>1 DEF PaidInv, GiftsArePaid, AwaitedDebit
  <2>2. CASE AwaitedDebit(q)
    <3>1. q \in pending /\ q.of \in Nat
      BY <2>2, RequestFields DEF AwaitedDebit, PaidInv, WalletTypeOK, Requests
    <3> QED
      BY <1>1, <1>7, <2>2, <3>1 DEF PaidInv, ServedDebitCounts
  <2> QED
    BY <1>8, <2>1, <2>2
<1> QED
  BY <1>1, <1>4, <1>7, <1>9, <1>10 DEF PaidInv, GiftsArePaid

LEMMA RefusePays == ASSUME PaidInv, WalletTypeOK', NEW r \in pending, Refuse(r) PROVE PaidInv'
<1> DEFINE s == [r EXCEPT !.phase = "refused"]
<1>1. r \in Requests
  BY DEF PaidInv, WalletTypeOK, Requests
<1>2. s.kind = r.kind /\ s.awaited = r.awaited /\ s.phase = "refused"
  BY <1>1 DEF Requests, Request
<1> HIDE DEF s
<1>3. pending' = (pending \ {r}) \cup (IF r.awaited THEN {s} ELSE {})
  BY DEF Refuse, Answer, s
<1>4. UNCHANGED <<gifts, dialogs, debits>>
  BY DEF Refuse, store
<1>5. ASSUME NEW q \in pending', AwaitedDebit(q)' 
      PROVE  \/ q = s /\ AwaitedDebit(r)
             \/ q # s /\ AwaitedDebit(q) /\ q # r
  BY <1>2, <1>3, <1>5 DEF AwaitedDebit
<1> QED
  BY <1>2, <1>4, <1>5 DEF PaidInv, DebitsAlone, AwaitedDebit, ServedDebitCounts, GiftsArePaid

\* A reply takes its own request off and closes its own dialog only.
LEMMA ReplyPays == ASSUME PaidInv, WalletTypeOK', NEW r \in pending, Reply(r) PROVE PaidInv'
<1>1. r \in Requests /\ gifts \in Nat /\ debits \in Nat
  BY DEF PaidInv, WalletTypeOK, Requests
<1>2. [r EXCEPT !.awaited = FALSE].awaited = FALSE
  BY <1>1 DEF Requests, Request
<1>3. r.awaited /\ UNCHANGED debits /\ dialogs' = dialogs \ {DialogOf(r.kind)}
  BY DEF Reply, Success, Refused, Timeout, store
<1>4. r.kind # "debit" => DialogOf(r.kind) # "envelope"
  BY <1>1, RequestFields DEF DialogOf
<1>5. \A q \in pending' : AwaitedDebit(q)' => AwaitedDebit(q) /\ q # r
  BY <1>2 DEF Reply, Success, Refused, Timeout, AwaitedDebit
<1>6. \A q \in pending' : AwaitedDebit(q)' => r.kind # "debit"
  BY <1>3, <1>5 DEF PaidInv, DebitsAlone, AwaitedDebit
<1>7. DebitsAlone'
  BY <1>3, <1>4, <1>5, <1>6 DEF PaidInv, DebitsAlone, AwaitedDebit
<1>8. \/ gifts' = gifts
      \/ AwaitedDebit(r) /\ r.phase = "done" /\ gifts' = gifts + r.of
  <2>1. CASE Success(r)
    <3>1. r.kind # "debit" => gifts' = gifts
      BY <2>1 DEF Success
    <3>2. ASSUME r.kind = "debit" PROVE gifts' = gifts + r.of
      <4>1. HandOver(r)
        BY <2>1, <3>2 DEF Success
      <4> QED
        BY <4>1 DEF HandOver
    <3>3. r.phase = "done"
      BY <2>1 DEF Success, Succeeded
    <3> QED
      BY <1>3, <3>1, <3>2, <3>3 DEF AwaitedDebit
  <2>2. CASE Refused(r) \/ Timeout(r)
    BY <2>2 DEF Refused, Timeout
  <2> QED
    BY <2>1, <2>2 DEF Reply
<1>9. GiftsArePaid'
  BY <1>3, <1>8 DEF PaidInv, GiftsArePaid, ServedDebitCounts
<1>10. ServedDebitCounts'
  BY <1>3, <1>5, <1>6, <1>8 DEF PaidInv, ServedDebitCounts, AwaitedDebit
<1> QED
  BY <1>7, <1>9, <1>10 DEF PaidInv

\* A red envelope is handed to the socket only for money the server has taken
\* before, whatever is refused, lost or answered late
\* (RedEnvelopePresenter.onNextEx -> onSuccess -> onActivityResult).
THEOREM GiftsPaid == WalletSpec => []GiftsArePaid
<1>1. WalletInit => PaidInv
  <2>1. WalletInit => pending = {} /\ gifts = 0 /\ debits = 0
    BY DEF WalletInit
  <2> QED
    BY <2>1, InitTypes DEF PaidInv, DebitsAlone, ServedDebitCounts, GiftsArePaid
<1>2. PaidInv /\ WalletTypeOK' /\ [WalletNext]_walletVars => PaidInv'
  <2>1. ASSUME PaidInv, UNCHANGED walletVars PROVE PaidInv'
    BY <2>1 DEF walletVars, store, budget, profile, PaidInv, WalletTypeOK, DebitsAlone, AwaitedDebit,
                ServedDebitCounts, GiftsArePaid
  <2> QED
    BY <2>1, ClickPays, ServePays, RefusePays, ReplyPays DEF WalletNext
<1>3. PaidInv => GiftsArePaid
  BY DEF PaidInv
<1> QED
  BY <1>1, <1>2, <1>3, WalletTypeCorrect, PTL DEF WalletSpec

-----------------------------------------------------------------------------
(* The cache agrees with the server: while the user waits and nothing is   *)
(* lost, at most one request that changes the bean is under way, and its   *)
(* bean is what the server's record is once it is served, but for the      *)
(* fields it brings to the cache without sending them.                     *)

Calm == ~hasty /\ lost = 0

Changes(r) == r.kind # "mark"

\* The server's record after a request.
After(r) == CASE r.kind \in {"debit", "credit"} -> [server EXCEPT !.money = r.money]
              [] r.kind = "edit" -> [server EXCEPT !.profile = [f \in Field |->
                                       IF f \in r.of THEN r.bean.profile[f] ELSE @[f]]]
              [] OTHER -> server

\* A bean and the server's record agree outside some fields.
Match(b, s, fields) ==
  b.money = s.money /\ \A f \in Field \ fields : b.profile[f] = s.profile[f]

Agree == Match(cache, server, unsent)

\* The unsent fields after the reply to a request.
UnsentAfter(r) == IF r.kind = "edit" THEN (unsent \cup Written(r)) \ r.of ELSE unsent

OneChange == \A r, q \in pending : Changes(r) /\ Changes(q) => r = q

BeanIsServers ==
  \A r \in pending : Changes(r) =>
    IF r.phase = "done" THEN Match(r.bean, server, UnsentAfter(r))
    ELSE Agree /\ (r.phase = "asked" => Match(r.bean, After(r), UnsentAfter(r)))

ProfileIsFresh ==
  screen = "profile" => /\ userInfo.money = cache.money
                        /\ \A r \in pending : r.kind = "edit"

AgreeInv ==
  Calm => /\ \A r \in pending : r.awaited
          /\ OneChange
          /\ BeanIsServers
          /\ (\A r \in pending : ~Changes(r)) => Agree
          /\ ProfileIsFresh
          /\ \A r \in pending : r.kind = "edit" => r.bean.money = cache.money

LEMMA ClickAgrees == ASSUME WalletTypeOK, AgreeInv, Click PROVE AgreeInv'
<1> SUFFICES ASSUME Calm' PROVE AgreeInv'
  BY DEF AgreeInv
<1>1. hasty' = (hasty \/ pending # {}) /\ lost' = lost
  BY DEF Click, OpenChat, OpenEnvelope, OpenProfile, Back, Go, MayClick, budget,
         sendRedEnvelope, onClickRedEnvelope, PictureUploaded, changeUserInfo
<1>2. pending = {} /\ Calm
  BY <1>1 DEF Calm
<1>3. Agree /\ server' = server
  BY <1>2 DEF AgreeInv, Click, OpenChat, OpenEnvelope, OpenProfile, Back, Go, store,
              sendRedEnvelope, onClickRedEnvelope, PictureUploaded, changeUserInfo
<1>4. CASE OpenChat \/ OpenEnvelope \/ OpenProfile \/ Back
  <2>1. pending' = {} /\ (screen' = "profile" => userInfo' = cache')
    BY <1>2, <1>4 DEF OpenChat, OpenEnvelope, OpenProfile, Back, Go
  <2>2. UNCHANGED <<cache, unsent>>
    BY <1>4 DEF OpenChat, OpenEnvelope, OpenProfile, Back, Go, profile
  <2>3. Agree'
    BY <1>3, <2>2 DEF Agree, Match
  <2> QED
    BY <2>1, <2>3 DEF AgreeInv, OneChange, BeanIsServers, ProfileIsFresh
<1>5. ASSUME NEW a \in Amount, sendRedEnvelope(a) PROVE AgreeInv'
  <2>1. screen' # "profile" /\ UNCHANGED <<cache, unsent>>
    BY <1>5 DEF sendRedEnvelope, MayClick, profile
  <2>4. Agree'
    BY <1>3, <2>1 DEF Agree, Match
  <2>2. CASE Affordable(a)
    <3> DEFINE sub == cache.money - a
    <3>1. PICK r : pending' = {r} /\ r = Ask("debit", a, sub, [cache EXCEPT !.money = sub])
      BY <1>2, <1>5, <2>2 DEF sendRedEnvelope
    <3>2. /\ r.kind = "debit" /\ r.phase = "asked" /\ r.awaited
          /\ r.bean = [cache EXCEPT !.money = r.money]
      BY <3>1 DEF Ask
    <3>3. Match(r.bean, After(r), unsent)
      BY <1>3, <3>2 DEF Agree, Match, After, WalletTypeOK, Bean
    <3>4. Match(r.bean, After(r)', unsent')
      BY <1>3, <2>1, <3>3 DEF After
    <3> QED
      BY <2>1, <2>4, <3>1, <3>2, <3>4
         DEF AgreeInv, OneChange, BeanIsServers, ProfileIsFresh, Changes, UnsentAfter
  <2>3. CASE ~Affordable(a)
    <3>1. pending' = {}
      BY <1>2, <1>5, <2>3 DEF sendRedEnvelope
    <3> QED
      BY <2>1, <2>4, <3>1 DEF AgreeInv, OneChange, BeanIsServers, ProfileIsFresh
  <2> QED
    BY <2>2, <2>3
<1>6. ASSUME NEW e \in Envelope, onClickRedEnvelope(e) PROVE AgreeInv'
  <2> DEFINE b == CreditedBean(e)
  <2>1. screen' # "profile" /\ UNCHANGED <<cache, unsent>>
    BY <1>6 DEF onClickRedEnvelope, MayClick, profile
  <2>5. Agree'
    BY <1>3, <2>1 DEF Agree, Match
  <2>2. PICK k, r : /\ pending' = {k, r}
                    /\ k = Ask("mark", e, 0, cache) /\ r = Ask("credit", e, b.money, b)
    BY <1>2, <1>6 DEF onClickRedEnvelope
  <2>3. /\ r.kind = "credit" /\ r.phase = "asked" /\ r.awaited
        /\ r.bean = [cache EXCEPT !.money = r.money]
    BY <2>2 DEF Ask, CreditedBean, WalletTypeOK, Bean
  <2>4. k.kind = "mark" /\ k.awaited
    BY <2>2 DEF Ask
  <2>6. Match(r.bean, After(r), unsent)
    BY <1>3, <2>3 DEF Agree, Match, After, WalletTypeOK, Bean
  <2>7. Match(r.bean, After(r)', unsent')
    BY <1>3, <2>1, <2>6 DEF After
  <2> QED
    BY <2>1, <2>2, <2>3, <2>4, <2>5, <2>7
       DEF AgreeInv, OneChange, BeanIsServers, ProfileIsFresh, Changes, UnsentAfter
<1>7. ASSUME NEW shown \in [Field -> Value], changeUserInfo(shown) PROVE AgreeInv'
  <2> DEFINE changed == {f \in Field : shown[f] # userInfo.profile[f]}
  <2>8. PICK r : r = Ask("edit", changed, 0, userInfo')
    OBVIOUS
  <2>1. screen = "profile" /\ userInfo.money = cache.money /\ UNCHANGED <<cache, unsent>>
    BY <1>2, <1>7 DEF changeUserInfo, MayClick, AgreeInv, ProfileIsFresh
  <2>2. userInfo'.money = cache.money /\ userInfo'.profile = shown
    BY <1>7, <2>1 DEF changeUserInfo, WalletTypeOK, Bean
  <2>3. pending' = {r} \/ pending' = {}
    BY <1>2, <1>7, <2>8 DEF changeUserInfo
  <2>4. /\ r.kind = "edit" /\ r.phase = "asked" /\ r.awaited /\ r.of \subseteq Field
        /\ r.bean.money = cache.money
    BY <2>2, <2>8 DEF Ask
  <2>5. userInfo'.money = cache'.money /\ Agree'
    BY <1>3, <2>1, <2>2 DEF Agree, Match
  <2>6. CASE pending' = {}
    BY <2>5, <2>6 DEF AgreeInv, OneChange, BeanIsServers, ProfileIsFresh
  <2>7. CASE pending' = {r}
    <3>1. OneChange' /\ ProfileIsFresh'
      BY <2>4, <2>5, <2>7 DEF OneChange, ProfileIsFresh
    <3>2. After(r).money = server.money /\ \A f \in Field : After(r).profile[f] =
            IF f \in r.of THEN r.bean.profile[f] ELSE server.profile[f]
      BY <2>4 DEF After, WalletTypeOK, Bean
    <3>3. Match(r.bean, After(r), UnsentAfter(r))
      BY <1>3, <2>4, <3>2 DEF Match, Agree, UnsentAfter, Written
    <3>4. Match(r.bean, After(r)', UnsentAfter(r)')
      BY <1>3, <2>1, <3>3 DEF After, UnsentAfter, Written
    <3>5. BeanIsServers'
      BY <2>4, <2>5, <2>7, <3>4 DEF BeanIsServers
    <3> QED
      BY <2>1, <2>4, <2>5, <2>7, <3>1, <3>5 DEF AgreeInv
  <2> QED
    BY <2>3, <2>6, <2>7
<1>8. ASSUME NEW url \in Value, PictureUploaded(url) PROVE AgreeInv'
  <2>1. screen = "profile" /\ userInfo.money = cache.money
    BY <1>2, <1>8 DEF PictureUploaded, MayClick, AgreeInv, ProfileIsFresh
  <2>2. pending' = {} /\ UNCHANGED userInfo /\ unsent' = unsent \cup {Picture}
    BY <1>2, <1>8 DEF PictureUploaded
  <2>3. cache'.money = cache.money /\ \A f \in Field \ {Picture} : cache'.profile[f] = cache.profile[f]
    BY <1>8 DEF PictureUploaded, WalletTypeOK, Bean
  <2>4. Agree'
    BY <1>3, <2>2, <2>3 DEF Agree, Match
  <2> QED
    BY <2>1, <2>2, <2>3, <2>4 DEF AgreeInv, OneChange, BeanIsServers, ProfileIsFresh
<1> QED
  BY <1>4, <1>5, <1>6, <1>7, <1>8 DEF Click

\* A request the server serves was the only one that changes the bean, and
\* computed from the server's own record.
LEMMA ServeAgrees == ASSUME WalletTypeOK, AgreeInv, NEW r \in pending, Serve(r) PROVE AgreeInv'
<1> SUFFICES ASSUME Calm' PROVE AgreeInv'
  BY DEF AgreeInv
<1> DEFINE s == [r EXCEPT !.phase = "done"]
<1>1. Calm /\ r.awaited /\ r.phase = "asked"
  BY DEF Calm, Serve, budget, AgreeInv
<1>2. r \in Requests
  BY DEF WalletTypeOK, Requests
<1>3. /\ s.kind = r.kind /\ s.awaited = r.awaited /\ s.phase = "done" /\ s.bean = r.bean
      /\ s.of = r.of
  BY <1>2 DEF Requests, Request
<1> HIDE DEF s
<1>4. pending' = (pending \ {r}) \cup {s}
  BY <1>1 DEF Serve, Answer, s
<1>5. server' = After(r) /\ UNCHANGED <<cache, screen, userInfo, unsent>>
  BY <1>2, RequestFields DEF Serve, After, profile
<1>6. OneChange' /\ ProfileIsFresh' /\ \A q \in pending' : q.awaited
  BY <1>1, <1>3, <1>4, <1>5 DEF AgreeInv, OneChange, ProfileIsFresh, Changes
<1>7. \A q \in pending' : q.kind = "edit" => q.bean.money = cache.money
  BY <1>1, <1>3, <1>4 DEF AgreeInv
<1>8. CASE Changes(r)
  <2>1. \A q \in pending' : Changes(q) => q = s
    BY <1>1, <1>4, <1>8 DEF AgreeInv, OneChange
  <2>2. Match(s.bean, server', UnsentAfter(s)')
    <3>1. Match(r.bean, After(r), UnsentAfter(r))
      BY <1>1, <1>8 DEF AgreeInv, BeanIsServers
    <3>2. UnsentAfter(s)' = UnsentAfter(r)
      BY <1>3, <1>5 DEF UnsentAfter, Written
    <3> QED
      BY <1>3, <1>5, <3>1, <3>2
  <2>3. s \in pending' /\ Changes(s)
    BY <1>3, <1>4, <1>8 DEF Changes
  <2> QED
    BY <1>3, <1>5, <1>6, <1>7, <2>1, <2>2, <2>3 DEF AgreeInv, BeanIsServers
<1>9. CASE ~Changes(r)
  <2>1. server' = server /\ ~Changes(s)
    BY <1>3, <1>5, <1>9 DEF After, Changes
  <2>4. Agree' <=> Agree
    BY <1>5, <2>1 DEF Agree, Match
  <2>5. \A q \in pending : After(q)' = After(q) /\ UnsentAfter(q)' = UnsentAfter(q)
    BY <1>5, <2>1 DEF After, UnsentAfter, Written
  <2>2. BeanIsServers'
    BY <1>1, <1>4, <2>1, <2>4, <2>5 DEF AgreeInv, BeanIsServers
  <2>3. (\A q \in pending' : ~Changes(q)) => Agree'
    BY <1>1, <1>4, <1>9, <2>1, <2>4 DEF AgreeInv
  <2> QED
    BY <1>5, <1>6, <1>7, <2>2, <2>3 DEF AgreeInv
<1> QED
  BY <1>8, <1>9

LEMMA RefuseAgrees == ASSUME WalletTypeOK, AgreeInv, NEW r \in pending, Refuse(r) PROVE AgreeInv'
<1> SUFFICES ASSUME Calm' PROVE AgreeInv'
  BY DEF AgreeInv
<1> DEFINE s == [r EXCEPT !.phase = "refused"]
<1>1. Calm /\ r.awaited /\ r.phase = "asked"
  BY DEF Calm, Refuse, budget, AgreeInv
<1>2. r \in Requests
  BY DEF WalletTypeOK, Requests
<1>3. s.kind = r.kind /\ s.awaited = r.awaited /\ s.phase = "refused" /\ s.bean = r.bean
  BY <1>2 DEF Requests, Request
<1> HIDE DEF s
<1>4. pending' = (pending \ {r}) \cup {s}
  BY <1>1 DEF Refuse, Answer, s
<1>5. UNCHANGED <<cache, server, screen, userInfo, unsent>>
  BY DEF Refuse, store, profile
<1>10. Agree' <=> Agree
  BY <1>5 DEF Agree, Match
<1>11. \A q \in pending : After(q)' = After(q) /\ UnsentAfter(q)' = UnsentAfter(q)
  BY <1>5 DEF After, UnsentAfter, Written
<1>6. OneChange' /\ ProfileIsFresh' /\ \A q \in pending' : q.awaited
  BY <1>1, <1>3, <1>4, <1>5 DEF AgreeInv, OneChange, ProfileIsFresh, Changes
<1>7. \A q \in pending' : q.kind = "edit" => q.bean.money = cache.money
  BY <1>1, <1>3, <1>4 DEF AgreeInv
<1>8. BeanIsServers'
  BY <1>1, <1>3, <1>4, <1>5, <1>10, <1>11 DEF AgreeInv, BeanIsServers, Changes
<1>9. (\A q \in pending' : ~Changes(q)) => Agree'
  BY <1>1, <1>3, <1>4, <1>10 DEF AgreeInv, Changes
<1> QED
  BY <1>5, <1>6, <1>7, <1>8, <1>9 DEF AgreeInv

LEMMA ReplyAgrees == ASSUME WalletTypeOK, AgreeInv, NEW r \in pending, Reply(r) PROVE AgreeInv'
<1> SUFFICES ASSUME Calm' PROVE AgreeInv'
  BY DEF AgreeInv
<1>1. ~Timeout(r)
  BY DEF Timeout, Calm, WalletTypeOK
<1>2. Success(r) \/ Refused(r)
  BY <1>1 DEF Reply
<1>3. Calm /\ pending' = pending \ {r} /\ UNCHANGED <<server, userInfo>>
  BY <1>2 DEF Calm, Success, Refused, budget, store, profile
<1>4. CASE Changes(r)
  <2>1. Agree'
    <3>1. CASE Success(r)
      <4>1. Match(r.bean, server, UnsentAfter(r))
        BY <1>3, <1>4, <3>1 DEF AgreeInv, BeanIsServers, Success, Succeeded
      <4>2. cache' = r.bean /\ unsent' = UnsentAfter(r)
        BY <1>4, <3>1 DEF Success, Changes, UnsentAfter
      <4> QED
        BY <1>3, <4>1, <4>2 DEF Agree
    <3>2. CASE Refused(r)
      <4>1. Agree
        BY <1>3, <1>4, <3>2 DEF AgreeInv, BeanIsServers, Refused
      <4>2. UNCHANGED <<cache, unsent>>
        BY <3>2 DEF Refused, profile
      <4> QED
        BY <1>3, <4>1, <4>2 DEF Agree, Match
    <3> QED
      BY <1>2, <3>1, <3>2
  <2>2. \A q \in pending' : q.awaited /\ ~Changes(q)
    BY <1>3, <1>4 DEF AgreeInv, OneChange
  <2>3. ProfileIsFresh'
    <3>1. CASE Refused(r)
      BY <1>3, <3>1 DEF AgreeInv, ProfileIsFresh, Refused
    <3>2. CASE Success(r)
      <4> SUFFICES ASSUME screen' = "profile" PROVE FALSE
        BY DEF ProfileIsFresh
      <4>1. CASE r.kind = "edit"
        BY <3>2, <4>1 DEF Success
      <4>2. CASE r.kind = "debit"
        <5>1. HandOver(r)
          BY <3>2, <4>2 DEF Success
        <5> QED
          BY <5>1 DEF HandOver
      <4>3. CASE r.kind \notin {"edit", "debit"}
        <5>1. screen = "profile"
          BY <3>2, <4>3 DEF Success
        <5> QED
          BY <1>3, <4>3, <5>1 DEF AgreeInv, ProfileIsFresh
      <4> QED
        BY <4>1, <4>2, <4>3
    <3> QED
      BY <1>2, <3>1, <3>2
  <2> QED
    BY <1>3, <2>1, <2>2, <2>3 DEF AgreeInv, OneChange, BeanIsServers, Changes
<1>5. CASE ~Changes(r)
  <2>1. UNCHANGED <<cache, screen, unsent>>
    BY <1>2, <1>5 DEF Success, Refused, Changes, profile
  <2>2. Agree' <=> Agree
    BY <1>3, <2>1 DEF Agree, Match
  <2>3. \A q \in pending : After(q)' = After(q) /\ UnsentAfter(q)' = UnsentAfter(q)
    BY <1>3, <2>1 DEF After, UnsentAfter, Written
  <2> QED
    BY <1>3, <1>5, <2>1, <2>2, <2>3 DEF AgreeInv, OneChange, BeanIsServers, ProfileIsFresh
<1> QED
  BY <1>4, <1>5

LEMMA CalmAtLogin == ASSUME WalletInit PROVE AgreeInv
  BY DEF WalletInit, AgreeInv, Agree, Match, OneChange, BeanIsServers, ProfileIsFresh

LEMMA NextAgrees ==
  ASSUME WalletTypeOK, AgreeInv, [WalletNext]_walletVars PROVE AgreeInv'
<1>1. ASSUME UNCHANGED walletVars PROVE AgreeInv'
  BY <1>1 DEF walletVars, store, budget, profile, AgreeInv, Calm, OneChange, BeanIsServers,
              ProfileIsFresh, After, Agree, Match, UnsentAfter, Written
<1> QED
  BY <1>1, ClickAgrees, ServeAgrees, RefuseAgrees, ReplyAgrees DEF WalletNext

\* As long as the user waits for every reply and none is lost, whenever nothing
\* is under way the cached money is the server's, after any number of gifts,
\* credits, edits and refusals; and so is every field of the cached profile that
\* did not get there unsent: by an upload, or refused once and cached with the
\* bean of a later save that did not send it.
THEOREM CacheIsServers == WalletSpec => []CacheAgrees
<1>1. AgreeInv => CacheAgrees
  BY DEF AgreeInv, Agree, Match, Calm, CacheAgrees, Quiet
<1> QED
  BY <1>1, CalmAtLogin, NextAgrees, WalletTypeCorrect, PTL DEF WalletSpec

-----------------------------------------------------------------------------
(* Money is conserved: what a request will write was computed from the     *)
(* money the server still has.                                             *)

AmountsRight ==
  Calm => /\ server.money + debits = Start + credits
          /\ \A r \in pending : r.phase = "asked" =>
               /\ r.kind = "debit" => r.money + r.of = server.money
               /\ r.kind = "credit" => r.money = server.money + Worth[r.of]

LEMMA ClickConserves ==
  ASSUME WalletTypeOK, AgreeInv, AmountsRight, Click PROVE AmountsRight'
<1> SUFFICES ASSUME Calm' PROVE AmountsRight'
  BY DEF AmountsRight
<1>1. hasty' = (hasty \/ pending # {}) /\ lost' = lost
  BY DEF Click, OpenChat, OpenEnvelope, OpenProfile, Back, Go, MayClick, budget,
         sendRedEnvelope, onClickRedEnvelope, PictureUploaded, changeUserInfo
<1>2. pending = {} /\ Calm
  BY <1>1 DEF Calm
<1>3. cache.money = server.money /\ UNCHANGED store
  BY <1>2 DEF AgreeInv, Agree, Match, Click, OpenChat, OpenEnvelope, OpenProfile, Back, Go,
              sendRedEnvelope, onClickRedEnvelope, PictureUploaded, changeUserInfo
<1>4. server' = server /\ server'.money + debits' = Start + credits'
  BY <1>2, <1>3 DEF store, AmountsRight
<1>5. SUFFICES ASSUME NEW r \in pending'
               PROVE  /\ r.kind = "debit" => r.money + r.of = server.money
                      /\ r.kind = "credit" => r.money = server.money + Worth[r.of]
  BY <1>4 DEF AmountsRight
<1>6. CASE OpenChat \/ OpenEnvelope \/ OpenProfile \/ Back
  BY <1>2, <1>6 DEF OpenChat, OpenEnvelope, OpenProfile, Back, Go
<1>7. ASSUME NEW a \in Amount, sendRedEnvelope(a) PROVE r.kind = "debit" /\ r.money + r.of = server.money
  <2>1. r = Ask("debit", a, cache.money - a, [cache EXCEPT !.money = cache.money - a])
    BY <1>2, <1>7 DEF sendRedEnvelope
  <2>2. r.kind = "debit" /\ r.of = a /\ r.money = server.money - a
    BY <1>3, <2>1 DEF Ask
  <2>3. a \in Nat /\ server.money \in Nat
    BY AmountAssumption DEF WalletTypeOK, Bean
  <2> QED
    BY <2>2, <2>3
<1>8. ASSUME NEW e \in Envelope, onClickRedEnvelope(e)
      PROVE  r.kind # "debit" /\ (r.kind = "credit" => r.money = server.money + Worth[r.of])
  <2>1. CreditedBean(e).money = server.money + Worth[e]
    BY <1>3 DEF CreditedBean, WalletTypeOK, Bean
  <2>2. r = Ask("mark", e, 0, cache) \/ r = Ask("credit", e, CreditedBean(e).money, CreditedBean(e))
    BY <1>2, <1>8 DEF onClickRedEnvelope
  <2> QED
    BY <2>1, <2>2 DEF Ask
<1>9. ASSUME NEW shown \in [Field -> Value], changeUserInfo(shown) PROVE r.kind = "edit"
  BY <1>2, <1>9 DEF changeUserInfo, Ask
<1>10. ASSUME NEW url \in Value, PictureUploaded(url) PROVE FALSE
  BY <1>2, <1>10 DEF PictureUploaded
<1> QED
  BY <1>6, <1>7, <1>8, <1>9, <1>10 DEF Click

\* The request served is the only one that moves money, and it was computed
\* from the money the server still had.
LEMMA ServeConserves ==
  ASSUME WalletTypeOK, AgreeInv, AmountsRight, NEW r \in pending, Serve(r) PROVE AmountsRight'
<1> SUFFICES ASSUME Calm' PROVE AmountsRight'
  BY DEF AmountsRight
<1>1. Calm /\ r.awaited /\ r.phase = "asked"
  BY DEF Calm, Serve, budget, AgreeInv
<1>2. r \in Requests /\ server \in Bean /\ debits \in Nat /\ credits \in Nat
  BY DEF WalletTypeOK, Requests
<1>3. r.money \in Nat /\ server.money \in Nat /\ Start \in Nat
  BY <1>2, RequestFields, WorthAssumption DEF Bean
<1>4. \A q \in pending' : q.phase = "asked" => q \in pending /\ q # r
  <2>1. [r EXCEPT !.phase = "done"].phase = "done"
    BY <1>2 DEF Requests, Request
  <2> QED
    BY <1>1, <2>1 DEF Serve, Answer
<1>5. CASE r.kind = "debit"
  <2>1. r.of \in Nat /\ r.money + r.of = server.money
    BY <1>1, <1>2, <1>5, RequestFields DEF AmountsRight
  <2>2. server'.money = r.money /\ debits' = debits + r.of /\ credits' = credits
    BY <1>2, <1>5 DEF Serve, Bean
  <2>3. server'.money + debits' = Start + credits'
    BY <1>1, <1>2, <1>3, <2>1, <2>2 DEF AmountsRight
  <2>4. \A q \in pending' : q.phase = "asked" => ~Changes(q)
    BY <1>1, <1>4, <1>5 DEF AgreeInv, OneChange, Changes
  <2> QED
    BY <2>3, <2>4 DEF AmountsRight, Changes
<1>6. CASE r.kind = "credit"
  <2> DEFINE w == Worth[r.of]
  <2>1. w \in Nat /\ r.money = server.money + w
    BY <1>1, <1>2, <1>6, RequestFields, WorthAssumption DEF AmountsRight
  <2>2. server'.money = r.money /\ debits' = debits /\ credits' = credits + w
    BY <1>2, <1>6 DEF Serve, Bean
  <2>3. server'.money + debits' = Start + credits'
    <3> HIDE DEF w
    <3>1. server.money + debits = Start + credits
      BY <1>1 DEF AmountsRight
    <3> QED
      BY <1>2, <1>3, <2>1, <2>2, <3>1
  <2>4. \A q \in pending' : q.phase = "asked" => ~Changes(q)
    BY <1>1, <1>4, <1>6 DEF AgreeInv, OneChange, Changes
  <2> QED
    BY <2>3, <2>4 DEF AmountsRight, Changes
<1>7. CASE r.kind \notin {"debit", "credit"}
  <2>1. server'.money = server.money /\ debits' = debits /\ credits' = credits
    BY <1>2, <1>7, RequestFields DEF Serve, Bean
  <2> QED
    BY <1>1, <1>4, <2>1 DEF AmountsRight
<1> QED
  BY <1>5, <1>6, <1>7

LEMMA RestConserves ==
  ASSUME WalletTypeOK, AmountsRight, NEW r \in pending, Refuse(r) \/ Reply(r) PROVE AmountsRight'
<1> SUFFICES ASSUME Calm' PROVE AmountsRight'
  BY DEF AmountsRight
<1>1. ~Timeout(r)
  BY DEF Timeout, Calm, WalletTypeOK
<1>2. Calm /\ UNCHANGED <<server, debits, credits>>
  BY <1>1 DEF Calm, Refuse, Reply, Success, Refused, budget, store
<1>3. \A q \in pending' : q.phase = "asked" => q \in pending
  <2>1. r \in Requests
    BY DEF WalletTypeOK, Requests
  <2>2. [r EXCEPT !.phase = "refused"].phase = "refused"
    BY <2>1 DEF Requests, Request
  <2> QED
    BY <1>1, <2>2 DEF Refuse, Answer, Reply, Success, Refused
<1> QED
  BY <1>2, <1>3 DEF AmountsRight

\* As long as the user waits for every reply and none is lost, the server holds
\* what it held at login, plus the envelopes credited, minus what was taken for
\* envelopes, whatever is refused on the way
\* (ChatPresenter.updateMoney, RedEnvelopePresenter.sendRedEnvelope).
THEOREM MoneyConserved == WalletSpec => []Conserved
<1> DEFINE Inv == AgreeInv /\ AmountsRight
<1>1. WalletInit => Inv
  <2>1. ASSUME WalletInit PROVE AmountsRight
    <3>1. server.money = Start /\ debits = 0 /\ credits = 0 /\ pending = {}
      BY <2>1 DEF WalletInit
    <3> QED
      BY <3>1, WorthAssumption DEF AmountsRight
  <2> QED
    BY <2>1, CalmAtLogin
<1>2. WalletTypeOK /\ Inv /\ [WalletNext]_walletVars => Inv'
  <2>1. ASSUME AmountsRight, UNCHANGED walletVars PROVE AmountsRight'
    BY <2>1 DEF walletVars, store, budget, AmountsRight, Calm
  <2> QED
    BY <2>1, NextAgrees, ClickConserves, ServeConserves, RestConserves DEF WalletNext
<1>3. Inv => Conserved
  BY DEF AmountsRight, Calm, Conserved
<1> QED
  BY <1>1, <1>2, <1>3, WalletTypeCorrect, PTL DEF WalletSpec
=============================================================================
