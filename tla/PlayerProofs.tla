---------------------------- MODULE PlayerProofs ----------------------------
(***************************************************************************)
(* What holds of Player for any number of preparations and calls.  The     *)
(* references are counted (Counted), so nobody reaches a destroyed player; *)
(* a player that is not prepared again after a stop has one read thread    *)
(* and one message loop (Single), so release waits for whoever calls Java  *)
(* back, and only one message can be late.                                 *)
(***************************************************************************)
EXTENDS Player, FiniteSetTheorems, TLAPS

-----------------------------------------------------------------------------
(* The queue and the wakings.                                              *)

LEMMA AppendIs ==
  ASSUME NEW S, NEW s \in Seq(S), NEW x \in S
  PROVE  Append(s, x) \in Seq(S)
OBVIOUS

LEMMA HeadIs ==
  ASSUME NEW S, NEW s \in Seq(S), s # <<>>
  PROVE  Head(s) \in S /\ Tail(s) \in Seq(S)
OBVIOUS

LEMMA WithoutIs ==
  ASSUME queue \in Seq(Message), NEW what, NEW q \in Without(what)
  PROVE  q \in Seq(Message)
<1> DEFINE kept == {i \in DOMAIN queue : queue[i] \notin what}
<1>1. PICK w \in [1 .. Cardinality(kept) -> kept] : q = [i \in DOMAIN w |-> queue[w[i]]]
  BY DEF Without
<1>2. IsFiniteSet(DOMAIN queue)
  <2>1. DOMAIN queue = 1 .. Len(queue) /\ Len(queue) \in Nat
    OBVIOUS
  <2> QED
    BY <2>1, FS_Interval
<1>3. Cardinality(kept) \in Nat
  BY <1>2, FS_Subset, FS_CardinalityType
<1>4. \A i \in 1 .. Cardinality(kept) : queue[w[i]] \in Message
  OBVIOUS
<1>5. q = [i \in 1 .. Cardinality(kept) |-> queue[w[i]]]
  BY <1>1
<1> HIDE DEF kept
<1> QED
  BY <1>3, <1>4, <1>5

\* Of the threads only some that waited are disturbed, and they look again.
Woken ==
  \A n \in Prepare :
    \/ msg_thread'[n] = msg_thread[n]
    \/ msg_thread[n].at = "blocked" /\ msg_thread'[n] = [msg_thread[n] EXCEPT !.at = "getting"]

Loops == [Prepare -> [at : LoopPhase, msg : Message]]

LEMMA SignalledWakes ==
  ASSUME TypeOK, msg_thread' \in Signalled(msg_thread)
  PROVE  Woken /\ msg_thread' \in Loops
<1>1. CASE msg_thread' = msg_thread
  BY <1>1 DEF Woken, Loops, TypeOK
<1>2. CASE \E n \in Blocked : msg_thread' = [msg_thread EXCEPT ![n].at = "getting"]
  <2>1. PICK n \in Blocked : msg_thread' = [msg_thread EXCEPT ![n].at = "getting"]
    BY <1>2
  <2>2. msg_thread \in Loops /\ n \in Prepare /\ msg_thread[n].at = "blocked"
    BY DEF Blocked, TypeOK, Loops
  <2> QED
    BY <2>1, <2>2 DEF Woken, Loops, LoopPhase
<1> QED
  BY <1>1, <1>2 DEF Signalled

LEMMA PutWakes ==
  ASSUME TypeOK, NEW m \in Message, Put(m)
  PROVE  Woken /\ msg_thread' \in Loops /\ queue' \in Seq(Message)
<1>1. queue \in Seq(Message) /\ msg_thread \in Loops
  BY DEF TypeOK, Loops
<1>2. CASE abort_request
  BY <1>1, <1>2 DEF Put, Woken
<1>3. CASE ~abort_request
  <2>1. queue' = Append(queue, m) /\ msg_thread' \in Signalled(msg_thread)
    BY <1>3 DEF Put
  <2> QED
    BY <1>1, <2>1, AppendIs, SignalledWakes
<1> QED
  BY <1>2, <1>3

LEMMA ReplaceWakes ==
  ASSUME TypeOK, NEW m \in Message, NEW what, Replace(what, m)
  PROVE  Woken /\ msg_thread' \in Loops /\ queue' \in Seq(Message)
<1>1. queue \in Seq(Message) /\ msg_thread \in Loops
  BY DEF TypeOK, Loops
<1>2. CASE abort_request
  BY <1>1, <1>2 DEF Replace, Woken
<1>3. CASE ~abort_request
  <2>1. PICK q \in Without(what) : queue' = Append(q, m)
    BY <1>3 DEF Replace
  <2>2. q \in Seq(Message)
    BY <1>1, WithoutIs
  <2> QED
    BY <1>3, <2>1, <2>2, AppendIs, SignalledWakes DEF Replace
<1> QED
  BY <1>2, <1>3

-----------------------------------------------------------------------------
(* The references: that of the Java field, those of the application thread *)
(* on its way, that of the other thread and one for every message loop.    *)

Live == {n \in Prepare : msg_thread[n].at \notin {"none", "done"}}

Releasing == {"surface", "shutdown", "aborting", "joining", "weak", "field", "source", "last"}
WithField == {"idle", "stopping", "surface", "shutdown", "aborting", "joining", "weak", "field"}

ByField  == IF java THEN 1 ELSE 0
ByCaller == IF caller = "out" THEN 0 ELSE 1
ByApp    == IF app \in {"creating", "setup", "next"} THEN 1
            ELSE IF app \notin Releasing THEN 0
            ELSE IF weak_thiz = "null" THEN 2 ELSE 1

Counted ==
  /\ ref_count = ByField + ByCaller + ByApp + Cardinality(Live)
  /\ freed <=> ref_count = 0
  /\ java <=> app \in WithField
  /\ app \in {"creating", "setup", "next"} => weak_thiz = "null"
  /\ app \in {"idle", "stopping"} => weak_thiz = "set"
  /\ app \in {"surface", "shutdown", "aborting", "joining", "weak"} => weak_thiz # "gone"
  /\ app \in {"field", "source", "last", "done"} => weak_thiz # "set"
  /\ app \in {"creating", "setup"} => prepares = 0 /\ caller = "out"
  /\ \A n \in Prepare : msg_thread[n].at # "none" <=> n <= prepares

LEMMA LiveFinite == IsFiniteSet(Live) /\ Cardinality(Live) \in Nat
<1>1. IsFiniteSet(Prepare)
  BY BoundAssumption, FS_Interval DEF Prepare
<1>2. Live \subseteq Prepare
  BY DEF Live
<1> QED
  BY <1>1, <1>2, FS_Subset, FS_CardinalityType

LEMMA WokenLive ==
  ASSUME TypeOK, Woken
  PROVE  Live' = Live /\ \A n \in Prepare : msg_thread'[n].at # "none" <=> msg_thread[n].at # "none"
<1>1. ASSUME NEW n \in Prepare
      PROVE  msg_thread'[n].at = msg_thread[n].at
             \/ (msg_thread[n].at = "blocked" /\ msg_thread'[n].at = "getting")
  <2>1. msg_thread[n] \in [at : LoopPhase, msg : Message]
    BY <1>1 DEF TypeOK
  <2> QED
    BY <1>1, <2>1 DEF Woken
<1> QED
  BY <1>1 DEF Live

\* What a step does to one loop only.
LEMMA LoopMoves ==
  ASSUME TypeOK, NEW n \in Prepare, msg_thread[n].at \notin {"none", "done"},
         NEW p \in LoopPhase \ {"none"}, NEW m \in Message,
         msg_thread' = [msg_thread EXCEPT ![n] = [at |-> p, msg |-> m]]
  PROVE  /\ msg_thread' \in Loops
         /\ \A k \in Prepare : msg_thread'[k].at # "none" <=> msg_thread[k].at # "none"
         /\ Live' = IF p = "done" THEN Live \ {n} ELSE Live
BY DEF Loops, TypeOK, Live, LoopPhase

LEMMA LoopAtMoves ==
  ASSUME TypeOK, NEW n \in Prepare, msg_thread[n].at \notin {"none", "done"},
         NEW p \in LoopPhase \ {"none"}, LoopAt(n, p)
  PROVE  /\ msg_thread' = [msg_thread EXCEPT ![n] = [at |-> p, msg |-> msg_thread[n].msg]]
         /\ msg_thread[n].msg \in Message
         /\ msg_thread' \in Loops
         /\ \A k \in Prepare : msg_thread'[k].at # "none" <=> msg_thread[k].at # "none"
         /\ Live' = IF p = "done" THEN Live \ {n} ELSE Live
<1>1. /\ msg_thread' = [msg_thread EXCEPT ![n] = [at |-> p, msg |-> msg_thread[n].msg]]
      /\ msg_thread[n].msg \in Message
  <2>1. msg_thread \in Loops /\ msg_thread[n] \in [at : LoopPhase, msg : Message]
    BY DEF TypeOK, Loops
  <2>2. [msg_thread[n] EXCEPT !.at = p] = [at |-> p, msg |-> msg_thread[n].msg]
    BY <2>1
  <2>3. msg_thread' = [msg_thread EXCEPT ![n] = [msg_thread[n] EXCEPT !.at = p]]
    BY DEF LoopAt
  <2> QED
    BY <2>1, <2>2, <2>3
<1> QED
  BY <1>1, LoopMoves

LEMMA LiveGrows ==
  ASSUME NEW n \in Prepare, n \notin Live, Live' = Live \cup {n}
  PROVE  Cardinality(Live)' = Cardinality(Live) + 1
BY LiveFinite, FS_AddElement

LEMMA LiveShrinks ==
  ASSUME NEW n \in Live, Live' = Live \ {n}
  PROVE  Cardinality(Live)' = Cardinality(Live) - 1 /\ Cardinality(Live) > 0
<1>1. Cardinality(Live \ {n}) = Cardinality(Live) - 1
  BY LiveFinite, FS_RemoveElement
<1>2. Cardinality(Live \ {n}) \in Nat
  BY LiveFinite, FS_Subset, FS_CardinalityType
<1> QED
  BY <1>1, <1>2, LiveFinite

LEMMA HasReference ==
  ASSUME TypeOK, Counted,
         app \in {"creating", "setup", "next"} \cup Releasing \/ java \/ caller # "out" \/ Live # {}
  PROVE  ref_count > 0
<1>1. Cardinality(Live) \in Nat /\ (Live # {} => Cardinality(Live) # 0)
  BY LiveFinite, FS_EmptySet
<1>2. ByField \in Nat /\ ByCaller \in Nat /\ ByApp \in Nat
  BY DEF ByField, ByCaller, ByApp
<1>3. ByField > 0 \/ ByCaller > 0 \/ ByApp > 0 \/ Cardinality(Live) > 0
  <2>1. CASE app \in {"creating", "setup", "next"} \cup Releasing
    BY <2>1 DEF ByApp
  <2>2. CASE java
    BY <2>2 DEF ByField
  <2>3. CASE caller # "out"
    BY <2>3 DEF ByCaller
  <2>4. CASE Live # {}
    BY <1>1, <2>4
  <2> QED
    BY <2>1, <2>2, <2>3, <2>4
<1> QED
  BY <1>1, <1>2, <1>3 DEF Counted

LEMMA DecRefIs ==
  ASSUME TypeOK, ref_count > 0, DecRef
  PROVE  /\ ref_count' = ref_count - 1 /\ ref_count' \in Nat
         /\ queue' \in Seq(Message)
         /\ freed' \in BOOLEAN
         /\ ref_count' = 0 => freed'
         /\ freed' => freed \/ ref_count' = 0
<1>1. ref_count' = ref_count - 1 /\ ref_count \in Nat
  BY DEF DecRef, TypeOK
<1>2. ref_count' \in Nat /\ (ref_count' = 0 <=> ref_count = 1)
  BY <1>1
<1>3. queue' \in Seq(Message)
  BY DEF DecRef, TypeOK
<1>4. freed' <=> freed \/ ref_count = 1
  BY DEF DecRef
<1>5. freed' \in BOOLEAN
  BY DEF DecRef, TypeOK
<1> QED
  BY <1>1, <1>2, <1>3, <1>4, <1>5

-----------------------------------------------------------------------------
(* Types.                                                                  *)

Videos  == [Prepare -> [abort : BOOLEAN, seek : BOOLEAN, ended : BOOLEAN, ready : BOOLEAN]]
Readers == [Prepare -> [at : {"none", "starting", "opening", "playing", "done"},
                        is : 0 .. MaxPrepares]]

LEMMA ReaderMoves ==
  ASSUME TypeOK, NEW n \in Prepare, NEW p \in {"starting", "opening", "playing", "done"}, ReadAt(n, p)
  PROVE  read_tid' \in Readers
BY DEF ReadAt, Readers, TypeOK

LEMMA LoopAtType ==
  ASSUME TypeOK, NEW n \in Prepare, NEW p \in LoopPhase, LoopAt(n, p)
  PROVE  msg_thread' \in Loops
BY DEF LoopAt, Loops, TypeOK

LEMMA ApplicationTypes ==
  ASSUME TypeOK, Counted, Application
  PROVE  TypeOK'
<1>1. CASE ijkmp_android_create
  <2>1. app = "creating"
    BY <1>1 DEF ijkmp_android_create
  <2>2. ref_count > 0
    BY <2>1, HasReference
  <2>3. CASE DecRef
    BY <1>1, <2>2, <2>3, DecRefIs DEF ijkmp_android_create, TypeOK, queueVars, threads, others
  <2>4. CASE UNCHANGED <<ref_count, freed, queue>>
    BY <1>1, <2>4 DEF ijkmp_android_create, TypeOK, queueVars, threads, others
  <2> QED
    BY <1>1, <2>3, <2>4 DEF ijkmp_android_create
<1>2. CASE native_setup
  BY <1>2 DEF native_setup, TypeOK, queueVars, threads, others
<1>3. CASE setDataSource
  BY <1>3 DEF setDataSource, TypeOK, queueVars, threads, lifetime, others, State
<1>4. CASE setDataSourceCallback
  BY <1>4 DEF setDataSourceCallback, TypeOK, queueVars, threads, others, State
<1>5. CASE prepareAsync
  <2> DEFINE n == prepares + 1
  <2>1. n \in Prepare /\ n \in 0 .. MaxPrepares
    BY <1>5, BoundAssumption DEF prepareAsync, Prepare, TypeOK
  <2>2. /\ prepares' = n /\ ref_count' = ref_count + 1 /\ ref_count' \in Nat
        /\ msg_thread' = [msg_thread EXCEPT ![n].at = "starting"]
        /\ abort_request' = FALSE /\ told' = FALSE /\ late' = 0
    BY <1>5 DEF prepareAsync, TypeOK
  <2>3. mp_state' \in {"ASYNC_PREPARING", "ERROR"} /\ (is' = is \/ is' = n)
        /\ (read_tid' = read_tid \/ read_tid' = [read_tid EXCEPT ![n].at = "starting"])
    BY <1>5 DEF prepareAsync
  <2>4. UNCHANGED <<queue, video, prepared, java, weak_thiz, source, freed, joinedItself, others, app, calls>>
    BY <1>5 DEF prepareAsync
  <2> HIDE DEF n
  <2>5. msg_thread' \in Loops
    BY <2>1, <2>2 DEF TypeOK, Loops, LoopPhase
  <2>6. read_tid' \in Readers
    <3>1. CASE read_tid' = read_tid
      BY <3>1 DEF TypeOK, Readers
    <3>2. CASE read_tid' = [read_tid EXCEPT ![n].at = "starting"]
      BY <2>1, <3>2, ReaderMoves DEF ReadAt
    <3> QED
      BY <2>3, <3>1, <3>2
  <2>7. is' \in 0 .. MaxPrepares /\ prepares' \in 0 .. MaxPrepares
    BY <2>1, <2>2, <2>3 DEF TypeOK
  <2>8. mp_state' \in State
    BY <2>3 DEF State
  <2>9. told' \in BOOLEAN /\ abort_request' \in BOOLEAN
    BY <2>2
  <2>10. late' \in Nat /\ ref_count' \in Nat
    BY <2>2
  <2> QED
    BY <2>4, <2>5, <2>6, <2>7, <2>8, <2>9, <2>10 DEF TypeOK, others, Loops, Readers
<1>6. CASE start \/ pause \/ seekTo
  <2>1. PICK what \in SUBSET Message, m \in Message : Ask(what, m)
    BY <1>6 DEF start, pause, seekTo, Message, Request
  <2>2. msg_thread' \in Loops /\ queue' \in Seq(Message)
    BY <2>1, ReplaceWakes DEF Ask
  <2>3. calls' \in 0 .. MaxCalls
    BY <2>1, BoundAssumption DEF Ask, TypeOK
  <2> QED
    BY <2>1, <2>2, <2>3 DEF Ask, TypeOK, lifetime, others, Loops
<1>7. CASE stop \/ ffp_stop_l
  <2>1. /\ UNCHANGED <<mp_state, abort_request, is, prepared, threads, lifetime, told, late, calls>>
           \/ UNCHANGED <<mp_state, queueVars, is, prepared, threads, lifetime, told, late, calls>>
        /\ app' \in {"stopping", "aborting"} /\ AbortVideo
    BY <1>7 DEF stop, ffp_stop_l
  <2>2. queue' \in Seq(Message)
    <3>1. CASE queue' = queue
      BY <3>1 DEF TypeOK
    <3>2. CASE queue' \in Without({"REQ_START", "REQ_PAUSE"})
      BY <3>2, WithoutIs DEF TypeOK
    <3> QED
      BY <1>7, <3>1, <3>2 DEF stop, ffp_stop_l, queueVars
  <2>3. video' \in [Prepare -> [abort : BOOLEAN, seek : BOOLEAN, ended : BOOLEAN, ready : BOOLEAN]]
    BY ZenonT(30), <2>1 DEF AbortVideo, TypeOK
  <2> QED
    BY <2>1, <2>2, <2>3 DEF TypeOK, threads, lifetime, others, queueVars
<1>8. CASE stopped \/ shutdownAbort
  <2>1. msg_thread' \in Loops /\ abort_request' = TRUE
    BY <1>8, SignalledWakes DEF stopped, shutdownAbort, msg_queue_abort
  <2> QED
    BY <1>8, <2>1 DEF stopped, shutdownAbort, TypeOK, lifetime, others, Loops, State
<1>9. CASE release
  BY <1>9 DEF release, TypeOK, queueVars, threads, others
<1>10. CASE reset
  BY <1>10 DEF reset, TypeOK, queueVars, threads, others
<1>11. CASE set_surface \/ stream_close \/ set_weak_thiz \/ jni_set_media_data_source
  BY <1>11, BoundAssumption DEF set_surface, stream_close, set_weak_thiz, jni_set_media_data_source,
     TypeOK, queueVars, threads, lifetime, others
<1>12. CASE jni_set_media_player
  <2>1. ref_count > 0
    BY <1>12, HasReference DEF jni_set_media_player, Releasing
  <2> QED
    BY ZenonT(30), <1>12, <2>1, DecRefIs DEF jni_set_media_player, TypeOK, threads, others
<1>13. CASE dropReference
  <2>1. ref_count > 0
    BY <1>13, HasReference DEF dropReference, Releasing
  <2> QED
    BY <1>13, <2>1, DecRefIs DEF dropReference, TypeOK, threads, others
<1> QED
  BY <1>1, <1>2, <1>3, <1>4, <1>5, <1>6, <1>7, <1>8, <1>9, <1>10, <1>11, <1>12, <1>13 DEF Application, Release

LEMMA CallerTypes ==
  ASSUME TypeOK, Counted, Caller
  PROVE  TypeOK'
<1>1. CASE jni_get_media_player
  BY <1>1 DEF jni_get_media_player, CallerOnly, TypeOK, threads
<1>2. CASE ask
  BY <1>2 DEF ask, CallerOnly, TypeOK, threads
<1>3. CASE look \/ configure \/ answer
  <2>1. caller # "out" /\ DecRef
    BY <1>3 DEF look, configure, answer
  <2>2. ref_count > 0
    BY <2>1, HasReference
  <2> QED
    BY SMTT(20), <1>3, <2>1, <2>2, DecRefIs, BoundAssumption DEF look, configure, answer, CallerOnly, TypeOK, threads
<1> QED
  BY <1>1, <1>2, <1>3 DEF Caller

LEMMA ReadTypes ==
  ASSUME TypeOK, NEW n \in Prepare, ReadThread(n)
  PROVE  TypeOK'
<1>1. CASE readStarts(n)
  BY <1>1 DEF readStarts, TypeOK, queueVars, lifetime, others
<1>2. CASE opened(n) \/ openFailed(n) \/ streamEnds(n) \/ seekDone(n)
  <2>1. video' \in Videos
    <3>1. CASE opened(n)
      BY ZenonT(30), <3>1 DEF opened, TypeOK, Videos
    <3>2. CASE openFailed(n)
      <4>1. video' = video
        BY <3>2 DEF openFailed
      <4> QED
        BY <4>1 DEF TypeOK, Videos
    <3>3. CASE streamEnds(n)
      BY ZenonT(30), <3>3 DEF streamEnds, TypeOK, Videos
    <3>4. CASE seekDone(n)
      <4> DEFINE k == Mine(n)
                 once == [video EXCEPT ![k].seek = FALSE]
      <4>1. once \in Videos
        BY ZenonT(30) DEF TypeOK, Videos
      <4>2. video' = [once EXCEPT ![k].ended = FALSE]
        BY <3>4 DEF seekDone
      <4> HIDE DEF once
      <4> QED
        BY <4>1, <4>2 DEF Videos
    <3> QED
      BY <1>2, <3>1, <3>2, <3>3, <3>4
  <2>2. read_tid' \in Readers
    <3>1. CASE read_tid' = read_tid
      BY <3>1 DEF TypeOK, Readers
    <3>2. CASE ReadAt(n, "playing") \/ ReadAt(n, "done")
      BY <3>2, ReaderMoves
    <3> QED
      BY <1>2, <3>1, <3>2 DEF opened, openFailed, streamEnds, seekDone
  <2>3. msg_thread' \in Loops /\ queue' \in Seq(Message)
    <3>1. CASE \E m \in Message : Put(m)
      BY <3>1, PutWakes
    <3>2. CASE UNCHANGED <<queue, msg_thread>>
      BY <3>2 DEF TypeOK, Loops
    <3> QED
      BY <1>2, <3>1, <3>2 DEF opened, openFailed, streamEnds, seekDone, Message
  <2>4. prepared' \in BOOLEAN
        /\ UNCHANGED <<mp_state, abort_request, is, lifetime, app, told, late, calls>>
    BY <1>2 DEF opened, openFailed, streamEnds, seekDone, TypeOK
  <2> QED
    BY <2>1, <2>2, <2>3, <2>4 DEF TypeOK, lifetime, others, Loops, Videos, Readers
<1>3. CASE readEnds(n)
  BY SMTT(20), <1>3 DEF readEnds, ReadAt, TypeOK, queueVars, lifetime, others
<1> QED
  BY <1>1, <1>2, <1>3 DEF ReadThread

LEMMA LoopTypes ==
  ASSUME TypeOK, Counted, NEW n \in Prepare, MessageLoop(n)
  PROVE  TypeOK'
<1>1. CASE loopStarts(n)
  <2>1. msg_thread' \in Loops
    BY <1>1, LoopAtType DEF loopStarts, LoopPhase
  <2> QED
    BY <1>1, <2>1 DEF loopStarts, TypeOK, queueVars, lifetime, others, Loops
<1>2. CASE msg_queue_get(n)
  <2>1. queue # <<>> => Head(queue) \in Message /\ Tail(queue) \in Seq(Message)
    BY HeadIs DEF TypeOK
  <2>2. queue' \in Seq(Message)
    BY <1>2, <2>1 DEF msg_queue_get, TypeOK
  <2>3. msg_thread' \in Loops
    <3>1. CASE LoopAt(n, "leaving") \/ LoopAt(n, "blocked")
      BY <3>1, LoopAtType DEF LoopPhase
    <3>2. CASE queue # <<>> /\ msg_thread' = [msg_thread EXCEPT ![n] = [at |-> "holding", msg |-> Head(queue)]]
      BY <2>1, <3>2 DEF TypeOK, Loops, LoopPhase
    <3> QED
      BY <1>2, <3>1, <3>2 DEF msg_queue_get
  <2> QED
    BY <1>2, <2>2, <2>3 DEF msg_queue_get, TypeOK, lifetime, others, Loops
<1>3. CASE handle(n)
  <2> DEFINE m == msg_thread[n].msg
  <2>1. mp_state' \in State
    BY <1>3 DEF handle, NextState, TypeOK, State
  <2>2. video' \in [Prepare -> [abort : BOOLEAN, seek : BOOLEAN, ended : BOOLEAN, ready : BOOLEAN]]
    BY ZenonT(30), <1>3 DEF handle, TypeOK
  <2>3. msg_thread' \in Loops
    BY <1>3 DEF handle, LoopAt, LoopPhase, TypeOK, Loops
  <2> QED
    BY <1>3, <2>1, <2>2, <2>3 DEF handle, TypeOK, queueVars, lifetime, others, Loops
<1>4. CASE post_event(n)
  <2>1. msg_thread' \in Loops
    BY <1>4 DEF post_event, LoopAt, LoopPhase, TypeOK, Loops
  <2>2. told' \in BOOLEAN
    BY <1>4 DEF post_event, TypeOK
  <2>3. late' \in Nat
    BY <1>4 DEF post_event, TypeOK
  <2> QED
    BY <1>4, <2>1, <2>2, <2>3 DEF post_event, TypeOK, queueVars, lifetime, others, Loops
<1>5. CASE loopEnds(n)
  <2>1. DecRef /\ n \in Live
    BY <1>5 DEF loopEnds, Live
  <2>2. ref_count > 0
    BY <2>1, HasReference
  <2>3. msg_thread' \in Loops
    BY <1>5 DEF loopEnds, LoopAt, LoopPhase, TypeOK, Loops
  <2>4. joinedItself' \in BOOLEAN
    BY <1>5 DEF loopEnds, TypeOK
  <2> QED
    BY <1>5, <2>1, <2>2, <2>3, <2>4, DecRefIs DEF loopEnds, TypeOK, others, Loops
<1> QED
  BY <1>1, <1>2, <1>3, <1>4, <1>5 DEF MessageLoop

LEMMA NextTypes ==
  ASSUME TypeOK, Counted, [Next]_vars
  PROVE  TypeOK'
<1>1. CASE UNCHANGED vars
  BY <1>1 DEF vars, queueVars, threads, lifetime, others, TypeOK
<1> QED
  BY <1>1, ApplicationTypes, CallerTypes, ReadTypes, LoopTypes DEF Next

-----------------------------------------------------------------------------
(* Counting.                                                               *)

\* Which part of the application's way the references depend on.
SameApp ==
  \/ app' = app
  \/ app \in {"idle", "stopping"} /\ app' \in {"idle", "stopping"}
  \/ app \in {"surface", "shutdown", "aborting", "joining"} /\ app' \in {"shutdown", "aborting", "joining", "weak"}

LEMMA Undisturbed ==
  ASSUME Counted, SameApp, Live' = Live,
         UNCHANGED <<ref_count, freed, java, weak_thiz, caller, prepares>>,
         \A n \in Prepare : msg_thread'[n].at # "none" <=> msg_thread[n].at # "none"
  PROVE  Counted'
<1>1. ByField' = ByField /\ ByCaller' = ByCaller /\ ByApp' = ByApp
  BY DEF SameApp, ByField, ByCaller, ByApp, Releasing
<1>2. Cardinality(Live)' = Cardinality(Live)
  OBVIOUS
<1>3. java' <=> app' \in WithField
  BY DEF Counted, SameApp, WithField
<1>4. /\ app' \in {"creating", "setup", "next"} => weak_thiz' = "null"
      /\ app' \in {"idle", "stopping"} => weak_thiz' = "set"
      /\ app' \in {"surface", "shutdown", "aborting", "joining", "weak"} => weak_thiz' # "gone"
      /\ app' \in {"field", "source", "last", "done"} => weak_thiz' # "set"
      /\ app' \in {"creating", "setup"} => prepares' = 0 /\ caller' = "out"
  BY DEF Counted, SameApp
<1> QED
  BY <1>1, <1>2, <1>3, <1>4 DEF Counted

LEMMA SameLoops ==
  ASSUME msg_thread' = msg_thread
  PROVE  Live' = Live /\ \A n \in Prepare : msg_thread'[n].at # "none" <=> msg_thread[n].at # "none"
BY DEF Live

LEMMA Naturals3 == ByField \in Nat /\ ByCaller \in Nat /\ ByApp \in Nat
BY DEF ByField, ByCaller, ByApp

\* A reference given back is one somebody had.
LEMMA Freeing ==
  ASSUME TypeOK, Counted, ref_count > 0, DecRef
  PROVE  ref_count' = ref_count - 1 /\ (freed' <=> ref_count' = 0)
<1>1. ref_count \in Nat /\ ref_count' = ref_count - 1
  BY DEF TypeOK, DecRef
<1>2. ref_count # 0 /\ (ref_count' = 0 <=> ref_count = 1)
  BY <1>1
<1>3. ~freed
  BY <1>2 DEF Counted
<1>4. freed' <=> ref_count = 1
  BY <1>3 DEF DecRef
<1> QED
  BY <1>1, <1>2, <1>4

LEMMA ApplicationCounts ==
  ASSUME TypeOK, Counted, Application
  PROVE  Counted'
<1>1. CASE ijkmp_android_create
  <2>1. app = "creating" /\ UNCHANGED <<msg_thread, prepares, java, weak_thiz, caller>>
    BY <1>1 DEF ijkmp_android_create, threads, others
  <2>2. Live' = Live /\ \A n \in Prepare : msg_thread'[n].at # "none" <=> msg_thread[n].at # "none"
    BY <2>1, SameLoops
  <2>3. CASE app' = "setup" /\ UNCHANGED <<ref_count, freed, queue>>
    <3>1. ByField' = ByField /\ ByCaller' = ByCaller /\ ByApp' = ByApp
      BY <2>1, <2>3 DEF ByField, ByCaller, ByApp
    <3> QED
      BY <2>1, <2>2, <2>3, <3>1 DEF Counted, WithField
  <2>4. CASE app' = "done" /\ DecRef
    <3>1. ref_count' = ref_count - 1 /\ (freed' <=> ref_count' = 0)
      BY <2>1, <2>4, HasReference, Freeing
    <3>2. ByField' = ByField /\ ByCaller' = ByCaller /\ ByApp = 1 /\ ByApp' = 0
      BY <2>1, <2>4 DEF ByField, ByCaller, ByApp, Releasing
    <3>3. ref_count' = ByField' + ByCaller' + ByApp' + Cardinality(Live)'
      BY <2>2, <3>1, <3>2, Naturals3, LiveFinite DEF Counted
    <3> QED
      BY <2>1, <2>2, <2>4, <3>1, <3>3 DEF Counted, WithField
  <2> QED
    BY <1>1, <2>3, <2>4 DEF ijkmp_android_create
<1>2. CASE native_setup
  <2>1. app = "setup" /\ java' = TRUE /\ weak_thiz' = "set" /\ app' = "idle"
        /\ UNCHANGED <<msg_thread, prepares, ref_count, freed, caller>>
    BY <1>2 DEF native_setup, threads, others
  <2>2. Live' = Live /\ \A n \in Prepare : msg_thread'[n].at # "none" <=> msg_thread[n].at # "none"
    BY <2>1, SameLoops
  <2>3. ByField = 0 /\ ByField' = 1 /\ ByCaller' = ByCaller /\ ByApp = 1 /\ ByApp' = 0
    BY <2>1 DEF ByField, ByCaller, ByApp, Releasing, Counted, WithField
  <2>4. ref_count' = ByField' + ByCaller' + ByApp' + Cardinality(Live)'
    BY <2>1, <2>2, <2>3, Naturals3, LiveFinite DEF Counted
  <2> QED
    BY <2>1, <2>2, <2>4 DEF Counted, WithField
<1>3. CASE setDataSource \/ setDataSourceCallback
  BY <1>3, Undisturbed, SameLoops DEF setDataSource, setDataSourceCallback, threads, lifetime, others, SameApp
<1>4. CASE prepareAsync
  <2> DEFINE n == prepares + 1
  <2>1. /\ app = "idle" /\ java /\ n \in Prepare /\ prepares' = n /\ ref_count' = ref_count + 1
        /\ msg_thread' = [msg_thread EXCEPT ![n].at = "starting"]
        /\ UNCHANGED <<java, weak_thiz, freed, caller, app>>
    BY <1>4, BoundAssumption DEF prepareAsync, CanCall, others, Prepare, TypeOK
  <2>2. prepares \in Nat /\ n = prepares + 1
    BY DEF TypeOK
  <2> HIDE DEF n
  <2>3. \A k \in Prepare : k <= n <=> k <= prepares \/ k = n
    BY <2>1, <2>2 DEF Prepare
  <2>4. msg_thread[n].at = "none"
    BY <2>1, <2>2 DEF Counted, Prepare
  <2>5. \A k \in Prepare : msg_thread'[k].at = IF k = n THEN "starting" ELSE msg_thread[k].at
    BY <2>1 DEF TypeOK
  <2>6. \A k \in Prepare : msg_thread'[k].at # "none" <=> k <= prepares'
    BY <2>1, <2>3, <2>5 DEF Counted
  <2>7. n \notin Live /\ Live' = Live \cup {n}
    BY <2>1, <2>4, <2>5 DEF Live
  <2>8. Cardinality(Live)' = Cardinality(Live) + 1
    BY <2>1, <2>7, LiveGrows
  <2>9. ByField' = ByField /\ ByCaller' = ByCaller /\ ByApp' = ByApp
    BY <2>1 DEF ByField, ByCaller, ByApp
  <2>10. ref_count > 0
    BY <2>1, HasReference
  <2>11. ref_count \in Nat /\ (freed' <=> ref_count' = 0)
    BY <2>1, <2>10 DEF Counted, TypeOK
  <2>12. ref_count' = ByField' + ByCaller' + ByApp' + Cardinality(Live)'
    BY <2>1, <2>8, <2>9, <2>11, Naturals3, LiveFinite DEF Counted
  <2> QED
    BY <2>1, <2>6, <2>11, <2>12 DEF Counted
<1>5. CASE start \/ pause \/ seekTo
  <2>1. PICK what \in SUBSET Message, m \in Message : Ask(what, m)
    BY <1>5 DEF start, pause, seekTo, Message, Request
  <2>2. Woken
    BY <2>1, ReplaceWakes DEF Ask
  <2> QED
    BY <2>1, <2>2, WokenLive, Undisturbed DEF Ask, lifetime, others, SameApp
<1>6. CASE stop \/ ffp_stop_l \/ set_surface \/ stream_close
  <2>1. SameApp /\ UNCHANGED <<msg_thread, ref_count, freed, java, weak_thiz, caller, prepares>>
    BY <1>6 DEF stop, ffp_stop_l, set_surface, stream_close, CanCall, threads, lifetime, others, SameApp
  <2> QED
    BY <2>1, SameLoops, Undisturbed
<1>7. CASE stopped \/ shutdownAbort
  <2>1. SameApp /\ UNCHANGED <<ref_count, freed, java, weak_thiz, caller, prepares>>
    BY <1>7 DEF stopped, shutdownAbort, lifetime, others, SameApp
  <2>2. Woken
    BY <1>7, SignalledWakes DEF stopped, shutdownAbort, msg_queue_abort
  <2> QED
    BY <2>1, <2>2, WokenLive, Undisturbed
<1>8. CASE release \/ reset
  <2>1. /\ app = "idle" /\ java /\ app' = "surface" /\ weak_thiz' \in {weak_thiz, "null"}
        /\ ref_count' = ref_count + (IF weak_thiz' = "null" THEN 2 ELSE 1)
        /\ UNCHANGED <<msg_thread, java, freed, caller, prepares>>
    BY <1>8 DEF release, reset, CanCall, threads, others, Counted
  <2>2. Live' = Live /\ \A n \in Prepare : msg_thread'[n].at # "none" <=> msg_thread[n].at # "none"
    BY <2>1, SameLoops
  <2>3. ByField' = ByField /\ ByCaller' = ByCaller /\ ByApp = 0 /\ ByApp' = IF weak_thiz' = "null" THEN 2 ELSE 1
    BY <2>1 DEF ByField, ByCaller, ByApp, Releasing
  <2>4. ref_count > 0 /\ ref_count \in Nat
    BY <2>1, HasReference DEF TypeOK
  <2>5. freed' <=> ref_count' = 0
    BY <2>1, <2>4 DEF Counted
  <2>6. ref_count' = ByField' + ByCaller' + ByApp' + Cardinality(Live)'
    BY <2>1, <2>2, <2>3, Naturals3, LiveFinite DEF Counted
  <2>7. java' <=> app' \in WithField
    BY <2>1 DEF WithField
  <2> QED
    BY <2>1, <2>2, <2>5, <2>6, <2>7 DEF Counted
<1>9. CASE set_weak_thiz
  <2>1. /\ app = "weak" /\ app' = "field" /\ weak_thiz' = IF weak_thiz = "set" THEN "gone" ELSE "null"
        /\ UNCHANGED <<msg_thread, ref_count, java, freed, caller, prepares>>
    BY <1>9 DEF set_weak_thiz, threads, others
  <2>2. Live' = Live /\ \A n \in Prepare : msg_thread'[n].at # "none" <=> msg_thread[n].at # "none"
    BY <2>1, SameLoops
  <2>3. weak_thiz \in {"set", "null"}
    BY <2>1 DEF Counted, TypeOK
  <2>4. ByField' = ByField /\ ByCaller' = ByCaller /\ ByApp' = ByApp
    BY <2>1, <2>3 DEF ByField, ByCaller, ByApp, Releasing
  <2>5. weak_thiz' # "set" /\ java' = java /\ app' \in WithField
    BY <2>1 DEF WithField
  <2> QED
    BY <2>1, <2>2, <2>4, <2>5 DEF Counted, WithField
<1>10. CASE jni_set_media_player
  <2>1. /\ app = "field" /\ app' = "source" /\ java' = FALSE /\ DecRef
        /\ UNCHANGED <<msg_thread, weak_thiz, caller, prepares>>
    BY <1>10 DEF jni_set_media_player, threads, others
  <2>2. Live' = Live /\ \A n \in Prepare : msg_thread'[n].at # "none" <=> msg_thread[n].at # "none"
    BY <2>1, SameLoops
  <2>3. ref_count' = ref_count - 1 /\ (freed' <=> ref_count' = 0)
    BY <2>1, HasReference, Freeing DEF Releasing
  <2>4. ByField = 1 /\ ByField' = 0 /\ ByCaller' = ByCaller /\ ByApp' = ByApp
    BY <2>1 DEF ByField, ByCaller, ByApp, Releasing, Counted, WithField
  <2>5. ref_count' = ByField' + ByCaller' + ByApp' + Cardinality(Live)'
    BY <2>2, <2>3, <2>4, Naturals3, LiveFinite DEF Counted
  <2> QED
    BY <2>1, <2>2, <2>3, <2>5 DEF Counted, WithField
<1>11. CASE jni_set_media_data_source
  <2>1. /\ app = "source" /\ app' = "last"
        /\ UNCHANGED <<msg_thread, ref_count, java, weak_thiz, freed, caller, prepares>>
    BY <1>11 DEF jni_set_media_data_source, threads, others
  <2>2. Live' = Live /\ \A n \in Prepare : msg_thread'[n].at # "none" <=> msg_thread[n].at # "none"
    BY <2>1, SameLoops
  <2> QED
    BY <2>1, <2>2 DEF Counted, ByField, ByCaller, ByApp, Releasing, WithField
<1>12. CASE dropReference
  <2>1. /\ app \in {"last", "next"} /\ DecRef
        /\ app' = IF app = "last" /\ weak_thiz = "null" THEN "next" ELSE "done"
        /\ UNCHANGED <<msg_thread, java, weak_thiz, caller, prepares>>
    BY <1>12 DEF dropReference, threads, others
  <2>2. Live' = Live /\ \A n \in Prepare : msg_thread'[n].at # "none" <=> msg_thread[n].at # "none"
    BY <2>1, SameLoops
  <2>3. ref_count' = ref_count - 1 /\ (freed' <=> ref_count' = 0)
    BY <2>1, HasReference, Freeing DEF Releasing
  <2>4. ByField' = ByField /\ ByCaller' = ByCaller
    BY <2>1 DEF ByField, ByCaller
  <2>5. ByApp = ByApp' + 1 /\ ByApp' \in Nat
    BY <2>1 DEF ByApp, Releasing
  <2>6. ref_count' = ByField' + ByCaller' + ByApp' + Cardinality(Live)'
    BY <2>2, <2>3, <2>4, <2>5, Naturals3, LiveFinite DEF Counted
  <2> QED
    BY <2>1, <2>2, <2>3, <2>6 DEF Counted, WithField
<1> QED
  BY <1>1, <1>2, <1>3, <1>4, <1>5, <1>6, <1>7, <1>8, <1>9, <1>10, <1>11, <1>12 DEF Application, Release

LEMMA CallerCounts ==
  ASSUME TypeOK, Counted, Caller
  PROVE  Counted'
<1>1. UNCHANGED <<msg_thread, prepares, java, weak_thiz, app>>
  BY DEF Caller, jni_get_media_player, look, configure, ask, answer, CallerOnly, threads
<1>2. Live' = Live /\ \A n \in Prepare : msg_thread'[n].at # "none" <=> msg_thread[n].at # "none"
  BY <1>1, SameLoops
<1>3. ByField' = ByField /\ ByApp' = ByApp
  BY <1>1 DEF ByField, ByApp
<1>4. CASE jni_get_media_player
  <2>1. java /\ caller = "out" /\ caller' = "in" /\ ref_count' = ref_count + 1 /\ freed' = freed
    BY <1>4 DEF jni_get_media_player
  <2>2. ref_count > 0 /\ ref_count \in Nat
    BY <2>1, HasReference DEF TypeOK
  <2>3. freed' <=> ref_count' = 0
    BY <2>1, <2>2 DEF Counted
  <2>4. ref_count' = ByField' + ByCaller' + ByApp' + Cardinality(Live)'
    BY <1>2, <1>3, <2>1, Naturals3, LiveFinite DEF Counted, ByCaller
  <2>5. app' \notin {"creating", "setup"}
    BY <1>1, <2>1 DEF Counted, WithField
  <2> QED
    BY <1>1, <1>2, <2>3, <2>4, <2>5 DEF Counted
<1>5. CASE ask
  <2>1. UNCHANGED <<ref_count, freed>> /\ caller = "in" /\ caller' = "asking"
    BY <1>5 DEF ask
  <2> QED
    BY <1>1, <1>2, <1>3, <2>1 DEF Counted, ByCaller
<1>6. CASE look \/ configure \/ answer
  <2>1. DecRef /\ caller # "out" /\ caller' = "out"
    BY <1>6 DEF look, configure, answer
  <2>2. ref_count' = ref_count - 1 /\ (freed' <=> ref_count' = 0)
    BY <2>1, HasReference, Freeing
  <2>3. ref_count' = ByField' + ByCaller' + ByApp' + Cardinality(Live)'
    BY <1>2, <1>3, <2>1, <2>2, Naturals3, LiveFinite DEF Counted, ByCaller
  <2> QED
    BY <1>1, <1>2, <2>1, <2>2, <2>3 DEF Counted
<1> QED
  BY <1>4, <1>5, <1>6 DEF Caller

LEMMA LoopCounts ==
  ASSUME TypeOK, Counted, NEW n \in Prepare, MessageLoop(n)
  PROVE  Counted'
<1>1. msg_thread[n].at \notin {"none", "done"}
  BY DEF MessageLoop, loopStarts, msg_queue_get, handle, post_event, loopEnds
<1>2. CASE loopStarts(n) \/ msg_queue_get(n) \/ handle(n) \/ post_event(n)
  <2>1. SameApp /\ UNCHANGED <<ref_count, freed, java, weak_thiz, caller, prepares>>
    BY <1>2 DEF loopStarts, msg_queue_get, handle, post_event, lifetime, others, SameApp
  <2>2. Live' = Live /\ \A k \in Prepare : msg_thread'[k].at # "none" <=> msg_thread[k].at # "none"
    <3>1. CASE \E p \in LoopPhase \ {"none", "done"} : LoopAt(n, p)
      BY <1>1, <3>1, LoopAtMoves
    <3>2. CASE queue # <<>> /\ msg_thread' = [msg_thread EXCEPT ![n] = [at |-> "holding", msg |-> Head(queue)]]
      <4>1. Head(queue) \in Message
        BY <3>2, HeadIs DEF TypeOK
      <4>2. "holding" \in LoopPhase \ {"none"}
        BY DEF LoopPhase
      <4>3. /\ \A k \in Prepare : msg_thread'[k].at # "none" <=> msg_thread[k].at # "none"
            /\ Live' = IF "holding" = "done" THEN Live \ {n} ELSE Live
        BY <1>1, <3>2, <4>1, <4>2, LoopMoves
      <4> QED
        BY <4>3
    <3> QED
      BY <1>2, <3>1, <3>2 DEF loopStarts, msg_queue_get, handle, post_event, LoopPhase
  <2> QED
    BY <2>1, <2>2, Undisturbed
<1>3. CASE loopEnds(n)
  <2>1. /\ DecRef /\ LoopAt(n, "done") /\ n \in Live
        /\ UNCHANGED <<java, weak_thiz, caller, prepares, app>>
    BY <1>3 DEF loopEnds, Live, others
  <2>2. Live' = Live \ {n} /\ \A k \in Prepare : msg_thread'[k].at # "none" <=> msg_thread[k].at # "none"
    BY <1>1, <2>1, LoopAtMoves DEF LoopPhase
  <2>3. Cardinality(Live)' = Cardinality(Live) - 1
    BY <2>1, <2>2, LiveShrinks
  <2>4. ref_count' = ref_count - 1 /\ (freed' <=> ref_count' = 0)
    BY <2>1, HasReference, Freeing
  <2>5. ByField' = ByField /\ ByCaller' = ByCaller /\ ByApp' = ByApp
    BY <2>1 DEF ByField, ByCaller, ByApp
  <2>6. ref_count' = ByField' + ByCaller' + ByApp' + Cardinality(Live)'
    BY <2>3, <2>4, <2>5, Naturals3, LiveFinite DEF Counted
  <2> QED
    BY <2>1, <2>2, <2>4, <2>6 DEF Counted
<1> QED
  BY <1>2, <1>3 DEF MessageLoop

LEMMA NextCounts ==
  ASSUME TypeOK, Counted, [Next]_vars
  PROVE  Counted'
<1>1. CASE UNCHANGED vars
  BY <1>1, SameLoops, Undisturbed DEF vars, threads, lifetime, others, SameApp
<1>2. ASSUME NEW n \in Prepare, ReadThread(n) PROVE Counted'
  <2>1. SameApp /\ UNCHANGED <<ref_count, freed, java, weak_thiz, caller, prepares>>
    BY <1>2 DEF ReadThread, readStarts, opened, openFailed, streamEnds, seekDone, readEnds, lifetime, others, SameApp
  <2>2. CASE \E m \in Message : Put(m)
    BY <2>1, <2>2, PutWakes, WokenLive, Undisturbed
  <2>3. CASE msg_thread' = msg_thread
    BY <2>1, <2>3, SameLoops, Undisturbed
  <2> QED
    BY <1>2, <2>2, <2>3 DEF ReadThread, readStarts, opened, openFailed, streamEnds, seekDone, readEnds, Message
<1> QED
  BY <1>1, <1>2, ApplicationCounts, CallerCounts, LoopCounts DEF Next

(* Every variable keeps its type; in particular no reference is given back *)
(* that nobody had (ijkmp_dec_ref).                                        *)
THEOREM TypeCorrect == Spec => [](TypeOK /\ Counted)
<1>1. Init => TypeOK
  <2> SUFFICES ASSUME Init PROVE TypeOK
    OBVIOUS
  <2>1. msg_thread \in [Prepare -> [at : LoopPhase, msg : Message]]
    BY DEF Init, LoopPhase, Message
  <2>2. is \in 0 .. MaxPrepares /\ prepares \in 0 .. MaxPrepares /\ calls \in 0 .. MaxCalls
        /\ asked \in 0 .. MaxPrepares
    BY BoundAssumption DEF Init
  <2>3. read_tid \in Readers
    BY BoundAssumption DEF Init, Readers
  <2>4. video \in Videos
    BY DEF Init, Videos
  <2>5. queue \in Seq(Message) /\ mp_state \in State
    BY DEF Init, State
  <2>6. abort_request \in BOOLEAN /\ prepared \in BOOLEAN /\ java \in BOOLEAN /\ freed \in BOOLEAN
        /\ joinedItself \in BOOLEAN /\ told \in BOOLEAN
    BY DEF Init
  <2>7. ref_count \in Nat /\ late \in Nat
    BY DEF Init
  <2>8. weak_thiz = "null" /\ source = "none" /\ caller = "out" /\ app = "creating"
    BY DEF Init
  <2> QED
    BY <2>1, <2>2, <2>3, <2>4, <2>5, <2>6, <2>7, <2>8 DEF TypeOK, Readers, Videos
<1>2. Init => Counted
  <2> SUFFICES ASSUME Init PROVE Counted
    OBVIOUS
  <2>1. Live = {} /\ Cardinality({}) = 0
    BY FS_EmptySet DEF Init, Live
  <2>2. ByField = 0 /\ ByCaller = 0 /\ ByApp = 1
    BY DEF Init, ByField, ByCaller, ByApp
  <2>3. \A n \in Prepare : msg_thread[n].at = "none" /\ ~(n <= prepares)
    BY DEF Init, Prepare
  <2> QED
    BY <2>1, <2>2, <2>3 DEF Init, Counted, WithField
<1>3. TypeOK /\ Counted /\ [Next]_vars => TypeOK' /\ Counted'
  BY NextTypes, NextCounts
<1> QED
  BY <1>1, <1>2, <1>3, PTL DEF Spec

(* The half of HeldWhileUsed that needs no promise of the application:     *)
(* whatever it calls, and however often it prepares, nobody who can still  *)
(* reach the player finds it destroyed (ijkmp_inc_ref, ijkmp_dec_ref).     *)
NotFreedInUse ==
  freed => /\ ~java /\ app = "done" /\ caller = "out"
           /\ \A n \in Prepare : msg_thread[n].at \in {"none", "done"}

LEMMA CountedHolds == ASSUME TypeOK, Counted PROVE NotFreedInUse
<1> SUFFICES ASSUME freed PROVE /\ ~java /\ app = "done" /\ caller = "out" /\ Live = {}
  BY DEF NotFreedInUse, Live
<1>1. ~(ref_count > 0)
  BY DEF Counted
<1>2. ~java /\ caller = "out" /\ Live = {} /\ app \notin {"creating", "setup", "next"} \cup Releasing
  BY <1>1, HasReference
<1>3. app = "done"
  BY <1>2 DEF Counted, WithField, TypeOK, Releasing
<1> QED
  BY <1>2, <1>3

(* The player is destroyed only when the application's thread, the second  *)
(* Java thread and every message loop have given it up, whatever the       *)
(* application calls (ijkmp_dec_ref_p).                                    *)
THEOREM NotFreed == Spec => []NotFreedInUse
<1>1. TypeOK /\ Counted => NotFreedInUse
  BY CountedHolds
<1> QED
  BY <1>1, TypeCorrect, PTL

-----------------------------------------------------------------------------
(* A player that is not prepared again has one read thread, and ffp->is    *)
(* names the VideoState it works on for as long as it runs.                *)

Reading(n) == read_tid[n].at \in {"starting", "opening", "playing"}

Single ==
  /\ prepares <= 1
  /\ prepares # 0 => mp_state \notin {"IDLE", "INITIALIZED"}
  /\ prepares = 0 => is = 0
  /\ \A n \in Prepare : read_tid[n].at # "none" => n <= prepares
  /\ \A n \in Prepare : Reading(n) => is = n
  /\ app \in {"weak", "field", "source", "last", "next", "done"} => is = 0

LEMMA NextSingle ==
  ASSUME ~CallAfterStop, TypeOK, Counted, Single, [Next]_vars
  PROVE  Single'
<1>1. CASE prepareAsync
  <2>1. prepares = 0 /\ app = "idle" /\ app' = app
    BY <1>1 DEF prepareAsync, MayPrepare, CanCall, Single
  <2>2. is = 0 /\ prepares' = 1 /\ mp_state' \in {"ASYNC_PREPARING", "ERROR"}
    BY <1>1, <2>1 DEF prepareAsync, Single
  <2>3. \A n \in Prepare : read_tid[n].at = "none"
    BY <2>1 DEF Single, Prepare
  <2>4. CASE is' = 1 /\ read_tid' = [read_tid EXCEPT ![1].at = "starting"]
    <3>1. \A n \in Prepare : n # 1 => read_tid'[n].at = "none"
      BY <2>3, <2>4 DEF TypeOK
    <3> QED
      BY <2>1, <2>2, <2>4, <3>1 DEF Single, Reading
  <2>5. CASE UNCHANGED <<is, read_tid>>
    BY <2>1, <2>2, <2>3, <2>5 DEF Single, Reading
  <2> QED
    BY <1>1, <2>1, <2>4, <2>5 DEF prepareAsync
<1>2. CASE stream_close
  <2>1. app = "joining" /\ read_tid[is].at = "done" /\ is' = 0 /\ app' = "weak"
        /\ UNCHANGED <<prepares, mp_state, read_tid>>
    BY <1>2 DEF stream_close, threads, lifetime
  <2>2. \A n \in Prepare : ~Reading(n)
    BY <2>1 DEF Single, Reading
  <2> QED
    BY <2>1, <2>2 DEF Single, Reading
<1>3. CASE shutdownAbort
  <2>1. app' = (IF is = 0 THEN "weak" ELSE "joining") /\ UNCHANGED <<is, prepares, mp_state, read_tid>>
    BY <1>3 DEF shutdownAbort, lifetime
  <2> QED
    BY <2>1 DEF Single, Reading
<1>4. ASSUME NEW n \in Prepare, ReadThread(n) PROVE Single'
  <2>1. UNCHANGED <<is, app, prepares, mp_state>>
    BY <1>4 DEF ReadThread, readStarts, opened, openFailed, streamEnds, seekDone, readEnds, lifetime
  <2>2. Reading(n)
    BY <1>4 DEF ReadThread, readStarts, opened, openFailed, streamEnds, seekDone, readEnds, Reading
  <2>3. \A k \in Prepare : k # n => read_tid'[k] = read_tid[k]
    BY <1>4 DEF ReadThread, readStarts, opened, openFailed, streamEnds, seekDone, readEnds, ReadAt, TypeOK
  <2>4. n <= prepares /\ is = n
    BY <2>2 DEF Single, Reading
  <2> QED
    BY <2>1, <2>3, <2>4 DEF Single, Reading
<1>5. ASSUME NEW n \in Prepare, MessageLoop(n) PROVE Single'
  <2>1. UNCHANGED <<is, app, prepares, read_tid>>
    BY <1>5 DEF MessageLoop, loopStarts, msg_queue_get, handle, post_event, loopEnds, lifetime, others
  <2>2. mp_state \notin {"IDLE", "INITIALIZED"} => mp_state' \notin {"IDLE", "INITIALIZED"}
    BY <1>5 DEF MessageLoop, loopStarts, msg_queue_get, handle, post_event, loopEnds, NextState
  <2> QED
    BY <2>1, <2>2 DEF Single, Reading
<1>6. CASE setDataSource \/ setDataSourceCallback
  <2>1. UNCHANGED <<is, app, prepares, read_tid>> /\ (mp_state' = mp_state \/ mp_state = "IDLE")
    BY <1>6 DEF setDataSource, setDataSourceCallback, threads, lifetime
  <2> QED
    BY <2>1 DEF Single, Reading
<1>7. CASE \/ UNCHANGED vars \/ Caller \/ native_setup \/ start \/ pause \/ seekTo \/ stop
           \/ stopped \/ release \/ reset \/ set_surface \/ ffp_stop_l
  <2>1. /\ UNCHANGED <<is, prepares, read_tid>> /\ mp_state' \in {mp_state, "STOPPED"}
        /\ app' = app \/ app' \in {"idle", "stopping", "surface", "shutdown", "aborting"}
    BY <1>7 DEF vars, lifetime, threads, Caller, jni_get_media_player, look, configure, ask, answer, CallerOnly,
       native_setup, start, pause, seekTo, Ask, stop, stopped, release, reset, set_surface, ffp_stop_l
  <2> QED
    BY <2>1 DEF Single, Reading
<1>8. CASE \/ ijkmp_android_create \/ set_weak_thiz \/ jni_set_media_player
           \/ jni_set_media_data_source \/ dropReference
  <2>1. /\ UNCHANGED <<is, prepares, read_tid, mp_state>>
        /\ app \in {"creating", "weak", "field", "source", "last", "next"}
    BY <1>8 DEF ijkmp_android_create, set_weak_thiz, jni_set_media_player, jni_set_media_data_source,
       dropReference, threads, lifetime
  <2>2. is = 0
    BY <2>1 DEF Single, Counted
  <2> QED
    BY <2>1, <2>2 DEF Single, Reading
<1> QED
  BY <1>1, <1>2, <1>3, <1>4, <1>5, <1>6, <1>7, <1>8 DEF Next, Application, Release

\* The data source is closed when nothing reads any more.
SourceKept == source = "closed" => app \in {"last", "next", "done"}

LEMMA NextSource ==
  ASSUME ~SetSourceAgain, TypeOK, SourceKept, [Next]_vars
  PROVE  SourceKept'
<1>1. CASE setDataSourceCallback
  BY <1>1 DEF setDataSourceCallback, SourceKept
<1>2. CASE jni_set_media_data_source
  BY <1>2 DEF jni_set_media_data_source, SourceKept
<1>3. CASE dropReference
  BY <1>3 DEF dropReference, SourceKept
<1>4. CASE source' = source /\ (app' = app \/ app \notin {"last", "next", "done"})
  BY <1>4 DEF SourceKept
<1> QED
  BY <1>1, <1>2, <1>3, <1>4 DEF Next, Application, Release, ijkmp_android_create, native_setup, setDataSource,
     prepareAsync, CanCall, start, pause, seekTo, Ask, stop, stopped, release, reset, set_surface, ffp_stop_l,
     shutdownAbort, stream_close, set_weak_thiz, jni_set_media_player,
     Caller, jni_get_media_player, look, configure, ask, answer, CallerOnly,
     ReadThread, readStarts, opened, openFailed, streamEnds, seekDone, readEnds,
     MessageLoop, loopStarts, msg_queue_get, handle, post_event, loopEnds, vars, lifetime

(* An application that neither prepares a stopped player again nor sets a  *)
(* source where none is taken: while anybody can reach the player it is    *)
(* not destroyed, and while its read thread may call Java back the weak    *)
(* reference and the media data source are there (ijkmp_dec_ref, the order *)
(* of IjkMediaPlayer_release).                                             *)
THEOREM Held ==
  ASSUME ~CallAfterStop, ~SetSourceAgain
  PROVE  Spec => []HeldWhileUsed
<1>1. Init => Single /\ SourceKept
  BY DEF Init, Single, Reading, SourceKept
<1>2. TypeOK /\ Counted /\ Single /\ SourceKept /\ [Next]_vars => Single' /\ SourceKept'
  BY NextSingle, NextSource
<1>3. TypeOK /\ Counted /\ Single /\ SourceKept => HeldWhileUsed
  <2> SUFFICES ASSUME TypeOK, Counted, Single, SourceKept PROVE HeldWhileUsed
    OBVIOUS
  <2>1. weak_thiz = "gone" => app \in {"field", "source", "last", "done"}
    BY DEF TypeOK, Counted
  <2>2. ASSUME NEW n \in Prepare, CallsJava(n) PROVE is # 0
    BY <2>2 DEF Single, Reading, CallsJava, Prepare
  <2>3. is # 0 => weak_thiz # "gone" /\ source # "closed"
    BY <2>1 DEF Single, SourceKept
  <2> QED
    BY <2>2, <2>3, CountedHolds DEF HeldWhileUsed, NotFreedInUse
<1> QED
  BY <1>1, <1>2, <1>3, TypeCorrect, PTL DEF Spec

-----------------------------------------------------------------------------
\* One late message, and then none is on its way any more.
Late ==
  /\ late <= 1
  /\ late > 0 => abort_request /\ \A n \in Prepare : msg_thread[n].at \notin {"holding", "posting"}

LEMMA LateKept ==
  ASSUME Late, late' = late, abort_request => abort_request',
         abort_request => \A n \in Prepare : msg_thread'[n].at \in {"holding", "posting"}
                                              => msg_thread[n].at \in {"holding", "posting"}
  PROVE  Late'
BY DEF Late

LEMMA NextLate ==
  ASSUME TypeOK, Counted, Single, Late, [Next]_vars
  PROVE  Late'
<1>1. CASE prepareAsync
  BY <1>1 DEF prepareAsync, Late
<1>2. ASSUME NEW n \in Prepare, post_event(n) PROVE Late'
  <2>1. msg_thread[n].at = "posting" /\ abort_request' = abort_request
        /\ late' = (IF abort_request THEN late + 1 ELSE late) /\ LoopAt(n, "getting")
    BY <1>2 DEF post_event, queueVars
  <2>2. late = 0
    BY <1>2, <2>1 DEF Late, TypeOK
  <2>3. \A k \in Prepare : k # n => msg_thread[k].at = "none"
    BY <2>1 DEF Counted, Single, TypeOK, Prepare
  <2>4. \A k \in Prepare : msg_thread'[k].at \notin {"holding", "posting"}
    BY <2>1, <2>3 DEF LoopAt, TypeOK
  <2> QED
    BY <2>1, <2>2, <2>4 DEF Late
<1>3. ASSUME NEW n \in Prepare, MessageLoop(n), ~post_event(n) PROVE Late'
  <2>1. UNCHANGED <<late, abort_request>>
    BY <1>3 DEF MessageLoop, loopStarts, msg_queue_get, handle, loopEnds, queueVars
  <2>2. abort_request => \E p \in LoopPhase : LoopAt(n, p)
                           /\ (p = "posting" => msg_thread[n].at = "holding") /\ p # "holding"
    BY <1>3 DEF MessageLoop, loopStarts, msg_queue_get, handle, loopEnds, LoopPhase
  <2>3. abort_request => \A k \in Prepare : msg_thread'[k].at \in {"holding", "posting"}
                                             => msg_thread[k].at \in {"holding", "posting"}
    <3> SUFFICES ASSUME abort_request, NEW k \in Prepare, msg_thread'[k].at \in {"holding", "posting"}
                 PROVE  msg_thread[k].at \in {"holding", "posting"}
      OBVIOUS
    <3>1. PICK p \in LoopPhase : LoopAt(n, p) /\ (p = "posting" => msg_thread[n].at = "holding") /\ p # "holding"
      BY <2>2
    <3>2. msg_thread \in Loops
      BY DEF TypeOK, Loops
    <3>3. msg_thread' = [msg_thread EXCEPT ![n].at = p]
      BY <3>1 DEF LoopAt
    <3>4. CASE k = n
      <4>1. msg_thread'[k].at = p
        BY <3>2, <3>3, <3>4 DEF Loops
      <4> QED
        BY <3>1, <3>4, <4>1
    <3>5. CASE k # n
      <4>1. msg_thread'[k] = msg_thread[k]
        BY <3>2, <3>3, <3>5 DEF Loops
      <4> QED
        BY <4>1
    <3> QED
      BY <3>4, <3>5
  <2> QED
    BY <2>1, <2>3, LateKept
<1>4. CASE Woken /\ late' = late /\ (abort_request => abort_request')
  <2>1. \A n \in Prepare : msg_thread'[n].at \in {"holding", "posting"}
                            => msg_thread[n].at \in {"holding", "posting"}
    BY <1>4 DEF Woken, TypeOK
  <2> QED
    BY <1>4, <2>1, LateKept
<1>5. CASE msg_thread' = msg_thread /\ late' = late /\ (abort_request => abort_request')
  BY <1>5, LateKept
<1>6. ASSUME NEW n \in Prepare, ReadThread(n) PROVE Late'
  <2>1. UNCHANGED <<late, abort_request>>
    BY <1>6 DEF ReadThread, readStarts, opened, openFailed, streamEnds, seekDone, readEnds, queueVars
  <2>2. msg_thread' = msg_thread \/ \E m \in Message : Put(m)
    BY <1>6 DEF ReadThread, readStarts, opened, openFailed, streamEnds, seekDone, readEnds, Message
  <2> QED
    BY <2>1, <2>2, <1>4, <1>5, PutWakes
<1>7. CASE start \/ pause \/ seekTo
  <2>1. PICK what \in SUBSET Message, m \in Message : Ask(what, m)
    BY <1>7 DEF start, pause, seekTo, Message, Request
  <2> QED
    BY <2>1, <1>4, ReplaceWakes DEF Ask
<1>8. CASE stopped \/ shutdownAbort
  BY <1>8, <1>4, SignalledWakes DEF stopped, shutdownAbort, msg_queue_abort
<1>9. CASE \/ UNCHANGED vars \/ Caller \/ ijkmp_android_create \/ native_setup \/ setDataSource
           \/ setDataSourceCallback \/ stop \/ release \/ reset \/ set_surface \/ ffp_stop_l \/ stream_close
           \/ set_weak_thiz \/ jni_set_media_player \/ jni_set_media_data_source \/ dropReference
  <2>1. UNCHANGED <<msg_thread, late, abort_request>>
    BY <1>9 DEF vars, queueVars, threads, Caller, jni_get_media_player, look, configure, ask, answer, CallerOnly,
       ijkmp_android_create, native_setup, setDataSource, setDataSourceCallback, stop, release, reset,
       set_surface, ffp_stop_l, stream_close, set_weak_thiz, jni_set_media_player,
       jni_set_media_data_source, dropReference
  <2> QED
    BY <2>1, <1>5
<1> QED
  BY <1>1, <1>2, <1>3, <1>6, <1>7, <1>8, <1>9 DEF Next, Application, Release, MessageLoop

(* An application that does not prepare a stopped player again hears of at *)
(* most one message after the stop or the release (msg_queue_abort).       *)
THEOREM OneLate ==
  ASSUME ~CallAfterStop
  PROVE  Spec => []AtMostOneLate
<1>1. Init => Single /\ Late
  BY DEF Init, Single, Reading, Late
<1>2. TypeOK /\ Counted /\ Single /\ Late /\ [Next]_vars => Single' /\ Late'
  BY NextSingle, NextLate
<1>3. Late => AtMostOneLate
  BY DEF Late, AtMostOneLate
<1> QED
  BY <1>1, <1>2, <1>3, TypeCorrect, PTL DEF Spec
=============================================================================
