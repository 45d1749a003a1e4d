------------------------------- MODULE Player -------------------------------
(***************************************************************************)
(* The life of one native player: the calls of the application thread, the *)
(* message queue, the message loop and the read thread of every            *)
(* prepareAsync, a second Java thread that asks and configures, and the    *)
(* reference count that decides when the player is destroyed.  The flags   *)
(* of playback itself are the subject of Playback; messages that only      *)
(* inform Java are left out, and so is what a setting changes or a         *)
(* question answers: which lock the call takes, and what it still uses     *)
(* after others went on, is kept.  The options are the defaults, which the *)
(* application keeps: start_on_prepared = 1.                               *)
(***************************************************************************)
EXTENDS Naturals, Sequences, FiniteSets

CONSTANTS
  MaxPrepares,  \* how often prepareAsync succeeds in starting a message loop
  MaxCalls,     \* how often the application calls start, pause or seekTo
  CallAfterStop,  \* may the application prepare again after a stop?
  SetSourceAgain  \* may it set a data source in a state that refuses one?

ASSUME BoundAssumption == MaxPrepares \in Nat \ {0} /\ MaxCalls \in Nat
ASSUME CallAssumption == CallAfterStop \in BOOLEAN /\ SetSourceAgain \in BOOLEAN

VARIABLES
  mp_state,
  queue, abort_request,    \* ffp->msg_queue
  is,                      \* ffp->is: the number of a VideoState, 0 is NULL
  video,                   \* VideoState -> its flags
  prepared,                \* ffp->prepared
  read_tid,                \* VideoState -> its read thread
  msg_thread,              \* prepare -> its message loop
  prepares,                \* how many message loops were started
  ref_count,
  java,                    \* does mNativeMediaPlayer name this player?
  weak_thiz,               \* mp->weak_thiz, "gone" when its global reference is deleted
  source,                  \* mNativeMediaDataSource: none, the one being played, or closed
  caller,                  \* what the second Java thread is doing
  asked,                   \* the VideoState it read from ffp->is
  app,                     \* what the application thread is doing
  freed, joinedItself,
  told,                    \* was Java told that the preparation succeeded or failed?
  late,                    \* posts since the queue was aborted
  calls

queueVars == <<queue, abort_request>>
threads   == <<read_tid, msg_thread>>
others    == <<caller, asked>>
lifetime  == <<prepares, ref_count, java, weak_thiz, source, freed, joinedItself, others>>
vars == <<mp_state, queueVars, is, video, prepared, threads, lifetime, app, told, late, calls>>

Prepare == 1 .. MaxPrepares
State == {"IDLE", "INITIALIZED", "ASYNC_PREPARING", "PREPARED", "STARTED", "PAUSED",
          "COMPLETED", "STOPPED", "ERROR"}
Request == {"REQ_START", "REQ_PAUSE", "REQ_SEEK"}
Message == Request \cup {"PREPARED", "COMPLETED", "SEEK_COMPLETE", "ERROR"}
LoopPhase == {"none", "starting", "getting", "blocked", "holding", "posting", "leaving", "done"}

TypeOK ==
  /\ mp_state \in State /\ queue \in Seq(Message) /\ abort_request \in BOOLEAN
  /\ is \in 0 .. MaxPrepares /\ prepares \in 0 .. MaxPrepares
  /\ video \in [Prepare -> [abort : BOOLEAN, seek : BOOLEAN, ended : BOOLEAN, ready : BOOLEAN]]
  /\ read_tid \in [Prepare -> [at : {"none", "starting", "opening", "playing", "done"},
                               is : 0 .. MaxPrepares]]
  /\ msg_thread \in [Prepare -> [at : LoopPhase, msg : Message]]
  /\ ref_count \in Nat /\ java \in BOOLEAN /\ prepared \in BOOLEAN
  /\ weak_thiz \in {"null", "set", "gone"} /\ source \in {"none", "open", "closed"}
  /\ caller \in {"out", "in", "asking"} /\ asked \in 0 .. MaxPrepares
  /\ app \in {"creating", "setup", "idle", "stopping", "surface", "shutdown", "aborting", "joining",
               "weak", "field", "source", "last", "next", "done"}
  /\ freed \in BOOLEAN /\ joinedItself \in BOOLEAN
  /\ told \in BOOLEAN /\ late \in Nat /\ calls \in 0 .. MaxCalls

Init ==
  /\ mp_state = "IDLE" /\ queue = <<>> /\ abort_request = TRUE
  /\ is = 0 /\ prepared = FALSE /\ prepares = 0
  /\ video = [n \in Prepare |-> [abort |-> FALSE, seek |-> FALSE, ended |-> FALSE, ready |-> FALSE]]
  /\ read_tid = [n \in Prepare |-> [at |-> "none", is |-> 0]]
  /\ msg_thread = [n \in Prepare |-> [at |-> "none", msg |-> "ERROR"]]
  /\ ref_count = 1 /\ java = FALSE /\ weak_thiz = "null" /\ source = "none" /\ app = "creating"
  /\ caller = "out" /\ asked = 0
  /\ freed = FALSE /\ joinedItself = FALSE
  /\ told = FALSE /\ late = 0 /\ calls = 0

(***************************************************************************)
(* The message queue.  Putting signals one waiter, and so does aborting.   *)
(***************************************************************************)
Blocked == {n \in Prepare : msg_thread[n].at = "blocked"}

Signalled(threadsNow) ==
  IF Blocked = {} THEN {threadsNow}
  ELSE {[threadsNow EXCEPT ![n].at = "getting"] : n \in Blocked}

\* msg_queue_remove: the one sequence that is left, the others in their order.
Without(what) ==
  LET kept == {i \in DOMAIN queue : queue[i] \notin what}
      inOrder == {w \in [1 .. Cardinality(kept) -> kept] : \A i, j \in DOMAIN w : i < j => w[i] < w[j]}
  IN  {[i \in DOMAIN w |-> queue[w[i]]] : w \in inOrder}

\* msg_queue_put: nothing is put once the queue is aborted.
Put(m) ==
  IF abort_request THEN UNCHANGED <<queue, msg_thread>>
  ELSE queue' = Append(queue, m) /\ msg_thread' \in Signalled(msg_thread)

\* msg_queue_remove of "what", then msg_queue_put of m.
Replace(what, m) ==
  IF abort_request THEN UNCHANGED <<queue, msg_thread>>
  ELSE /\ \E q \in Without(what) : queue' = Append(q, m)
       /\ msg_thread' \in Signalled(msg_thread)
-----------------------------------------------------------------------------
(***************************************************************************)
(* The application thread.  Its calls hold mp->mutex, except for release.  *)
(***************************************************************************)
\* ijkmp_dec_ref: whoever drops the last reference destroys the player, its queue included.
DecRef ==
  /\ ref_count' = ref_count - 1
  /\ freed' = (freed \/ ref_count = 1)
  /\ queue' = IF ref_count = 1 THEN <<>> ELSE queue

\* The video output and the pipeline are made, or not, and then nothing is left of the player.
ijkmp_android_create ==
  /\ app = "creating"
  /\ \/ app' = "setup" /\ UNCHANGED <<ref_count, freed, queue>>
     \/ app' = "done" /\ DecRef
  /\ UNCHANGED <<mp_state, abort_request, is, video, prepared, threads, prepares, java, weak_thiz,
                 source, joinedItself, others, told, late, calls>>

\* The Java field takes a reference of its own before the creator drops the first one.
native_setup ==
  /\ app = "setup"
  /\ java' = TRUE /\ weak_thiz' = "set"
  /\ app' = "idle"
  /\ UNCHANGED <<mp_state, queueVars, is, video, prepared, threads, prepares, ref_count, source,
                 freed, joinedItself, others, told, late, calls>>

CanCall == app = "idle" /\ java

\* mp->mutex is held by a stop under way, or by the other thread's question.
MutexFree == app # "stopping" /\ caller # "asking"

setDataSource ==
  /\ CanCall /\ MutexFree /\ mp_state = "IDLE"
  /\ mp_state' = "INITIALIZED"
  /\ UNCHANGED <<queueVars, is, video, prepared, threads, lifetime, app, told, late, calls>>

\* The old media data source is closed before ijkmp_set_data_source looks at the state.
setDataSourceCallback ==
  /\ CanCall /\ MutexFree /\ (mp_state = "IDLE" \/ SetSourceAgain)
  /\ source' = IF mp_state = "IDLE" THEN "open" ELSE IF source = "open" THEN "closed" ELSE source
  /\ mp_state' = IF mp_state = "IDLE" THEN "INITIALIZED" ELSE mp_state
  /\ UNCHANGED <<queueVars, is, video, prepared, threads, prepares, ref_count, java, weak_thiz,
                 freed, joinedItself, others, app, told, late, calls>>

(* The queue is started with whatever an earlier preparation left in it;   *)
(* the assertion that ffp->is is NULL is compiled out of the build.        *)
MayPrepare == mp_state \in {"INITIALIZED", "STOPPED"}

prepareAsync ==
  /\ CanCall /\ MutexFree /\ MayPrepare
  /\ mp_state = "STOPPED" => CallAfterStop
  /\ prepares < MaxPrepares
  /\ LET n == prepares + 1 IN
       /\ prepares' = n /\ ref_count' = ref_count + 1
       /\ msg_thread' = [msg_thread EXCEPT ![n].at = "starting"]
       /\ abort_request' = FALSE /\ told' = FALSE /\ late' = 0
       /\ \/ /\ mp_state' = "ASYNC_PREPARING"
             /\ is' = n
             /\ read_tid' = [read_tid EXCEPT ![n].at = "starting"]
          \/ mp_state' = "ERROR" /\ UNCHANGED <<is, read_tid>>
  /\ UNCHANGED <<queue, video, prepared, java, weak_thiz, source, freed, joinedItself, others, app, calls>>

CheckedState == {"PREPARED", "STARTED", "PAUSED", "COMPLETED"}

Ask(what, m) ==
  /\ CanCall /\ MutexFree /\ mp_state \in CheckedState /\ calls < MaxCalls
  /\ Replace(what, m)
  /\ calls' = calls + 1
  /\ UNCHANGED <<mp_state, abort_request, is, video, prepared, read_tid, lifetime, app, told, late>>

start  == Ask({"REQ_START", "REQ_PAUSE"}, "REQ_START")
pause  == Ask({"REQ_START", "REQ_PAUSE"}, "REQ_PAUSE")
seekTo == Ask({"REQ_SEEK"}, "REQ_SEEK")

AbortVideo == video' = IF is = 0 THEN video ELSE [video EXCEPT ![is].abort = TRUE]
\* the waiting loop is not woken
MutAbortSilent == abort_request' = TRUE /\ UNCHANGED msg_thread

msg_queue_abort == abort_request' = TRUE /\ msg_thread' \in Signalled(msg_thread)

\* stop, first part: it holds mp->mutex until stopped.
stop ==
  /\ CanCall /\ MutexFree /\ mp_state \notin {"IDLE", "INITIALIZED", "ERROR"}
  /\ queue' \in IF abort_request THEN {queue} ELSE Without({"REQ_START", "REQ_PAUSE"})
  /\ AbortVideo
  /\ app' = "stopping"
  /\ UNCHANGED <<mp_state, abort_request, is, prepared, threads, lifetime, told, late, calls>>

stopped ==
  /\ app = "stopping"
  /\ msg_queue_abort
  /\ mp_state' = "STOPPED" /\ app' = "idle"
  /\ UNCHANGED <<queue, is, video, prepared, read_tid, lifetime, told, late, calls>>

\* release takes a reference of its own.
release ==
  /\ CanCall
  /\ ref_count' = ref_count + 1
  /\ app' = "surface"
  /\ UNCHANGED <<mp_state, queueVars, is, video, prepared, threads, prepares, java, weak_thiz, source,
                 freed, joinedItself, others, told, late, calls>>

(* reset keeps the weak reference for the next player, which takes the     *)
(* Java object over: a second reference is held until that one is made.    *)
reset ==
  /\ CanCall
  /\ ref_count' = ref_count + 2
  /\ weak_thiz' = "null"
  /\ app' = "surface"
  /\ UNCHANGED <<mp_state, queueVars, is, video, prepared, threads, prepares, java, source, freed,
                 joinedItself, others, told, late, calls>>

\* the last call of release that takes mp->mutex
set_surface ==
  /\ app = "surface" /\ MutexFree
  /\ app' = "shutdown"
  /\ UNCHANGED <<mp_state, queueVars, is, video, prepared, threads, lifetime, told, late, calls>>

ffp_stop_l ==
  /\ app = "shutdown"
  /\ AbortVideo
  /\ app' = "aborting"
  /\ UNCHANGED <<mp_state, queueVars, is, prepared, threads, lifetime, told, late, calls>>

shutdownAbort ==
  /\ app = "aborting"
  /\ msg_queue_abort
  /\ app' = IF is = 0 THEN "weak" ELSE "joining"
  /\ UNCHANGED <<mp_state, queue, is, video, prepared, read_tid, lifetime, told, late, calls>>

stream_close ==
  /\ app = "joining" /\ read_tid[is].at = "done"
  /\ is' = 0 /\ app' = "weak"
  /\ UNCHANGED <<mp_state, queueVars, video, prepared, threads, lifetime, told, late, calls>>

\* What reset has taken out before is not deleted.
set_weak_thiz ==
  /\ app = "weak"
  /\ weak_thiz' = IF weak_thiz = "set" THEN "gone" ELSE "null"
  /\ app' = "field"
  /\ UNCHANGED <<mp_state, queueVars, is, video, prepared, threads, prepares, ref_count, java, source,
                 freed, joinedItself, others, told, late, calls>>

jni_set_media_player ==
  /\ app = "field"
  /\ java' = FALSE
  /\ DecRef
  /\ app' = "source"
  /\ UNCHANGED <<mp_state, abort_request, is, video, prepared, threads, prepares, weak_thiz, source,
                 joinedItself, others, told, late, calls>>

jni_set_media_data_source ==
  /\ app = "source"
  /\ source' = IF source = "open" THEN "closed" ELSE source
  /\ app' = "last"
  /\ UNCHANGED <<mp_state, queueVars, is, video, prepared, threads, prepares, ref_count, java, weak_thiz,
                 freed, joinedItself, others, told, late, calls>>

\* The last statement of release, and after a reset of reset, when the next player is made.
dropReference ==
  /\ app \in {"last", "next"}
  /\ DecRef
  /\ app' = IF app = "last" /\ weak_thiz = "null" THEN "next" ELSE "done"
  /\ UNCHANGED <<mp_state, abort_request, is, video, prepared, threads, prepares, java, weak_thiz,
                 source, joinedItself, others, told, late, calls>>
-----------------------------------------------------------------------------
(***************************************************************************)
(* The second Java thread.  Each call takes a reference under the lock of  *)
(* the Java field, does its work and gives the reference back.             *)
(***************************************************************************)
CallerOnly ==
  UNCHANGED <<mp_state, abort_request, is, video, prepared, threads, prepares, java, weak_thiz, source,
              joinedItself, app, told, late, calls>>

\* the player is taken from the Java field without a reference
MutGetBorrows ==
  /\ caller = "out" /\ java
  /\ caller' = "in"
  /\ UNCHANGED <<queue, ref_count, freed, asked>> /\ CallerOnly

jni_get_media_player ==
  /\ caller = "out" /\ java
  /\ caller' = "in" /\ ref_count' = ref_count + 1
  /\ UNCHANGED <<queue, freed, asked>> /\ CallerOnly

\* isPlaying, getMediaMeta: no mp->mutex
look ==
  /\ caller = "in"
  /\ caller' = "out" /\ DecRef
  /\ UNCHANGED asked /\ CallerOnly

\* setVolume, setVideoSurface, setOption, setLoopCount, the properties, the codec names
configure ==
  /\ caller = "in" /\ MutexFree
  /\ caller' = "out" /\ DecRef
  /\ UNCHANGED asked /\ CallerOnly

\* getCurrentPosition, getDuration: ffp->is is read, then what it points to
ask ==
  /\ caller = "in" /\ MutexFree
  /\ caller' = "asking" /\ asked' = is
  /\ UNCHANGED <<queue, ref_count, freed>> /\ CallerOnly

answer ==
  /\ caller = "asking"
  /\ caller' = "out" /\ asked' = 0 /\ DecRef
  /\ CallerOnly
-----------------------------------------------------------------------------
(***************************************************************************)
(* The read thread of preparation n.                                       *)
(***************************************************************************)
ReadAt(n, phase) == read_tid' = [read_tid EXCEPT ![n].at = phase]
Mine(n) == read_tid[n].is

(* It works on the VideoState that ffp->is names when it first runs: a     *)
(* later one after a second preparation, and then perhaps none, a crash    *)
(* that is left out.                                                       *)
readStarts(n) ==
  /\ read_tid[n].at = "starting" /\ is # 0
  /\ read_tid' = [read_tid EXCEPT ![n] = [at |-> "opening", is |-> is]]
  /\ UNCHANGED <<mp_state, queueVars, is, video, prepared, msg_thread, lifetime, app, told, late, calls>>

opened(n) ==
  /\ read_tid[n].at = "opening"
  /\ prepared' = TRUE
  /\ video' = [video EXCEPT ![Mine(n)].ready = TRUE]
  /\ Put("PREPARED") /\ ReadAt(n, "playing")
  /\ UNCHANGED <<mp_state, abort_request, is, lifetime, app, told, late, calls>>

\* only a player that was prepared is told of the failure
MutOpenFailedSilent(n) ==
  /\ read_tid[n].at = "opening"
  /\ IF prepared THEN Put("ERROR") ELSE UNCHANGED <<queue, msg_thread>>
  /\ ReadAt(n, "done")
  /\ UNCHANGED <<mp_state, abort_request, is, video, prepared, lifetime, app, told, late, calls>>

\* "fail:" in read_thread, for an input that cannot be opened
openFailed(n) ==
  /\ read_tid[n].at = "opening"
  /\ IF ~prepared \/ ~video[Mine(n)].abort THEN Put("ERROR") ELSE UNCHANGED <<queue, msg_thread>>
  /\ ReadAt(n, "done")
  /\ UNCHANGED <<mp_state, abort_request, is, video, prepared, lifetime, app, told, late, calls>>

\* The end of the stream, or of what could be read of it, is told once.
streamEnds(n) ==
  /\ read_tid[n].at = "playing" /\ ~video[Mine(n)].ended
  /\ video' = [video EXCEPT ![Mine(n)].ended = TRUE]
  /\ \E m \in {"COMPLETED", "ERROR"} : Put(m)
  /\ UNCHANGED <<mp_state, abort_request, is, prepared, read_tid, lifetime, app, told, late, calls>>

seekDone(n) ==
  /\ read_tid[n].at = "playing" /\ video[Mine(n)].seek
  /\ video' = [video EXCEPT ![Mine(n)].seek = FALSE, ![Mine(n)].ended = FALSE]
  /\ Put("SEEK_COMPLETE")
  /\ UNCHANGED <<mp_state, abort_request, is, prepared, read_tid, lifetime, app, told, late, calls>>

readEnds(n) ==
  /\ read_tid[n].at = "playing" /\ video[Mine(n)].abort
  /\ ReadAt(n, "done")
  /\ UNCHANGED <<mp_state, queueVars, is, video, prepared, msg_thread, lifetime, app, told, late, calls>>
-----------------------------------------------------------------------------
(***************************************************************************)
(* The message loop of preparation n.                                      *)
(***************************************************************************)
LoopAt(n, phase) == msg_thread' = [msg_thread EXCEPT ![n].at = phase]

\* weak_thiz is NULL once release or reset has taken it out.
loopStarts(n) ==
  /\ msg_thread[n].at = "starting"
  /\ LoopAt(n, IF weak_thiz = "set" THEN "getting" ELSE "leaving")
  /\ UNCHANGED <<mp_state, queueVars, is, video, prepared, read_tid, lifetime, app, told, late, calls>>

\* what is in the queue is still given out after the abort
MutGetDrains(n) ==
  /\ msg_thread[n].at = "getting"
  /\ \/ abort_request /\ queue = <<>> /\ LoopAt(n, "leaving") /\ UNCHANGED queue
     \/ /\ queue # <<>>
        /\ msg_thread' = [msg_thread EXCEPT ![n] = [at |-> "holding", msg |-> Head(queue)]]
        /\ queue' = Tail(queue)
     \/ ~abort_request /\ queue = <<>> /\ LoopAt(n, "blocked") /\ UNCHANGED queue
  /\ UNCHANGED <<mp_state, abort_request, is, video, prepared, read_tid, lifetime, app, told, late, calls>>

\* msg_queue_get: -1 when aborted, else the first message, else wait.
msg_queue_get(n) ==
  /\ msg_thread[n].at = "getting"
  /\ \/ abort_request /\ LoopAt(n, "leaving") /\ UNCHANGED queue
     \/ /\ ~abort_request /\ queue # <<>>
        /\ msg_thread' = [msg_thread EXCEPT ![n] = [at |-> "holding", msg |-> Head(queue)]]
        /\ queue' = Tail(queue)
     \/ ~abort_request /\ queue = <<>> /\ LoopAt(n, "blocked") /\ UNCHANGED queue
  /\ UNCHANGED <<mp_state, abort_request, is, video, prepared, read_tid, lifetime, app, told, late, calls>>

\* ijkmp_get_msg: what a message does to the state, under mp->mutex.
NextState(m) ==
  CASE m = "PREPARED"  -> IF mp_state = "ASYNC_PREPARING" THEN "PREPARED" ELSE mp_state
    [] m = "COMPLETED" -> "COMPLETED"
    [] m = "REQ_START" -> IF mp_state \in CheckedState /\ is # 0 THEN "STARTED" ELSE mp_state
    [] m = "REQ_PAUSE" -> IF mp_state \in CheckedState /\ is # 0 THEN "PAUSED" ELSE mp_state
    [] OTHER           -> mp_state

handle(n) ==
  /\ msg_thread[n].at = "holding" /\ MutexFree
  /\ LET m == msg_thread[n].msg IN
       /\ mp_state' = NextState(m)
       /\ video' = IF m = "REQ_SEEK" /\ mp_state \in CheckedState /\ is # 0
                   THEN [video EXCEPT ![is].seek = TRUE] ELSE video
       /\ LoopAt(n, IF m \in Request THEN "getting" ELSE "posting")
  /\ UNCHANGED <<queueVars, is, prepared, read_tid, lifetime, app, told, late, calls>>

post_event(n) ==
  /\ msg_thread[n].at = "posting"
  /\ told' = (told \/ msg_thread[n].msg \in {"PREPARED", "ERROR"})
  /\ late' = IF abort_request THEN late + 1 ELSE late
  /\ LoopAt(n, "getting")
  /\ UNCHANGED <<mp_state, queueVars, is, video, prepared, read_tid, lifetime, app, calls>>

(* When this was the last reference, the loop is also the thread that      *)
(* ijkmp_destroy waits for: mp->msg_thread, that of the latest preparation. *)
loopEnds(n) ==
  /\ msg_thread[n].at = "leaving"
  /\ LoopAt(n, "done")
  /\ DecRef
  /\ joinedItself' = (joinedItself \/ (ref_count = 1 /\ n = prepares))
  /\ UNCHANGED <<mp_state, abort_request, is, video, prepared, read_tid, prepares, java, weak_thiz,
                 source, others, app, told, late, calls>>
-----------------------------------------------------------------------------
Release ==
  \/ set_surface \/ ffp_stop_l \/ shutdownAbort \/ stream_close \/ set_weak_thiz
  \/ jni_set_media_player \/ jni_set_media_data_source \/ dropReference

Application ==
  \/ ijkmp_android_create \/ native_setup \/ setDataSource \/ setDataSourceCallback \/ prepareAsync
  \/ start \/ pause \/ seekTo \/ stop \/ stopped \/ release \/ reset \/ Release

Caller == jni_get_media_player \/ look \/ configure \/ ask \/ answer

ReadThread(n) ==
  readStarts(n) \/ opened(n) \/ openFailed(n) \/ streamEnds(n) \/ seekDone(n) \/ readEnds(n)

MessageLoop(n) ==
  loopStarts(n) \/ msg_queue_get(n) \/ handle(n) \/ post_event(n) \/ loopEnds(n)

Next == Application \/ Caller \/ \E n \in Prepare : ReadThread(n) \/ MessageLoop(n)

Spec == Init /\ [][Next]_vars

(* The threads run, and one that waits for mp->mutex gets it although the  *)
(* others take it again and again; the demuxer notices an abort or opens   *)
(* the input at last; a call that was begun is carried through.  Nothing   *)
(* makes the application call.                                             *)
Fairness ==
  /\ WF_vars(stopped) /\ WF_vars(Release) /\ SF_vars(set_surface) /\ WF_vars(answer) /\ WF_vars(look \/ configure \/ ask)
  /\ \A n \in Prepare :
       /\ WF_vars(readStarts(n)) /\ WF_vars(opened(n) \/ openFailed(n))
       /\ WF_vars(seekDone(n)) /\ WF_vars(readEnds(n))
       /\ WF_vars(MessageLoop(n)) /\ SF_vars(handle(n))

FairSpec == Spec /\ Fairness
-----------------------------------------------------------------------------
\* inject_callback, mediacodec_select_callback, the media data source: Java is called back.
CallsJava(n) == read_tid[n].at \in {"opening", "playing"}

(* ijkmp_inc_ref, ijkmp_dec_ref and the order of release: while a Java     *)
(* thread or a message loop can still reach the player it is not           *)
(* destroyed, and while the read thread may call Java back neither the     *)
(* weak reference it calls nor the media data source it reads is gone.     *)
HeldWhileUsed ==
  /\ freed => /\ ~java /\ app = "done" /\ caller = "out"
              /\ \A n \in Prepare : msg_thread[n].at \in {"none", "done"}
  /\ \A n \in Prepare : CallsJava(n) => weak_thiz # "gone" /\ source # "closed"

(* msg_queue_abort: once the queue is aborted the application hears of at  *)
(* most the one message the loop already holds.                            *)
AtMostOneLate == late <= 1

(* read_thread: an application that keeps the player hears whether its     *)
(* prepareAsync succeeded.                                                 *)
PrepareAnswered ==
  (mp_state = "ASYNC_PREPARING")
    ~> (abort_request \/ told)

(* IjkMediaPlayer_release, IjkMediaPlayer_reset: whatever the threads are  *)
(* doing, it returns, the message loop ends and the player is destroyed.   *)
ReleaseEnds == (app = "aborting") ~> freed

(* ijkplayer.h on MP_STATE_STOPPED: a stopped player stays stopped until   *)
(* it is prepared again (or that fails).                                   *)
StoppedStays ==
  [][mp_state = "STOPPED" => mp_state' = "STOPPED" \/ prepares' # prepares]_vars

(* ijkplayer.c: "msg_thread is detached inside msg_loop", so that it need  *)
(* not be waited for, least of all by itself.                              *)
NeverJoinsItself == ~joinedItself

(* ijkplayer.c: what ffp->is points to is read under mp->mutex, so that it *)
(* is not freed meanwhile.  The release does not take the lock to free it. *)
AsksOpenVideo == caller = "asking" => asked \in {0, is}

(* IjkMediaPlayer_release deletes weak_thiz: the message loop, which keeps *)
(* a copy of it, posts nothing more.                                       *)
PostsToHeld == weak_thiz = "gone" => \A n \in Prepare : msg_thread[n].at # "posting"
=============================================================================
