--------------------------- MODULE PlaybackProofs ---------------------------
(***************************************************************************)
(* What the runs show of the two sides of the playback's control, for a    *)
(* few calls and a few buffers, holds for any number of them: the pause    *)
(* and the seeks of the application (Playback, first part), and the video  *)
(* decoder that owns the buffers the screen shows (MediaCodec, second      *)
(* part).                                                                  *)
(***************************************************************************)
EXTENDS Playback, MediaCodec, FiniteSetTheorems, SequenceTheorems, TLAPS


Flags == [pause_req : BOOLEAN, buffering_on : BOOLEAN, step : BOOLEAN,
          paused : BOOLEAN, silent : BOOLEAN]

\* A flag set: nothing stands still without a reason.
Excused(p) == p.paused \/ p.silent => p.pause_req \/ p.buffering_on

LEMMA UpdateExcuses ==
  ASSUME NEW p \in Flags
  PROVE  /\ stream_update_pause(p) \in Flags
         /\ Excused(stream_update_pause(p))
         /\ stream_update_pause(p).pause_req = p.pause_req
         /\ stream_update_pause(p).buffering_on = p.buffering_on
  BY DEF Flags, Excused, stream_update_pause, stream_toggle_pause

LEMMA ToggleExcuses ==
  ASSUME NEW p \in Flags, NEW on \in BOOLEAN
  PROVE  /\ toggle_pause(p, on) \in Flags
         /\ Excused(toggle_pause(p, on))
         /\ toggle_pause(p, on).buffering_on = p.buffering_on
         /\ toggle_pause(p, on).pause_req = on
<1> DEFINE q == [p EXCEPT !.pause_req = on]
           u == stream_update_pause(q)
<1>1. q \in Flags /\ q.buffering_on = p.buffering_on /\ q.pause_req = on
  BY DEF Flags
<1>2. u \in Flags /\ Excused(u) /\ u.buffering_on = q.buffering_on /\ u.pause_req = q.pause_req
  BY <1>1, UpdateExcuses
<1>3. toggle_pause(p, on) = [u EXCEPT !.step = FALSE]
  BY DEF toggle_pause
<1> HIDE DEF q, u
<1> QED
  BY <1>1, <1>2, <1>3 DEF Flags, Excused

LEMMA StepExcuses ==
  ASSUME NEW p \in Flags, Excused(p), p.pause_req
  PROVE  /\ step_to_next_frame(p) \in Flags
         /\ Excused(step_to_next_frame(p))
         /\ step_to_next_frame(p).buffering_on = p.buffering_on
         /\ step_to_next_frame(p).pause_req = p.pause_req
  BY DEF Flags, Excused, step_to_next_frame, stream_toggle_pause
-----------------------------------------------------------------------------
\* Buffering is on throughout a seek: turning it on once more tells nothing new.
SeeksBuffering == read_at \in {"seeking", "sought"} => play.buffering_on

IInv ==
  /\ play \in Flags
  /\ Excused(play)
  /\ announced = play.buffering_on
  /\ SeeksBuffering

LEMMA InitIInv == ASSUME Init PROVE IInv
<1>1. play = [pause_req |-> FALSE, buffering_on |-> FALSE, step |-> FALSE,
              paused |-> FALSE, silent |-> FALSE]
  BY DEF Init
<1>2. announced = FALSE /\ read_at = "prepared"
  BY DEF Init
<1>3. play \in Flags
  BY <1>1 DEF Flags
<1>4. Excused(play) /\ ~play.buffering_on
  BY <1>1 DEF Excused
<1>5. announced = play.buffering_on
  BY <1>1, <1>2
<1> QED
  BY <1>2, <1>3, <1>4, <1>5 DEF IInv, SeeksBuffering

\* ffp_toggle_buffering keeps the flags and the announcement together.
LEMMA ToggleBufferingKeeps ==
  ASSUME IInv, NEW on \in BOOLEAN, ffp_toggle_buffering(on)
  PROVE  /\ play' \in Flags /\ Excused(play')
         /\ announced' = play'.buffering_on
         /\ play'.buffering_on = on
         /\ play'.pause_req = play.pause_req
<1> DEFINE q == [play EXCEPT !.buffering_on = on]
<1>1. CASE play.buffering_on = on
  BY <1>1 DEF ffp_toggle_buffering, IInv
<1>2. CASE play.buffering_on # on
  <2>1. q \in Flags /\ q.buffering_on = on /\ q.pause_req = play.pause_req
    BY DEF IInv, Flags
  <2>2. play' = stream_update_pause(q) /\ announced' = on
    BY <1>2 DEF ffp_toggle_buffering
  <2> HIDE DEF q
  <2> QED
    BY <2>1, <2>2, UpdateExcuses
<1> QED
  BY <1>1, <1>2

LEMMA TogglePauseKeeps ==
  ASSUME IInv, NEW on \in BOOLEAN, TogglePause(on)
  PROVE  /\ play' \in Flags /\ Excused(play') /\ play'.buffering_on = play.buffering_on
         /\ play'.pause_req = on /\ auto_resume' = ~on
  BY ToggleExcuses DEF IInv, TogglePause

LEMMA ApplicationKeeps == IInv /\ Application => IInv'
  BY DEF IInv, SeeksBuffering, Application, start, pause, seekTo, Ask, reader

LEMMA MessageLoopKeeps == ASSUME IInv, MessageLoop PROVE IInv'
<1> USE DEF reader, player
<1>1. CASE msg_queue_get \/ OnPrepared \/ OnCompleted \/ OnSeekComplete \/ OnError \/ ffp_start_from
           \/ startSeeks \/ ffp_seek_to
  <2>1. UNCHANGED <<play, announced, read_at>>
    BY <1>1 DEF msg_queue_get, OnPrepared, OnCompleted, OnSeekComplete, OnError, ffp_start_from,
                startSeeks, ffp_seek_to
  <2> QED
    BY <2>1 DEF IInv, SeeksBuffering
<1>2. CASE ffp_start \/ ffp_pause
  <2>1. UNCHANGED <<announced, read_at>>
    BY <1>2 DEF ffp_start, ffp_pause
  <2>2. TogglePause(TRUE) \/ TogglePause(FALSE) \/ UNCHANGED play
    BY <1>2 DEF ffp_start, ffp_pause
  <2>3. play' \in Flags /\ Excused(play') /\ play'.buffering_on = play.buffering_on
    BY <2>2, TogglePauseKeeps DEF IInv
  <2> QED
    BY <2>1, <2>3 DEF IInv, SeeksBuffering
<1>3. CASE startBuffers
  <2>1. ffp_toggle_buffering(TRUE) /\ UNCHANGED read_at
    BY <1>3 DEF startBuffers
  <2> QED
    BY <2>1, ToggleBufferingKeeps DEF IInv, SeeksBuffering
<1> QED
  BY <1>1, <1>2, <1>3 DEF MessageLoop

LEMMA resumeOrStepKeeps ==
  ASSUME IInv, resumeOrStep
  PROVE  /\ IInv'
         /\ auto_resume => ~play'.pause_req
         /\ ~auto_resume => play'.pause_req = play.pause_req
<1> DEFINE q == [play EXCEPT !.pause_req = FALSE, !.buffering_on = TRUE]
           resumed == IF auto_resume THEN stream_update_pause(q) ELSE play
<1>1. play.buffering_on /\ UNCHANGED announced /\ read_at' = "telling"
  BY DEF resumeOrStep, ReadStep, IInv, SeeksBuffering
<1>2. q \in Flags /\ q.buffering_on = TRUE /\ q.pause_req = FALSE
  BY DEF IInv, Flags
<1>3. /\ resumed \in Flags /\ Excused(resumed) /\ resumed.buffering_on = play.buffering_on
      /\ resumed.pause_req = IF auto_resume THEN FALSE ELSE play.pause_req
  <2> HIDE DEF q
  <2> QED
    BY <1>1, <1>2, UpdateExcuses DEF IInv, Flags
<1>4. play' = IF resumed.pause_req THEN step_to_next_frame(resumed) ELSE resumed
  BY DEF resumeOrStep
<1> HIDE DEF resumed
<1>5. /\ play' \in Flags /\ Excused(play') /\ play'.buffering_on = resumed.buffering_on
      /\ play'.pause_req = resumed.pause_req
  BY <1>3, <1>4, StepExcuses
<1> QED
  BY <1>1, <1>3, <1>5 DEF IInv, SeeksBuffering

LEMMA ReadThreadKeeps == ASSUME IInv, ReadThread PROVE IInv'
<1>1. CASE checkResume \/ resumeAsked \/ tellSeek \/ avformat_seek \/ startOver \/ complete \/ reportEnd
  <2>1. UNCHANGED <<play, announced>>
    BY <1>1 DEF checkResume, resumeAsked, tellSeek, avformat_seek, startOver, complete, reportEnd
  <2>2. read_at' = "sought" => read_at = "seeking"
    BY <1>1 DEF checkResume, resumeAsked, tellSeek, avformat_seek, startOver, complete, reportEnd,
                ReadStep, AtEnd, reader
  <2>3. read_at' # "seeking"
    BY <1>1 DEF checkResume, resumeAsked, tellSeek, avformat_seek, startOver, complete, reportEnd,
                ReadStep, AtEnd, reader
  <2> QED
    BY <2>1, <2>2, <2>3 DEF IInv, SeeksBuffering
<1>2. CASE beginSeek \/ rebuffer
  <2>1. ffp_toggle_buffering(TRUE)
    BY <1>2 DEF beginSeek, rebuffer
  <2> QED
    BY <2>1, ToggleBufferingKeeps DEF IInv, SeeksBuffering
<1>3. CASE buffered \/ endBuffering
  <2>1. ffp_toggle_buffering(FALSE)
    BY <1>3 DEF buffered, endBuffering
  <2>2. read_at' \notin {"seeking", "sought"}
    BY <1>3 DEF buffered, endBuffering, ReadStep, reader
  <2> QED
    BY <2>1, <2>2, ToggleBufferingKeeps DEF IInv, SeeksBuffering
<1>4. CASE endPause
  <2>1. TogglePause(TRUE) /\ UNCHANGED announced /\ read_at' = "reporting"
    BY <1>4 DEF endPause, ReadStep
  <2> QED
    BY <2>1, TogglePauseKeeps DEF IInv, SeeksBuffering
<1> QED
  BY <1>1, <1>2, <1>3, <1>4, resumeOrStepKeeps DEF ReadThread, Seeking, Ending

LEMMA VideoKeeps == ASSUME IInv, starve \/ chooseFrame \/ video_refresh PROVE IInv'
<1>1. CASE starve
  <2>1. ffp_toggle_buffering(TRUE) /\ UNCHANGED read_at
    BY <1>1 DEF starve, reader
  <2> QED
    BY <2>1, ToggleBufferingKeeps DEF IInv, SeeksBuffering
<1>2. CASE chooseFrame
  BY <1>2 DEF chooseFrame, IInv, SeeksBuffering, reader
<1>3. CASE video_refresh
  <2> DEFINE stepped == [play EXCEPT !.step = FALSE]
  <2>1. stepped \in Flags /\ Excused(stepped) /\ stepped.buffering_on = play.buffering_on
    BY DEF IInv, Flags, Excused
  <2>2. play' = stream_update_pause(stepped) \/ play' = stepped
    BY <1>3 DEF video_refresh
  <2>3. UNCHANGED <<announced, read_at>>
    BY <1>3 DEF video_refresh, reader
  <2> HIDE DEF stepped
  <2> QED
    BY <2>1, <2>2, <2>3, UpdateExcuses DEF IInv, SeeksBuffering
<1> QED
  BY <1>1, <1>2, <1>3

LEMMA NextKeeps == IInv /\ [Next]_vars => IInv'
<1>1. ASSUME IInv, UNCHANGED vars PROVE IInv'
  BY <1>1 DEF vars, reader, IInv, SeeksBuffering
<1> QED
  BY <1>1, ApplicationKeeps, MessageLoopKeeps, ReadThreadKeeps, VideoKeeps DEF Next

\* Whoever changes a flag, the picture and the sound have their reason to stand still
\* and the last announcement is true (ffp_toggle_buffering_l, toggle_pause_l).
THEOREM Invariance == Spec => []IInv
  BY InitIInv, NextKeeps, PTL DEF Spec

\* Picture or sound stand still only while the application has paused or the
\* stream buffers, whatever the order of requests, seeks, buffering and frames.
THEOREM StandsStillForAReason == Spec => []NeverStuck
<1>1. IInv => NeverStuck
  BY DEF IInv, Excused, NeverStuck
<1> QED
  BY <1>1, Invariance, PTL

\* Every change of buffering is announced, also the one a seek makes in silence.
THEOREM BufferingIsAnnounced == Spec => []BufferingAnnounced
<1>1. IInv => BufferingAnnounced
  BY DEF IInv, BufferingAnnounced
<1> QED
  BY <1>1, Invariance, PTL
-----------------------------------------------------------------------------
(***************************************************************************)
(* Types: what is in the queue and where the two threads are.              *)
(***************************************************************************)
Queued == {queue[i] : i \in DOMAIN queue}

LEMMA WithoutIs ==
  ASSUME queue \in Seq(Message), NEW what, NEW q \in Without(what)
  PROVE  /\ q \in Seq(Message)
         /\ {q[i] : i \in DOMAIN q} = Queued \ what
<1> DEFINE kept == {i \in DOMAIN queue : queue[i] \notin what}
           n == Cardinality(kept)
<1>1. PICK w \in [1 .. n -> kept] :
        /\ \A i, j \in DOMAIN w : i < j => w[i] < w[j]
        /\ q = [i \in DOMAIN w |-> queue[w[i]]]
  BY DEF Without
<1>2. DOMAIN queue = 1 .. Len(queue) /\ Len(queue) \in Nat
  OBVIOUS
<1>3. IsFiniteSet(kept) /\ n \in Nat
  <2>1. IsFiniteSet(DOMAIN queue)
    BY <1>2, FS_Interval
  <2> QED
    BY <2>1, FS_Subset, FS_CardinalityType
<1>4. kept \subseteq Nat
  BY <1>2
<1>5. w \in Injection(1 .. n, kept)
  <2>1. ASSUME NEW i \in 1 .. n, NEW j \in 1 .. n, w[i] = w[j] PROVE i = j
    <3>1. w[i] \in Nat /\ w[j] \in Nat
      BY <1>4
    <3>2. ~(i < j) /\ ~(j < i)
      BY <1>1, <2>1, <3>1
    <3> QED
      BY <1>3, <3>2
  <2> QED
    BY <2>1 DEF Injection, IsInjective
<1>6. w \in Surjection(1 .. n, kept)
  <2>1. Cardinality(1 .. n) = n
    BY <1>3, FS_Interval
  <2> QED
    BY <1>3, <1>5, <2>1, FS_Injection
<1>7. \A k \in kept : \E i \in 1 .. n : w[i] = k
  BY <1>6 DEF Surjection
<1>8. q = [i \in 1 .. n |-> queue[w[i]]] /\ DOMAIN q = 1 .. n
  BY <1>1
<1>9. \A i \in 1 .. n : queue[w[i]] \in Message
  BY <1>1
<1>10. q \in Seq(Message)
  BY <1>3, <1>8, <1>9
<1>11. {q[i] : i \in DOMAIN q} = {queue[k] : k \in kept}
  <2> HIDE DEF kept, n
  <2> QED
    BY <1>7, <1>8
<1>12. {queue[k] : k \in kept} = Queued \ what
  BY DEF Queued
<1> QED
  BY <1>10, <1>11, <1>12

LEMMA AppendIs ==
  ASSUME NEW q \in Seq(Message), NEW m \in Message, queue' = Append(q, m)
  PROVE  queue' \in Seq(Message) /\ Queued' = {q[i] : i \in DOMAIN q} \cup {m}
<1>1. /\ Len(q) \in Nat /\ DOMAIN q = 1 .. Len(q) /\ DOMAIN queue' = 1 .. Len(q) + 1
      /\ \A i \in 1 .. Len(q) : queue'[i] = q[i]
      /\ queue'[Len(q) + 1] = m
  OBVIOUS
<1>2. Queued' \subseteq {q[i] : i \in DOMAIN q} \cup {m}
  BY <1>1 DEF Queued
<1>3. ASSUME NEW i \in DOMAIN q PROVE q[i] \in Queued'
  BY <1>1 DEF Queued
<1>4. m \in Queued'
  BY <1>1 DEF Queued
<1> QED
  BY <1>2, <1>3, <1>4

LEMMA PutIs ==
  ASSUME queue \in Seq(Message), NEW m \in Message, Put(m)
  PROVE  queue' \in Seq(Message) /\ Queued' = Queued \cup {m}
  BY AppendIs DEF Put, Queued

LEMMA AskIs ==
  ASSUME TypeOK, NEW what \in SUBSET {"REQ_START", "REQ_PAUSE", "REQ_SEEK"},
         NEW m \in {"REQ_START", "REQ_PAUSE", "REQ_SEEK"}, Ask(what, m)
  PROVE  /\ queue' \in Seq(Message)
         /\ "COMPLETED" \in Queued' <=> "COMPLETED" \in Queued
         /\ calls' \in 0 .. MaxCalls
<1>1. PICK q \in Without(what) : queue' = Append(q, m)
  BY DEF Ask
<1>2. q \in Seq(Message) /\ {q[i] : i \in DOMAIN q} = Queued \ what
  BY WithoutIs DEF TypeOK
<1>3. queue' \in Seq(Message) /\ Queued' = (Queued \ what) \cup {m}
  BY <1>1, <1>2, AppendIs DEF Message
<1>4. calls' \in 0 .. MaxCalls
  BY BoundsAssumption DEF Ask, TypeOK
<1> QED
  BY <1>3, <1>4

LEMMA GetIs ==
  ASSUME TypeOK, msg_queue_get
  PROVE  /\ queue' \in Seq(Message) /\ held' \in Message
         /\ Queued = Queued' \cup {held'}
<1>1. /\ queue \in Seq(Message) /\ queue # <<>> /\ held' = queue[1] /\ queue' = Tail(queue)
      /\ Len(queue) \in Nat /\ Len(queue) >= 1 /\ DOMAIN queue = 1 .. Len(queue)
  BY DEF TypeOK, msg_queue_get
<1>2. /\ queue' \in Seq(Message) /\ DOMAIN queue' = 1 .. Len(queue) - 1
      /\ \A i \in 1 .. Len(queue) - 1 : queue'[i] = queue[i + 1]
  BY <1>1
<1>3. ASSUME NEW i \in DOMAIN queue PROVE queue[i] \in Queued' \cup {held'}
  <2>1. i = 1 \/ (i - 1 \in DOMAIN queue' /\ queue'[i - 1] = queue[i])
    BY <1>1, <1>2
  <2> QED
    BY <1>1, <2>1 DEF Queued
<1>4. ASSUME NEW i \in DOMAIN queue' PROVE queue'[i] \in Queued
  <2>1. i + 1 \in DOMAIN queue /\ queue'[i] = queue[i + 1]
    BY <1>1, <1>2
  <2> QED
    BY <2>1 DEF Queued
<1>5. held' \in Queued /\ held' \in Message
  BY <1>1 DEF Queued
<1> QED
  BY <1>2, <1>3, <1>4, <1>5 DEF Queued

LEMMA InitType == Init => TypeOK
<1> SUFFICES ASSUME Init PROVE TypeOK
  OBVIOUS
<1>1. queue \in Seq(Message) /\ held \in Message
  BY DEF Init, Message
<1>2. play = [pause_req |-> FALSE, buffering_on |-> FALSE, step |-> FALSE,
              paused |-> FALSE, silent |-> FALSE]
  BY DEF Init
<1>3. play \in [pause_req : BOOLEAN, buffering_on : BOOLEAN, step : BOOLEAN,
                paused : BOOLEAN, silent : BOOLEAN]
  BY <1>2
<1>4. calls \in 0 .. MaxCalls
  BY BoundsAssumption DEF Init
<1> QED
  BY <1>1, <1>3, <1>4 DEF Init, TypeOK

\* Where the player and the two threads are; the flags outside of the VideoState's.
Places ==
  /\ mp_state \in CheckedState \cup {"ASYNC_PREPARING"} /\ held \in Message
  /\ loop_at \in {"getting", "holding", "buffering", "seeking"}
  /\ read_at \in {"prepared", "resuming", "reading", "seeking", "sought", "telling", "rebuffering",
                  "ending", "stopping", "reporting"}

Marks ==
  /\ restart \in BOOLEAN /\ restart_from_beginning \in BOOLEAN /\ seek_req \in BOOLEAN
  /\ looping \in BOOLEAN /\ auto_resume \in BOOLEAN /\ is_seek \in BOOLEAN
  /\ completed \in BOOLEAN /\ failed \in BOOLEAN /\ showing \in BOOLEAN

Queues == queue \in Seq(Message) /\ calls \in 0 .. MaxCalls

LEMMA ApplicationTypes ==
  ASSUME TypeOK, Application
  PROVE  Places' /\ Marks' /\ Queues'
<1>1. PICK what \in SUBSET {"REQ_START", "REQ_PAUSE", "REQ_SEEK"},
           m \in {"REQ_START", "REQ_PAUSE", "REQ_SEEK"} : Ask(what, m)
  BY DEF Application, start, pause, seekTo
<1>2. Queues'
  BY <1>1, AskIs DEF Queues
<1>3. UNCHANGED <<mp_state, restart, restart_from_beginning, held, loop_at, looping, auto_resume,
                  is_seek, read_at, completed, failed, showing>>
  BY <1>1 DEF Ask, loopVars, reader
<1>4. seek_req' \in BOOLEAN
  BY DEF Application, start, pause, seekTo, TypeOK
<1> QED
  BY <1>2, <1>3, <1>4 DEF TypeOK, Places, Marks

LEMMA LoopTypes ==
  ASSUME TypeOK, MessageLoop
  PROVE  Places' /\ Marks' /\ Queues'
<1> Places /\ Marks /\ Queues
  BY DEF TypeOK, Places, Marks, Queues
<1> USE DEF player, loopVars, reader
<1>1. CASE msg_queue_get
  <2>1. held' \in Message /\ queue' \in Seq(Message)
    BY <1>1, GetIs
  <2>2. Places'
    BY <1>1, <2>1 DEF msg_queue_get, Places
  <2>3. Marks'
    BY <1>1 DEF msg_queue_get, Marks
  <2>4. Queues'
    BY <1>1, <2>1 DEF msg_queue_get, Queues
  <2> QED
    BY <2>2, <2>3, <2>4
<1>2. CASE ~msg_queue_get
  <2>1. UNCHANGED <<queue, calls>>
    BY <1>2 DEF MessageLoop, OnPrepared, OnCompleted, OnSeekComplete, OnError, ffp_start,
       ffp_start_from, startBuffers, startSeeks, ffp_pause, ffp_seek_to
  <2>2. CASE OnPrepared \/ OnCompleted \/ OnSeekComplete \/ OnError
    <3>1. Places'
      BY <2>2 DEF OnPrepared, OnCompleted, OnSeekComplete, OnError, Places, CheckedState
    <3>2. Marks'
      BY <2>2 DEF OnPrepared, OnCompleted, OnSeekComplete, OnError, Marks
    <3> QED
      BY <2>1, <3>1, <3>2 DEF Queues
  <2>3. CASE ffp_start \/ ffp_start_from \/ ffp_pause
    <3>1. Places'
      BY <2>3 DEF ffp_start, ffp_start_from, ffp_pause, Started, Places, CheckedState
    <3>2. Marks'
      BY <2>3 DEF ffp_start, ffp_start_from, ffp_pause, Started, TogglePause, Marks
    <3> QED
      BY <2>1, <3>1, <3>2 DEF Queues
  <2>4. CASE startBuffers \/ startSeeks \/ ffp_seek_to
    <3>1. Places'
      BY <2>4 DEF startBuffers, startSeeks, ffp_seek_to, Started, Places, CheckedState
    <3>2. Marks'
      BY <2>4 DEF startBuffers, startSeeks, ffp_seek_to, Started, stream_seek, Marks
    <3> QED
      BY <2>1, <3>1, <3>2 DEF Queues
  <2> QED
    BY <1>2, <2>2, <2>3, <2>4 DEF MessageLoop
<1> QED
  BY <1>1, <1>2

LEMMA ReadTypes ==
  ASSUME TypeOK, ReadThread
  PROVE  Places' /\ Marks' /\ Queues'
<1> Places /\ Marks /\ Queues
  BY DEF TypeOK, Places, Marks, Queues
<1> USE DEF player, loopVars, reader
<1>1. calls' = calls /\ ((\E m \in Message : Put(m)) \/ UNCHANGED queue)
  BY DEF ReadThread, Seeking, Ending, checkResume, tellSeek, reportEnd, resumeAsked, beginSeek,
     avformat_seek, resumeOrStep, rebuffer, buffered, startOver, complete, endBuffering, endPause, Message
<1>2. Queues'
  BY <1>1, PutIs DEF Queues
<1>3. CASE checkResume \/ tellSeek \/ reportEnd
  <2>1. Places'
    BY <1>3 DEF checkResume, tellSeek, reportEnd, ReadStep, Places
  <2>2. Marks'
    BY <1>3 DEF checkResume, tellSeek, reportEnd, Marks
  <2> QED
    BY <1>2, <2>1, <2>2
<1>4. CASE resumeAsked \/ beginSeek \/ avformat_seek \/ resumeOrStep \/ rebuffer
  <2>1. Places'
    BY <1>4 DEF resumeAsked, beginSeek, avformat_seek, resumeOrStep, rebuffer, ReadStep, Places
  <2>2. Marks'
    BY <1>4 DEF resumeAsked, beginSeek, avformat_seek, resumeOrStep, rebuffer, Marks
  <2> QED
    BY <1>2, <2>1, <2>2
<1>5. CASE buffered \/ startOver \/ complete \/ endBuffering \/ endPause
  <2>1. Places'
    BY <1>5 DEF buffered, startOver, complete, endBuffering, endPause, AtEnd, ReadStep, Places
  <2>2. Marks'
    BY <1>5 DEF buffered, startOver, complete, endBuffering, endPause, TogglePause, stream_seek, Marks
  <2> QED
    BY <1>2, <2>1, <2>2
<1> QED
  BY <1>3, <1>4, <1>5 DEF ReadThread, Seeking, Ending

LEMMA VideoTypes ==
  ASSUME TypeOK, starve \/ chooseFrame \/ video_refresh \/ UNCHANGED vars
  PROVE  Places' /\ Marks' /\ Queues'
<1> Places /\ Marks /\ Queues
  BY DEF TypeOK, Places, Marks, Queues
<1> USE DEF player, loopVars, reader, starve, chooseFrame, video_refresh, vars
<1>1. Places'
  BY DEF Places
<1>2. Marks'
  BY DEF Marks
<1>3. UNCHANGED <<queue, calls>>
  OBVIOUS
<1> QED
  BY <1>1, <1>2, <1>3 DEF Queues

LEMMA TypeStep == TypeOK /\ IInv' /\ [Next]_vars => TypeOK'
<1> SUFFICES ASSUME TypeOK, IInv', [Next]_vars PROVE TypeOK'
  OBVIOUS
<1>1. play' \in [pause_req : BOOLEAN, buffering_on : BOOLEAN, step : BOOLEAN,
                 paused : BOOLEAN, silent : BOOLEAN]
  BY DEF IInv, Flags
<1>2. announced' \in BOOLEAN
  BY <1>1 DEF IInv
<1>3. Places' /\ Marks' /\ Queues'
  BY ApplicationTypes, LoopTypes, ReadTypes, VideoTypes DEF Next
<1> QED
  BY <1>1, <1>2, <1>3 DEF TypeOK, Places, Marks, Queues

\* The flags, the queue and the places of the threads stay what they should be.
THEOREM TypeCorrect == Spec => []TypeOK
  BY InitType, TypeStep, Invariance, PTL DEF Spec
-----------------------------------------------------------------------------
(***************************************************************************)
(* Who asked last.  A STARTED stream has its pause_req cleared, or will    *)
(* have it cleared by the seek of a restart, or its end is on the way to   *)
(* the message loop.                                                       *)
(***************************************************************************)
Restarting == loop_at \in {"buffering", "seeking"}

EndQueued == "COMPLETED" \in Queued \/ Holds("COMPLETED")

Goes == ~play.pause_req \/ failed \/ EndQueued \/ read_at \in {"ending", "stopping", "reporting"}

\* Before the read thread reads, no end was told and nothing starts over.
Fresh ==
  read_at \in {"prepared", "resuming"} =>
    /\ ~restart /\ ~EndQueued /\ ~Restarting
    /\ mp_state = "STARTED" => ~play.pause_req

Resumes ==
  /\ mp_state = "STARTED" => Goes \/ (auto_resume /\ (is_seek \/ read_at \in {"seeking", "sought"})) \/ Restarting
  /\ Restarting => Goes \/ auto_resume

Stays == mp_state = "PAUSED" => Restarting \/ (play.pause_req /\ ~auto_resume)

Asked == Fresh /\ Resumes /\ Stays

LEMMA InitAsked == Init => Asked
<1> SUFFICES ASSUME Init PROVE Asked
  OBVIOUS
<1>1. Queued = {"PREPARED"}
  <2>1. queue = <<"PREPARED">>
    BY DEF Init
  <2> QED
    BY <2>1 DEF Queued
<1>2. /\ mp_state = "ASYNC_PREPARING" /\ ~restart /\ loop_at = "getting"
  BY DEF Init
<1> QED
  BY <1>1, <1>2 DEF Asked, Fresh, Resumes, Stays, EndQueued, Restarting, Holds

\* What the requests do not depend on may change.
LEMMA AskedFrame ==
  ASSUME Asked, UNCHANGED <<mp_state, restart, loop_at, held, auto_resume, is_seek, read_at, failed>>,
         play'.pause_req = play.pause_req,
         "COMPLETED" \in Queued' <=> "COMPLETED" \in Queued
  PROVE  Asked'
  BY DEF Asked, Fresh, Resumes, Stays, Goes, EndQueued, Restarting, Holds

LEMMA LoopAsked == ASSUME TypeOK, IInv, Asked, MessageLoop PROVE Asked'
<1> USE DEF player, loopVars, reader
<1>q. ASSUME UNCHANGED queue PROVE Queued' = Queued
  BY <1>q DEF Queued
<1>1. CASE msg_queue_get
  <2>1. Queued = Queued' \cup {held'}
    BY <1>1, GetIs
  <2>2. /\ UNCHANGED <<mp_state, restart, auto_resume, is_seek, read_at, failed, play>>
        /\ loop_at = "getting" /\ loop_at' = "holding"
    BY <1>1 DEF msg_queue_get
  <2>3. EndQueued' <=> EndQueued
    BY <2>1, <2>2 DEF EndQueued, Holds
  <2> QED
    BY <2>2, <2>3 DEF Asked, Fresh, Resumes, Stays, Goes, Restarting
<1>2. CASE OnPrepared \/ OnSeekComplete \/ OnError
  <2>1. /\ UNCHANGED <<queue, restart, auto_resume, is_seek, read_at, failed, play>>
        /\ loop_at = "holding" /\ held # "COMPLETED" /\ loop_at' = "getting"
        /\ mp_state' = mp_state \/ mp_state' = "PREPARED"
    BY <1>2 DEF OnPrepared, OnSeekComplete, OnError, Holds
  <2>2. EndQueued' <=> EndQueued
    BY <1>q, <2>1 DEF EndQueued, Holds
  <2> QED
    BY <2>1, <2>2 DEF Asked, Fresh, Resumes, Stays, Goes, Restarting
<1>3. CASE OnCompleted
  <2>1. /\ UNCHANGED <<read_at>> /\ loop_at' = "getting" /\ mp_state' = "COMPLETED"
        /\ EndQueued
    BY <1>3 DEF OnCompleted, EndQueued, Holds
  <2> QED
    BY <2>1 DEF Asked, Fresh, Resumes, Stays, Restarting
<1>4. CASE ffp_start
  <2>1. /\ UNCHANGED <<queue, is_seek, read_at, failed>>
        /\ loop_at = "holding" /\ held # "COMPLETED" /\ loop_at' = "getting"
    BY <1>4 DEF ffp_start, Holds, Started
  <2>2. EndQueued' <=> EndQueued
    BY <1>q, <2>1 DEF EndQueued, Holds
  <2>3. CASE mp_state \in CheckedState
    <3>1. mp_state' = "STARTED" /\ restart' = FALSE /\ ~play'.pause_req
      BY <1>4, <2>3, TogglePauseKeeps DEF ffp_start, Started
    <3> QED
      BY <2>1, <2>2, <3>1 DEF Asked, Fresh, Resumes, Stays, Goes, Restarting
  <2>4. CASE mp_state \notin CheckedState
    <3>1. UNCHANGED <<mp_state, restart, auto_resume, play>>
      BY <1>4, <2>4 DEF ffp_start
    <3> QED
      BY <2>1, <2>2, <3>1 DEF Asked, Fresh, Resumes, Stays, Goes, Restarting
  <2> QED
    BY <2>3, <2>4
<1>5. CASE ffp_start_from
  <2>1. /\ UNCHANGED <<mp_state, restart, queue, is_seek, read_at, failed, play>>
        /\ loop_at' = "buffering" /\ auto_resume' = TRUE /\ restart
    BY <1>5 DEF ffp_start_from
  <2> QED
    BY <2>1 DEF Asked, Fresh, Resumes, Stays, Restarting
<1>6. CASE startBuffers
  <2>1. /\ UNCHANGED <<mp_state, restart, queue, is_seek, read_at, failed, auto_resume, held>>
        /\ loop_at = "buffering" /\ loop_at' = "seeking"
    BY <1>6 DEF startBuffers
  <2>2. play'.pause_req = play.pause_req
    BY <1>6, ToggleBufferingKeeps DEF startBuffers
  <2>3. EndQueued' <=> EndQueued
    BY <1>q, <2>1 DEF EndQueued, Holds
  <2> QED
    BY <2>1, <2>2, <2>3 DEF Asked, Fresh, Resumes, Stays, Goes, Restarting
<1>7. CASE startSeeks
  <2>1. /\ UNCHANGED <<queue, read_at, failed, auto_resume, held, play>>
        /\ loop_at = "seeking" /\ loop_at' = "getting" /\ mp_state' = "STARTED" /\ is_seek' = TRUE
    BY <1>7 DEF startSeeks, Started, stream_seek
  <2>2. EndQueued' <=> EndQueued
    BY <1>q, <2>1 DEF EndQueued, Holds
  <2> QED
    BY <2>1, <2>2 DEF Asked, Fresh, Resumes, Stays, Goes, Restarting
<1>8. CASE ffp_pause
  <2>1. /\ UNCHANGED <<restart, queue, is_seek, read_at, failed>>
        /\ loop_at = "holding" /\ held # "COMPLETED" /\ loop_at' = "getting"
    BY <1>8 DEF ffp_pause, Holds
  <2>2. EndQueued' <=> EndQueued
    BY <1>q, <2>1 DEF EndQueued, Holds
  <2>3. CASE mp_state \in CheckedState
    <3>1. mp_state' = "PAUSED" /\ play'.pause_req /\ ~auto_resume'
      BY <1>8, <2>3, TogglePauseKeeps DEF ffp_pause
    <3> QED
      BY <2>1, <2>2, <3>1 DEF Asked, Fresh, Resumes, Stays, Goes, Restarting
  <2>4. CASE mp_state \notin CheckedState
    <3>1. UNCHANGED <<mp_state, auto_resume, play>>
      BY <1>8, <2>4 DEF ffp_pause
    <3> QED
      BY <2>1, <2>2, <3>1 DEF Asked, Fresh, Resumes, Stays, Goes, Restarting
  <2> QED
    BY <2>3, <2>4
<1>9. CASE ffp_seek_to
  <2>1. /\ UNCHANGED <<mp_state, restart, queue, read_at, failed, auto_resume, play>>
        /\ loop_at = "holding" /\ held # "COMPLETED" /\ loop_at' = "getting"
        /\ is_seek' = TRUE \/ is_seek' = is_seek
    BY <1>9 DEF ffp_seek_to, Holds, stream_seek
  <2>2. EndQueued' <=> EndQueued
    BY <1>q, <2>1 DEF EndQueued, Holds
  <2> QED
    BY <2>1, <2>2 DEF Asked, Fresh, Resumes, Stays, Goes, Restarting
<1> QED
  BY <1>1, <1>2, <1>3, <1>4, <1>5, <1>6, <1>7, <1>8, <1>9 DEF MessageLoop

LEMMA ReadAsked == ASSUME TypeOK, IInv, Asked, ReadThread PROVE Asked'
<1> USE DEF player, loopVars
<1>q. ASSUME UNCHANGED queue PROVE Queued' = Queued
  BY <1>q DEF Queued
<1>p. ASSUME NEW m \in Message, Put(m) PROVE Queued' = Queued \cup {m}
  BY <1>p, PutIs DEF TypeOK
<1>1. CASE checkResume \/ resumeAsked
  <2>1. /\ UNCHANGED <<mp_state, restart, loop_at, held, play, is_seek, failed>>
        /\ read_at \in {"prepared", "resuming"} /\ read_at' \in {"resuming", "reading"}
        /\ auto_resume' => auto_resume
    BY <1>1 DEF checkResume, resumeAsked, ReadStep, TypeOK
  <2>2. "COMPLETED" \in Queued' <=> "COMPLETED" \in Queued
    <3>1. Put("REQ_START") \/ UNCHANGED queue
      BY <1>1 DEF checkResume, resumeAsked
    <3> QED
      BY <1>q, <1>p, <3>1 DEF Message
  <2> QED
    BY <2>1, <2>2 DEF Asked, Fresh, Resumes, Stays, Goes, EndQueued, Restarting, Holds
<1>2. CASE beginSeek
  <2>1. /\ UNCHANGED <<mp_state, restart, loop_at, held, is_seek, failed, auto_resume, queue>>
        /\ read_at = "reading" /\ read_at' = "seeking"
    BY <1>2 DEF beginSeek, ReadStep
  <2>2. play'.pause_req = play.pause_req
    BY <1>2, ToggleBufferingKeeps DEF beginSeek
  <2> QED
    BY <1>q, <2>1, <2>2 DEF Asked, Fresh, Resumes, Stays, Goes, EndQueued, Restarting, Holds
<1>3. CASE avformat_seek
  <2>1. /\ UNCHANGED <<mp_state, restart, loop_at, held, failed, auto_resume, queue, play>>
        /\ read_at = "seeking" /\ read_at' = "sought"
    BY <1>3 DEF avformat_seek, ReadStep
  <2> QED
    BY <1>q, <2>1 DEF Asked, Fresh, Resumes, Stays, Goes, EndQueued, Restarting, Holds
<1>4. CASE resumeOrStep
  <2>1. /\ UNCHANGED <<mp_state, restart, loop_at, held, failed, is_seek, queue>>
        /\ read_at = "sought" /\ read_at' = "telling" /\ auto_resume' = FALSE
    BY <1>4 DEF resumeOrStep, ReadStep
  <2>2. /\ auto_resume => ~play'.pause_req
        /\ ~auto_resume => play'.pause_req = play.pause_req
    BY <1>4, resumeOrStepKeeps
  <2> QED
    BY <1>q, <2>1, <2>2 DEF Asked, Fresh, Resumes, Stays, Goes, EndQueued, Restarting, Holds
<1>5. CASE tellSeek
  <2>1. /\ UNCHANGED <<mp_state, restart, loop_at, held, failed, is_seek, auto_resume, play>>
        /\ read_at = "telling" /\ read_at' = "rebuffering" /\ Put("SEEK_COMPLETE")
    BY <1>5 DEF tellSeek, ReadStep
  <2>2. "COMPLETED" \in Queued' <=> "COMPLETED" \in Queued
    BY <1>p, <2>1 DEF Message
  <2> QED
    BY <2>1, <2>2 DEF Asked, Fresh, Resumes, Stays, Goes, EndQueued, Restarting, Holds
<1>6. CASE rebuffer
  <2>1. /\ UNCHANGED <<mp_state, restart, loop_at, held, is_seek, failed, auto_resume, queue>>
        /\ read_at = "rebuffering" /\ read_at' = "reading"
    BY <1>6 DEF rebuffer, ReadStep
  <2>2. play'.pause_req = play.pause_req
    BY <1>6, ToggleBufferingKeeps DEF rebuffer
  <2> QED
    BY <1>q, <2>1, <2>2 DEF Asked, Fresh, Resumes, Stays, Goes, EndQueued, Restarting, Holds
<1>7. CASE buffered \/ endBuffering
  <2>1. /\ UNCHANGED <<mp_state, restart, loop_at, held, is_seek, failed, auto_resume, queue>>
        /\ \/ read_at = "reading" /\ read_at' = "reading"
           \/ read_at = "ending" /\ read_at' = "stopping"
    BY <1>7 DEF buffered, endBuffering, ReadStep, reader
  <2>2. play'.pause_req = play.pause_req
    BY <1>7, ToggleBufferingKeeps DEF buffered, endBuffering
  <2> QED
    BY <1>q, <2>1, <2>2 DEF Asked, Fresh, Resumes, Stays, Goes, EndQueued, Restarting, Holds
<1>8. CASE startOver
  <2>1. /\ UNCHANGED <<mp_state, restart, loop_at, held, failed, auto_resume, queue, play, read_at>>
        /\ is_seek' = TRUE
    BY <1>8 DEF startOver, stream_seek, reader
  <2> QED
    BY <1>q, <2>1 DEF Asked, Fresh, Resumes, Stays, Goes, EndQueued, Restarting, Holds
<1>9. CASE complete
  <2>1. /\ UNCHANGED <<mp_state, restart, loop_at, held, failed, queue, play, is_seek>>
        /\ read_at' = "ending" /\ auto_resume' = FALSE
    BY <1>9 DEF complete
  <2> QED
    BY <1>q, <2>1 DEF Asked, Fresh, Resumes, Stays, Goes, EndQueued, Restarting, Holds
<1>10. CASE endPause
  <2>1. /\ UNCHANGED <<mp_state, restart, loop_at, held, failed, queue, is_seek>>
        /\ read_at' = "reporting"
    BY <1>10 DEF endPause, ReadStep
  <2>2. play'.pause_req = TRUE /\ auto_resume' = FALSE
    BY <1>10, TogglePauseKeeps DEF endPause
  <2> QED
    BY <1>q, <2>1, <2>2 DEF Asked, Fresh, Resumes, Stays, Goes, EndQueued, Restarting, Holds
<1>11. CASE reportEnd
  <2>1. /\ UNCHANGED <<mp_state, restart, loop_at, held, auto_resume, play, is_seek>>
        /\ read_at = "reporting" /\ read_at' = "reading"
        /\ Put("COMPLETED") \/ failed' = TRUE
    BY <1>11 DEF reportEnd, ReadStep
  <2>2. "COMPLETED" \in Queued' \/ failed' = TRUE
    BY <1>p, <2>1 DEF Message
  <2>3. Goes'
    BY <2>2 DEF Goes, EndQueued
  <2> QED
    BY <2>1, <2>3 DEF Asked, Fresh, Resumes, Stays, Restarting
<1> QED
  BY <1>1, <1>2, <1>3, <1>4, <1>5, <1>6, <1>7, <1>8, <1>9, <1>10, <1>11 DEF ReadThread, Seeking, Ending

LEMMA AskedStep == TypeOK /\ IInv /\ Asked /\ [Next]_vars => Asked'
<1> SUFFICES ASSUME TypeOK, IInv, Asked, [Next]_vars PROVE Asked'
  OBVIOUS
<1>1. CASE Application
  <2>1. PICK what \in SUBSET {"REQ_START", "REQ_PAUSE", "REQ_SEEK"},
             m \in {"REQ_START", "REQ_PAUSE", "REQ_SEEK"} : Ask(what, m)
    BY <1>1 DEF Application, start, pause, seekTo
  <2>2. UNCHANGED <<mp_state, restart, loop_at, held, auto_resume, is_seek, read_at, failed, play>>
    BY <2>1 DEF Ask, loopVars, reader
  <2> QED
    BY <2>1, <2>2, AskIs, AskedFrame
<1>2. CASE starve \/ chooseFrame \/ video_refresh \/ UNCHANGED vars
  <2>1. UNCHANGED <<mp_state, restart, loop_at, held, auto_resume, is_seek, read_at, failed, queue>>
    BY <1>2 DEF starve, chooseFrame, video_refresh, vars, player, loopVars, reader
  <2>2. play'.pause_req = play.pause_req
    <3>1. CASE starve
      BY <3>1, ToggleBufferingKeeps DEF starve
    <3>2. CASE video_refresh
      <4> DEFINE stepped == [play EXCEPT !.step = FALSE]
      <4>1. stepped \in Flags /\ stepped.pause_req = play.pause_req
        BY DEF IInv, Flags
      <4>2. play' = stream_update_pause(stepped) \/ play' = stepped
        BY <3>2 DEF video_refresh
      <4> HIDE DEF stepped
      <4> QED
        BY <4>1, <4>2, UpdateExcuses
    <3>3. CASE UNCHANGED play
      BY <3>3
    <3> QED
      BY <1>2, <3>1, <3>2, <3>3 DEF chooseFrame, vars
  <2>3. Queued' = Queued
    BY <2>1 DEF Queued
  <2> QED
    BY <2>1, <2>2, <2>3, AskedFrame
<1> QED
  BY <1>1, <1>2, LoopAsked, ReadAsked DEF Next

\* When everything has been carried out, a STARTED player plays, unless an error
\* ended it, and a PAUSED one was asked to pause: restarts, seeks, loops, ends of
\* the stream and early starts included, for any number of calls.
THEOREM RequestsObeyed == Spec => []StateObeyed
<1>1. ASSUME Asked, Quiet PROVE /\ mp_state = "STARTED" => ~play.pause_req \/ failed
                                /\ mp_state = "PAUSED" => play.pause_req
  <2>1. Queued = {}
    BY <1>1 DEF Quiet, Queued
  <2> QED
    BY <1>1, <2>1 DEF Quiet, Asked, Resumes, Stays, Goes, EndQueued, Restarting, Holds
<1>2. Asked => StateObeyed
  BY <1>1 DEF StateObeyed
<1> QED
  BY <1>2, InitAsked, AskedStep, Invariance, TypeCorrect, PTL DEF Spec

-----------------------------------------------------------------------------
Codec == [serial : Nat, refs : Nat, started : BOOLEAN, valid : BOOLEAN, held : SUBSET Buffers]
Proxied == [serial : Nat, index : Buffers \cup {NoIndex}]

InnerAt == {"flushing", "stop", "clear", "create", "set"}
NodeAt  == InnerAt \cup {"none", "pop", "flush", "check", "reconfigure", "first", "feed", "rest", "done"}
DoneAt  == {"done", "closed", "released", "freed"}
OpenAt  == {"init", "open", "configure", "publish"}
LoopAt  == {"top", "obtain", "obtained", "have", "failed", "feeding", "join", "stop"}

CodecTypes ==
  /\ opt \in Options
  /\ codec \in [Codecs -> Codec] /\ acodec \in {0} \cup Codecs /\ vout_acodec \in {0} \cup Codecs
  /\ got \in Buffers \cup {NoIndex}

HandTypes ==
  /\ frame \in Proxied /\ pictq \in Seq(Proxied)
  /\ early = <<>> \/ \E p \in Proxied : early = <<p>>

NodeTypes == CodecTypes /\ HandTypes

NodePlaces ==
  /\ in_at \in NodeAt
  /\ out_at \in OpenAt \cup LoopAt \cup DoneAt \cup {"software"}
  /\ out_at \in OpenAt \cup {"software"} => in_at = "none"
  /\ in_at = "none" => out_at \in OpenAt \cup DoneAt \cup {"software"}
  /\ acodec_mutex = IF in_at \in InnerAt THEN "in" ELSE IF out_at = "obtain" THEN "out" ELSE "free"
  /\ out_at = "obtain" => in_at \notin InnerAt
  /\ out_at \in DoneAt \cup {"stop"} => in_at \in {"none", "rest", "done"}
  /\ opt.sync /\ out_at # "feeding" => in_at \in {"none", "rest"}
  /\ in_at = "rest" => opt.sync
  /\ out_at \in {"failed", "join", "stop"} => aborted
  /\ acodec = 0 => in_at \in {"clear", "create"}
                   \/ out_at \in {"init", "open", "configure", "software"} \cup DoneAt
  /\ out_at = "init" \/ in_at \in {"clear", "create"} => acodec = 0

\* A codec is there as long as the node or the video output has it, and a serial is that of one.
NodeCounted ==
  /\ \A c \in Codecs :
       /\ codec[c].refs = (IF acodec = c THEN 1 ELSE 0) + (IF vout_acodec = c THEN 1 ELSE 0)
       /\ codec[c].refs = 0 => codec[c] = Dead
       /\ codec[c].serial = 0 => codec[c].held = {}
  /\ \A c, d \in Codecs : codec[c].serial = codec[d].serial => c = d \/ codec[c].serial = 0

\* The video output has the codec of the node, or none, or the last one.
VoutHas ==
  /\ vout_acodec # 0 =>
       vout_acodec = acodec \/ (acodec = 0 /\ (in_at = "clear" \/ out_at \in DoneAt))
  /\ in_at \in {"create", "set"} \/ out_at \in OpenAt => vout_acodec = 0
  /\ (in_at = "set" \/ out_at \in OpenAt) /\ acodec # 0 => codec[acodec].held = {}

\* The memory of one of the two codecs is free when a codec is made.
FreeAtHand ==
  /\ acodec = 0 /\ vout_acodec = 0 => Free \in Codecs /\ codec[Free] = Dead
  /\ (acodec = 0 /\ out_at \in OpenAt) \/ in_at = "create" => acodec = 0 /\ vout_acodec = 0

LEMMA NoCodec == 0 \notin Codecs
  BY DEF Codecs

LEMMA FreeIsThere ==
  ASSUME NodePlaces, NodeCounted, VoutHas
  PROVE  FreeAtHand
<1>1. ASSUME acodec = 0, vout_acodec = 0 PROVE Free \in Codecs /\ codec[Free] = Dead
  <2>1. 1 \in Codecs /\ codec[1] = Dead
    BY <1>1 DEF NodeCounted, Codecs
  <2> QED
    BY <2>1 DEF Free
<1> QED
  BY <1>1 DEF FreeAtHand, NodePlaces, VoutHas

Hands == Proxies \cup Range(early)

LEMMA HandsAre ==
  ASSUME NodeTypes
  PROVE  /\ Hands \subseteq Proxied
         /\ IsFiniteSet(Hands)
<1>1. IsFiniteSet({pictq[i] : i \in DOMAIN pictq})
  <2>1. DOMAIN pictq = 1 .. Len(pictq) /\ Len(pictq) \in Nat
    BY DEF NodeTypes, HandTypes
  <2>2. IsFiniteSet(1 .. Len(pictq))
    BY <2>1, FS_Interval
  <2> DEFINE f == [i \in 1 .. Len(pictq) |-> pictq[i]]
  <2>3. f \in Surjection(1 .. Len(pictq), {pictq[i] : i \in DOMAIN pictq})
    BY <2>1 DEF Surjection
  <2> QED
    BY <2>2, <2>3, FS_Surjection
<1>2. IsFiniteSet(Range(early)) /\ Range(early) \subseteq Proxied
  <2>1. CASE early = <<>>
    <3>1. Range(early) = {}
      BY <2>1 DEF Range
    <3> QED
      BY <3>1, FS_EmptySet
  <2>2. CASE \E p \in Proxied : early = <<p>>
    <3>1. PICK p \in Proxied : early = <<p>>
      BY <2>2
    <3>2. Range(early) = {p}
      BY <3>1 DEF Range
    <3> QED
      BY <3>2, FS_Singleton
  <2> QED
    BY <2>1, <2>2 DEF NodeTypes, HandTypes
<1>3. Proxies \subseteq Proxied
  BY DEF Proxies, NodeTypes, HandTypes
<1>4. IsFiniteSet({frame})
  BY FS_Singleton
<1>5. IsFiniteSet(Proxies)
  BY <1>1, <1>4, FS_Union DEF Proxies
<1> QED
  BY <1>2, <1>3, <1>5, FS_Union DEF Hands

FreshAtHand ==
  /\ FreshSerial \in Nat \ {0}
  /\ \A c \in Codecs : codec[c].serial # FreshSerial
  /\ \A p \in Hands : p.serial # FreshSerial

LEMMA FreshIsNew ==
  ASSUME NodeTypes
  PROVE  FreshAtHand
<1> DEFINE used == {codec[c].serial : c \in Codecs} \cup {p.serial : p \in Hands}
<1>1. IsFiniteSet({codec[c].serial : c \in Codecs})
  <2>1. {codec[c].serial : c \in Codecs} = {codec[1].serial} \cup {codec[2].serial}
    BY DEF Codecs
  <2>2. IsFiniteSet({codec[1].serial}) /\ IsFiniteSet({codec[2].serial})
    BY FS_Singleton
  <2>3. IsFiniteSet({codec[1].serial} \cup {codec[2].serial})
    BY <2>2, FS_Union
  <2> QED
    BY <2>1, <2>3
<1>2. IsFiniteSet({p.serial : p \in Hands})
  <2> DEFINE f == [p \in Hands |-> p.serial]
  <2>1. f \in Surjection(Hands, {p.serial : p \in Hands})
    BY DEF Surjection
  <2> QED
    BY <2>1, HandsAre, FS_Surjection
<1>3. IsFiniteSet(used) /\ Cardinality(used) \in Nat
  BY <1>1, <1>2, FS_Union, FS_CardinalityType
<1>4. \E n \in 1 .. Cardinality(used) + 1 : n \notin used
  <2>1. SUFFICES ASSUME 1 .. Cardinality(used) + 1 \subseteq used PROVE FALSE
    OBVIOUS
  <2>2. Cardinality(1 .. Cardinality(used) + 1) <= Cardinality(used)
    BY <1>3, <2>1, FS_Subset
  <2>3. Cardinality(1 .. Cardinality(used) + 1) = Cardinality(used) + 1
    BY <1>3, FS_Interval
  <2> QED
    BY <1>3, <2>2, <2>3
<1>5. FreshSerial = CHOOSE n \in 1 .. Cardinality(used) + 1 : n \notin used
  BY Zenon DEF FreshSerial, Hands
<1>6. FreshSerial \in 1 .. Cardinality(used) + 1 /\ FreshSerial \notin used
  BY <1>4, <1>5
<1>7. FreshSerial \in Nat \ {0}
  BY <1>3, <1>6
<1> QED
  BY <1>6, <1>7 DEF FreshAtHand

-----------------------------------------------------------------------------
(* What the operators on codecs do.                                        *)

LEMMA DropIs ==
  ASSUME NEW cs \in [Codecs -> Codec], NEW c \in Codecs, cs[c].refs > 0
  PROVE  /\ Drop(cs, c) \in [Codecs -> Codec]
         /\ \A d \in Codecs : d # c => Drop(cs, c)[d] = cs[d]
         /\ cs[c].refs = 1 => Drop(cs, c)[c] = Dead
         /\ cs[c].refs # 1 => /\ Drop(cs, c)[c].refs = cs[c].refs - 1
                              /\ Drop(cs, c)[c].serial = cs[c].serial
                              /\ Drop(cs, c)[c].held = cs[c].held
<1>1. Dead \in Codec
  BY DEF Dead, Codec
<1>2. CASE cs[c].refs = 1
  BY <1>1, <1>2, NoCodec DEF Drop
<1>3. CASE cs[c].refs # 1
  <2>1. Drop(cs, c) = [cs EXCEPT ![c] = [cs[c] EXCEPT !.refs = @ - 1]]
    BY <1>3, NoCodec DEF Drop
  <2>2. cs[c].refs - 1 \in Nat
    BY DEF Codec
  <2>3. [cs[c] EXCEPT !.refs = @ - 1] \in Codec
    BY <2>2 DEF Codec
  <2> QED
    BY <1>3, <2>1, <2>3 DEF Codec
<1> QED
  BY <1>2, <1>3

LEMMA TakeIs ==
  ASSUME NEW cs \in [Codecs -> Codec], NEW c \in {0} \cup Codecs
  PROVE  /\ Take(cs, c) \in [Codecs -> Codec]
         /\ \A d \in Codecs : d # c => Take(cs, c)[d] = cs[d]
         /\ c # 0 => /\ Take(cs, c)[c].refs = cs[c].refs + 1
                     /\ Take(cs, c)[c].serial = cs[c].serial
                     /\ Take(cs, c)[c].held = cs[c].held
<1>1. CASE c = 0
  BY <1>1 DEF Take
<1>2. CASE c # 0
  <2>1. c \in Codecs /\ cs[c] \in Codec
    BY <1>2
  <2>2. Take(cs, c) = [cs EXCEPT ![c] = [cs[c] EXCEPT !.refs = @ + 1]]
    BY <1>2, <2>1 DEF Take
  <2>3. [cs[c] EXCEPT !.refs = @ + 1] \in Codec
    BY <2>1 DEF Codec
  <2> QED
    BY <1>2, <2>1, <2>2, <2>3 DEF Codec
<1> QED
  BY <1>1, <1>2

LEMMA RenewedIs ==
  ASSUME codec \in [Codecs -> Codec], FreshAtHand, NEW c \in Codecs, NEW on \in BOOLEAN
  PROVE  /\ Renewed(c, on) \in [Codecs -> Codec]
         /\ \A d \in Codecs : d # c => Renewed(c, on)[d] = codec[d]
         /\ Renewed(c, on)[c].refs = codec[c].refs
         /\ codec[c].serial = 0 => /\ Renewed(c, on)[c].serial = 0
                                   /\ Renewed(c, on)[c].held = codec[c].held
         /\ codec[c].serial # 0 => /\ Renewed(c, on)[c].serial = FreshSerial
                                   /\ Renewed(c, on)[c].held = {}
<1>1. codec[c] \in Codec
  OBVIOUS
<1>2. CASE codec[c].serial = 0
  <2>1. Renewed(c, on) = [codec EXCEPT ![c] = [codec[c] EXCEPT !.started = on]]
    BY <1>2 DEF Renewed, Dummy
  <2>2. [codec[c] EXCEPT !.started = on] \in Codec
    BY <1>1 DEF Codec
  <2> QED
    BY <1>1, <1>2, <2>1, <2>2 DEF Codec
<1>3. CASE codec[c].serial # 0
  <2> DEFINE k == [codec[c] EXCEPT !.started = on, !.held = {}, !.serial = FreshSerial]
  <2>1. Renewed(c, on) = [codec EXCEPT ![c] = k]
    BY <1>1, <1>3 DEF Renewed, Dummy, Codec
  <2>2. k \in Codec /\ k.refs = codec[c].refs /\ k.serial = FreshSerial /\ k.held = {}
    BY <1>1 DEF Codec, FreshAtHand
  <2> HIDE DEF k
  <2> QED
    BY <1>1, <1>3, <2>1, <2>2 DEF Codec
<1> QED
  BY <1>2, <1>3

Stopped(c) == IF codec[c].started THEN Renewed(c, FALSE) ELSE codec

LEMMA StoppedIs ==
  ASSUME codec \in [Codecs -> Codec], FreshAtHand, NEW c \in Codecs,
         codec[c].serial = 0 => codec[c].held = {}
  PROVE  /\ Stopped(c) \in [Codecs -> Codec]
         /\ \A d \in Codecs : d # c => Stopped(c)[d] = codec[d]
         /\ Stopped(c)[c].refs = codec[c].refs
         /\ Stopped(c)[c].serial = 0 => Stopped(c)[c].held = {}
         /\ Stopped(c)[c].serial = codec[c].serial \/ Stopped(c)[c].serial = FreshSerial
         /\ \/ Stopped(c)[c].held = codec[c].held /\ Stopped(c)[c].serial = codec[c].serial
            \/ Stopped(c)[c].held = {} /\ Stopped(c)[c].serial = FreshSerial
<1>1. FreshSerial # 0
  BY DEF FreshAtHand
<1>2. CASE codec[c].started
  <2>1. Stopped(c) = Renewed(c, FALSE)
    BY <1>2 DEF Stopped
  <2>2. /\ Stopped(c) \in [Codecs -> Codec]
        /\ \A d \in Codecs : d # c => Stopped(c)[d] = codec[d]
        /\ Stopped(c)[c].refs = codec[c].refs
        /\ codec[c].serial = 0 => Stopped(c)[c].serial = 0 /\ Stopped(c)[c].held = codec[c].held
        /\ codec[c].serial # 0 => Stopped(c)[c].serial = FreshSerial /\ Stopped(c)[c].held = {}
    BY <2>1, RenewedIs
  <2> QED
    BY <1>1, <2>2
<1>3. CASE ~codec[c].started
  BY <1>3 DEF Stopped
<1> QED
  BY <1>2, <1>3

LEMMA GivenBackIs ==
  ASSUME codec \in [Codecs -> Codec], NEW c \in Codecs, NEW b
  PROVE  /\ GivenBack(c, b) \in [Codecs -> Codec]
         /\ \A d \in Codecs : d # c => GivenBack(c, b)[d] = codec[d]
         /\ GivenBack(c, b)[c].refs = codec[c].refs
         /\ GivenBack(c, b)[c].serial = codec[c].serial
         /\ GivenBack(c, b)[c].held = codec[c].held \ {b}
<1> DEFINE k == [codec[c] EXCEPT !.held = @ \ {b}]
<1>1. GivenBack(c, b) = [codec EXCEPT ![c] = k]
  BY DEF GivenBack
<1>2. /\ k \in Codec /\ k.refs = codec[c].refs /\ k.serial = codec[c].serial
      /\ k.held = codec[c].held \ {b}
  BY DEF Codec
<1> HIDE DEF k
<1> QED
  BY <1>1, <1>2

LEMMA CreatedIs ==
  ASSUME FreshAtHand
  PROVE  /\ CreateInternal(FreshSerial) \in Codec /\ CreateCodec \in Codec
         /\ CreateInternal(FreshSerial).serial = FreshSerial
         /\ CreateCodec.serial \in {0, FreshSerial}
         /\ CreateInternal(FreshSerial).refs = 1 /\ CreateInternal(FreshSerial).held = {}
         /\ CreateCodec.refs = 1 /\ CreateCodec.held = {}
         /\ \A k \in Codec : /\ Start(Configure(k)) \in Codec
                             /\ Start(Configure(k)).refs = k.refs
                             /\ Start(Configure(k)).serial = k.serial
                             /\ Start(Configure(k)).held = k.held
  BY DEF FreshAtHand, Codec, CreateInternal, CreateDummy, CreateCodec, Start, Configure, Dead

LEMMA OneChanges ==
  ASSUME NodeCounted, NEW c \in Codecs, \A d \in Codecs : d # c => codec'[d] = codec[d],
         \A d \in Codecs : d # c => (acodec' = d <=> acodec = d) /\ (vout_acodec' = d <=> vout_acodec = d),
         codec'[c].refs = (IF acodec' = c THEN 1 ELSE 0) + (IF vout_acodec' = c THEN 1 ELSE 0),
         codec'[c].refs = 0 => codec'[c] = Dead,
         codec'[c].serial = 0 => codec'[c].held = {},
         codec'[c].serial \in {0, codec[c].serial} \/ (codec'[c].serial = FreshSerial /\ FreshAtHand)
  PROVE  NodeCounted'
<1>1. ASSUME NEW d \in Codecs
      PROVE  /\ codec'[d].refs = (IF acodec' = d THEN 1 ELSE 0) + (IF vout_acodec' = d THEN 1 ELSE 0)
             /\ codec'[d].refs = 0 => codec'[d] = Dead
             /\ codec'[d].serial = 0 => codec'[d].held = {}
  <2>1. CASE d = c
    BY <2>1
  <2>2. CASE d # c
    BY <2>2 DEF NodeCounted
  <2> QED
    BY <2>1, <2>2
<1>2. ASSUME NEW d \in Codecs, NEW e \in Codecs, codec'[d].serial = codec'[e].serial, d # e
      PROVE  codec'[d].serial = 0
  <2>1. CASE d # c /\ e # c
    BY <1>2, <2>1 DEF NodeCounted
  <2>2. CASE d = c
    BY <1>2, <2>2 DEF NodeCounted, FreshAtHand
  <2>3. CASE e = c
    BY <1>2, <2>3 DEF NodeCounted, FreshAtHand
  <2> QED
    BY <2>1, <2>2, <2>3
<1> QED
  BY <1>1, <1>2 DEF NodeCounted

LEMMA HeldAreCounted ==
  ASSUME NodeCounted, NEW c \in Codecs, acodec = c \/ vout_acodec = c
  PROVE  /\ codec[c].refs > 0
         /\ codec[c].refs = 1 <=> acodec # c \/ vout_acodec # c
  BY DEF NodeCounted

LEMMA PlacesHold ==
  ASSUME NodePlaces, FreeAtHand, [CodecNext]_codecVars
  PROVE  NodePlaces'
<1> USE DEF NodePlaces, NodeAt, InnerAt, DoneAt, OpenAt, LoopAt, codecVars, nodeVars, voutVars, heldVars, surfVars, seekVars, optVars
<1>1. ASSUME OpenInit PROVE NodePlaces'
  BY <1>1 DEF OpenInit, FreeAtHand, Codecs
<1>2. ASSUME OpenRefused PROVE NodePlaces'
  BY <1>2 DEF OpenRefused, OpenFails, Destroy
<1>3. ASSUME OpenSurface PROVE NodePlaces'
  BY <1>3 DEF OpenSurface
<1>4. ASSUME OpenConfigure PROVE NodePlaces'
  BY <1>4 DEF OpenConfigure, OpenFails, Destroy, FreeAtHand, Codecs
<1>5. ASSUME OpenPublish PROVE NodePlaces'
  BY <1>5 DEF OpenPublish, FeedEnds
<1>6. ASSUME OpenNot PROVE NodePlaces'
  BY <1>6 DEF OpenNot
<1>7. ASSUME InPop PROVE NodePlaces'
  BY <1>7 DEF InPop, Exited, NextPacket, Examine
<1>8. ASSUME InFlushLock PROVE NodePlaces'
  BY <1>8 DEF InFlushLock, NextPacket, Examine
<1>9. ASSUME InFlush PROVE NodePlaces'
  BY <1>9 DEF InFlush, NextPacket, Examine
<1>10. ASSUME InCheck PROVE NodePlaces'
  BY <1>10 DEF InCheck, RecreateFormat, Exited
<1>11. ASSUME InReconfigure PROVE NodePlaces'
  BY <1>11 DEF InReconfigure
<1>12. ASSUME InStop PROVE NodePlaces'
  BY <1>12 DEF InStop, StopNode
<1>13. ASSUME InClear PROVE NodePlaces'
  BY <1>13 DEF InClear
<1>14. ASSUME InCreate PROVE NodePlaces'
  BY <1>14 DEF InCreate, FeedEnds, FreeAtHand, Codecs
<1>15. ASSUME InSet PROVE NodePlaces'
  BY <1>15 DEF InSet, FeedEnds
<1>16. ASSUME InFirst PROVE NodePlaces'
  BY <1>16 DEF InFirst
<1>17. ASSUME InFeed PROVE NodePlaces'
  BY <1>17 DEF InFeed, Fake, QueueFake, InputQueued, QueueInputBuffer, FeedDummy, Exited, FeedEnds
<1>18. ASSUME OutDequeue PROVE NodePlaces'
  BY <1>18 DEF OutDequeue, Drained, Turn, FeedEnds
<1>19. ASSUME OutObtain PROVE NodePlaces'
  BY <1>19 DEF OutObtain, Fill, NoFill, Reorder, Drained, Turn
<1>20. ASSUME OutFirst PROVE NodePlaces'
  BY <1>20 DEF OutFirst
<1>21. ASSUME OutFailed PROVE NodePlaces'
  BY <1>21 DEF OutFailed
<1>22. ASSUME OutDrop PROVE NodePlaces'
  BY <1>22 DEF OutDrop, Turn
<1>23. ASSUME OutPush PROVE NodePlaces'
  BY <1>23 DEF OutPush, Turn
<1>24. ASSUME FeedReturns PROVE NodePlaces'
  BY <1>24 DEF FeedReturns
<1>25. ASSUME OutAbort PROVE NodePlaces'
  BY <1>25 DEF OutAbort
<1>26. ASSUME OutJoin PROVE NodePlaces'
  BY <1>26 DEF OutJoin, Exited
<1>27. ASSUME OutStop PROVE NodePlaces'
  BY <1>27 DEF OutStop, StopNode
<1>28. ASSUME CloseStream PROVE NodePlaces'
  BY <1>28 DEF CloseStream
<1>29. ASSUME DestroyPicture PROVE NodePlaces'
  BY <1>29 DEF DestroyPicture
<1>30. ASSUME Unpublish PROVE NodePlaces'
  BY <1>30 DEF Unpublish
<1>31. ASSUME FreePlayer PROVE NodePlaces'
  BY <1>31 DEF FreePlayer
<1>32. ASSUME Show PROVE NodePlaces'
  BY <1>32 DEF Show, Refreshing
<1>33. ASSUME NextPicture PROVE NodePlaces'
  BY <1>33 DEF NextPicture, Refreshing
<1>34. ASSUME NEW s \in Surfaces \cup {Null}, SetWindow(s) PROVE NodePlaces'
  BY <1>34 DEF SetWindow
<1>35. ASSUME SetPipeline PROVE NodePlaces'
  BY <1>35 DEF SetPipeline
<1>36. ASSUME SeekHint PROVE NodePlaces'
  BY <1>36 DEF SeekHint, Opening
<1>37. ASSUME SeekPut PROVE NodePlaces'
  BY <1>37 DEF SeekPut
<1>38. ASSUME Abort PROVE NodePlaces'
  BY <1>38 DEF Abort, Opening
<1>39. CASE UNCHANGED codecVars
  BY <1>39
<1> QED
  BY <1>1, <1>2, <1>3, <1>4, <1>5, <1>6, <1>7, <1>8, <1>9, <1>10, <1>11, <1>12, <1>13, <1>14, <1>15, <1>16, <1>17, <1>18, <1>19, <1>20, <1>21, <1>22, <1>23, <1>24, <1>25, <1>26, <1>27, <1>28, <1>29, <1>30, <1>31, <1>32, <1>33, <1>34, <1>35, <1>36, <1>37, <1>38, <1>39
  DEF CodecNext, OpenVideoDecoder, InputThread, FeedInputBuffer, Flush, Reconfigure, OutputThread, DrainOutputBuffer, OutputFrame, OutputEnds, Closing

LEMMA CodecsHold ==
  ASSUME CodecTypes, NodePlaces, NodeCounted, VoutHas, FreeAtHand, FreshAtHand, [CodecNext]_codecVars
  PROVE  (CodecTypes /\ NodeCounted /\ VoutHas)'
<1> USE NoCodec DEF codecVars, nodeVars, voutVars, heldVars, surfVars, seekVars, optVars
<1>1. ASSUME OpenInit PROVE (CodecTypes /\ NodeCounted /\ VoutHas)'
  <2>1. /\ acodec = 0 /\ vout_acodec = 0 /\ UNCHANGED <<vout_acodec, opt, got, in_at>> /\ in_at = "none"
        /\ codec \in [Codecs -> Codec] /\ opt \in Options /\ got \in Buffers \cup {NoIndex}
        /\ Free \in Codecs /\ codec[Free] = Dead /\ out_at' = "open"
        /\ \/ acodec' = Free /\ codec' = [codec EXCEPT ![Free] = CreateInternal(FreshSerial)]
           \/ UNCHANGED <<acodec, codec>>
    BY <1>1 DEF OpenInit, FreeAtHand, CodecTypes, NodeCounted, VoutHas, NodePlaces, NodeAt, InnerAt, DoneAt, OpenAt, LoopAt
  <2>2. CASE UNCHANGED <<acodec, codec>>
    BY <2>1, <2>2 DEF CodecTypes, NodeCounted, VoutHas, NodePlaces, NodeAt, InnerAt, DoneAt, OpenAt, LoopAt
  <2>3. CASE ~UNCHANGED <<acodec, codec>>
    <3> DEFINE k == CreateInternal(FreshSerial)
    <3>1. k \in Codec /\ k.refs = 1 /\ k.held = {} /\ k.serial = FreshSerial
      BY CreatedIs
    <3> HIDE DEF k
    <3>2. codec' \in [Codecs -> Codec] /\ codec'[Free] = k /\ acodec' = Free
          /\ \A d \in Codecs : d # Free => codec'[d] = codec[d]
      BY <2>1, <2>3, <3>1 DEF k
    <3>3. NodeCounted'
      <4>1. codec'[Free].refs = (IF acodec' = Free THEN 1 ELSE 0) + (IF vout_acodec' = Free THEN 1 ELSE 0)
        BY <2>1, <3>1, <3>2 DEF NodeCounted, Dead
      <4>2. (codec'[Free].refs = 0 => codec'[Free] = Dead) /\ (codec'[Free].serial = 0 => codec'[Free].held = {})
        BY <2>1, <3>1, <3>2 DEF NodeCounted, Dead
      <4>3. \A d \in Codecs : d # Free => (acodec' = d <=> acodec = d) /\ (vout_acodec' = d <=> vout_acodec = d)
        BY <2>1, <3>1, <3>2
      <4>4. codec'[Free].serial \in {0, codec[Free].serial} \/ (codec'[Free].serial = FreshSerial /\ FreshAtHand)
        BY <2>1, <3>1, <3>2 DEF Dead
      <4> QED
        BY <2>1, <3>1, <3>2, <4>1, <4>2, <4>3, <4>4, OneChanges
    <3> QED
      BY <2>1, <3>1, <3>2, <3>3 DEF VoutHas, CodecTypes, OpenAt, DoneAt
  <2> QED
    BY <2>2, <2>3
<1>2. ASSUME OpenRefused PROVE (CodecTypes /\ NodeCounted /\ VoutHas)'
    <2>1. /\ codec' = Drop(codec, acodec) /\ acodec' = 0 /\ vout_acodec = 0 /\ UNCHANGED <<vout_acodec, opt, got>>
          /\ acodec # 0 => codec[acodec].refs = 1
          /\ codec \in [Codecs -> Codec] /\ opt \in Options /\ got \in Buffers \cup {NoIndex} /\ acodec \in {0} \cup Codecs
          /\ in_at' = "none" /\ out_at' \in {"open", "software"}
      BY <1>2 DEF OpenRefused, OpenFails, Destroy, CodecTypes, NodeCounted, VoutHas, NodePlaces, NodeAt, InnerAt, DoneAt, OpenAt, LoopAt
    <2>2. CASE acodec = 0
      BY <2>1, <2>2 DEF Drop, CodecTypes, NodeCounted, VoutHas, NodePlaces, NodeAt, InnerAt, DoneAt, OpenAt, LoopAt
    <2>3. CASE acodec # 0
      <3>1. /\ codec' \in [Codecs -> Codec]
            /\ \A d \in Codecs : d # acodec => codec'[d] = codec[d]
            /\ codec'[acodec] = Dead /\ acodec \in Codecs
        BY <2>1, <2>3, DropIs
      <3>2. NodeCounted'
        <4>1. codec'[acodec].refs = (IF acodec' = acodec THEN 1 ELSE 0) + (IF vout_acodec' = acodec THEN 1 ELSE 0)
          BY <2>1, <2>3, <3>1 DEF NodeCounted, Dead
        <4>2. (codec'[acodec].refs = 0 => codec'[acodec] = Dead) /\ (codec'[acodec].serial = 0 => codec'[acodec].held = {})
          BY <2>1, <2>3, <3>1 DEF NodeCounted, Dead
        <4>3. \A d \in Codecs : d # acodec => (acodec' = d <=> acodec = d) /\ (vout_acodec' = d <=> vout_acodec = d)
          BY <2>1, <2>3, <3>1
        <4>4. codec'[acodec].serial \in {0, codec[acodec].serial} \/ (codec'[acodec].serial = FreshSerial /\ FreshAtHand)
          BY <2>1, <2>3, <3>1 DEF Dead
        <4> QED
          BY <2>1, <2>3, <3>1, <4>1, <4>2, <4>3, <4>4, OneChanges
      <3> QED
        BY <2>1, <3>1, <3>2 DEF CodecTypes, VoutHas, OpenAt, DoneAt
    <2> QED
      BY <2>2, <2>3
<1>3. ASSUME OpenSurface PROVE (CodecTypes /\ NodeCounted /\ VoutHas)'
  BY <1>3 DEF OpenSurface, CodecTypes, NodeCounted, VoutHas, NodePlaces, NodeAt, InnerAt, DoneAt, OpenAt, LoopAt
<1>4. ASSUME OpenConfigure PROVE (CodecTypes /\ NodeCounted /\ VoutHas)'
  <2> DEFINE k == Start(Configure(IF acodec # 0 THEN codec[acodec] ELSE CreateCodec))
              c == IF acodec # 0 THEN acodec ELSE Free
  <2>1. /\ c \in Codecs /\ vout_acodec = 0 /\ codec \in [Codecs -> Codec]
        /\ acodec \in {0} \cup Codecs /\ opt \in Options /\ got \in Buffers \cup {NoIndex}
        /\ acodec = 0 => codec[c] = Dead
        /\ acodec # 0 => codec[acodec].refs = 1 /\ codec[acodec].held = {}
        /\ in_at = "none"
    BY <1>4 DEF OpenConfigure, FreeAtHand, CodecTypes, NodeCounted, VoutHas, NodePlaces, NodeAt, InnerAt, DoneAt, OpenAt, LoopAt
  <2>2. /\ UNCHANGED <<vout_acodec, opt, got, in_at>>
        /\ \/ acodec' = c /\ codec' = [codec EXCEPT ![c] = k] /\ out_at' = "publish"
           \/ Destroy /\ out_at' \in {"open", "software"}
    BY <1>4 DEF OpenConfigure, OpenFails
  <2>3. k \in Codec /\ k.refs = 1 /\ k.held = {} /\ k.serial \in {0, FreshSerial, codec[c].serial}
    <3>1. CASE acodec # 0
      BY <2>1, <3>1, CreatedIs
    <3>2. CASE acodec = 0
      BY <3>2, CreatedIs
    <3> QED
      BY <3>1, <3>2
  <2> HIDE DEF k, c
  <2>4. CASE acodec' = c /\ codec' = [codec EXCEPT ![c] = k] /\ out_at' = "publish"
    <3>1. codec' \in [Codecs -> Codec] /\ codec'[c] = k
          /\ \A d \in Codecs : d # c => codec'[d] = codec[d]
      BY <2>1, <2>3, <2>4
    <3>2. acodec \in {0, c}
      BY DEF c
    <3>3. NodeCounted'
      <4>1. codec'[c].refs = (IF acodec' = c THEN 1 ELSE 0) + (IF vout_acodec' = c THEN 1 ELSE 0)
        BY <2>1, <2>2, <2>3, <2>4, <3>1, <3>2 DEF NodeCounted, Dead
      <4>2. (codec'[c].refs = 0 => codec'[c] = Dead) /\ (codec'[c].serial = 0 => codec'[c].held = {})
        BY <2>1, <2>2, <2>3, <2>4, <3>1, <3>2 DEF NodeCounted, Dead
      <4>3. \A d \in Codecs : d # c => (acodec' = d <=> acodec = d) /\ (vout_acodec' = d <=> vout_acodec = d)
        BY <2>1, <2>2, <2>3, <2>4, <3>1, <3>2
      <4>4. codec'[c].serial \in {0, codec[c].serial} \/ (codec'[c].serial = FreshSerial /\ FreshAtHand)
        BY <2>1, <2>2, <2>3, <2>4, <3>1, <3>2 DEF Dead
      <4> QED
        BY <2>1, <2>2, <2>3, <2>4, <3>1, <3>2, <4>1, <4>2, <4>3, <4>4, OneChanges
    <3> QED
      BY <2>1, <2>2, <2>3, <2>4, <3>1, <3>3 DEF VoutHas, CodecTypes, OpenAt, DoneAt
  <2>5. CASE Destroy /\ out_at' \in {"open", "software"}
      <3>1. /\ codec' = Drop(codec, acodec) /\ acodec' = 0 /\ vout_acodec = 0 /\ UNCHANGED <<vout_acodec, opt, got>>
            /\ acodec # 0 => codec[acodec].refs = 1
            /\ codec \in [Codecs -> Codec] /\ opt \in Options /\ got \in Buffers \cup {NoIndex} /\ acodec \in {0} \cup Codecs
            /\ in_at' = "none" /\ out_at' \in {"open", "software"}
        BY <2>1, <2>2, <2>5 DEF Destroy, CodecTypes, NodeCounted, VoutHas, NodePlaces, NodeAt, InnerAt, DoneAt, OpenAt, LoopAt
      <3>2. CASE acodec = 0
        BY <3>1, <3>2 DEF Drop, CodecTypes, NodeCounted, VoutHas, NodePlaces, NodeAt, InnerAt, DoneAt, OpenAt, LoopAt
      <3>3. CASE acodec # 0
        <4>1. /\ codec' \in [Codecs -> Codec]
              /\ \A d \in Codecs : d # acodec => codec'[d] = codec[d]
              /\ codec'[acodec] = Dead /\ acodec \in Codecs
          BY <3>1, <3>3, DropIs
        <4>2. NodeCounted'
          <5>1. codec'[acodec].refs = (IF acodec' = acodec THEN 1 ELSE 0) + (IF vout_acodec' = acodec THEN 1 ELSE 0)
            BY <3>1, <3>3, <4>1 DEF NodeCounted, Dead
          <5>2. (codec'[acodec].refs = 0 => codec'[acodec] = Dead) /\ (codec'[acodec].serial = 0 => codec'[acodec].held = {})
            BY <3>1, <3>3, <4>1 DEF NodeCounted, Dead
          <5>3. \A d \in Codecs : d # acodec => (acodec' = d <=> acodec = d) /\ (vout_acodec' = d <=> vout_acodec = d)
            BY <3>1, <3>3, <4>1
          <5>4. codec'[acodec].serial \in {0, codec[acodec].serial} \/ (codec'[acodec].serial = FreshSerial /\ FreshAtHand)
            BY <3>1, <3>3, <4>1 DEF Dead
          <5> QED
            BY <3>1, <3>3, <4>1, <5>1, <5>2, <5>3, <5>4, OneChanges
        <4> QED
          BY <3>1, <4>1, <4>2 DEF CodecTypes, VoutHas, OpenAt, DoneAt
      <3> QED
        BY <3>2, <3>3
  <2> QED
    BY <2>2, <2>4, <2>5
<1>5. ASSUME OpenPublish PROVE (CodecTypes /\ NodeCounted /\ VoutHas)'
  <2>1. /\ acodec \in Codecs /\ vout_acodec = 0 /\ vout_acodec' = acodec /\ UNCHANGED <<acodec, opt, got>>
        /\ codec \in [Codecs -> Codec] /\ opt \in Options /\ got \in Buffers \cup {NoIndex}
        /\ codec' = Take(Drop(codec, vout_acodec), acodec) /\ codec[acodec].held = {}
        /\ in_at' \notin {"create", "set"} /\ out_at' \notin OpenAt
    BY <1>5 DEF OpenPublish, SetAMediaCodec, FeedEnds, CodecTypes, NodeCounted, VoutHas, NodePlaces, NodeAt, InnerAt, DoneAt, OpenAt, LoopAt
  <2>2. Drop(codec, vout_acodec) = codec
    BY <2>1 DEF Drop
  <2>3. /\ codec' \in [Codecs -> Codec]
        /\ \A d \in Codecs : d # acodec => codec'[d] = codec[d]
        /\ codec'[acodec].refs = codec[acodec].refs + 1
        /\ codec'[acodec].serial = codec[acodec].serial /\ codec'[acodec].held = {}
    BY <2>1, <2>2, TakeIs
  <2>4. CodecTypes'
    BY <2>1, <2>3 DEF CodecTypes
  <2>5. NodeCounted'
    <3>1. codec'[acodec].refs = (IF acodec' = acodec THEN 1 ELSE 0) + (IF vout_acodec' = acodec THEN 1 ELSE 0)
      BY <2>1, <2>3 DEF NodeCounted, Dead
    <3>2. (codec'[acodec].refs = 0 => codec'[acodec] = Dead) /\ (codec'[acodec].serial = 0 => codec'[acodec].held = {})
      BY <2>1, <2>3 DEF NodeCounted, Dead
    <3>3. \A d \in Codecs : d # acodec => (acodec' = d <=> acodec = d) /\ (vout_acodec' = d <=> vout_acodec = d)
      BY <2>1, <2>3
    <3>4. codec'[acodec].serial \in {0, codec[acodec].serial} \/ (codec'[acodec].serial = FreshSerial /\ FreshAtHand)
      BY <2>1, <2>3 DEF Dead
    <3> QED
      BY <2>1, <2>3, <3>1, <3>2, <3>3, <3>4, OneChanges
  <2>6. VoutHas'
    BY <2>1, <2>3 DEF VoutHas, OpenAt, DoneAt
  <2> QED
    BY <2>4, <2>5, <2>6
<1>6. ASSUME OpenNot PROVE (CodecTypes /\ NodeCounted /\ VoutHas)'
  BY <1>6 DEF OpenNot, CodecTypes, NodeCounted, VoutHas, NodePlaces, NodeAt, InnerAt, DoneAt, OpenAt, LoopAt
<1>7. ASSUME InPop PROVE (CodecTypes /\ NodeCounted /\ VoutHas)'
  BY <1>7 DEF InPop, Exited, NextPacket, CodecTypes, NodeCounted, VoutHas, NodePlaces, NodeAt, InnerAt, DoneAt, OpenAt, LoopAt
<1>8. ASSUME InFlushLock PROVE (CodecTypes /\ NodeCounted /\ VoutHas)'
  BY <1>8 DEF InFlushLock, NextPacket, CodecTypes, NodeCounted, VoutHas, NodePlaces, NodeAt, InnerAt, DoneAt, OpenAt, LoopAt
<1>9. ASSUME InFlush PROVE (CodecTypes /\ NodeCounted /\ VoutHas)'
  <2>1. /\ acodec \in Codecs /\ codec' = Renewed(acodec, TRUE) /\ UNCHANGED <<acodec, vout_acodec, opt, got, out_at>>
        /\ codec \in [Codecs -> Codec] /\ opt \in Options /\ got \in Buffers \cup {NoIndex}
        /\ in_at' \notin {"create", "set", "clear"} /\ in_at # "clear" /\ out_at \notin OpenAt /\ codec[acodec].refs # 0
    BY <1>9 DEF InFlush, NextPacket, CodecTypes, NodeCounted, VoutHas, NodePlaces, NodeAt, InnerAt, DoneAt, OpenAt, LoopAt
  <2>2. /\ codec' \in [Codecs -> Codec]
        /\ \A d \in Codecs : d # acodec => codec'[d] = codec[d]
        /\ codec'[acodec].refs = codec[acodec].refs
        /\ codec[acodec].serial = 0 => codec'[acodec].serial = 0 /\ codec'[acodec].held = codec[acodec].held
        /\ codec[acodec].serial # 0 => codec'[acodec].serial = FreshSerial /\ codec'[acodec].held = {}
    BY <2>1, RenewedIs
  <2>3. CodecTypes'
    BY <2>1, <2>2 DEF CodecTypes
  <2>4. NodeCounted'
    <3>1. codec'[acodec].refs = (IF acodec' = acodec THEN 1 ELSE 0) + (IF vout_acodec' = acodec THEN 1 ELSE 0)
      BY <2>1, <2>2 DEF NodeCounted, Dead
    <3>2. (codec'[acodec].refs = 0 => codec'[acodec] = Dead) /\ (codec'[acodec].serial = 0 => codec'[acodec].held = {})
      BY <2>1, <2>2 DEF NodeCounted, Dead
    <3>3. \A d \in Codecs : d # acodec => (acodec' = d <=> acodec = d) /\ (vout_acodec' = d <=> vout_acodec = d)
      BY <2>1, <2>2
    <3>4. codec'[acodec].serial \in {0, codec[acodec].serial} \/ (codec'[acodec].serial = FreshSerial /\ FreshAtHand)
      BY <2>1, <2>2 DEF Dead
    <3> QED
      BY <2>1, <2>2, <3>1, <3>2, <3>3, <3>4, OneChanges
  <2>5. VoutHas'
    BY <2>1, <2>2 DEF VoutHas, OpenAt, DoneAt
  <2> QED
    BY <2>3, <2>4, <2>5
<1>10. ASSUME InCheck PROVE (CodecTypes /\ NodeCounted /\ VoutHas)'
  BY <1>10 DEF InCheck, RecreateFormat, Exited, CodecTypes, NodeCounted, VoutHas, NodePlaces, NodeAt, InnerAt, DoneAt, OpenAt, LoopAt
<1>11. ASSUME InReconfigure PROVE (CodecTypes /\ NodeCounted /\ VoutHas)'
  BY <1>11 DEF InReconfigure, CodecTypes, NodeCounted, VoutHas, NodePlaces, NodeAt, InnerAt, DoneAt, OpenAt, LoopAt
<1>12. ASSUME InStop PROVE (CodecTypes /\ NodeCounted /\ VoutHas)'
  <2>1. /\ codec' = Drop(IF codec[acodec].started THEN Renewed(acodec, FALSE) ELSE codec, acodec)
        /\ acodec' = 0 /\ acodec \in Codecs /\ vout_acodec \in {0} \cup Codecs /\ UNCHANGED <<vout_acodec, opt, got>>
        /\ codec \in [Codecs -> Codec] /\ opt \in Options /\ got \in Buffers \cup {NoIndex}
        /\ codec[acodec].refs > 0 /\ (codec[acodec].serial = 0 => codec[acodec].held = {})
        /\ in_at' = "clear" /\ UNCHANGED out_at /\ out_at \notin OpenAt
    BY <1>12 DEF InStop, StopNode, CodecTypes, NodeCounted, VoutHas, NodePlaces, NodeAt, InnerAt, DoneAt, OpenAt, LoopAt
  <2> DEFINE r == Stopped(acodec)
  <2>2. codec' = Drop(r, acodec)
    BY <2>1 DEF Stopped
  <2>3. /\ r \in [Codecs -> Codec] /\ \A d \in Codecs : d # acodec => r[d] = codec[d]
        /\ r[acodec].refs = codec[acodec].refs
        /\ r[acodec].serial = 0 => r[acodec].held = {}
        /\ r[acodec].serial = codec[acodec].serial \/ r[acodec].serial = FreshSerial
    BY <2>1, StoppedIs
  <2>4. r[acodec].refs > 0 /\ acodec \in Codecs
    BY <2>1, <2>3
  <2> HIDE DEF r
  <2>5. /\ codec' \in [Codecs -> Codec]
        /\ \A d \in Codecs : d # acodec => codec'[d] = r[d]
        /\ r[acodec].refs = 1 => codec'[acodec] = Dead
        /\ r[acodec].refs # 1 => /\ codec'[acodec].refs = r[acodec].refs - 1
                                 /\ codec'[acodec].serial = r[acodec].serial
                                 /\ codec'[acodec].held = r[acodec].held
    BY <2>2, <2>4, <2>3, DropIs
  <2>6. /\ codec' \in [Codecs -> Codec] /\ \A d \in Codecs : d # acodec => codec'[d] = codec[d]
        /\ acodec' # acodec /\ vout_acodec' = vout_acodec
        /\ vout_acodec # acodec => codec'[acodec] = Dead /\ codec'[acodec].refs = 0 /\ codec'[acodec].serial = 0 /\ codec'[acodec].held = {}
        /\ vout_acodec = acodec =>
             /\ codec'[acodec].refs = 1
             /\ codec'[acodec].serial = 0 => codec'[acodec].held = {}
             /\ codec'[acodec].serial \in {codec[acodec].serial, FreshSerial}
    <3>1. codec[acodec].refs = IF vout_acodec = acodec THEN 2 ELSE 1
      BY <2>1 DEF NodeCounted
    <3>2. acodec' # acodec /\ vout_acodec' = vout_acodec
      BY <2>1
    <3>3. vout_acodec # acodec => codec'[acodec] = Dead /\ codec'[acodec].refs = 0 /\ codec'[acodec].serial = 0 /\ codec'[acodec].held = {}
      BY <2>3, <2>5, <3>1 DEF Dead
    <3>4. vout_acodec = acodec =>
             /\ codec'[acodec].refs = 1
             /\ codec'[acodec].serial = 0 => codec'[acodec].held = {}
             /\ codec'[acodec].serial \in {codec[acodec].serial, FreshSerial}
      BY <2>3, <2>5, <3>1
    <3> QED
      BY <2>3, <2>5, <3>2, <3>3, <3>4
  <2>7. CodecTypes' /\ VoutHas'
    BY <2>1, <2>6 DEF CodecTypes, VoutHas, OpenAt, DoneAt
  <2>8. CASE vout_acodec = acodec
    <3>1. codec'[acodec].refs = (IF acodec' = acodec THEN 1 ELSE 0) + (IF vout_acodec' = acodec THEN 1 ELSE 0)
      BY <2>8, <2>6
    <3>2. (codec'[acodec].refs = 0 => codec'[acodec] = Dead) /\ (codec'[acodec].serial = 0 => codec'[acodec].held = {})
      BY <2>8, <2>6
    <3>3. \A d \in Codecs : d # acodec => (acodec' = d <=> acodec = d) /\ (vout_acodec' = d <=> vout_acodec = d)
      BY <2>1, <2>6
    <3>4. codec'[acodec].serial \in {0, codec[acodec].serial} \/ (codec'[acodec].serial = FreshSerial /\ FreshAtHand)
      BY <2>8, <2>6
    <3>5. acodec \in Codecs /\ \A d \in Codecs : d # acodec => codec'[d] = codec[d]
      BY <2>1, <2>6
    <3> QED
      BY <2>7, <3>1, <3>2, <3>3, <3>4, <3>5, OneChanges
  <2>9. CASE vout_acodec # acodec
    <3>1. codec'[acodec].refs = (IF acodec' = acodec THEN 1 ELSE 0) + (IF vout_acodec' = acodec THEN 1 ELSE 0)
      BY <2>9, <2>6
    <3>2. (codec'[acodec].refs = 0 => codec'[acodec] = Dead) /\ (codec'[acodec].serial = 0 => codec'[acodec].held = {})
      BY <2>9, <2>6
    <3>3. \A d \in Codecs : d # acodec => (acodec' = d <=> acodec = d) /\ (vout_acodec' = d <=> vout_acodec = d)
      BY <2>1, <2>6
    <3>4. codec'[acodec].serial \in {0, codec[acodec].serial} \/ (codec'[acodec].serial = FreshSerial /\ FreshAtHand)
      BY <2>9, <2>6
    <3>5. acodec \in Codecs /\ \A d \in Codecs : d # acodec => codec'[d] = codec[d]
      BY <2>1, <2>6
    <3> QED
      BY <2>7, <3>1, <3>2, <3>3, <3>4, <3>5, OneChanges
  <2> QED
    BY <2>8, <2>9
<1>13. ASSUME InClear PROVE (CodecTypes /\ NodeCounted /\ VoutHas)'
  <2>1. CASE vout_acodec = 0
    BY <1>13, <2>1 DEF InClear, SetAMediaCodec, CodecTypes, NodeCounted, VoutHas, NodePlaces, NodeAt, InnerAt, DoneAt, OpenAt, LoopAt
  <2>2. CASE ~(vout_acodec = 0)
    <3>1. /\ vout_acodec \in Codecs /\ vout_acodec' = 0 /\ UNCHANGED <<acodec, opt, got>>
          /\ codec \in [Codecs -> Codec] /\ opt \in Options /\ got \in Buffers \cup {NoIndex} /\ acodec \in {0} \cup Codecs
          /\ codec' = Take(Drop(codec, vout_acodec), 0) /\ codec[vout_acodec].refs \in Nat
          /\ codec[vout_acodec].refs > 0
          /\ in_at' = "create" /\ UNCHANGED out_at /\ out_at \notin OpenAt
      BY <1>13, <2>2 DEF InClear, SetAMediaCodec, Codec, CodecTypes, NodeCounted, VoutHas, NodePlaces, NodeAt, InnerAt, DoneAt, OpenAt, LoopAt
    <3>2. codec' = Drop(codec, vout_acodec)
      BY <3>1 DEF Take
    <3>3. /\ codec' \in [Codecs -> Codec]
          /\ \A d \in Codecs : d # vout_acodec => codec'[d] = codec[d]
          /\ codec[vout_acodec].refs = 1 => codec'[vout_acodec] = Dead
          /\ codec[vout_acodec].refs # 1 =>
               /\ codec'[vout_acodec].refs = codec[vout_acodec].refs - 1
               /\ codec'[vout_acodec].serial = codec[vout_acodec].serial
               /\ codec'[vout_acodec].held = codec[vout_acodec].held
      BY <3>1, <3>2, DropIs
    <3>4. NodeCounted'
      <4>1. codec'[vout_acodec].refs = (IF acodec' = vout_acodec THEN 1 ELSE 0) + (IF vout_acodec' = vout_acodec THEN 1 ELSE 0)
        BY <3>1, <3>3 DEF NodeCounted, Dead
      <4>2. (codec'[vout_acodec].refs = 0 => codec'[vout_acodec] = Dead) /\ (codec'[vout_acodec].serial = 0 => codec'[vout_acodec].held = {})
        BY <3>1, <3>3 DEF NodeCounted, Dead
      <4>3. \A d \in Codecs : d # vout_acodec => (acodec' = d <=> acodec = d) /\ (vout_acodec' = d <=> vout_acodec = d)
        BY <3>1, <3>3
      <4>4. codec'[vout_acodec].serial \in {0, codec[vout_acodec].serial} \/ (codec'[vout_acodec].serial = FreshSerial /\ FreshAtHand)
        BY <3>1, <3>3 DEF Dead
      <4> QED
        BY <3>1, <3>3, <4>1, <4>2, <4>3, <4>4, OneChanges
    <3>5. (in_at' = "set" \/ out_at' \in OpenAt) /\ acodec # 0 => codec'[acodec].held = {}
      BY <3>1, <3>3 DEF VoutHas, OpenAt, Dead
    <3> QED
      BY <3>1, <3>3, <3>4, <3>5 DEF CodecTypes, VoutHas, OpenAt, DoneAt
  <2> QED
    BY <2>1, <2>2
<1>14. ASSUME InCreate PROVE (CodecTypes /\ NodeCounted /\ VoutHas)'
  <2>1. /\ acodec = 0 /\ vout_acodec = 0 /\ UNCHANGED <<vout_acodec, opt, got, out_at>>
        /\ codec \in [Codecs -> Codec] /\ opt \in Options /\ got \in Buffers \cup {NoIndex}
        /\ acodec' = Free /\ Free \in Codecs /\ codec[Free] = Dead /\ out_at \notin OpenAt
        /\ in_at' \notin {"create", "clear"}
        /\ \/ codec' = [codec EXCEPT ![Free] = Start(Configure(CreateCodec))]
           \/ codec' = [codec EXCEPT ![Free] = CreateCodec]
    BY <1>14 DEF InCreate, FreeAtHand, FeedEnds, CodecTypes, NodeCounted, VoutHas, NodePlaces, NodeAt, InnerAt, DoneAt, OpenAt, LoopAt
  <2>2. PICK k \in {CreateCodec, Start(Configure(CreateCodec))} : codec' = [codec EXCEPT ![Free] = k]
    BY <2>1
  <2>3. k \in Codec /\ k.refs = 1 /\ k.held = {} /\ k.serial \in {0, FreshSerial}
    BY CreatedIs
  <2>4. codec' \in [Codecs -> Codec] /\ codec'[Free] = k
        /\ \A d \in Codecs : d # Free => codec'[d] = codec[d]
    BY <2>1, <2>2, <2>3
  <2>5. CodecTypes'
    BY <2>1, <2>3, <2>4 DEF CodecTypes
  <2>6. NodeCounted'
    <3>1. codec'[Free].refs = (IF acodec' = Free THEN 1 ELSE 0) + (IF vout_acodec' = Free THEN 1 ELSE 0)
      BY <2>1, <2>3, <2>4 DEF NodeCounted, Dead
    <3>2. (codec'[Free].refs = 0 => codec'[Free] = Dead) /\ (codec'[Free].serial = 0 => codec'[Free].held = {})
      BY <2>1, <2>3, <2>4 DEF NodeCounted, Dead
    <3>3. \A d \in Codecs : d # Free => (acodec' = d <=> acodec = d) /\ (vout_acodec' = d <=> vout_acodec = d)
      BY <2>1, <2>3, <2>4
    <3>4. codec'[Free].serial \in {0, codec[Free].serial} \/ (codec'[Free].serial = FreshSerial /\ FreshAtHand)
      BY <2>1, <2>3, <2>4 DEF Dead
    <3> QED
      BY <2>1, <2>3, <2>4, <3>1, <3>2, <3>3, <3>4, OneChanges
  <2>7. VoutHas'
    BY <2>1, <2>3, <2>4 DEF VoutHas, OpenAt, DoneAt
  <2> QED
    BY <2>5, <2>6, <2>7
<1>15. ASSUME InSet PROVE (CodecTypes /\ NodeCounted /\ VoutHas)'
  <2>1. /\ acodec \in Codecs /\ vout_acodec = 0 /\ vout_acodec' = acodec /\ UNCHANGED <<acodec, opt, got>>
        /\ codec \in [Codecs -> Codec] /\ opt \in Options /\ got \in Buffers \cup {NoIndex}
        /\ codec' = Take(Drop(codec, vout_acodec), acodec) /\ codec[acodec].held = {}
        /\ in_at' \notin {"create", "set"} /\ out_at' \notin OpenAt
    BY <1>15 DEF InSet, SetAMediaCodec, FeedEnds, CodecTypes, NodeCounted, VoutHas, NodePlaces, NodeAt, InnerAt, DoneAt, OpenAt, LoopAt
  <2>2. Drop(codec, vout_acodec) = codec
    BY <2>1 DEF Drop
  <2>3. /\ codec' \in [Codecs -> Codec]
        /\ \A d \in Codecs : d # acodec => codec'[d] = codec[d]
        /\ codec'[acodec].refs = codec[acodec].refs + 1
        /\ codec'[acodec].serial = codec[acodec].serial /\ codec'[acodec].held = {}
    BY <2>1, <2>2, TakeIs
  <2>4. CodecTypes'
    BY <2>1, <2>3 DEF CodecTypes
  <2>5. NodeCounted'
    <3>1. codec'[acodec].refs = (IF acodec' = acodec THEN 1 ELSE 0) + (IF vout_acodec' = acodec THEN 1 ELSE 0)
      BY <2>1, <2>3 DEF NodeCounted, Dead
    <3>2. (codec'[acodec].refs = 0 => codec'[acodec] = Dead) /\ (codec'[acodec].serial = 0 => codec'[acodec].held = {})
      BY <2>1, <2>3 DEF NodeCounted, Dead
    <3>3. \A d \in Codecs : d # acodec => (acodec' = d <=> acodec = d) /\ (vout_acodec' = d <=> vout_acodec = d)
      BY <2>1, <2>3
    <3>4. codec'[acodec].serial \in {0, codec[acodec].serial} \/ (codec'[acodec].serial = FreshSerial /\ FreshAtHand)
      BY <2>1, <2>3 DEF Dead
    <3> QED
      BY <2>1, <2>3, <3>1, <3>2, <3>3, <3>4, OneChanges
  <2>6. VoutHas'
    BY <2>1, <2>3 DEF VoutHas, OpenAt, DoneAt
  <2> QED
    BY <2>4, <2>5, <2>6
<1>16. ASSUME InFirst PROVE (CodecTypes /\ NodeCounted /\ VoutHas)'
  BY <1>16 DEF InFirst, CodecTypes, NodeCounted, VoutHas, NodePlaces, NodeAt, InnerAt, DoneAt, OpenAt, LoopAt
<1>17. ASSUME InFeed PROVE (CodecTypes /\ NodeCounted /\ VoutHas)'
  <2>1. /\ UNCHANGED <<acodec, vout_acodec, opt, got, out_at>> /\ acodec \in Codecs
        /\ codec \in [Codecs -> Codec] /\ opt \in Options /\ got \in Buffers \cup {NoIndex}
        /\ in_at' \notin {"create", "set", "clear"} /\ in_at # "clear" /\ out_at' \notin OpenAt
        /\ UNCHANGED codec \/ codec' = Threw
    BY <1>17 DEF InFeed, Fake, QueueFake, InputQueued, QueueInputBuffer, FeedDummy, Exited, FeedEnds, CodecTypes, NodeCounted, VoutHas, NodePlaces, NodeAt, InnerAt, DoneAt, OpenAt, LoopAt
  <2>2. CASE UNCHANGED codec
    BY <2>1, <2>2 DEF CodecTypes, NodeCounted, VoutHas, OpenAt
  <2>3. CASE codec' = Threw
    <3> DEFINE k == [codec[acodec] EXCEPT !.valid = FALSE]
    <3>1. k \in Codec /\ k.refs = codec[acodec].refs /\ k.serial = codec[acodec].serial
          /\ k.held = codec[acodec].held
      BY <2>1 DEF Codec
    <3>2. codec' = [codec EXCEPT ![acodec] = k]
      BY <2>3 DEF Threw
    <3> HIDE DEF k
    <3>3. codec' \in [Codecs -> Codec] /\ codec'[acodec] = k
          /\ \A d \in Codecs : d # acodec => codec'[d] = codec[d]
      BY <2>1, <3>1, <3>2
    <3>4. codec[acodec].refs # 0
      BY <2>1, HeldAreCounted DEF NodeCounted
    <3>5. NodeCounted'
      <4>1. codec'[acodec].refs = (IF acodec' = acodec THEN 1 ELSE 0) + (IF vout_acodec' = acodec THEN 1 ELSE 0)
        BY <2>1, <3>1, <3>3, <3>4 DEF NodeCounted, Dead
      <4>2. (codec'[acodec].refs = 0 => codec'[acodec] = Dead) /\ (codec'[acodec].serial = 0 => codec'[acodec].held = {})
        BY <2>1, <3>1, <3>3, <3>4 DEF NodeCounted, Dead
      <4>3. \A d \in Codecs : d # acodec => (acodec' = d <=> acodec = d) /\ (vout_acodec' = d <=> vout_acodec = d)
        BY <2>1, <3>1, <3>3, <3>4
      <4>4. codec'[acodec].serial \in {0, codec[acodec].serial} \/ (codec'[acodec].serial = FreshSerial /\ FreshAtHand)
        BY <2>1, <3>1, <3>3, <3>4 DEF Dead
      <4> QED
        BY <2>1, <3>1, <3>3, <3>4, <4>1, <4>2, <4>3, <4>4, OneChanges
    <3> QED
      BY <2>1, <3>3, <3>5 DEF CodecTypes, VoutHas
  <2> QED
    BY <2>1, <2>2, <2>3
<1>18. ASSUME OutDequeue PROVE (CodecTypes /\ NodeCounted /\ VoutHas)'
  <2>1. /\ UNCHANGED <<acodec, vout_acodec, opt>> /\ acodec \in Codecs
        /\ codec \in [Codecs -> Codec] /\ opt \in Options /\ got \in Buffers \cup {NoIndex}
        /\ in_at' \notin {"create", "set", "clear"} /\ in_at # "clear" /\ out_at' \notin OpenAt /\ out_at \notin DoneAt
        /\ \/ UNCHANGED codec /\ got' \in {got, NoIndex}
           \/ /\ ~Dummy(acodec)
              /\ \E b \in Buffers : codec' = [codec EXCEPT ![acodec].held = @ \cup {b}] /\ got' = b
    BY <1>18 DEF OutDequeue, Drained, Turn, DequeueFake, DequeueBuffer, CodecTypes, NodeCounted, VoutHas, NodePlaces, NodeAt, InnerAt, DoneAt, OpenAt, LoopAt
  <2>2. CASE UNCHANGED codec
    BY <2>1, <2>2 DEF CodecTypes, NodeCounted, VoutHas, OpenAt
  <2>3. CASE ~UNCHANGED codec
    <3>1. PICK b \in Buffers : codec' = [codec EXCEPT ![acodec].held = @ \cup {b}] /\ got' = b
      BY <2>1, <2>3
    <3> DEFINE k == [codec[acodec] EXCEPT !.held = @ \cup {b}]
    <3>2. k \in Codec /\ k.refs = codec[acodec].refs /\ k.serial = codec[acodec].serial
      BY <2>1 DEF Codec
    <3>3. codec' = [codec EXCEPT ![acodec] = k]
      BY <3>1
    <3> HIDE DEF k
    <3>4. codec' \in [Codecs -> Codec] /\ codec'[acodec] = k
          /\ \A d \in Codecs : d # acodec => codec'[d] = codec[d]
      BY <2>1, <3>2, <3>3
    <3>5. codec[acodec].serial # 0 /\ codec[acodec].refs # 0
      BY <2>1, <2>3 DEF Dummy, NodeCounted
    <3>6. NodeCounted'
      <4>1. codec'[acodec].refs = (IF acodec' = acodec THEN 1 ELSE 0) + (IF vout_acodec' = acodec THEN 1 ELSE 0)
        BY <2>1, <3>2, <3>4, <3>5 DEF NodeCounted, Dead
      <4>2. (codec'[acodec].refs = 0 => codec'[acodec] = Dead) /\ (codec'[acodec].serial = 0 => codec'[acodec].held = {})
        BY <2>1, <3>2, <3>4, <3>5 DEF NodeCounted, Dead
      <4>3. \A d \in Codecs : d # acodec => (acodec' = d <=> acodec = d) /\ (vout_acodec' = d <=> vout_acodec = d)
        BY <2>1, <3>2, <3>4, <3>5
      <4>4. codec'[acodec].serial \in {0, codec[acodec].serial} \/ (codec'[acodec].serial = FreshSerial /\ FreshAtHand)
        BY <2>1, <3>2, <3>4, <3>5 DEF Dead
      <4> QED
        BY <2>1, <3>2, <3>4, <3>5, <4>1, <4>2, <4>3, <4>4, OneChanges
    <3> QED
      BY <2>1, <3>1, <3>4, <3>6 DEF CodecTypes, VoutHas
  <2> QED
    BY <2>2, <2>3
<1>19. ASSUME OutObtain PROVE (CodecTypes /\ NodeCounted /\ VoutHas)'
  <2>1. /\ UNCHANGED <<acodec, vout_acodec, opt>> /\ got' = NoIndex /\ acodec \in Codecs
        /\ codec \in [Codecs -> Codec] /\ opt \in Options /\ got \in Buffers \cup {NoIndex}
        /\ in_at' \notin {"create", "set"} /\ (in_at = "clear" <=> in_at' = "clear") /\ out_at' \notin OpenAt
        /\ out_at \notin DoneAt /\ codec[acodec].refs # 0
        /\ (codec' = codec \/ codec' = GivenBack(acodec, got))
    BY <1>19 DEF OutObtain, Fill, NoFill, Reorder, Drained, Turn, CodecTypes, NodeCounted, VoutHas, NodePlaces, NodeAt, InnerAt, DoneAt, OpenAt, LoopAt
  <2>2. CASE codec' = codec
    BY <2>1, <2>2 DEF CodecTypes, NodeCounted, VoutHas, NodePlaces, NodeAt, InnerAt, DoneAt, OpenAt, LoopAt
  <2>3. CASE codec' = GivenBack(acodec, got)
    <3>1. /\ codec' \in [Codecs -> Codec]
          /\ \A d \in Codecs : d # acodec => codec'[d] = codec[d]
          /\ codec'[acodec].refs = codec[acodec].refs
          /\ codec'[acodec].serial = codec[acodec].serial
          /\ codec'[acodec].held \subseteq codec[acodec].held
      BY <2>1, <2>3, GivenBackIs
    <3>2. NodeCounted'
      <4>1. codec'[acodec].refs = (IF acodec' = acodec THEN 1 ELSE 0) + (IF vout_acodec' = acodec THEN 1 ELSE 0)
        BY <2>1, <3>1 DEF NodeCounted, Dead
      <4>2. (codec'[acodec].refs = 0 => codec'[acodec] = Dead) /\ (codec'[acodec].serial = 0 => codec'[acodec].held = {})
        BY <2>1, <3>1 DEF NodeCounted, Dead
      <4>3. \A d \in Codecs : d # acodec => (acodec' = d <=> acodec = d) /\ (vout_acodec' = d <=> vout_acodec = d)
        BY <2>1, <3>1
      <4>4. codec'[acodec].serial \in {0, codec[acodec].serial} \/ (codec'[acodec].serial = FreshSerial /\ FreshAtHand)
        BY <2>1, <3>1 DEF Dead
      <4> QED
        BY <2>1, <3>1, <4>1, <4>2, <4>3, <4>4, OneChanges
    <3> QED
      BY <2>1, <3>1, <3>2 DEF CodecTypes, VoutHas, OpenAt, DoneAt
  <2> QED
    BY <2>1, <2>2, <2>3
<1>20. ASSUME OutFirst PROVE (CodecTypes /\ NodeCounted /\ VoutHas)'
  BY <1>20 DEF OutFirst, CodecTypes, NodeCounted, VoutHas, NodePlaces, NodeAt, InnerAt, DoneAt, OpenAt, LoopAt
<1>21. ASSUME OutFailed PROVE (CodecTypes /\ NodeCounted /\ VoutHas)'
  <2>1. /\ codec' = codec \/ \E p : GoesBack(p) /\ codec' = GivenBack(vout_acodec, p.index)
        /\ UNCHANGED <<acodec, vout_acodec, opt, got>> /\ vout_acodec \in {0} \cup Codecs /\ acodec \in {0} \cup Codecs
        /\ codec \in [Codecs -> Codec] /\ opt \in Options /\ got \in Buffers \cup {NoIndex}
        /\ in_at' \notin {"create", "set"} \/ in_at' = in_at
        /\ in_at = "clear" => in_at' = "clear"
        /\ out_at' \notin OpenAt \/ out_at' = out_at
        /\ out_at \in DoneAt => out_at' = out_at
    BY <1>21 DEF OutFailed, Release, CodecTypes, NodeCounted, VoutHas, NodePlaces, NodeAt, InnerAt, DoneAt, OpenAt, LoopAt
  <2>2. CASE codec' = codec
    BY <2>1, <2>2 DEF CodecTypes, NodeCounted, VoutHas
  <2>3. CASE codec' # codec
    <3>1. PICK p : GoesBack(p) /\ codec' = GivenBack(vout_acodec, p.index)
      BY <2>1, <2>3
    <3>2. vout_acodec \in Codecs
      BY <2>1, <3>1 DEF GoesBack
    <3>3. /\ codec' \in [Codecs -> Codec]
          /\ \A d \in Codecs : d # vout_acodec => codec'[d] = codec[d]
          /\ codec'[vout_acodec].refs = codec[vout_acodec].refs
          /\ codec'[vout_acodec].serial = codec[vout_acodec].serial
          /\ codec'[vout_acodec].held \subseteq codec[vout_acodec].held
      BY <2>1, <3>1, <3>2, GivenBackIs
    <3>4. codec[vout_acodec].refs > 0
      BY <2>1, <3>2, HeldAreCounted
    <3>5. NodeCounted'
      <4>1. codec'[vout_acodec].refs = (IF acodec' = vout_acodec THEN 1 ELSE 0) + (IF vout_acodec' = vout_acodec THEN 1 ELSE 0)
        BY <2>1, <3>2, <3>3, <3>4 DEF NodeCounted, Dead
      <4>2. (codec'[vout_acodec].refs = 0 => codec'[vout_acodec] = Dead) /\ (codec'[vout_acodec].serial = 0 => codec'[vout_acodec].held = {})
        BY <2>1, <3>2, <3>3, <3>4 DEF NodeCounted, Dead
      <4>3. \A d \in Codecs : d # vout_acodec => (acodec' = d <=> acodec = d) /\ (vout_acodec' = d <=> vout_acodec = d)
        BY <2>1, <3>2, <3>3, <3>4
      <4>4. codec'[vout_acodec].serial \in {0, codec[vout_acodec].serial} \/ (codec'[vout_acodec].serial = FreshSerial /\ FreshAtHand)
        BY <2>1, <3>2, <3>3, <3>4 DEF Dead
      <4> QED
        BY <2>1, <3>2, <3>3, <3>4, <4>1, <4>2, <4>3, <4>4, OneChanges
    <3> QED
      BY <2>1, <3>2, <3>3, <3>5 DEF CodecTypes, VoutHas
  <2> QED
    BY <2>2, <2>3
<1>22. ASSUME OutDrop PROVE (CodecTypes /\ NodeCounted /\ VoutHas)'
  <2>1. /\ codec' = codec \/ \E p : GoesBack(p) /\ codec' = GivenBack(vout_acodec, p.index)
        /\ UNCHANGED <<acodec, vout_acodec, opt, got>> /\ vout_acodec \in {0} \cup Codecs /\ acodec \in {0} \cup Codecs
        /\ codec \in [Codecs -> Codec] /\ opt \in Options /\ got \in Buffers \cup {NoIndex}
        /\ in_at' \notin {"create", "set"} \/ in_at' = in_at
        /\ in_at = "clear" => in_at' = "clear"
        /\ out_at' \notin OpenAt \/ out_at' = out_at
        /\ out_at \in DoneAt => out_at' = out_at
    BY <1>22 DEF OutDrop, Release, Turn, CodecTypes, NodeCounted, VoutHas, NodePlaces, NodeAt, InnerAt, DoneAt, OpenAt, LoopAt
  <2>2. CASE codec' = codec
    BY <2>1, <2>2 DEF CodecTypes, NodeCounted, VoutHas
  <2>3. CASE codec' # codec
    <3>1. PICK p : GoesBack(p) /\ codec' = GivenBack(vout_acodec, p.index)
      BY <2>1, <2>3
    <3>2. vout_acodec \in Codecs
      BY <2>1, <3>1 DEF GoesBack
    <3>3. /\ codec' \in [Codecs -> Codec]
          /\ \A d \in Codecs : d # vout_acodec => codec'[d] = codec[d]
          /\ codec'[vout_acodec].refs = codec[vout_acodec].refs
          /\ codec'[vout_acodec].serial = codec[vout_acodec].serial
          /\ codec'[vout_acodec].held \subseteq codec[vout_acodec].held
      BY <2>1, <3>1, <3>2, GivenBackIs
    <3>4. codec[vout_acodec].refs > 0
      BY <2>1, <3>2, HeldAreCounted
    <3>5. NodeCounted'
      <4>1. codec'[vout_acodec].refs = (IF acodec' = vout_acodec THEN 1 ELSE 0) + (IF vout_acodec' = vout_acodec THEN 1 ELSE 0)
        BY <2>1, <3>2, <3>3, <3>4 DEF NodeCounted, Dead
      <4>2. (codec'[vout_acodec].refs = 0 => codec'[vout_acodec] = Dead) /\ (codec'[vout_acodec].serial = 0 => codec'[vout_acodec].held = {})
        BY <2>1, <3>2, <3>3, <3>4 DEF NodeCounted, Dead
      <4>3. \A d \in Codecs : d # vout_acodec => (acodec' = d <=> acodec = d) /\ (vout_acodec' = d <=> vout_acodec = d)
        BY <2>1, <3>2, <3>3, <3>4
      <4>4. codec'[vout_acodec].serial \in {0, codec[vout_acodec].serial} \/ (codec'[vout_acodec].serial = FreshSerial /\ FreshAtHand)
        BY <2>1, <3>2, <3>3, <3>4 DEF Dead
      <4> QED
        BY <2>1, <3>2, <3>3, <3>4, <4>1, <4>2, <4>3, <4>4, OneChanges
    <3> QED
      BY <2>1, <3>2, <3>3, <3>5 DEF CodecTypes, VoutHas
  <2> QED
    BY <2>2, <2>3
<1>23. ASSUME OutPush PROVE (CodecTypes /\ NodeCounted /\ VoutHas)'
  BY <1>23 DEF OutPush, Turn, CodecTypes, NodeCounted, VoutHas, NodePlaces, NodeAt, InnerAt, DoneAt, OpenAt, LoopAt
<1>24. ASSUME FeedReturns PROVE (CodecTypes /\ NodeCounted /\ VoutHas)'
  BY <1>24 DEF FeedReturns, CodecTypes, NodeCounted, VoutHas, NodePlaces, NodeAt, InnerAt, DoneAt, OpenAt, LoopAt
<1>25. ASSUME OutAbort PROVE (CodecTypes /\ NodeCounted /\ VoutHas)'
  BY <1>25 DEF OutAbort, CodecTypes, NodeCounted, VoutHas, NodePlaces, NodeAt, InnerAt, DoneAt, OpenAt, LoopAt
<1>26. ASSUME OutJoin PROVE (CodecTypes /\ NodeCounted /\ VoutHas)'
  BY <1>26 DEF OutJoin, CodecTypes, NodeCounted, VoutHas, NodePlaces, NodeAt, InnerAt, DoneAt, OpenAt, LoopAt
<1>27. ASSUME OutStop PROVE (CodecTypes /\ NodeCounted /\ VoutHas)'
  <2>1. /\ codec' = Drop(IF codec[acodec].started THEN Renewed(acodec, FALSE) ELSE codec, acodec)
        /\ acodec' = 0 /\ acodec \in Codecs /\ vout_acodec \in {0} \cup Codecs /\ UNCHANGED <<vout_acodec, opt, got>>
        /\ codec \in [Codecs -> Codec] /\ opt \in Options /\ got \in Buffers \cup {NoIndex}
        /\ codec[acodec].refs > 0 /\ (codec[acodec].serial = 0 => codec[acodec].held = {})
        /\ out_at' = "done" /\ UNCHANGED in_at /\ in_at \notin {"create", "set", "clear"}
    BY <1>27 DEF OutStop, StopNode, CodecTypes, NodeCounted, VoutHas, NodePlaces, NodeAt, InnerAt, DoneAt, OpenAt, LoopAt
  <2> DEFINE r == Stopped(acodec)
  <2>2. codec' = Drop(r, acodec)
    BY <2>1 DEF Stopped
  <2>3. /\ r \in [Codecs -> Codec] /\ \A d \in Codecs : d # acodec => r[d] = codec[d]
        /\ r[acodec].refs = codec[acodec].refs
        /\ r[acodec].serial = 0 => r[acodec].held = {}
        /\ r[acodec].serial = codec[acodec].serial \/ r[acodec].serial = FreshSerial
    BY <2>1, StoppedIs
  <2>4. r[acodec].refs > 0 /\ acodec \in Codecs
    BY <2>1, <2>3
  <2> HIDE DEF r
  <2>5. /\ codec' \in [Codecs -> Codec]
        /\ \A d \in Codecs : d # acodec => codec'[d] = r[d]
        /\ r[acodec].refs = 1 => codec'[acodec] = Dead
        /\ r[acodec].refs # 1 => /\ codec'[acodec].refs = r[acodec].refs - 1
                                 /\ codec'[acodec].serial = r[acodec].serial
                                 /\ codec'[acodec].held = r[acodec].held
    BY <2>2, <2>4, <2>3, DropIs
  <2>6. /\ codec' \in [Codecs -> Codec] /\ \A d \in Codecs : d # acodec => codec'[d] = codec[d]
        /\ acodec' # acodec /\ vout_acodec' = vout_acodec
        /\ vout_acodec # acodec => codec'[acodec] = Dead /\ codec'[acodec].refs = 0 /\ codec'[acodec].serial = 0 /\ codec'[acodec].held = {}
        /\ vout_acodec = acodec =>
             /\ codec'[acodec].refs = 1
             /\ codec'[acodec].serial = 0 => codec'[acodec].held = {}
             /\ codec'[acodec].serial \in {codec[acodec].serial, FreshSerial}
    <3>1. codec[acodec].refs = IF vout_acodec = acodec THEN 2 ELSE 1
      BY <2>1 DEF NodeCounted
    <3>2. acodec' # acodec /\ vout_acodec' = vout_acodec
      BY <2>1
    <3>3. vout_acodec # acodec => codec'[acodec] = Dead /\ codec'[acodec].refs = 0 /\ codec'[acodec].serial = 0 /\ codec'[acodec].held = {}
      BY <2>3, <2>5, <3>1 DEF Dead
    <3>4. vout_acodec = acodec =>
             /\ codec'[acodec].refs = 1
             /\ codec'[acodec].serial = 0 => codec'[acodec].held = {}
             /\ codec'[acodec].serial \in {codec[acodec].serial, FreshSerial}
      BY <2>3, <2>5, <3>1
    <3> QED
      BY <2>3, <2>5, <3>2, <3>3, <3>4
  <2>7. CodecTypes' /\ VoutHas'
    BY <2>1, <2>6 DEF CodecTypes, VoutHas, OpenAt, DoneAt
  <2>8. CASE vout_acodec = acodec
    <3>1. codec'[acodec].refs = (IF acodec' = acodec THEN 1 ELSE 0) + (IF vout_acodec' = acodec THEN 1 ELSE 0)
      BY <2>8, <2>6
    <3>2. (codec'[acodec].refs = 0 => codec'[acodec] = Dead) /\ (codec'[acodec].serial = 0 => codec'[acodec].held = {})
      BY <2>8, <2>6
    <3>3. \A d \in Codecs : d # acodec => (acodec' = d <=> acodec = d) /\ (vout_acodec' = d <=> vout_acodec = d)
      BY <2>1, <2>6
    <3>4. codec'[acodec].serial \in {0, codec[acodec].serial} \/ (codec'[acodec].serial = FreshSerial /\ FreshAtHand)
      BY <2>8, <2>6
    <3>5. acodec \in Codecs /\ \A d \in Codecs : d # acodec => codec'[d] = codec[d]
      BY <2>1, <2>6
    <3> QED
      BY <2>7, <3>1, <3>2, <3>3, <3>4, <3>5, OneChanges
  <2>9. CASE vout_acodec # acodec
    <3>1. codec'[acodec].refs = (IF acodec' = acodec THEN 1 ELSE 0) + (IF vout_acodec' = acodec THEN 1 ELSE 0)
      BY <2>9, <2>6
    <3>2. (codec'[acodec].refs = 0 => codec'[acodec] = Dead) /\ (codec'[acodec].serial = 0 => codec'[acodec].held = {})
      BY <2>9, <2>6
    <3>3. \A d \in Codecs : d # acodec => (acodec' = d <=> acodec = d) /\ (vout_acodec' = d <=> vout_acodec = d)
      BY <2>1, <2>6
    <3>4. codec'[acodec].serial \in {0, codec[acodec].serial} \/ (codec'[acodec].serial = FreshSerial /\ FreshAtHand)
      BY <2>9, <2>6
    <3>5. acodec \in Codecs /\ \A d \in Codecs : d # acodec => codec'[d] = codec[d]
      BY <2>1, <2>6
    <3> QED
      BY <2>7, <3>1, <3>2, <3>3, <3>4, <3>5, OneChanges
  <2> QED
    BY <2>8, <2>9
<1>28. ASSUME CloseStream PROVE (CodecTypes /\ NodeCounted /\ VoutHas)'
  BY <1>28 DEF CloseStream, CodecTypes, NodeCounted, VoutHas, NodePlaces, NodeAt, InnerAt, DoneAt, OpenAt, LoopAt
<1>29. ASSUME DestroyPicture PROVE (CodecTypes /\ NodeCounted /\ VoutHas)'
  <2>1. /\ codec' = codec \/ \E p : GoesBack(p) /\ codec' = GivenBack(vout_acodec, p.index)
        /\ UNCHANGED <<acodec, vout_acodec, opt, got>> /\ vout_acodec \in {0} \cup Codecs /\ acodec \in {0} \cup Codecs
        /\ codec \in [Codecs -> Codec] /\ opt \in Options /\ got \in Buffers \cup {NoIndex}
        /\ in_at' \notin {"create", "set"} \/ in_at' = in_at
        /\ in_at = "clear" => in_at' = "clear"
        /\ out_at' \notin OpenAt \/ out_at' = out_at
        /\ out_at \in DoneAt => out_at' = out_at
    BY <1>29 DEF DestroyPicture, Release, CodecTypes, NodeCounted, VoutHas, NodePlaces, NodeAt, InnerAt, DoneAt, OpenAt, LoopAt
  <2>2. CASE codec' = codec
    BY <2>1, <2>2 DEF CodecTypes, NodeCounted, VoutHas
  <2>3. CASE codec' # codec
    <3>1. PICK p : GoesBack(p) /\ codec' = GivenBack(vout_acodec, p.index)
      BY <2>1, <2>3
    <3>2. vout_acodec \in Codecs
      BY <2>1, <3>1 DEF GoesBack
    <3>3. /\ codec' \in [Codecs -> Codec]
          /\ \A d \in Codecs : d # vout_acodec => codec'[d] = codec[d]
          /\ codec'[vout_acodec].refs = codec[vout_acodec].refs
          /\ codec'[vout_acodec].serial = codec[vout_acodec].serial
          /\ codec'[vout_acodec].held \subseteq codec[vout_acodec].held
      BY <2>1, <3>1, <3>2, GivenBackIs
    <3>4. codec[vout_acodec].refs > 0
      BY <2>1, <3>2, HeldAreCounted
    <3>5. NodeCounted'
      <4>1. codec'[vout_acodec].refs = (IF acodec' = vout_acodec THEN 1 ELSE 0) + (IF vout_acodec' = vout_acodec THEN 1 ELSE 0)
        BY <2>1, <3>2, <3>3, <3>4 DEF NodeCounted, Dead
      <4>2. (codec'[vout_acodec].refs = 0 => codec'[vout_acodec] = Dead) /\ (codec'[vout_acodec].serial = 0 => codec'[vout_acodec].held = {})
        BY <2>1, <3>2, <3>3, <3>4 DEF NodeCounted, Dead
      <4>3. \A d \in Codecs : d # vout_acodec => (acodec' = d <=> acodec = d) /\ (vout_acodec' = d <=> vout_acodec = d)
        BY <2>1, <3>2, <3>3, <3>4
      <4>4. codec'[vout_acodec].serial \in {0, codec[vout_acodec].serial} \/ (codec'[vout_acodec].serial = FreshSerial /\ FreshAtHand)
        BY <2>1, <3>2, <3>3, <3>4 DEF Dead
      <4> QED
        BY <2>1, <3>2, <3>3, <3>4, <4>1, <4>2, <4>3, <4>4, OneChanges
    <3> QED
      BY <2>1, <3>2, <3>3, <3>5 DEF CodecTypes, VoutHas
  <2> QED
    BY <2>2, <2>3
<1>30. ASSUME Unpublish PROVE (CodecTypes /\ NodeCounted /\ VoutHas)'
  BY <1>30 DEF Unpublish, CodecTypes, NodeCounted, VoutHas, NodePlaces, NodeAt, InnerAt, DoneAt, OpenAt, LoopAt
<1>31. ASSUME FreePlayer PROVE (CodecTypes /\ NodeCounted /\ VoutHas)'
  <2>1. /\ codec' = Drop(Drop(codec, vout_acodec), acodec)
        /\ acodec' = 0 /\ vout_acodec' = 0 /\ UNCHANGED <<opt, got, in_at>> /\ out_at' = "freed"
        /\ codec \in [Codecs -> Codec] /\ opt \in Options /\ got \in Buffers \cup {NoIndex} /\ acodec \in {0} \cup Codecs /\ vout_acodec \in {0} \cup Codecs
        /\ in_at \notin {"create", "set", "clear"}
        /\ \A c \in Codecs : codec[c].refs = 0 => codec[c] = Dead
    BY <1>31 DEF FreePlayer, FreeVout, CodecTypes, NodeCounted, VoutHas, NodePlaces, NodeAt, InnerAt, DoneAt, OpenAt, LoopAt
  <2>2. \A d \in Codecs : codec'[d] = Dead /\ codec' \in [Codecs -> Codec]
    <3> DEFINE r == Drop(codec, vout_acodec)
    <3>1. codec' = Drop(r, acodec)
      BY <2>1
    <3>2. /\ r \in [Codecs -> Codec]
          /\ \A d \in Codecs : d # vout_acodec => r[d] = codec[d]
          /\ vout_acodec # 0 /\ vout_acodec # acodec => r[vout_acodec] = Dead
          /\ acodec # 0 => r[acodec].refs = 1
      <4>1. CASE vout_acodec = 0
        BY <2>1, <4>1, HeldAreCounted DEF Drop
      <4>2. CASE vout_acodec # 0 /\ vout_acodec # acodec
        BY <2>1, <4>2, HeldAreCounted, DropIs
      <4>3. CASE vout_acodec # 0 /\ vout_acodec = acodec
        <5>1. codec[acodec].refs = 2
          BY <2>1, <4>3 DEF NodeCounted
        <5> QED
          BY <2>1, <4>3, <5>1, DropIs
      <4> QED
        BY <4>1, <4>2, <4>3
    <3>3. \A d \in Codecs : d # vout_acodec /\ d # acodec => codec[d] = Dead
      BY <2>1 DEF NodeCounted
    <3> HIDE DEF r
    <3>4. CASE acodec = 0
      BY <2>1, <3>1, <3>2, <3>3, <3>4 DEF Drop
    <3>5. CASE acodec # 0
      BY <2>1, <3>1, <3>2, <3>3, <3>5, DropIs
    <3> QED
      BY <3>4, <3>5
  <2>3. CodecTypes' /\ VoutHas'
    BY <2>1, <2>2, NoCodec DEF CodecTypes, VoutHas, OpenAt, DoneAt, Codecs
  <2>4. NodeCounted'
    BY <2>1, <2>2 DEF NodeCounted, Dead
  <2> QED
    BY <2>3, <2>4
<1>32. ASSUME Show PROVE (CodecTypes /\ NodeCounted /\ VoutHas)'
  <2>1. /\ codec' = codec \/ \E p : GoesBack(p) /\ codec' = GivenBack(vout_acodec, p.index)
        /\ UNCHANGED <<acodec, vout_acodec, opt, got>> /\ vout_acodec \in {0} \cup Codecs /\ acodec \in {0} \cup Codecs
        /\ codec \in [Codecs -> Codec] /\ opt \in Options /\ got \in Buffers \cup {NoIndex}
        /\ in_at' \notin {"create", "set"} \/ in_at' = in_at
        /\ in_at = "clear" => in_at' = "clear"
        /\ out_at' \notin OpenAt \/ out_at' = out_at
        /\ out_at \in DoneAt => out_at' = out_at
    BY <1>32 DEF Show, Release, CodecTypes, NodeCounted, VoutHas, NodePlaces, NodeAt, InnerAt, DoneAt, OpenAt, LoopAt
  <2>2. CASE codec' = codec
    BY <2>1, <2>2 DEF CodecTypes, NodeCounted, VoutHas
  <2>3. CASE codec' # codec
    <3>1. PICK p : GoesBack(p) /\ codec' = GivenBack(vout_acodec, p.index)
      BY <2>1, <2>3
    <3>2. vout_acodec \in Codecs
      BY <2>1, <3>1 DEF GoesBack
    <3>3. /\ codec' \in [Codecs -> Codec]
          /\ \A d \in Codecs : d # vout_acodec => codec'[d] = codec[d]
          /\ codec'[vout_acodec].refs = codec[vout_acodec].refs
          /\ codec'[vout_acodec].serial = codec[vout_acodec].serial
          /\ codec'[vout_acodec].held \subseteq codec[vout_acodec].held
      BY <2>1, <3>1, <3>2, GivenBackIs
    <3>4. codec[vout_acodec].refs > 0
      BY <2>1, <3>2, HeldAreCounted
    <3>5. NodeCounted'
      <4>1. codec'[vout_acodec].refs = (IF acodec' = vout_acodec THEN 1 ELSE 0) + (IF vout_acodec' = vout_acodec THEN 1 ELSE 0)
        BY <2>1, <3>2, <3>3, <3>4 DEF NodeCounted, Dead
      <4>2. (codec'[vout_acodec].refs = 0 => codec'[vout_acodec] = Dead) /\ (codec'[vout_acodec].serial = 0 => codec'[vout_acodec].held = {})
        BY <2>1, <3>2, <3>3, <3>4 DEF NodeCounted, Dead
      <4>3. \A d \in Codecs : d # vout_acodec => (acodec' = d <=> acodec = d) /\ (vout_acodec' = d <=> vout_acodec = d)
        BY <2>1, <3>2, <3>3, <3>4
      <4>4. codec'[vout_acodec].serial \in {0, codec[vout_acodec].serial} \/ (codec'[vout_acodec].serial = FreshSerial /\ FreshAtHand)
        BY <2>1, <3>2, <3>3, <3>4 DEF Dead
      <4> QED
        BY <2>1, <3>2, <3>3, <3>4, <4>1, <4>2, <4>3, <4>4, OneChanges
    <3> QED
      BY <2>1, <3>2, <3>3, <3>5 DEF CodecTypes, VoutHas
  <2> QED
    BY <2>2, <2>3
<1>33. ASSUME NextPicture PROVE (CodecTypes /\ NodeCounted /\ VoutHas)'
  <2>1. /\ codec' = codec \/ \E p : GoesBack(p) /\ codec' = GivenBack(vout_acodec, p.index)
        /\ UNCHANGED <<acodec, vout_acodec, opt, got>> /\ vout_acodec \in {0} \cup Codecs /\ acodec \in {0} \cup Codecs
        /\ codec \in [Codecs -> Codec] /\ opt \in Options /\ got \in Buffers \cup {NoIndex}
        /\ in_at' \notin {"create", "set"} \/ in_at' = in_at
        /\ in_at = "clear" => in_at' = "clear"
        /\ out_at' \notin OpenAt \/ out_at' = out_at
        /\ out_at \in DoneAt => out_at' = out_at
    BY <1>33 DEF NextPicture, Release, CodecTypes, NodeCounted, VoutHas, NodePlaces, NodeAt, InnerAt, DoneAt, OpenAt, LoopAt
  <2>2. CASE codec' = codec
    BY <2>1, <2>2 DEF CodecTypes, NodeCounted, VoutHas
  <2>3. CASE codec' # codec
    <3>1. PICK p : GoesBack(p) /\ codec' = GivenBack(vout_acodec, p.index)
      BY <2>1, <2>3
    <3>2. vout_acodec \in Codecs
      BY <2>1, <3>1 DEF GoesBack
    <3>3. /\ codec' \in [Codecs -> Codec]
          /\ \A d \in Codecs : d # vout_acodec => codec'[d] = codec[d]
          /\ codec'[vout_acodec].refs = codec[vout_acodec].refs
          /\ codec'[vout_acodec].serial = codec[vout_acodec].serial
          /\ codec'[vout_acodec].held \subseteq codec[vout_acodec].held
      BY <2>1, <3>1, <3>2, GivenBackIs
    <3>4. codec[vout_acodec].refs > 0
      BY <2>1, <3>2, HeldAreCounted
    <3>5. NodeCounted'
      <4>1. codec'[vout_acodec].refs = (IF acodec' = vout_acodec THEN 1 ELSE 0) + (IF vout_acodec' = vout_acodec THEN 1 ELSE 0)
        BY <2>1, <3>2, <3>3, <3>4 DEF NodeCounted, Dead
      <4>2. (codec'[vout_acodec].refs = 0 => codec'[vout_acodec] = Dead) /\ (codec'[vout_acodec].serial = 0 => codec'[vout_acodec].held = {})
        BY <2>1, <3>2, <3>3, <3>4 DEF NodeCounted, Dead
      <4>3. \A d \in Codecs : d # vout_acodec => (acodec' = d <=> acodec = d) /\ (vout_acodec' = d <=> vout_acodec = d)
        BY <2>1, <3>2, <3>3, <3>4
      <4>4. codec'[vout_acodec].serial \in {0, codec[vout_acodec].serial} \/ (codec'[vout_acodec].serial = FreshSerial /\ FreshAtHand)
        BY <2>1, <3>2, <3>3, <3>4 DEF Dead
      <4> QED
        BY <2>1, <3>2, <3>3, <3>4, <4>1, <4>2, <4>3, <4>4, OneChanges
    <3> QED
      BY <2>1, <3>2, <3>3, <3>5 DEF CodecTypes, VoutHas
  <2> QED
    BY <2>2, <2>3
<1>34. ASSUME NEW s \in Surfaces \cup {Null}, SetWindow(s) PROVE (CodecTypes /\ NodeCounted /\ VoutHas)'
  BY <1>34 DEF SetWindow, CodecTypes, NodeCounted, VoutHas, NodePlaces, NodeAt, InnerAt, DoneAt, OpenAt, LoopAt
<1>35. ASSUME SetPipeline PROVE (CodecTypes /\ NodeCounted /\ VoutHas)'
  <2>1. CASE window = surface \/ vout_acodec = 0
    BY <1>35, <2>1 DEF SetPipeline, SetAMediaCodec, CodecTypes, NodeCounted, VoutHas, NodePlaces, NodeAt, InnerAt, DoneAt, OpenAt, LoopAt
  <2>2. CASE ~(window = surface \/ vout_acodec = 0)
    <3>1. /\ vout_acodec \in Codecs /\ vout_acodec' = 0 /\ UNCHANGED <<acodec, opt, got>>
          /\ codec \in [Codecs -> Codec] /\ opt \in Options /\ got \in Buffers \cup {NoIndex} /\ acodec \in {0} \cup Codecs
          /\ codec' = Take(Drop(codec, vout_acodec), 0) /\ codec[vout_acodec].refs \in Nat
          /\ codec[vout_acodec].refs > 0
          /\ UNCHANGED <<in_at, out_at>>
      BY <1>35, <2>2 DEF SetPipeline, SetAMediaCodec, Codec, CodecTypes, NodeCounted, VoutHas, NodePlaces, NodeAt, InnerAt, DoneAt, OpenAt, LoopAt
    <3>2. codec' = Drop(codec, vout_acodec)
      BY <3>1 DEF Take
    <3>3. /\ codec' \in [Codecs -> Codec]
          /\ \A d \in Codecs : d # vout_acodec => codec'[d] = codec[d]
          /\ codec[vout_acodec].refs = 1 => codec'[vout_acodec] = Dead
          /\ codec[vout_acodec].refs # 1 =>
               /\ codec'[vout_acodec].refs = codec[vout_acodec].refs - 1
               /\ codec'[vout_acodec].serial = codec[vout_acodec].serial
               /\ codec'[vout_acodec].held = codec[vout_acodec].held
      BY <3>1, <3>2, DropIs
    <3>4. NodeCounted'
      <4>1. codec'[vout_acodec].refs = (IF acodec' = vout_acodec THEN 1 ELSE 0) + (IF vout_acodec' = vout_acodec THEN 1 ELSE 0)
        BY <3>1, <3>3 DEF NodeCounted, Dead
      <4>2. (codec'[vout_acodec].refs = 0 => codec'[vout_acodec] = Dead) /\ (codec'[vout_acodec].serial = 0 => codec'[vout_acodec].held = {})
        BY <3>1, <3>3 DEF NodeCounted, Dead
      <4>3. \A d \in Codecs : d # vout_acodec => (acodec' = d <=> acodec = d) /\ (vout_acodec' = d <=> vout_acodec = d)
        BY <3>1, <3>3
      <4>4. codec'[vout_acodec].serial \in {0, codec[vout_acodec].serial} \/ (codec'[vout_acodec].serial = FreshSerial /\ FreshAtHand)
        BY <3>1, <3>3 DEF Dead
      <4> QED
        BY <3>1, <3>3, <4>1, <4>2, <4>3, <4>4, OneChanges
    <3>5. (in_at' = "set" \/ out_at' \in OpenAt) /\ acodec # 0 => codec'[acodec].held = {}
      BY <3>1, <3>3 DEF VoutHas, OpenAt, Dead
    <3> QED
      BY <3>1, <3>3, <3>4, <3>5 DEF CodecTypes, VoutHas, OpenAt, DoneAt
  <2> QED
    BY <2>1, <2>2
<1>36. ASSUME SeekHint PROVE (CodecTypes /\ NodeCounted /\ VoutHas)'
  BY <1>36 DEF SeekHint, CodecTypes, NodeCounted, VoutHas, NodePlaces, NodeAt, InnerAt, DoneAt, OpenAt, LoopAt
<1>37. ASSUME SeekPut PROVE (CodecTypes /\ NodeCounted /\ VoutHas)'
  BY <1>37 DEF SeekPut, CodecTypes, NodeCounted, VoutHas, NodePlaces, NodeAt, InnerAt, DoneAt, OpenAt, LoopAt
<1>38. ASSUME Abort PROVE (CodecTypes /\ NodeCounted /\ VoutHas)'
  BY <1>38 DEF Abort, CodecTypes, NodeCounted, VoutHas, NodePlaces, NodeAt, InnerAt, DoneAt, OpenAt, LoopAt
<1>39. CASE UNCHANGED codecVars
  BY <1>39 DEF CodecTypes, NodeCounted, VoutHas, NodePlaces, NodeAt, InnerAt, DoneAt, OpenAt, LoopAt
<1> QED
  BY <1>1, <1>2, <1>3, <1>4, <1>5, <1>6, <1>7, <1>8, <1>9, <1>10, <1>11, <1>12, <1>13, <1>14, <1>15, <1>16, <1>17, <1>18, <1>19, <1>20, <1>21, <1>22, <1>23, <1>24, <1>25, <1>26, <1>27, <1>28, <1>29, <1>30, <1>31, <1>32, <1>33, <1>34, <1>35, <1>36, <1>37, <1>38, <1>39
  DEF CodecNext, OpenVideoDecoder, InputThread, FeedInputBuffer, Flush, Reconfigure, OutputThread, DrainOutputBuffer, OutputFrame, OutputEnds, Closing

-----------------------------------------------------------------------------
(* The hands: the frame, the pictures and the buffer held back.            *)

Real(p) == p.index # NoIndex

\* No two hands hold a proxy for the same buffer.
HandsApart ==
  /\ \A i \in DOMAIN pictq : Real(pictq[i]) => pictq[i] # frame
  /\ \A i, j \in DOMAIN pictq : Real(pictq[i]) /\ pictq[i] = pictq[j] => i = j
  /\ \A p \in Range(early) : Real(p) => p # frame /\ \A i \in DOMAIN pictq : p # pictq[i]

\* What a proxy stands for is held by the codec it is from, unless that was flushed.
HandsOwn ==
  \A p \in Hands : Real(p) =>
     p.serial # 0 /\ \A c \in Codecs : p.serial = codec[c].serial => p.index \in codec[c].held

\* A buffer just dequeued is the codec's, and nobody else has it.
GotIsOwn ==
  got # NoIndex =>
    /\ out_at = "obtain" /\ acodec # 0 /\ codec[acodec].serial # 0
    /\ got \in codec[acodec].held
    /\ \A p \in Hands : p.serial = codec[acodec].serial => p.index # got

FrameInUse == Real(frame) => out_at \in {"obtained", "have", "failed"}

HandsInv == HandTypes /\ HandsApart /\ HandsOwn /\ GotIsOwn /\ FrameInUse

\* A step that leaves the buffers in hand where they are, or drops some of them, lost among them.
KeptBut(lost) == \A p \in Hands' : Real(p) => p \in Hands /\ p # lost

HandsHold(lost) == HandTypes' /\ HandsApart' /\ KeptBut(lost)

LEMMA InvalidIs == Invalid \in Proxied /\ ~Real(Invalid) /\ Invalid.serial = 0
  BY DEF Invalid, Proxied, Real

LEMMA HandsIs ==
  \A p : p \in Hands <=> \/ p = frame
                         \/ \E i \in DOMAIN pictq : p = pictq[i]
                         \/ p \in Range(early)
  BY DEF Hands, Proxies

LEMMA HandsIsNext ==
  \A p : p \in Hands' <=> \/ p = frame'
                          \/ \E i \in DOMAIN pictq' : p = pictq'[i]
                          \/ p \in Range(early')
  BY DEF Hands, Proxies

LEMMA HandsStay ==
  ASSUME HandTypes, HandsApart, UNCHANGED <<frame, pictq, early>>
  PROVE  HandsHold(Invalid)
<1>1. Hands' = Hands
  BY DEF Hands, Proxies
<1>2. HandTypes' /\ HandsApart'
  BY DEF HandTypes, HandsApart
<1> QED
  BY <1>1, <1>2, InvalidIs DEF HandsHold, KeptBut

LEMMA HandsInvalidated ==
  ASSUME HandTypes, InvalidateAll, early' = early \/ early' = <<>>
  PROVE  HandsHold(Invalid)
<1>1. frame' = Invalid /\ pictq' \in Seq(Proxied) /\ DOMAIN pictq' = DOMAIN pictq
      /\ \A i \in DOMAIN pictq : pictq'[i] = Invalid
  <2>1. Len(pictq) \in Nat /\ DOMAIN pictq = 1 .. Len(pictq)
    BY DEF HandTypes
  <2> QED
    BY <2>1, InvalidIs DEF InvalidateAll
<1>2. early' = <<>> => Range(early') = {}
  BY DEF Range
<1>3. HandTypes'
  BY <1>1, InvalidIs DEF HandTypes
<1>4. HandsApart'
  BY <1>1, InvalidIs DEF HandsApart
<1>5. KeptBut(Invalid)
  BY <1>1, <1>2, InvalidIs, HandsIs, HandsIsNext DEF KeptBut
<1> QED
  BY <1>3, <1>4, <1>5 DEF HandsHold

LEMMA FrameLeaves ==
  ASSUME HandTypes, HandsApart, frame' = Invalid, UNCHANGED <<pictq, early>>
  PROVE  HandsHold(frame)
<1>1. HandTypes' /\ HandsApart'
  BY InvalidIs DEF HandTypes, HandsApart
<1>2. KeptBut(frame)
  <2>1. SUFFICES ASSUME NEW p \in Hands', Real(p) PROVE p \in Hands /\ p # frame
    BY DEF KeptBut
  <2>2. CASE \E i \in DOMAIN pictq : p = pictq[i]
    BY <2>1, <2>2, HandsIs DEF HandsApart
  <2>3. CASE p \in Range(early)
    BY <2>1, <2>3, HandsIs DEF HandsApart
  <2> QED
    BY <2>1, <2>2, <2>3, HandsIsNext, InvalidIs
<1> QED
  BY <1>1, <1>2 DEF HandsHold

LEMMA FirstIs ==
  ASSUME HandTypes, pictq # <<>>
  PROVE  /\ Head(pictq) = pictq[1] /\ 1 \in DOMAIN pictq /\ pictq[1] \in Proxied
         /\ Tail(pictq) \in Seq(Proxied)
         /\ \A i \in DOMAIN Tail(pictq) : i + 1 \in DOMAIN pictq /\ Tail(pictq)[i] = pictq[i + 1]
                                          /\ i + 1 # 1 /\ i \in Nat
  BY DEF HandTypes

LEMMA FirstLeaves ==
  ASSUME HandTypes, HandsApart, pictq # <<>>, pictq' = Tail(pictq), UNCHANGED <<frame, early>>
  PROVE  HandsHold(Head(pictq))
<1>1. HandTypes'
  BY FirstIs DEF HandTypes
<1>2. HandsApart'
  <2>1. ASSUME NEW i \in DOMAIN pictq', Real(pictq'[i]) PROVE pictq'[i] # frame'
    BY <2>1, FirstIs DEF HandsApart
  <2>2. ASSUME NEW i \in DOMAIN pictq', NEW j \in DOMAIN pictq', Real(pictq'[i]), pictq'[i] = pictq'[j]
        PROVE  i = j
    <3>1. i + 1 = j + 1
      BY <2>2, FirstIs DEF HandsApart
    <3> QED
      BY <3>1, FirstIs
  <2>3. ASSUME NEW p \in Range(early'), Real(p)
        PROVE  p # frame' /\ \A i \in DOMAIN pictq' : p # pictq'[i]
    BY <2>3, FirstIs DEF HandsApart
  <2> QED
    BY <2>1, <2>2, <2>3 DEF HandsApart
<1>3. KeptBut(Head(pictq))
  <2>1. SUFFICES ASSUME NEW p \in Hands', Real(p) PROVE p \in Hands /\ p # pictq[1]
    BY FirstIs DEF KeptBut
  <2>2. CASE \E i \in DOMAIN pictq' : p = pictq'[i]
    <3>1. PICK i \in DOMAIN pictq' : p = pictq'[i]
      BY <2>2
    <3>2. p = pictq[i + 1] /\ i + 1 \in DOMAIN pictq /\ i + 1 # 1 /\ 1 \in DOMAIN pictq
      BY <3>1, FirstIs
    <3>3. p # pictq[1]
      BY <2>1, <3>2 DEF HandsApart
    <3> QED
      BY <3>2, <3>3, HandsIs
  <2>3. CASE p = frame
    BY <2>1, <2>3, FirstIs, HandsIs DEF HandsApart
  <2>4. CASE p \in Range(early)
    BY <2>1, <2>4, FirstIs, HandsIs DEF HandsApart
  <2> QED
    BY <2>1, <2>2, <2>3, <2>4, HandsIsNext
<1> QED
  BY <1>1, <1>2, <1>3 DEF HandsHold

LEMMA FirstIsShown ==
  ASSUME HandTypes, HandsApart, pictq # <<>>, pictq' = [pictq EXCEPT ![1] = Invalid],
         UNCHANGED <<frame, early>>
  PROVE  HandsHold(Head(pictq))
<1>1. /\ pictq' \in Seq(Proxied) /\ DOMAIN pictq' = DOMAIN pictq
      /\ pictq'[1] = Invalid /\ \A i \in DOMAIN pictq : i # 1 => pictq'[i] = pictq[i]
  BY FirstIs, InvalidIs DEF HandTypes
<1>2. HandTypes' /\ HandsApart'
  BY <1>1, InvalidIs DEF HandTypes, HandsApart
<1>3. KeptBut(Head(pictq))
  <2>1. SUFFICES ASSUME NEW p \in Hands', Real(p) PROVE p \in Hands /\ p # pictq[1]
    BY FirstIs DEF KeptBut
  <2>2. CASE \E i \in DOMAIN pictq' : p = pictq'[i]
    BY <1>1, <2>1, <2>2, FirstIs, InvalidIs, HandsIs DEF HandsApart
  <2>3. CASE p = frame
    BY <2>1, <2>3, FirstIs, HandsIs DEF HandsApart
  <2>4. CASE p \in Range(early)
    BY <2>1, <2>4, FirstIs, HandsIs DEF HandsApart
  <2> QED
    BY <2>1, <2>2, <2>3, <2>4, HandsIsNext
<1> QED
  BY <1>2, <1>3 DEF HandsHold

LEMMA FrameIsQueued ==
  ASSUME HandTypes, HandsApart, pictq' = Append(pictq, frame), frame' = Invalid, early' = early
  PROVE  HandsHold(Invalid)
<1> DEFINE n == Len(pictq) + 1
<1>1. /\ pictq' \in Seq(Proxied) /\ DOMAIN pictq' = DOMAIN pictq \cup {n} /\ n \notin DOMAIN pictq
      /\ pictq'[n] = frame /\ \A i \in DOMAIN pictq : pictq'[i] = pictq[i]
  BY DEF HandTypes
<1> HIDE DEF n
<1>2. HandTypes'
  BY <1>1, InvalidIs DEF HandTypes
<1>3. HandsApart'
  <2>1. ASSUME NEW i \in DOMAIN pictq', NEW j \in DOMAIN pictq', Real(pictq'[i]), pictq'[i] = pictq'[j]
        PROVE  i = j
    BY <1>1, <2>1 DEF HandsApart
  <2>2. ASSUME NEW p \in Range(early'), Real(p)
        PROVE  p # frame' /\ \A i \in DOMAIN pictq' : p # pictq'[i]
    BY <1>1, <2>2, InvalidIs DEF HandsApart
  <2> QED
    BY <1>1, <2>1, <2>2, InvalidIs DEF HandsApart
<1>4. KeptBut(Invalid)
  BY <1>1, InvalidIs, HandsIs, HandsIsNext DEF KeptBut
<1> QED
  BY <1>2, <1>3, <1>4 DEF HandsHold

-----------------------------------------------------------------------------
(* What becomes of the buffers in hand as the codecs change.               *)

\* A codec that is not flushed, stopped, made or deleted keeps the buffers it has handed out.
CodecsStay ==
  \A c \in Codecs : \/ codec'[c].serial \in {0, FreshSerial}
                    \/ /\ codec'[c].serial = codec[c].serial
                       /\ codec[c].held \subseteq codec'[c].held

GotStays ==
  got' # NoIndex =>
    /\ UNCHANGED <<got, out_at, acodec>>
    /\ codec'[acodec].serial = codec[acodec].serial
    /\ codec[acodec].held \subseteq codec'[acodec].held

LEMMA HandsInvStays ==
  ASSUME HandsInv, FreshAtHand, NEW lost, HandsHold(lost), CodecsStay, GotStays, FrameInUse'
  PROVE  HandsInv'
<1>1. HandsOwn'
  <2>1. SUFFICES ASSUME NEW p \in Hands', Real(p)
                 PROVE  /\ p.serial # 0
                        /\ \A c \in Codecs : p.serial = codec'[c].serial => p.index \in codec'[c].held
    BY DEF HandsOwn
  <2>2. p \in Hands /\ p.serial # 0 /\ p.serial # FreshSerial
    BY <2>1 DEF HandsHold, KeptBut, HandsInv, HandsOwn, FreshAtHand
  <2> QED
    BY <2>1, <2>2 DEF HandsInv, HandsOwn, CodecsStay
<1>2. GotIsOwn'
  <2>1. SUFFICES ASSUME got' # NoIndex PROVE GotIsOwn'
    BY DEF GotIsOwn
  <2>2. UNCHANGED <<got, out_at, acodec>> /\ codec'[acodec].serial = codec[acodec].serial
        /\ codec[acodec].held \subseteq codec'[acodec].held
    BY <2>1 DEF GotStays
  <2>3. ASSUME NEW p \in Hands', p.serial = codec[acodec].serial PROVE p.index # got
    BY <2>1, <2>2, <2>3 DEF HandsHold, KeptBut, HandsInv, GotIsOwn, Real
  <2> QED
    BY <2>1, <2>2, <2>3 DEF HandsInv, GotIsOwn
<1> QED
  BY <1>1, <1>2 DEF HandsInv, HandsHold

\* A buffer that goes back to the codec is nobody else's.
LEMMA HandsInvReleased ==
  ASSUME CodecTypes, NodeCounted, VoutHas, HandsInv, HandTypes,
         NEW p \in Hands, Release(p), HandsHold(p),
         got' = got, got # NoIndex => UNCHANGED <<out_at, acodec>>, FrameInUse'
  PROVE  HandsInv'
<1>1. CASE ~GoesBack(p)
  <2>1. codec' = codec
    BY <1>1 DEF Release
  <2>2. HandsOwn'
    BY <2>1 DEF HandsInv, HandsOwn, HandsHold, KeptBut
  <2>3. GotIsOwn'
    BY <2>1 DEF HandsInv, GotIsOwn, HandsHold, KeptBut, Real
  <2> QED
    BY <2>2, <2>3 DEF HandsInv, HandsHold
<1>2. CASE GoesBack(p)
  <2>1. /\ vout_acodec \in Codecs /\ codec[vout_acodec].serial = p.serial /\ Real(p)
        /\ codec' = GivenBack(vout_acodec, p.index) /\ p.serial # 0
    BY <1>2 DEF GoesBack, Real, Release, CodecTypes, HandsInv, HandsOwn
  <2>2. /\ \A c \in Codecs : codec'[c].serial = codec[c].serial
        /\ \A c \in Codecs : c # vout_acodec => codec'[c].held = codec[c].held
        /\ codec'[vout_acodec].held = codec[vout_acodec].held \ {p.index}
    BY <2>1, GivenBackIs DEF CodecTypes
  <2>3. HandsOwn'
    <3>1. SUFFICES ASSUME NEW q \in Hands', Real(q)
                   PROVE  /\ q.serial # 0
                          /\ \A c \in Codecs : q.serial = codec'[c].serial => q.index \in codec'[c].held
      BY DEF HandsOwn
    <3>2. q \in Hands /\ q # p
      BY <3>1 DEF HandsHold, KeptBut
    <3>3. q.serial = p.serial => q.index # p.index
      BY <3>2, HandsAre DEF Proxied, NodeTypes
    <3>4. q.serial # 0 /\ \A c \in Codecs : q.serial = codec[c].serial => q.index \in codec[c].held
      BY <3>1, <3>2 DEF HandsInv, HandsOwn
    <3> QED
      BY <2>1, <2>2, <3>3, <3>4
  <2>4. GotIsOwn'
    <3>1. SUFFICES ASSUME got' # NoIndex PROVE GotIsOwn'
      BY DEF GotIsOwn
    <3>2. /\ UNCHANGED <<out_at, acodec, got>> /\ out_at = "obtain" /\ acodec \in Codecs
          /\ codec[acodec].serial # 0 /\ got \in codec[acodec].held
          /\ \A q \in Hands : q.serial = codec[acodec].serial => q.index # got
      BY <3>1 DEF HandsInv, GotIsOwn, CodecTypes
    <3>3. got \in codec'[acodec].held /\ codec'[acodec].serial # 0
      BY <2>1, <2>2, <3>2
    <3>4. \A q \in Hands' : q.serial = codec'[acodec].serial => q.index # got
      BY <2>2, <3>1, <3>2 DEF HandsHold, KeptBut, Real
    <3> QED
      BY <3>2, <3>3, <3>4, NoCodec DEF GotIsOwn
  <2> QED
    BY <2>3, <2>4 DEF HandsInv, HandsHold
<1> QED
  BY <1>1, <1>2

\* Of the codecs, as the operators change them.
Kin(cs) == \A c \in Codecs : \/ cs[c].serial \in {0, FreshSerial}
                             \/ cs[c].serial = codec[c].serial /\ cs[c].held = codec[c].held

LEMMA KinStay ==
  ASSUME Kin(codec')
  PROVE  CodecsStay
  BY DEF Kin, CodecsStay

LEMMA DropKin ==
  ASSUME NEW cs \in [Codecs -> Codec], Kin(cs), NEW c \in {0} \cup Codecs, c # 0 => cs[c].refs > 0
  PROVE  Kin(Drop(cs, c)) /\ Drop(cs, c) \in [Codecs -> Codec]
<1>1. CASE c = 0
  BY <1>1 DEF Drop
<1>2. CASE c # 0
  <2>1. c \in Codecs
    BY <1>2
  <2>2. ASSUME NEW d \in Codecs
        PROVE  \/ Drop(cs, c)[d].serial = 0
               \/ Drop(cs, c)[d].serial = cs[d].serial /\ Drop(cs, c)[d].held = cs[d].held
    BY <1>2, <2>1, DropIs DEF Dead
  <2> QED
    BY <1>2, <2>1, <2>2, DropIs DEF Kin
<1> QED
  BY <1>1, <1>2

LEMMA TakeKin ==
  ASSUME NEW cs \in [Codecs -> Codec], Kin(cs), NEW c \in {0} \cup Codecs
  PROVE  Kin(Take(cs, c))
<1>1. ASSUME NEW d \in Codecs
      PROVE  Take(cs, c)[d].serial = cs[d].serial /\ Take(cs, c)[d].held = cs[d].held
  BY TakeIs, NoCodec DEF Take
<1> QED
  BY <1>1 DEF Kin

LEMMA StoppedKin ==
  ASSUME CodecTypes, NodeCounted, FreshAtHand, acodec # 0
  PROVE  Stopped(acodec) \in [Codecs -> Codec] /\ Kin(Stopped(acodec))
         /\ Stopped(acodec)[acodec].refs = codec[acodec].refs
<1>1. acodec \in Codecs /\ codec \in [Codecs -> Codec]
      /\ (codec[acodec].serial = 0 => codec[acodec].held = {})
  BY DEF CodecTypes, NodeCounted
<1> QED
  BY <1>1, StoppedIs DEF Kin

LEMMA HandsUnchanged ==
  ASSUME HandsInv, FreshAtHand, UNCHANGED <<frame, pictq, early, codec, got>>,
         got # NoIndex => UNCHANGED <<out_at, acodec>>, FrameInUse'
  PROVE  HandsInv'
<1>1. HandsHold(Invalid)
  BY HandsStay DEF HandsInv
<1>2. CodecsStay /\ GotStays
  BY DEF CodecsStay, GotStays
<1> QED
  BY <1>1, <1>2, HandsInvStays

\* The same with other codecs, or without the buffers in hand, when none has just been dequeued.
LEMMA HandsOfKin ==
  ASSUME HandsInv, FreshAtHand, Kin(codec'), got = NoIndex, got' = got,
         UNCHANGED <<frame, pictq, early>> \/ (InvalidateAll /\ early' \in {early, <<>>}),
         FrameInUse'
  PROVE  HandsInv'
<1>1. HandsHold(Invalid)
  BY HandsStay, HandsInvalidated DEF HandsInv
<1>2. CodecsStay /\ GotStays
  BY KinStay DEF GotStays
<1> QED
  BY <1>1, <1>2, HandsInvStays

LEMMA HandsInvalid ==
  ASSUME HandsInv, FreshAtHand, codec' = codec, got' = got,
         got # NoIndex => UNCHANGED <<out_at, acodec>>, InvalidateAll, early' = early
  PROVE  HandsInv'
<1>1. HandsHold(Invalid) /\ FrameInUse'
  BY HandsInvalidated, InvalidIs DEF HandsInv, FrameInUse, InvalidateAll
<1>2. CodecsStay /\ GotStays
  BY DEF CodecsStay, GotStays
<1> QED
  BY <1>1, <1>2, HandsInvStays

\* The buffer just dequeued becomes a proxy that nobody has.
LEMMA ProxyIs ==
  ASSUME CodecTypes, NodeCounted, HandsInv, out_at = "obtain", acodec # 0
  PROVE  /\ Proxy \in Proxied
         /\ Real(Proxy) =>
              /\ Proxy.serial # 0 /\ Proxy \notin Hands
              /\ \A c \in Codecs : Proxy.serial = codec[c].serial => Proxy.index \in codec[c].held
<1>1. acodec \in Codecs /\ codec[acodec] \in Codec
  BY DEF CodecTypes
<1>2. CASE got = NoIndex
  BY <1>2, InvalidIs DEF Proxy
<1>3. CASE got # NoIndex
  <2>1. Proxy = [serial |-> codec[acodec].serial, index |-> got] /\ got \in Buffers
    BY <1>3 DEF Proxy, CodecTypes
  <2>2. /\ codec[acodec].serial # 0 /\ got \in codec[acodec].held
        /\ \A p \in Hands : p.serial = codec[acodec].serial => p.index # got
    BY <1>3 DEF HandsInv, GotIsOwn
  <2>3. Proxy \in Proxied
    BY <1>1, <2>1 DEF Proxied, Codec
  <2>4. Proxy \notin Hands
    BY <2>1, <2>2
  <2>5. \A c \in Codecs : Proxy.serial = codec[c].serial => Proxy.index \in codec[c].held
    BY <1>1, <2>1, <2>2 DEF NodeCounted
  <2> QED
    BY <2>1, <2>2, <2>3, <2>4, <2>5
<1> QED
  BY <1>2, <1>3

LEMMA EarlyIs ==
  ASSUME NEW p
  PROVE  Range(<<p>>) = {p} /\ Range(<<>>) = {} /\ Head(<<p>>) = p
  BY DEF Range

LEMMA ProxyIsHeld ==
  ASSUME CodecTypes, NodeCounted, HandsInv, out_at = "obtain", acodec # 0, UNCHANGED <<codec, pictq>>,
         \/ frame' = Proxy /\ early' = early
         \/ frame' = frame /\ early = <<>> /\ early' = <<Proxy>>
         \/ early # <<>> /\ frame' = Head(early) /\ early' = <<Proxy>>
  PROVE  HandTypes' /\ HandsApart' /\ HandsOwn'
<1>1. ~Real(frame)
  BY DEF HandsInv, FrameInUse
<1>2. early = <<>> \/ \E p \in Proxied : early = <<p>>
  BY DEF HandsInv, HandTypes
<1>3. \/ frame' = Proxy /\ early' = early
      \/ frame' = frame /\ early = <<>> /\ early' = <<Proxy>>
      \/ \E p \in Proxied : early = <<p>> /\ frame' = p /\ early' = <<Proxy>>
  BY <1>2, EarlyIs
<1>4. HandTypes'
  BY <1>3, ProxyIs DEF HandsInv, HandTypes
<1>5. HandsApart' /\ \A p \in Hands' : p \in Hands \/ p = Proxy
  <2>1. CASE frame' = Proxy /\ early' = early
    BY <1>1, <2>1, ProxyIs, HandsIs, HandsIsNext DEF HandsInv, HandsApart
  <2>2. CASE frame' = frame /\ early = <<>> /\ early' = <<Proxy>>
    <3>1. Range(early) = {} /\ Range(early') = {Proxy}
      BY <2>2, EarlyIs
    <3> QED
      BY <1>1, <2>2, <3>1, ProxyIs, HandsIs, HandsIsNext DEF HandsInv, HandsApart
  <2>3. CASE \E p \in Proxied : early = <<p>> /\ frame' = p /\ early' = <<Proxy>>
    <3>1. PICK p \in Proxied : early = <<p>> /\ frame' = p /\ early' = <<Proxy>>
      BY <2>3
    <3>2. Range(early) = {p} /\ Range(early') = {Proxy}
      BY <3>1, EarlyIs
    <3> QED
      BY <1>1, <3>1, <3>2, ProxyIs, HandsIs, HandsIsNext DEF HandsInv, HandsApart
  <2> QED
    BY <1>3, <2>1, <2>2, <2>3
<1>6. HandsOwn'
  BY <1>5, ProxyIs DEF HandsInv, HandsOwn
<1> QED
  BY <1>4, <1>5, <1>6

LEMMA GotIsReturned ==
  ASSUME CodecTypes, HandsInv, acodec # 0, UNCHANGED <<frame, pictq, early>>,
         codec' = GivenBack(acodec, got)
  PROVE  HandTypes' /\ HandsApart' /\ HandsOwn'
<1>1. HandsHold(Invalid) /\ Hands' = Hands
  BY HandsStay DEF HandsInv, Hands, Proxies
<1>2. acodec \in Codecs
  BY DEF CodecTypes
<1>3. /\ \A c \in Codecs : codec'[c].serial = codec[c].serial
      /\ \A c \in Codecs : c # acodec => codec'[c].held = codec[c].held
      /\ codec'[acodec].held = codec[acodec].held \ {got}
  BY <1>2, GivenBackIs DEF CodecTypes
<1>4. \A p \in Hands : Real(p) /\ p.serial = codec[acodec].serial => p.index # got
  BY DEF HandsInv, GotIsOwn, Real
<1>5. HandsOwn'
  BY <1>1, <1>2, <1>3, <1>4 DEF HandsInv, HandsOwn
<1> QED
  BY <1>1, <1>5 DEF HandsHold

LEMMA HandsInvHolds ==
  ASSUME CodecTypes, NodePlaces, NodeCounted, VoutHas, FreeAtHand, FreshAtHand, NodeCounted',
         HandsInv, [CodecNext]_codecVars
  PROVE  HandsInv'
<1> USE DEF codecVars, nodeVars, voutVars, heldVars, surfVars, seekVars, optVars
<1>1. ASSUME OpenInit PROVE HandsInv'
  <2>1. got = NoIndex /\ got' = got /\ FrameInUse'
    BY <1>1, InvalidIs DEF OpenInit, InvalidateAll, HandsInv, GotIsOwn, FrameInUse, NodePlaces
  <2>2. UNCHANGED <<frame, pictq, early>> \/ (InvalidateAll /\ early' \in {early, <<>>})
    BY <1>1 DEF OpenInit
  <2>3. Kin(codec')
    <3>1. \/ codec' = codec
          \/ codec' = [codec EXCEPT ![Free] = CreateInternal(FreshSerial)]
      BY <1>1 DEF OpenInit
    <3> QED
      BY <3>1, CreatedIs DEF Kin, CodecTypes
  <2> QED
    BY <2>1, <2>2, <2>3, HandsOfKin
<1>2. ASSUME OpenRefused PROVE HandsInv'
  <2>1. got = NoIndex /\ got' = got /\ FrameInUse'
    BY <1>2, InvalidIs DEF OpenRefused, OpenFails, Destroy, InvalidateAll, HandsInv, GotIsOwn, FrameInUse, NodePlaces
  <2>2. UNCHANGED <<frame, pictq, early>> \/ (InvalidateAll /\ early' \in {early, <<>>})
    BY <1>2 DEF OpenRefused, OpenFails, Destroy
  <2>3. Kin(codec')
    <3>1. Kin(codec) /\ codec \in [Codecs -> Codec] /\ acodec \in {0} \cup Codecs
          /\ vout_acodec \in {0} \cup Codecs
      BY DEF Kin, CodecTypes
    <3>2. codec' = Drop(codec, acodec)
      BY <1>2 DEF OpenRefused, OpenFails, Destroy
    <3> QED
      BY <3>1, <3>2, DropKin, HeldAreCounted
  <2> QED
    BY <2>1, <2>2, <2>3, HandsOfKin
<1>3. ASSUME OpenSurface PROVE HandsInv'
  <2>1. UNCHANGED <<frame, pictq, early, codec, got>> /\ FrameInUse'
    BY <1>3 DEF OpenSurface, HandsInv, FrameInUse
  <2>2. got # NoIndex => UNCHANGED <<out_at, acodec>>
    BY <1>3 DEF OpenSurface, HandsInv, GotIsOwn
  <2> QED
    BY <2>1, <2>2, HandsUnchanged
<1>4. ASSUME OpenConfigure PROVE HandsInv'
  <2>1. got = NoIndex /\ got' = got /\ FrameInUse'
    BY <1>4, InvalidIs DEF OpenConfigure, OpenFails, Destroy, InvalidateAll, HandsInv, GotIsOwn, FrameInUse, NodePlaces
  <2>2. UNCHANGED <<frame, pictq, early>> \/ (InvalidateAll /\ early' \in {early, <<>>})
    BY <1>4 DEF OpenConfigure, OpenFails, Destroy
  <2>3. Kin(codec')
    <3>1. Kin(codec) /\ codec \in [Codecs -> Codec] /\ acodec \in {0} \cup Codecs
          /\ vout_acodec \in {0} \cup Codecs
      BY DEF Kin, CodecTypes
    <3>2. CASE codec' = Drop(codec, acodec)
      BY <3>1, <3>2, DropKin, HeldAreCounted
    <3>3. CASE acodec # 0 /\ codec' = [codec EXCEPT ![acodec] = Start(Configure(@))]
      BY <3>1, <3>3, CreatedIs DEF Kin
    <3>4. CASE acodec = 0 /\ codec' = [codec EXCEPT ![Free] = Start(Configure(CreateCodec))]
      BY <3>1, <3>4, CreatedIs DEF Kin
    <3> QED
      BY <1>4, <3>2, <3>3, <3>4 DEF OpenConfigure, OpenFails, Destroy
  <2> QED
    BY <2>1, <2>2, <2>3, HandsOfKin
<1>5. ASSUME OpenPublish PROVE HandsInv'
  <2>1. got = NoIndex /\ got' = got /\ FrameInUse'
    BY <1>5, InvalidIs DEF OpenPublish, SetAMediaCodec, InvalidateAll, HandsInv, GotIsOwn, FrameInUse, NodePlaces
  <2>2. UNCHANGED <<frame, pictq, early>> \/ (InvalidateAll /\ early' \in {early, <<>>})
    BY <1>5 DEF OpenPublish, SetAMediaCodec
  <2>3. Kin(codec')
    <3>1. Kin(codec) /\ codec \in [Codecs -> Codec] /\ acodec \in {0} \cup Codecs
          /\ vout_acodec \in {0} \cup Codecs
      BY DEF Kin, CodecTypes
    <3>2. codec' = codec \/ codec' = Take(Drop(codec, vout_acodec), acodec)
      BY <1>5 DEF OpenPublish, SetAMediaCodec
    <3>3. Kin(Drop(codec, vout_acodec)) /\ Drop(codec, vout_acodec) \in [Codecs -> Codec]
      BY <3>1, DropKin, HeldAreCounted
    <3> QED
      BY <3>1, <3>2, <3>3, TakeKin
  <2> QED
    BY <2>1, <2>2, <2>3, HandsOfKin
<1>6. ASSUME OpenNot PROVE HandsInv'
  <2>1. UNCHANGED <<frame, pictq, early, codec, got>> /\ FrameInUse'
    BY <1>6 DEF OpenNot, HandsInv, FrameInUse
  <2>2. got # NoIndex => UNCHANGED <<out_at, acodec>>
    BY <1>6 DEF OpenNot, HandsInv, GotIsOwn
  <2> QED
    BY <2>1, <2>2, HandsUnchanged
<1>7. ASSUME InPop PROVE HandsInv'
  <2>1. UNCHANGED <<frame, pictq, early, codec, got>> /\ FrameInUse'
    BY <1>7 DEF InPop, HandsInv, FrameInUse
  <2>2. got # NoIndex => UNCHANGED <<out_at, acodec>>
    BY <1>7 DEF InPop, HandsInv, GotIsOwn
  <2> QED
    BY <2>1, <2>2, HandsUnchanged
<1>8. ASSUME InFlushLock PROVE HandsInv'
  <2>1. codec' = codec /\ got' = got /\ early' = early /\ (got # NoIndex => UNCHANGED <<out_at, acodec>>)
    BY <1>8 DEF InFlushLock
  <2>2. CASE InvalidateAll
    BY <2>1, <2>2, HandsInvalid
  <2>3. CASE UNCHANGED <<frame, pictq>>
    <3>1. FrameInUse'
      BY <1>8, <2>3 DEF InFlushLock, HandsInv, FrameInUse
    <3> QED
      BY <2>1, <2>3, <3>1, HandsUnchanged
  <2> QED
    BY <1>8, <2>2, <2>3 DEF InFlushLock
<1>9. ASSUME InFlush PROVE HandsInv'
  <2>1. got = NoIndex /\ got' = got /\ FrameInUse'
    BY <1>9, InvalidIs DEF InFlush, InnerAt, InvalidateAll, HandsInv, GotIsOwn, FrameInUse, NodePlaces
  <2>2. UNCHANGED <<frame, pictq, early>> \/ (InvalidateAll /\ early' \in {early, <<>>})
    BY <1>9 DEF InFlush, InnerAt
  <2>3. Kin(codec')
    <3>1. codec' = Renewed(acodec, TRUE) /\ acodec \in Codecs /\ codec \in [Codecs -> Codec]
      BY <1>9 DEF InFlush, CodecTypes, NodePlaces, OpenAt, DoneAt
    <3> QED
      BY <3>1, RenewedIs DEF Kin
  <2> QED
    BY <2>1, <2>2, <2>3, HandsOfKin
<1>10. ASSUME InCheck PROVE HandsInv'
  <2>1. UNCHANGED <<frame, pictq, early, codec, got>> /\ FrameInUse'
    BY <1>10 DEF InCheck, RecreateFormat, HandsInv, FrameInUse
  <2>2. got # NoIndex => UNCHANGED <<out_at, acodec>>
    BY <1>10 DEF InCheck, RecreateFormat, HandsInv, GotIsOwn
  <2> QED
    BY <2>1, <2>2, HandsUnchanged
<1>11. ASSUME InReconfigure PROVE HandsInv'
  <2>1. codec' = codec /\ got' = got /\ early' = early /\ (got # NoIndex => UNCHANGED <<out_at, acodec>>)
    BY <1>11 DEF InReconfigure
  <2>2. CASE InvalidateAll
    BY <2>1, <2>2, HandsInvalid
  <2>3. CASE UNCHANGED <<frame, pictq>>
    <3>1. FrameInUse'
      BY <1>11, <2>3 DEF InReconfigure, HandsInv, FrameInUse
    <3> QED
      BY <2>1, <2>3, <3>1, HandsUnchanged
  <2> QED
    BY <1>11, <2>2, <2>3 DEF InReconfigure
<1>12. ASSUME InStop PROVE HandsInv'
  <2>1. got = NoIndex /\ got' = got /\ FrameInUse'
    BY <1>12, InvalidIs DEF InStop, StopNode, InnerAt, InvalidateAll, HandsInv, GotIsOwn, FrameInUse, NodePlaces
  <2>2. UNCHANGED <<frame, pictq, early>> \/ (InvalidateAll /\ early' \in {early, <<>>})
    BY <1>12 DEF InStop, StopNode, InnerAt
  <2>3. Kin(codec')
    <3>1. codec' = Drop(Stopped(acodec), acodec) /\ acodec # 0 /\ acodec \in {0} \cup Codecs
      BY <1>12 DEF InStop, StopNode, Stopped, CodecTypes, NodePlaces, OpenAt, DoneAt
    <3>2. Stopped(acodec)[acodec].refs > 0
      BY <3>1, StoppedKin, HeldAreCounted
    <3> QED
      BY <3>1, <3>2, StoppedKin, DropKin
  <2> QED
    BY <2>1, <2>2, <2>3, HandsOfKin
<1>13. ASSUME InClear PROVE HandsInv'
  <2>1. got = NoIndex /\ got' = got /\ FrameInUse'
    BY <1>13, InvalidIs DEF InClear, SetAMediaCodec, InnerAt, InvalidateAll, HandsInv, GotIsOwn, FrameInUse, NodePlaces
  <2>2. UNCHANGED <<frame, pictq, early>> \/ (InvalidateAll /\ early' \in {early, <<>>})
    BY <1>13 DEF InClear, SetAMediaCodec, InnerAt
  <2>3. Kin(codec')
    <3>1. Kin(codec) /\ codec \in [Codecs -> Codec] /\ acodec \in {0} \cup Codecs
          /\ vout_acodec \in {0} \cup Codecs
      BY DEF Kin, CodecTypes
    <3>2. codec' = codec \/ codec' = Take(Drop(codec, vout_acodec), 0)
      BY <1>13 DEF InClear, SetAMediaCodec
    <3>3. Kin(Drop(codec, vout_acodec)) /\ Drop(codec, vout_acodec) \in [Codecs -> Codec]
      BY <3>1, DropKin, HeldAreCounted
    <3> QED
      BY <3>1, <3>2, <3>3, TakeKin
  <2> QED
    BY <2>1, <2>2, <2>3, HandsOfKin
<1>14. ASSUME InCreate PROVE HandsInv'
  <2>1. got = NoIndex /\ got' = got /\ FrameInUse'
    BY <1>14, InvalidIs DEF InCreate, InnerAt, InvalidateAll, HandsInv, GotIsOwn, FrameInUse, NodePlaces
  <2>2. UNCHANGED <<frame, pictq, early>> \/ (InvalidateAll /\ early' \in {early, <<>>})
    BY <1>14 DEF InCreate, InnerAt
  <2>3. Kin(codec')
    <3>1. PICK k \in {CreateCodec, Start(Configure(CreateCodec))} : codec' = [codec EXCEPT ![Free] = k]
      BY <1>14 DEF InCreate
    <3> QED
      BY <3>1, CreatedIs DEF Kin, CodecTypes
  <2> QED
    BY <2>1, <2>2, <2>3, HandsOfKin
<1>15. ASSUME InSet PROVE HandsInv'
  <2>1. got = NoIndex /\ got' = got /\ FrameInUse'
    BY <1>15, InvalidIs DEF InSet, SetAMediaCodec, InnerAt, InvalidateAll, HandsInv, GotIsOwn, FrameInUse, NodePlaces
  <2>2. UNCHANGED <<frame, pictq, early>> \/ (InvalidateAll /\ early' \in {early, <<>>})
    BY <1>15 DEF InSet, SetAMediaCodec, InnerAt
  <2>3. Kin(codec')
    <3>1. Kin(codec) /\ codec \in [Codecs -> Codec] /\ acodec \in {0} \cup Codecs
          /\ vout_acodec \in {0} \cup Codecs
      BY DEF Kin, CodecTypes
    <3>2. codec' = codec \/ codec' = Take(Drop(codec, vout_acodec), acodec)
      BY <1>15 DEF InSet, SetAMediaCodec
    <3>3. Kin(Drop(codec, vout_acodec)) /\ Drop(codec, vout_acodec) \in [Codecs -> Codec]
      BY <3>1, DropKin, HeldAreCounted
    <3> QED
      BY <3>1, <3>2, <3>3, TakeKin
  <2> QED
    BY <2>1, <2>2, <2>3, HandsOfKin
<1>16. ASSUME InFirst PROVE HandsInv'
  <2>1. UNCHANGED <<frame, pictq, early, codec, got>> /\ FrameInUse'
    BY <1>16 DEF InFirst, HandsInv, FrameInUse
  <2>2. got # NoIndex => UNCHANGED <<out_at, acodec>>
    BY <1>16 DEF InFirst, HandsInv, GotIsOwn
  <2> QED
    BY <2>1, <2>2, HandsUnchanged
<1>17. ASSUME InFeed PROVE HandsInv'
  <2>1. UNCHANGED <<frame, pictq, early, got, out_at, acodec>> /\ (codec' = codec \/ codec' = Threw)
    BY <1>17 DEF InFeed, Fake
  <2>2. FrameInUse' /\ acodec \in Codecs /\ codec \in [Codecs -> Codec]
    BY <1>17, <2>1 DEF InFeed, HandsInv, FrameInUse, CodecTypes, NodePlaces, OpenAt, DoneAt
  <2>3. \A c \in Codecs : codec'[c].serial = codec[c].serial /\ codec'[c].held = codec[c].held
    BY <2>1, <2>2 DEF Threw, Codec
  <2>4. CodecsStay /\ GotStays
    BY <2>1, <2>2, <2>3 DEF CodecsStay, GotStays
  <2>5. HandsHold(Invalid)
    BY <2>1, HandsStay DEF HandsInv
  <2> QED
    BY <2>2, <2>4, <2>5, HandsInvStays
<1>18. ASSUME OutDequeue PROVE HandsInv'
  <2>1. UNCHANGED <<frame, pictq, early, acodec>> /\ got = NoIndex /\ out_at = "top" /\ FrameInUse'
    BY <1>18 DEF OutDequeue, HandsInv, GotIsOwn, FrameInUse
  <2>2. HandsHold(Invalid) /\ Hands' = Hands
    BY <2>1, HandsStay DEF HandsInv, Hands, Proxies
  <2>3. CASE codec' = codec /\ got' = NoIndex
    <3>1. CodecsStay /\ GotStays
      BY <2>1, <2>3 DEF CodecsStay, GotStays
    <3> QED
      BY <2>1, <2>2, <3>1, HandsInvStays
  <2>4. CASE DequeueBuffer /\ out_at' = "obtain"
    <3>1. acodec # 0
      BY <1>18 DEF OutDequeue, NodePlaces, InnerAt, OpenAt, DoneAt
    <3>2. acodec \in Codecs /\ codec[acodec].serial # 0
      BY <2>4, <3>1 DEF DequeueBuffer, Dummy, CodecTypes
    <3>3. PICK b \in Buffers \ codec[acodec].held :
            codec' = [codec EXCEPT ![acodec].held = @ \cup {b}] /\ got' = b
      BY <2>4 DEF DequeueBuffer
    <3>4. /\ \A c \in Codecs : codec'[c].serial = codec[c].serial
          /\ \A c \in Codecs : codec[c].held \subseteq codec'[c].held
          /\ b \in codec'[acodec].held
      BY <3>2, <3>3 DEF CodecTypes, Codec
    <3>5. HandsOwn'
      BY <2>2, <3>4 DEF HandsInv, HandsOwn
    <3>6. ASSUME NEW p \in Hands, p.serial = codec[acodec].serial PROVE p.index # b
      BY <3>2, <3>3, <3>6, BuffersAssumption DEF HandsInv, HandsOwn, Real, NoIndex
    <3>7. GotIsOwn'
      BY <2>1, <2>2, <2>4, <3>2, <3>3, <3>4, <3>6, NoCodec DEF GotIsOwn
    <3> QED
      BY <2>1, <2>2, <3>5, <3>7 DEF HandsInv, HandsHold
  <2>5. (codec' = codec /\ got' = NoIndex) \/ (DequeueBuffer /\ out_at' = "obtain")
    BY <1>18, <2>1 DEF OutDequeue, DequeueFake
  <2> QED
    BY <2>3, <2>4, <2>5
<1>19. ASSUME OutObtain PROVE HandsInv'
  <2>1. out_at = "obtain" /\ acodec # 0 /\ pictq' = pictq /\ got' = NoIndex
    BY <1>19 DEF OutObtain, NodePlaces, InnerAt, OpenAt, DoneAt
  <2>2. \/ /\ codec' = codec
           /\ \/ frame' = Proxy /\ early' = early
              \/ frame' = frame /\ early = <<>> /\ early' = <<Proxy>>
              \/ early # <<>> /\ frame' = Head(early) /\ early' = <<Proxy>>
        \/ codec' = GivenBack(acodec, got) /\ UNCHANGED <<frame, early>>
    BY <1>19 DEF OutObtain, Fill, NoFill, Reorder
  <2>3. HandTypes' /\ HandsApart' /\ HandsOwn'
    BY <2>1, <2>2, ProxyIsHeld, GotIsReturned
  <2>4. FrameInUse'
    BY <1>19 DEF OutObtain, Fill, NoFill, Reorder, HandsInv, FrameInUse
  <2>5. GotIsOwn'
    BY <2>1 DEF GotIsOwn
  <2> QED
    BY <2>3, <2>4, <2>5 DEF HandsInv
<1>20. ASSUME OutFirst PROVE HandsInv'
  <2>1. UNCHANGED <<frame, pictq, early, codec, got>> /\ FrameInUse'
    BY <1>20 DEF OutFirst, HandsInv, FrameInUse
  <2>2. got # NoIndex => UNCHANGED <<out_at, acodec>>
    BY <1>20 DEF OutFirst, HandsInv, GotIsOwn
  <2> QED
    BY <2>1, <2>2, HandsUnchanged
<1>21. ASSUME OutFailed PROVE HandsInv'
  <2>1. /\ Release(frame) /\ got' = got /\ (got # NoIndex => UNCHANGED <<out_at, acodec>>)
        /\ FrameInUse'
    BY <1>21, InvalidIs DEF OutFailed, HandsInv, GotIsOwn, FrameInUse
  <2>2. HandsHold(frame) /\ frame \in Hands
    BY <1>21, FrameLeaves, HandsIs DEF OutFailed, HandsInv
  <2> QED
    BY <2>1, <2>2, HandsInvReleased DEF HandsInv
<1>22. ASSUME OutDrop PROVE HandsInv'
  <2>1. /\ Release(frame) /\ got' = got /\ (got # NoIndex => UNCHANGED <<out_at, acodec>>)
        /\ FrameInUse'
    BY <1>22, InvalidIs DEF OutDrop, Turn, HandsInv, GotIsOwn, FrameInUse
  <2>2. HandsHold(frame) /\ frame \in Hands
    BY <1>22, FrameLeaves, HandsIs DEF OutDrop, Turn, HandsInv
  <2> QED
    BY <2>1, <2>2, HandsInvReleased DEF HandsInv
<1>23. ASSUME OutPush PROVE HandsInv'
  <2>1. UNCHANGED <<codec, early, got>> /\ frame' = Invalid /\ pictq' = Append(pictq, frame) /\ got = NoIndex
    BY <1>23 DEF OutPush, HandsInv, GotIsOwn
  <2>2. HandsHold(Invalid) /\ FrameInUse'
    BY <2>1, FrameIsQueued, InvalidIs DEF HandsInv, FrameInUse
  <2>3. CodecsStay /\ GotStays
    BY <2>1 DEF CodecsStay, GotStays
  <2> QED
    BY <2>2, <2>3, HandsInvStays
<1>24. ASSUME FeedReturns PROVE HandsInv'
  <2>1. UNCHANGED <<frame, pictq, early, codec, got>> /\ FrameInUse'
    BY <1>24 DEF FeedReturns, HandsInv, FrameInUse
  <2>2. got # NoIndex => UNCHANGED <<out_at, acodec>>
    BY <1>24 DEF FeedReturns, HandsInv, GotIsOwn
  <2> QED
    BY <2>1, <2>2, HandsUnchanged
<1>25. ASSUME OutAbort PROVE HandsInv'
  <2>1. UNCHANGED <<frame, pictq, early, codec, got>> /\ FrameInUse'
    BY <1>25 DEF OutAbort, HandsInv, FrameInUse
  <2>2. got # NoIndex => UNCHANGED <<out_at, acodec>>
    BY <1>25 DEF OutAbort, HandsInv, GotIsOwn
  <2> QED
    BY <2>1, <2>2, HandsUnchanged
<1>26. ASSUME OutJoin PROVE HandsInv'
  <2>1. got = NoIndex /\ got' = got /\ FrameInUse'
    BY <1>26, InvalidIs DEF OutJoin, InvalidateAll, HandsInv, GotIsOwn, FrameInUse, NodePlaces
  <2>2. UNCHANGED <<frame, pictq, early>> \/ (InvalidateAll /\ early' \in {early, <<>>})
    BY <1>26 DEF OutJoin
  <2>3. Kin(codec')
    BY <1>26 DEF Kin, OutJoin
  <2> QED
    BY <2>1, <2>2, <2>3, HandsOfKin
<1>27. ASSUME OutStop PROVE HandsInv'
  <2>1. got = NoIndex /\ got' = got /\ FrameInUse'
    BY <1>27, InvalidIs DEF OutStop, StopNode, InvalidateAll, HandsInv, GotIsOwn, FrameInUse, NodePlaces
  <2>2. UNCHANGED <<frame, pictq, early>> \/ (InvalidateAll /\ early' \in {early, <<>>})
    BY <1>27 DEF OutStop, StopNode
  <2>3. Kin(codec')
    <3>1. codec' = Drop(Stopped(acodec), acodec) /\ acodec # 0 /\ acodec \in {0} \cup Codecs
      BY <1>27 DEF OutStop, StopNode, Stopped, CodecTypes, NodePlaces, OpenAt, DoneAt
    <3>2. Stopped(acodec)[acodec].refs > 0
      BY <3>1, StoppedKin, HeldAreCounted
    <3> QED
      BY <3>1, <3>2, StoppedKin, DropKin
  <2> QED
    BY <2>1, <2>2, <2>3, HandsOfKin
<1>28. ASSUME CloseStream PROVE HandsInv'
  <2>1. UNCHANGED <<frame, pictq, early, codec, got>> /\ FrameInUse'
    BY <1>28 DEF CloseStream, HandsInv, FrameInUse
  <2>2. got # NoIndex => UNCHANGED <<out_at, acodec>>
    BY <1>28 DEF CloseStream, HandsInv, GotIsOwn
  <2> QED
    BY <2>1, <2>2, HandsUnchanged
<1>29. ASSUME DestroyPicture PROVE HandsInv'
  <2>1. /\ Release(Head(pictq)) /\ got' = got /\ (got # NoIndex => UNCHANGED <<out_at, acodec>>)
        /\ FrameInUse'
    BY <1>29, InvalidIs DEF DestroyPicture, HandsInv, GotIsOwn, FrameInUse
  <2>2. HandsHold(Head(pictq)) /\ Head(pictq) \in Hands
    BY <1>29, FirstLeaves, FirstIs, HandsIs DEF DestroyPicture, HandsInv
  <2> QED
    BY <2>1, <2>2, HandsInvReleased DEF HandsInv
<1>30. ASSUME Unpublish PROVE HandsInv'
  <2>1. UNCHANGED <<frame, pictq, early, codec, got>> /\ FrameInUse'
    BY <1>30 DEF Unpublish, HandsInv, FrameInUse
  <2>2. got # NoIndex => UNCHANGED <<out_at, acodec>>
    BY <1>30 DEF Unpublish, HandsInv, GotIsOwn
  <2> QED
    BY <2>1, <2>2, HandsUnchanged
<1>31. ASSUME FreePlayer PROVE HandsInv'
  <2>1. got = NoIndex /\ got' = got /\ FrameInUse'
    BY <1>31, InvalidIs DEF FreePlayer, FreeVout, InvalidateAll, HandsInv, GotIsOwn, FrameInUse, NodePlaces
  <2>2. UNCHANGED <<frame, pictq, early>> \/ (InvalidateAll /\ early' \in {early, <<>>})
    BY <1>31 DEF FreePlayer, FreeVout
  <2>3. Kin(codec')
    <3>1. \A c \in Codecs : codec'[c] = Dead
      BY <1>31, NoCodec DEF FreePlayer, NodeCounted
    <3> QED
      BY <3>1 DEF Kin, Dead
  <2> QED
    BY <2>1, <2>2, <2>3, HandsOfKin
<1>32. ASSUME Show PROVE HandsInv'
  <2>1. /\ Release(Head(pictq)) /\ got' = got /\ (got # NoIndex => UNCHANGED <<out_at, acodec>>)
        /\ FrameInUse'
    BY <1>32, InvalidIs DEF Show, HandsInv, GotIsOwn, FrameInUse
  <2>2. HandsHold(Head(pictq)) /\ Head(pictq) \in Hands
    BY <1>32, FirstIsShown, FirstIs, HandsIs DEF Show, HandsInv
  <2> QED
    BY <2>1, <2>2, HandsInvReleased DEF HandsInv
<1>33. ASSUME NextPicture PROVE HandsInv'
  <2>1. UNCHANGED <<frame, early, got, out_at, acodec>> /\ FrameInUse'
    BY <1>33 DEF NextPicture, HandsInv, FrameInUse
  <2>2. CASE UNCHANGED <<pictq, codec>>
    BY <2>1, <2>2, HandsUnchanged
  <2>3. CASE ~UNCHANGED <<pictq, codec>>
    <3>1. Release(Head(pictq)) /\ pictq' = Tail(pictq) /\ Len(pictq) > 1
      BY <1>33, <2>3 DEF NextPicture
    <3>2. pictq # <<>>
      BY <3>1
    <3>3. HandsHold(Head(pictq)) /\ Head(pictq) \in Hands
      BY <2>1, <3>1, <3>2, FirstLeaves, FirstIs, HandsIs DEF HandsInv
    <3> QED
      BY <2>1, <3>1, <3>3, HandsInvReleased DEF HandsInv
  <2> QED
    BY <2>2, <2>3
<1>34. ASSUME NEW s \in Surfaces \cup {Null}, SetWindow(s) PROVE HandsInv'
  <2>1. codec' = codec /\ got' = got /\ early' = early /\ (got # NoIndex => UNCHANGED <<out_at, acodec>>)
    BY <1>34 DEF SetWindow
  <2>2. CASE InvalidateAll
    BY <2>1, <2>2, HandsInvalid
  <2>3. CASE UNCHANGED <<frame, pictq>>
    <3>1. FrameInUse'
      BY <1>34, <2>3 DEF SetWindow, HandsInv, FrameInUse
    <3> QED
      BY <2>1, <2>3, <3>1, HandsUnchanged
  <2> QED
    BY <1>34, <2>2, <2>3 DEF SetWindow
<1>35. ASSUME SetPipeline PROVE HandsInv'
  <2>1. CASE UNCHANGED <<frame, pictq, codec>>
    <3>1. UNCHANGED <<frame, pictq, early, codec, got>> /\ UNCHANGED <<out_at, acodec>> /\ FrameInUse'
      BY <1>35, <2>1 DEF SetPipeline, HandsInv, FrameInUse
    <3> QED
      BY <3>1, HandsUnchanged
  <2>2. CASE ~UNCHANGED <<frame, pictq, codec>>
    <3>1. /\ InvalidateAll /\ codec' = Take(Drop(codec, vout_acodec), 0) /\ vout_acodec # 0
          /\ UNCHANGED <<early, got, out_at, acodec>>
      BY <1>35, <2>2 DEF SetPipeline, SetAMediaCodec
    <3>2. codec' = Drop(codec, vout_acodec) /\ vout_acodec \in Codecs /\ codec \in [Codecs -> Codec]
          /\ codec[vout_acodec].refs > 0
      BY <3>1, HeldAreCounted DEF Take, CodecTypes
    <3>3. Kin(codec')
      <4>1. Kin(codec)
        BY DEF Kin
      <4> QED
        BY <3>2, <4>1, DropKin
    <3>4. GotStays
      <4>1. SUFFICES ASSUME got # NoIndex
                     PROVE  /\ codec'[acodec].serial = codec[acodec].serial
                            /\ codec'[acodec].held = codec[acodec].held
        BY <3>1 DEF GotStays
      <4>2. out_at = "obtain" /\ acodec \in Codecs
        BY <4>1 DEF HandsInv, GotIsOwn, CodecTypes
      <4>3. vout_acodec = acodec
        BY <3>1, <4>2, NoCodec DEF VoutHas, DoneAt
      <4>4. codec[vout_acodec].refs # 1
        BY <3>2, <4>3, HeldAreCounted
      <4> QED
        BY <3>2, <4>3, <4>4, DropIs
    <3>5. HandsHold(Invalid) /\ FrameInUse'
      BY <3>1, HandsInvalidated, InvalidIs DEF HandsInv, FrameInUse, InvalidateAll
    <3> QED
      BY <3>3, <3>4, <3>5, KinStay, HandsInvStays
  <2> QED
    BY <2>1, <2>2
<1>36. ASSUME SeekHint PROVE HandsInv'
  <2>1. UNCHANGED <<frame, pictq, early, codec, got>> /\ FrameInUse'
    BY <1>36 DEF SeekHint, HandsInv, FrameInUse
  <2>2. got # NoIndex => UNCHANGED <<out_at, acodec>>
    BY <1>36 DEF SeekHint, HandsInv, GotIsOwn
  <2> QED
    BY <2>1, <2>2, HandsUnchanged
<1>37. ASSUME SeekPut PROVE HandsInv'
  <2>1. UNCHANGED <<frame, pictq, early, codec, got>> /\ FrameInUse'
    BY <1>37 DEF SeekPut, HandsInv, FrameInUse
  <2>2. got # NoIndex => UNCHANGED <<out_at, acodec>>
    BY <1>37 DEF SeekPut, HandsInv, GotIsOwn
  <2> QED
    BY <2>1, <2>2, HandsUnchanged
<1>38. ASSUME Abort PROVE HandsInv'
  <2>1. UNCHANGED <<frame, pictq, early, codec, got>> /\ FrameInUse'
    BY <1>38 DEF Abort, HandsInv, FrameInUse
  <2>2. got # NoIndex => UNCHANGED <<out_at, acodec>>
    BY <1>38 DEF Abort, HandsInv, GotIsOwn
  <2> QED
    BY <2>1, <2>2, HandsUnchanged
<1>39. CASE UNCHANGED codecVars
  BY <1>39, HandsUnchanged DEF FrameInUse, HandsInv
<1> QED
  BY <1>1, <1>2, <1>3, <1>4, <1>5, <1>6, <1>7, <1>8, <1>9, <1>10, <1>11, <1>12, <1>13, <1>14, <1>15, <1>16, <1>17, <1>18, <1>19, <1>20, <1>21, <1>22, <1>23, <1>24, <1>25, <1>26, <1>27, <1>28, <1>29, <1>30, <1>31, <1>32, <1>33, <1>34, <1>35, <1>36, <1>37, <1>38, <1>39
  DEF CodecNext, OpenVideoDecoder, InputThread, FeedInputBuffer, Flush, Reconfigure, OutputThread, DrainOutputBuffer, OutputFrame, OutputEnds, Closing

-----------------------------------------------------------------------------
NodeInv == CodecTypes /\ NodePlaces /\ NodeCounted /\ VoutHas /\ HandsInv

LEMMA NodeInit ==
  ASSUME CodecInit
  PROVE  NodeInv
<1> USE DEF CodecInit
<1>1. Dead \in Codec
  BY DEF Dead, Codec
<1>2. CodecTypes
  BY <1>1 DEF CodecTypes
<1>3. NodePlaces
  BY DEF NodePlaces, NodeAt, InnerAt, OpenAt, LoopAt, DoneAt
<1>4. NodeCounted
  BY NoCodec DEF NodeCounted, Dead
<1>5. VoutHas
  BY DEF VoutHas
<1>6. HandTypes
  BY InvalidIs DEF HandTypes
<1>7. Range(early) = {}
  BY DEF Range
<1>8. HandsApart /\ FrameInUse /\ GotIsOwn
  BY <1>7, InvalidIs DEF HandsApart, FrameInUse, GotIsOwn
<1>9. HandsOwn
  BY <1>7, HandsIs, InvalidIs DEF HandsOwn
<1> QED
  BY <1>2, <1>3, <1>4, <1>5, <1>6, <1>8, <1>9 DEF NodeInv, HandsInv

LEMMA NodeNext ==
  ASSUME NodeInv, [CodecNext]_codecVars
  PROVE  NodeInv'
<1> USE DEF NodeInv
<1>1. FreeAtHand /\ FreshAtHand
  BY FreeIsThere, FreshIsNew DEF NodeTypes, HandsInv
<1>2. NodePlaces'
  BY <1>1, PlacesHold
<1>3. CodecTypes' /\ NodeCounted' /\ VoutHas'
  BY <1>1, CodecsHold
<1>4. HandsInv'
  BY <1>1, <1>3, HandsInvHolds
<1> QED
  BY <1>2, <1>3, <1>4

\* Each hand is at one place of the queue and what is held back.
LEMMA InHandIs ==
  ASSUME HandTypes
  PROVE  \A i \in 0 .. Len(pictq) + Len(early) :
           \/ i = 0 /\ InHand(i) = frame
           \/ i \in DOMAIN pictq /\ i # 0 /\ InHand(i) = pictq[i]
           \/ i = Len(pictq) + 1 /\ InHand(i) \in Range(early)
<1>1. Len(pictq) \in Nat /\ DOMAIN pictq = 1 .. Len(pictq) /\ pictq \in Seq(Proxied)
  BY DEF HandTypes
<1>2. CASE early = <<>>
  <2>1. Len(early) = 0 /\ pictq \o early = pictq
    BY <1>1, <1>2
  <2> QED
    BY <1>1, <2>1 DEF InHand
<1>3. CASE \E p \in Proxied : early = <<p>>
  <2>1. PICK p \in Proxied : early = <<p>>
    BY <1>3
  <2>2. Len(early) = 1 /\ early \in Seq(Proxied) /\ early[1] = p
    BY <2>1
  <2>3. (pictq \o early)[Len(pictq) + 1] = p
    <3>1. (pictq \o early)[Len(pictq) + 1] = early[Len(pictq) + 1 - Len(pictq)]
      <4> DEFINE n == Len(pictq) + 1
      <4>1. n \in 1 .. Len(pictq) + Len(early) /\ ~(n <= Len(pictq))
        BY <1>1, <2>2
      <4> HIDE DEF n
      <4>2. (pictq \o early)[n] = early[n - Len(pictq)]
        BY <1>1, <2>2, <4>1, ConcatProperties
      <4> QED
        BY <4>2 DEF n
    <3>2. Len(pictq) + 1 - Len(pictq) = 1
      BY <1>1
    <3> QED
      BY <2>2, <3>1, <3>2
  <2>4. \A i \in 1 .. Len(pictq) : (pictq \o early)[i] = pictq[i]
    BY <1>1, <2>2
  <2>5. Range(early) = {p}
    BY <2>1, EarlyIs
  <2>6. SUFFICES ASSUME NEW i \in 0 .. Len(pictq) + 1
                 PROVE  \/ i = 0 /\ InHand(i) = frame
                        \/ i \in DOMAIN pictq /\ i # 0 /\ InHand(i) = pictq[i]
                        \/ i = Len(pictq) + 1 /\ InHand(i) \in Range(early)
    BY <2>2
  <2>7. i = 0 \/ i \in 1 .. Len(pictq) \/ i = Len(pictq) + 1
    BY <1>1
  <2> QED
    BY <1>1, <2>3, <2>4, <2>5, <2>7 DEF InHand
<1> QED
  BY <1>2, <1>3 DEF HandTypes

LEMMA HandsAreOwn ==
  ASSUME NodeInv
  PROVE  OwnBuffersOnly
<1>1. SUFFICES ASSUME NEW i \in 0 .. Len(pictq) + Len(early), GoesBack(InHand(i))
               PROVE  /\ InHand(i).index \in codec[vout_acodec].held
                      /\ \A j \in 0 .. Len(pictq) + Len(early) : InHand(i) = InHand(j) => i = j
  BY DEF OwnBuffersOnly
<1>2. HandTypes /\ HandsApart /\ HandsOwn
  BY DEF NodeInv, HandsInv
<1>3. \A j \in 0 .. Len(pictq) + Len(early) : InHand(j) \in Hands
  BY <1>2, InHandIs, HandsIs
<1>4. vout_acodec \in Codecs /\ codec[vout_acodec].serial = InHand(i).serial /\ Real(InHand(i))
  BY <1>1 DEF GoesBack, Real, NodeInv, CodecTypes
<1>5. InHand(i).index \in codec[vout_acodec].held
  BY <1>2, <1>3, <1>4 DEF HandsOwn
<1>6. ASSUME NEW j \in 0 .. Len(pictq) + Len(early), InHand(i) = InHand(j)
      PROVE  i = j
  <2>1. \/ i = 0 /\ InHand(i) = frame
        \/ i \in DOMAIN pictq /\ i # 0 /\ InHand(i) = pictq[i]
        \/ i = Len(pictq) + 1 /\ InHand(i) \in Range(early)
    BY <1>2, InHandIs
  <2>2. \/ j = 0 /\ InHand(j) = frame
        \/ j \in DOMAIN pictq /\ j # 0 /\ InHand(j) = pictq[j]
        \/ j = Len(pictq) + 1 /\ InHand(j) \in Range(early)
    BY <1>2, InHandIs
  <2> QED
    BY <1>2, <1>4, <1>6, <2>1, <2>2 DEF HandsApart
<1> QED
  BY <1>5, <1>6

\* The two threads, the mutex of the codec, the codecs with their references and the
\* proxies in hand keep to their types and places, for any set of buffers and of
\* surfaces (ffpipenode_android_mediacodec_vdec.c, ijksdl_vout_android_nativewindow.c).
THEOREM NodeCorrect == CodecSpec => []NodeInv
<1>1. CodecInit => NodeInv
  BY NodeInit
<1>2. NodeInv /\ [CodecNext]_codecVars => NodeInv'
  BY NodeNext
<1> QED
  BY <1>1, <1>2, PTL DEF CodecSpec

\* What the video output gives back is a buffer its codec has handed out and not
\* had back, and no two frames give back the same one, however often the codec is
\* flushed, stopped or made anew meanwhile (SDL_VoutAndroid_releaseBufferProxy_l).
THEOREM OwnBuffers == CodecSpec => []OwnBuffersOnly
<1>1. NodeInv => OwnBuffersOnly
  BY HandsAreOwn
<1> QED
  BY <1>1, NodeCorrect, PTL

-----------------------------------------------------------------------------
(* No buffer is lost, as long as the resolution is not followed.           *)

\* The surface the input thread works with is that of the pipeline, or it will be told.
SurfaceFollowed ==
  /\ ~recreate
  /\ app_at = "idle" => window = surface \/ out_at = "freed"
  /\ in_at = "reconfigure" => new_surface = surface \/ need
  /\ ~aborted /\ (out_at \in {"configure", "publish"} \/ in_at \notin {"none", "reconfigure"})
       => jsurface = surface \/ need

LEMMA SurfaceFollows ==
  ASSUME ~opt.resolution, NodePlaces, SurfaceFollowed, [CodecNext]_codecVars
  PROVE  SurfaceFollowed'
<1> USE DEF codecVars, nodeVars, voutVars, heldVars, surfVars, seekVars, optVars, SurfaceFollowed
<1>1. ASSUME OpenInit PROVE SurfaceFollowed'
  BY <1>1 DEF OpenInit, NodePlaces, OpenAt, DoneAt, InnerAt
<1>2. ASSUME OpenRefused PROVE SurfaceFollowed'
  BY <1>2 DEF OpenRefused, OpenFails, NodePlaces, OpenAt, DoneAt, InnerAt
<1>3. ASSUME OpenSurface PROVE SurfaceFollowed'
  BY <1>3 DEF OpenSurface, NodePlaces, OpenAt, DoneAt, InnerAt
<1>4. ASSUME OpenConfigure PROVE SurfaceFollowed'
  BY <1>4 DEF OpenConfigure, OpenFails, NodePlaces, OpenAt, DoneAt, InnerAt
<1>5. ASSUME OpenPublish PROVE SurfaceFollowed'
  BY <1>5 DEF OpenPublish, FeedEnds, NodePlaces, OpenAt, DoneAt, InnerAt
<1>6. ASSUME OpenNot PROVE SurfaceFollowed'
  BY <1>6 DEF OpenNot, NodePlaces, OpenAt, DoneAt, InnerAt
<1>7. ASSUME InPop PROVE SurfaceFollowed'
  BY <1>7 DEF InPop, NextPacket, Examine, Exited, NodePlaces, OpenAt, DoneAt, InnerAt
<1>8. ASSUME InFlushLock PROVE SurfaceFollowed'
  BY <1>8 DEF InFlushLock, NextPacket, Examine, NodePlaces, OpenAt, DoneAt, InnerAt
<1>9. ASSUME InFlush PROVE SurfaceFollowed'
  BY <1>9 DEF InFlush, NextPacket, Examine, NodePlaces, OpenAt, DoneAt, InnerAt
<1>10. ASSUME InCheck PROVE SurfaceFollowed'
  BY <1>10 DEF InCheck, RecreateFormat, Exited, NodePlaces, OpenAt, DoneAt, InnerAt
<1>11. ASSUME InReconfigure PROVE SurfaceFollowed'
  BY <1>11 DEF InReconfigure, NodePlaces, OpenAt, DoneAt, InnerAt
<1>12. ASSUME InStop PROVE SurfaceFollowed'
  BY <1>12 DEF InStop, NodePlaces, OpenAt, DoneAt, InnerAt
<1>13. ASSUME InClear PROVE SurfaceFollowed'
  BY <1>13 DEF InClear, NodePlaces, OpenAt, DoneAt, InnerAt
<1>14. ASSUME InCreate PROVE SurfaceFollowed'
  BY <1>14 DEF InCreate, FeedEnds, NodePlaces, OpenAt, DoneAt, InnerAt
<1>15. ASSUME InSet PROVE SurfaceFollowed'
  BY <1>15 DEF InSet, NodePlaces, OpenAt, DoneAt, InnerAt
<1>16. ASSUME InFirst PROVE SurfaceFollowed'
  BY <1>16 DEF InFirst, NodePlaces, OpenAt, DoneAt, InnerAt
<1>17. ASSUME InFeed PROVE SurfaceFollowed'
  BY <1>17 DEF InFeed, Fake, QueueFake, InputQueued, QueueInputBuffer, FeedDummy, FeedEnds, Exited, NodePlaces, OpenAt, DoneAt, InnerAt
<1>18. ASSUME OutDequeue PROVE SurfaceFollowed'
  BY <1>18 DEF OutDequeue, Drained, Turn, NodePlaces, OpenAt, DoneAt, InnerAt
<1>19. ASSUME OutObtain PROVE SurfaceFollowed'
  BY <1>19 DEF OutObtain, Fill, NoFill, Reorder, Drained, Turn, NodePlaces, OpenAt, DoneAt, InnerAt
<1>20. ASSUME OutFirst PROVE SurfaceFollowed'
  BY <1>20 DEF OutFirst, NodePlaces, OpenAt, DoneAt, InnerAt
<1>21. ASSUME OutFailed PROVE SurfaceFollowed'
  BY <1>21 DEF OutFailed, NodePlaces, OpenAt, DoneAt, InnerAt
<1>22. ASSUME OutDrop PROVE SurfaceFollowed'
  BY <1>22 DEF OutDrop, Turn, NodePlaces, OpenAt, DoneAt, InnerAt
<1>23. ASSUME OutPush PROVE SurfaceFollowed'
  BY <1>23 DEF OutPush, Turn, NodePlaces, OpenAt, DoneAt, InnerAt
<1>24. ASSUME FeedReturns PROVE SurfaceFollowed'
  BY <1>24 DEF FeedReturns, NodePlaces, OpenAt, DoneAt, InnerAt
<1>25. ASSUME OutAbort PROVE SurfaceFollowed'
  BY <1>25 DEF OutAbort, NodePlaces, OpenAt, DoneAt, InnerAt
<1>26. ASSUME OutJoin PROVE SurfaceFollowed'
  BY <1>26 DEF OutJoin, NodePlaces, OpenAt, DoneAt, InnerAt
<1>27. ASSUME OutStop PROVE SurfaceFollowed'
  BY <1>27 DEF OutStop, NodePlaces, OpenAt, DoneAt, InnerAt
<1>28. ASSUME CloseStream PROVE SurfaceFollowed'
  BY <1>28 DEF CloseStream, NodePlaces, OpenAt, DoneAt, InnerAt
<1>29. ASSUME DestroyPicture PROVE SurfaceFollowed'
  BY <1>29 DEF DestroyPicture, NodePlaces, OpenAt, DoneAt, InnerAt
<1>30. ASSUME Unpublish PROVE SurfaceFollowed'
  BY <1>30 DEF Unpublish, NodePlaces, OpenAt, DoneAt, InnerAt
<1>31. ASSUME FreePlayer PROVE SurfaceFollowed'
  BY <1>31 DEF FreePlayer, NodePlaces, OpenAt, DoneAt, InnerAt
<1>32. ASSUME Show PROVE SurfaceFollowed'
  BY <1>32 DEF Show, NodePlaces, OpenAt, DoneAt, InnerAt
<1>33. ASSUME NextPicture PROVE SurfaceFollowed'
  BY <1>33 DEF NextPicture, NodePlaces, OpenAt, DoneAt, InnerAt
<1>34. ASSUME NEW s \in Surfaces \cup {Null}, SetWindow(s) PROVE SurfaceFollowed'
  BY <1>34 DEF SetWindow, NodePlaces, OpenAt, DoneAt, InnerAt
<1>35. ASSUME SetPipeline PROVE SurfaceFollowed'
  BY <1>35 DEF SetPipeline, NodePlaces, OpenAt, DoneAt, InnerAt
<1>36. ASSUME SeekHint PROVE SurfaceFollowed'
  BY <1>36 DEF SeekHint, NodePlaces, OpenAt, DoneAt, InnerAt
<1>37. ASSUME SeekPut PROVE SurfaceFollowed'
  BY <1>37 DEF SeekPut, NodePlaces, OpenAt, DoneAt, InnerAt
<1>38. ASSUME Abort PROVE SurfaceFollowed'
  BY <1>38 DEF Abort, NodePlaces, OpenAt, DoneAt, InnerAt
<1>39. CASE UNCHANGED codecVars
  BY <1>39 DEF SurfaceFollowed
<1> QED
  BY <1>1, <1>2, <1>3, <1>4, <1>5, <1>6, <1>7, <1>8, <1>9, <1>10, <1>11, <1>12, <1>13, <1>14, <1>15, <1>16, <1>17, <1>18, <1>19, <1>20, <1>21, <1>22, <1>23, <1>24, <1>25, <1>26, <1>27, <1>28, <1>29, <1>30, <1>31, <1>32, <1>33, <1>34, <1>35, <1>36, <1>37, <1>38, <1>39
  DEF CodecNext, OpenVideoDecoder, InputThread, FeedInputBuffer, Flush, Reconfigure, OutputThread, DrainOutputBuffer, OutputFrame, OutputEnds, Closing

LEMMA OptionsStay ==
  ASSUME [CodecNext]_codecVars
  PROVE  opt' = opt
<1> USE DEF codecVars, optVars
<1>1. CASE OpenVideoDecoder
  BY <1>1 DEF OpenVideoDecoder, OpenInit, OpenRefused, OpenSurface, OpenConfigure, OpenPublish, OpenNot
<1>2. CASE InPop \/ Flush \/ InCheck
  BY <1>2 DEF InPop, Flush, InFlushLock, InFlush, InCheck
<1>3. CASE Reconfigure \/ InFirst \/ InFeed
  BY <1>3 DEF Reconfigure, InReconfigure, InStop, InClear, InCreate, InSet, InFirst, InFeed
<1>4. CASE DrainOutputBuffer \/ OutputFrame
  BY <1>4 DEF DrainOutputBuffer, OutDequeue, OutObtain, OutputFrame, OutFirst, OutFailed, OutDrop, OutPush
<1>5. CASE FeedReturns \/ OutputEnds \/ Closing
  BY <1>5 DEF FeedReturns, OutputEnds, OutAbort, OutJoin, OutStop, Closing, CloseStream,
              DestroyPicture, Unpublish, FreePlayer
<1>6. CASE Show \/ NextPicture \/ (\E s \in Surfaces \cup {Null} : SetWindow(s)) \/ SetPipeline
  BY <1>6 DEF Show, NextPicture, SetWindow, SetPipeline
<1>7. CASE SeekHint \/ SeekPut \/ Abort \/ UNCHANGED codecVars
  BY <1>7 DEF SeekHint, SeekPut, Abort
<1> QED
  BY <1>1, <1>2, <1>3, <1>4, <1>5, <1>6, <1>7 DEF CodecNext, InputThread, FeedInputBuffer, OutputThread

\* The video is drawn on the surface of the pipeline.
Drawn ==
  /\ vout_acodec # 0 /\ surface # Null /\ window = surface /\ ~aborted
  /\ in_at \notin {"flushing", "stop", "clear"} /\ out_at \notin DoneAt \cup {"stop"}

\* Then each buffer that the codec has handed out is in somebody's hands.
BuffersKept ==
  Drawn => \A b \in codec[vout_acodec].held :
             got = b \/ \E p \in Hands : p.index = b /\ p.serial = codec[vout_acodec].serial

LEMMA KeptStays ==
  ASSUME BuffersKept,
         Drawn' => Drawn /\ UNCHANGED <<vout_acodec, codec, got, frame, pictq, early>>
  PROVE  BuffersKept'
<1>1. SUFFICES ASSUME Drawn' PROVE BuffersKept'
  BY DEF BuffersKept
<1>2. Hands' = Hands
  BY <1>1 DEF Hands, Proxies
<1> QED
  BY <1>1, <1>2 DEF BuffersKept

LEMMA NoneIsHeld ==
  ASSUME Drawn' => codec'[vout_acodec'].held = {}
  PROVE  BuffersKept'
  BY DEF BuffersKept

\* A buffer that is given back leaves the hands and the codec.
LEMMA KeptReleased ==
  ASSUME CodecTypes, BuffersKept, NEW p \in Hands, Release(p), \A q \in Hands : q # p => q \in Hands',
         Drawn' => Drawn /\ UNCHANGED <<vout_acodec, got>>
  PROVE  BuffersKept'
<1>1. SUFFICES ASSUME Drawn', NEW b \in codec'[vout_acodec'].held
               PROVE  got' = b \/ \E q \in Hands' : q.index = b /\ q.serial = codec'[vout_acodec'].serial
  BY DEF BuffersKept
<1>2. Drawn /\ vout_acodec' = vout_acodec /\ got' = got /\ vout_acodec \in Codecs
  BY <1>1 DEF Drawn, CodecTypes
<1>3. CASE ~GoesBack(p)
  <2>1. codec' = codec
    BY <1>3 DEF Release
  <2>2. CASE got = b
    BY <1>2, <2>2
  <2>3. CASE \E q \in Hands : q.index = b /\ q.serial = codec[vout_acodec].serial
    <3>1. PICK q \in Hands : q.index = b /\ q.serial = codec[vout_acodec].serial
      BY <2>3
    <3>2. b \in Buffers
      BY <1>1, <1>2, <2>1 DEF CodecTypes, Codec
    <3>3. q # p
      BY <1>2, <1>3, <3>1, <3>2, BuffersAssumption DEF GoesBack, Drawn, NoIndex
    <3> QED
      BY <1>2, <2>1, <3>1, <3>3
  <2> QED
    BY <1>1, <1>2, <2>1, <2>2, <2>3 DEF BuffersKept
<1>4. CASE GoesBack(p)
  <2>1. codec'[vout_acodec].held = codec[vout_acodec].held \ {p.index}
        /\ codec'[vout_acodec].serial = codec[vout_acodec].serial
    BY <1>2, <1>4, GivenBackIs DEF Release, CodecTypes
  <2>2. b \in codec[vout_acodec].held /\ b # p.index
    BY <1>1, <1>2, <2>1
  <2>3. CASE got = b
    BY <1>2, <2>3
  <2>4. CASE \E q \in Hands : q.index = b /\ q.serial = codec[vout_acodec].serial
    <3>1. PICK q \in Hands : q.index = b /\ q.serial = codec[vout_acodec].serial
      BY <2>4
    <3> QED
      BY <1>2, <2>1, <2>2, <3>1
  <2> QED
    BY <1>2, <2>2, <2>3, <2>4 DEF BuffersKept
<1> QED
  BY <1>3, <1>4

LEMMA FirstIsAll ==
  ASSUME HandTypes, pictq # <<>>, UNCHANGED <<frame, early>>,
         pictq' = Tail(pictq) \/ pictq' = [pictq EXCEPT ![1] = Invalid]
  PROVE  \A q \in Hands : q # Head(pictq) => q \in Hands'
<1>1. SUFFICES ASSUME NEW i \in DOMAIN pictq, pictq[i] # pictq[1]
               PROVE  \E j \in DOMAIN pictq' : pictq'[j] = pictq[i]
  BY FirstIs, HandsIs, HandsIsNext
<1>2. i # 1 /\ i \in 1 .. Len(pictq) /\ Len(pictq) \in Nat
  BY <1>1 DEF HandTypes
<1>3. CASE pictq' = [pictq EXCEPT ![1] = Invalid]
  BY <1>2, <1>3
<1>4. CASE pictq' = Tail(pictq)
  <2>1. i - 1 \in DOMAIN pictq' /\ pictq'[i - 1] = pictq[i - 1 + 1]
    BY <1>2, <1>4 DEF HandTypes
  <2>2. i - 1 + 1 = i
    BY <1>2
  <2> QED
    BY <2>1, <2>2
<1> QED
  BY <1>3, <1>4

LEMMA BuffersStay ==
  ASSUME NodeInv, SurfaceFollowed, BuffersKept, [CodecNext]_codecVars
  PROVE  BuffersKept'
<1> USE DEF codecVars, nodeVars, voutVars, heldVars, surfVars, seekVars, optVars, NodeInv
<1>1. ASSUME OpenInit PROVE BuffersKept'
  <2>1. Drawn' => Drawn /\ UNCHANGED <<vout_acodec, codec, got, frame, pictq, early>>
    BY <1>1 DEF OpenInit, Drawn, VoutHas, NodePlaces, OpenAt, DoneAt
  <2> QED
    BY <2>1, KeptStays
<1>2. ASSUME OpenRefused PROVE BuffersKept'
  <2>1. Drawn' => Drawn /\ UNCHANGED <<vout_acodec, codec, got, frame, pictq, early>>
    BY <1>2 DEF OpenRefused, OpenFails, Drawn, VoutHas, NodePlaces, OpenAt, DoneAt
  <2> QED
    BY <2>1, KeptStays
<1>3. ASSUME OpenSurface PROVE BuffersKept'
  <2>1. Drawn' => Drawn /\ UNCHANGED <<vout_acodec, codec, got, frame, pictq, early>>
    BY <1>3 DEF OpenSurface, Drawn, VoutHas, NodePlaces, OpenAt, DoneAt
  <2> QED
    BY <2>1, KeptStays
<1>4. ASSUME OpenConfigure PROVE BuffersKept'
  <2>1. Drawn' => Drawn /\ UNCHANGED <<vout_acodec, codec, got, frame, pictq, early>>
    BY <1>4 DEF OpenConfigure, OpenFails, Drawn, VoutHas, NodePlaces, OpenAt, DoneAt
  <2> QED
    BY <2>1, KeptStays
<1>5. ASSUME OpenPublish PROVE BuffersKept'
  <2>1. /\ acodec \in Codecs /\ vout_acodec = 0 /\ vout_acodec' = acodec /\ codec \in [Codecs -> Codec]
        /\ codec' = Take(codec, acodec) /\ codec[acodec].held = {}
    BY <1>5, NoCodec DEF OpenPublish, SetAMediaCodec, Drop, CodecTypes, VoutHas, NodePlaces, OpenAt, DoneAt
  <2>2. codec'[acodec].held = {}
    BY <2>1, NoCodec, TakeIs
  <2> QED
    BY <2>1, <2>2, NoneIsHeld
<1>6. ASSUME OpenNot PROVE BuffersKept'
  <2>1. Drawn' => Drawn /\ UNCHANGED <<vout_acodec, codec, got, frame, pictq, early>>
    BY <1>6 DEF OpenNot, Drawn, VoutHas, NodePlaces, OpenAt, DoneAt
  <2> QED
    BY <2>1, KeptStays
<1>7. ASSUME InPop PROVE BuffersKept'
  <2>1. Drawn' => Drawn /\ UNCHANGED <<vout_acodec, codec, got, frame, pictq, early>>
    BY <1>7 DEF InPop, Drawn, VoutHas, NodePlaces, OpenAt, DoneAt
  <2> QED
    BY <2>1, KeptStays
<1>8. ASSUME InFlushLock PROVE BuffersKept'
  <2>1. Drawn' => Drawn /\ UNCHANGED <<vout_acodec, codec, got, frame, pictq, early>>
    BY <1>8 DEF InFlushLock, NextPacket, Drawn, VoutHas, NodePlaces, OpenAt, DoneAt
  <2> QED
    BY <2>1, KeptStays
<1>9. ASSUME InFlush PROVE BuffersKept'
  <2>1. /\ codec' = Renewed(acodec, TRUE) /\ vout_acodec' = vout_acodec /\ acodec # 0
        /\ vout_acodec \in {0, acodec} /\ codec \in [Codecs -> Codec] /\ acodec \in Codecs
    BY <1>9 DEF InFlush, CodecTypes, VoutHas, NodePlaces, OpenAt, DoneAt
  <2>2. codec'[acodec].held = {}
    <3>1. FreshAtHand
      BY FreshIsNew DEF NodeTypes, HandsInv
    <3> QED
      BY <2>1, <3>1, RenewedIs DEF NodeCounted
  <2>3. Drawn' => vout_acodec' = acodec
    BY <2>1 DEF Drawn
  <2> QED
    BY <2>2, <2>3, NoneIsHeld
<1>10. ASSUME InCheck PROVE BuffersKept'
  <2>1. Drawn' => Drawn /\ UNCHANGED <<vout_acodec, codec, got, frame, pictq, early>>
    BY <1>10 DEF InCheck, RecreateFormat, Exited, Drawn, VoutHas, NodePlaces, OpenAt, DoneAt
  <2> QED
    BY <2>1, KeptStays
<1>11. ASSUME InReconfigure PROVE BuffersKept'
  <2>1. Drawn' => Drawn /\ UNCHANGED <<vout_acodec, codec, got, frame, pictq, early>>
    BY <1>11 DEF InReconfigure, Drawn, VoutHas, NodePlaces, OpenAt, DoneAt
  <2> QED
    BY <2>1, KeptStays
<1>12. ASSUME InStop PROVE BuffersKept'
  <2>1. Drawn' => Drawn /\ UNCHANGED <<vout_acodec, codec, got, frame, pictq, early>>
    BY <1>12 DEF InStop, StopNode, Drawn, VoutHas, NodePlaces, OpenAt, DoneAt
  <2> QED
    BY <2>1, KeptStays
<1>13. ASSUME InClear PROVE BuffersKept'
  <2>1. Drawn' => Drawn /\ UNCHANGED <<vout_acodec, codec, got, frame, pictq, early>>
    BY <1>13 DEF InClear, SetAMediaCodec, Drawn, VoutHas, NodePlaces, OpenAt, DoneAt
  <2> QED
    BY <2>1, KeptStays
<1>14. ASSUME InCreate PROVE BuffersKept'
  <2>1. Drawn' => Drawn /\ UNCHANGED <<vout_acodec, codec, got, frame, pictq, early>>
    BY <1>14 DEF InCreate, FeedEnds, Drawn, VoutHas, NodePlaces, OpenAt, DoneAt
  <2> QED
    BY <2>1, KeptStays
<1>15. ASSUME InSet PROVE BuffersKept'
  <2>1. /\ acodec \in Codecs /\ vout_acodec = 0 /\ vout_acodec' = acodec /\ codec \in [Codecs -> Codec]
        /\ codec' = Take(codec, acodec) /\ codec[acodec].held = {}
    BY <1>15, NoCodec DEF InSet, SetAMediaCodec, Drop, CodecTypes, VoutHas, NodePlaces, OpenAt, DoneAt
  <2>2. codec'[acodec].held = {}
    BY <2>1, NoCodec, TakeIs
  <2> QED
    BY <2>1, <2>2, NoneIsHeld
<1>16. ASSUME InFirst PROVE BuffersKept'
  <2>1. Drawn' => Drawn /\ UNCHANGED <<vout_acodec, codec, got, frame, pictq, early>>
    BY <1>16 DEF InFirst, Drawn, VoutHas, NodePlaces, OpenAt, DoneAt
  <2> QED
    BY <2>1, KeptStays
<1>17. ASSUME InFeed PROVE BuffersKept'
  <2>1. UNCHANGED <<frame, pictq, early, got, vout_acodec>> /\ (codec' = codec \/ codec' = Threw)
    BY <1>17 DEF InFeed, Fake
  <2>2. acodec \in Codecs /\ codec \in [Codecs -> Codec] /\ (Drawn' => Drawn /\ vout_acodec \in Codecs)
    BY <1>17 DEF InFeed, Drawn, CodecTypes, NodePlaces, OpenAt, DoneAt
  <2>3. \A c \in Codecs : codec'[c].serial = codec[c].serial /\ codec'[c].held = codec[c].held
    BY <2>1, <2>2 DEF Threw, Codec
  <2>4. Hands' = Hands
    BY <2>1 DEF Hands, Proxies
  <2> QED
    BY <2>1, <2>2, <2>3, <2>4 DEF BuffersKept
<1>18. ASSUME OutDequeue PROVE BuffersKept'
  <2>1. UNCHANGED <<frame, pictq, early, acodec, vout_acodec>> /\ got = NoIndex /\ (Drawn' => Drawn)
    BY <1>18 DEF OutDequeue, Drained, Turn, Drawn, DoneAt, NodePlaces, OpenAt, HandsInv, GotIsOwn
  <2>2. Hands' = Hands
    BY <2>1 DEF Hands, Proxies
  <2>3. CASE codec' = codec /\ got' = NoIndex
    BY <2>1, <2>2, <2>3 DEF BuffersKept
  <2>4. CASE DequeueBuffer
    <3>1. SUFFICES ASSUME Drawn' PROVE BuffersKept'
      BY DEF BuffersKept
    <3>2. vout_acodec = acodec /\ acodec \in Codecs /\ codec \in [Codecs -> Codec]
      BY <1>18, <2>1, <3>1 DEF OutDequeue, Drawn, VoutHas, CodecTypes, NodePlaces, InnerAt
    <3>3. PICK b \in Buffers : codec' = [codec EXCEPT ![acodec].held = @ \cup {b}] /\ got' = b
      BY <2>4 DEF DequeueBuffer
    <3>4. codec'[acodec].held = codec[acodec].held \cup {b} /\ codec'[acodec].serial = codec[acodec].serial
      BY <3>2, <3>3 DEF Codec
    <3>5. \A x \in codec[acodec].held : x # NoIndex
      BY <3>2, BuffersAssumption DEF Codec, NoIndex
    <3> QED
      BY <2>1, <2>2, <3>1, <3>2, <3>3, <3>4, <3>5 DEF BuffersKept
  <2>5. (codec' = codec /\ got' = NoIndex) \/ DequeueBuffer
    BY <1>18, <2>1 DEF OutDequeue, DequeueFake
  <2> QED
    BY <2>3, <2>4, <2>5
<1>19. ASSUME OutObtain PROVE BuffersKept'
  <2>1. /\ out_at = "obtain" /\ acodec \in Codecs /\ UNCHANGED <<pictq, vout_acodec>> /\ got' = NoIndex
        /\ (Drawn' => Drawn /\ vout_acodec = acodec)
    BY <1>19 DEF OutObtain, Fill, NoFill, Reorder, Drained, Turn, Drawn, VoutHas, CodecTypes, NodePlaces, InnerAt, OpenAt, DoneAt
  <2>2. ~Real(frame)
    BY <2>1 DEF HandsInv, FrameInUse
  <2>3. SUFFICES ASSUME Drawn, vout_acodec = acodec, NEW b \in codec'[acodec].held
                 PROVE  \E p \in Hands' : p.index = b /\ p.serial = codec'[acodec].serial
    BY <2>1 DEF BuffersKept
  <2>4. CASE codec' = GivenBack(acodec, got) /\ UNCHANGED <<frame, early>>
    <3>1. Hands' = Hands
      BY <2>1, <2>4 DEF Hands, Proxies
    <3>2. codec'[acodec].held = codec[acodec].held \ {got} /\ codec'[acodec].serial = codec[acodec].serial
      BY <2>1, <2>4, GivenBackIs DEF CodecTypes
    <3> QED
      BY <2>3, <3>1, <3>2 DEF BuffersKept
  <2>5. CASE /\ codec' = codec
             /\ \/ frame' = Proxy /\ early' = early
                \/ frame' = frame /\ early = <<>> /\ early' = <<Proxy>>
                \/ early # <<>> /\ frame' = Head(early) /\ early' = <<Proxy>>
    <3>1. early = <<>> \/ \E p \in Proxied : early = <<p>>
      BY DEF HandsInv, HandTypes
    <3>2. Proxy \in Hands' /\ \A q \in Hands : Real(q) => q \in Hands'
      <4>1. CASE frame' = Proxy /\ early' = early
        BY <2>1, <2>2, <4>1, HandsIs, HandsIsNext
      <4>2. CASE frame' = frame /\ early = <<>> /\ early' = <<Proxy>>
        <5>1. Range(early) = {} /\ Range(early') = {Proxy}
          BY <4>2, EarlyIs
        <5> QED
          BY <2>1, <4>2, <5>1, HandsIs, HandsIsNext
      <4>3. CASE early # <<>> /\ frame' = Head(early) /\ early' = <<Proxy>>
        <5>1. PICK p \in Proxied : early = <<p>>
          BY <3>1, <4>3
        <5>2. Range(early) = {p} /\ Range(early') = {Proxy} /\ frame' = p
          BY <4>3, <5>1, EarlyIs
        <5> QED
          BY <2>1, <2>2, <5>2, HandsIs, HandsIsNext
      <4> QED
        BY <2>5, <4>1, <4>2, <4>3
    <3>3. b \in Buffers /\ b # NoIndex
      BY <2>1, <2>3, <2>5, BuffersAssumption DEF CodecTypes, Codec, NoIndex
    <3>4. CASE got = b
      BY <2>5, <3>2, <3>3, <3>4 DEF Proxy
    <3>5. CASE \E p \in Hands : p.index = b /\ p.serial = codec[acodec].serial
      BY <2>5, <3>2, <3>3, <3>5 DEF Real
    <3> QED
      BY <2>3, <2>5, <3>4, <3>5 DEF BuffersKept
  <2> QED
    BY <1>19, <2>4, <2>5 DEF OutObtain, Fill, NoFill, Reorder
<1>20. ASSUME OutFirst PROVE BuffersKept'
  <2>1. Drawn' => Drawn /\ UNCHANGED <<vout_acodec, codec, got, frame, pictq, early>>
    BY <1>20 DEF OutFirst, Drawn, VoutHas, NodePlaces, OpenAt, DoneAt
  <2> QED
    BY <2>1, KeptStays
<1>21. ASSUME OutFailed PROVE BuffersKept'
  <2>1. Release(frame) /\ frame \in Hands /\ \A q \in Hands : q # frame => q \in Hands'
    BY <1>21, InvalidIs, HandsIs, HandsIsNext DEF OutFailed, HandsInv
  <2>2. Drawn' => Drawn /\ UNCHANGED <<vout_acodec, got>>
    BY <1>21 DEF OutFailed, Drawn, DoneAt, NodePlaces
  <2> QED
    BY <2>1, <2>2, KeptReleased DEF NodeInv
<1>22. ASSUME OutDrop PROVE BuffersKept'
  <2>1. Release(frame) /\ frame \in Hands /\ \A q \in Hands : q # frame => q \in Hands'
    BY <1>22, InvalidIs, HandsIs, HandsIsNext DEF OutDrop, Turn, HandsInv
  <2>2. Drawn' => Drawn /\ UNCHANGED <<vout_acodec, got>>
    BY <1>22 DEF OutDrop, Turn, Drawn, DoneAt, NodePlaces
  <2> QED
    BY <2>1, <2>2, KeptReleased DEF NodeInv
<1>23. ASSUME OutPush PROVE BuffersKept'
  <2>1. /\ pictq' = Append(pictq, frame) /\ UNCHANGED <<early, codec, vout_acodec, got>>
    BY <1>23 DEF OutPush
  <2>2. Drawn' => Drawn
    BY <1>23 DEF OutPush, Turn, Drawn, DoneAt, NodePlaces, OpenAt
  <2>3. \A q \in Hands : q \in Hands'
    <3> DEFINE n == Len(pictq) + 1
    <3>1. /\ DOMAIN pictq' = DOMAIN pictq \cup {n} /\ pictq'[n] = frame
          /\ \A i \in DOMAIN pictq : pictq'[i] = pictq[i]
      BY <2>1 DEF HandsInv, HandTypes
    <3> HIDE DEF n
    <3> QED
      BY <2>1, <3>1, HandsIs, HandsIsNext
  <2> QED
    BY <2>1, <2>2, <2>3 DEF BuffersKept
<1>24. ASSUME FeedReturns PROVE BuffersKept'
  <2>1. Drawn' => Drawn /\ UNCHANGED <<vout_acodec, codec, got, frame, pictq, early>>
    BY <1>24 DEF FeedReturns, Drawn, VoutHas, NodePlaces, OpenAt, DoneAt
  <2> QED
    BY <2>1, KeptStays
<1>25. ASSUME OutAbort PROVE BuffersKept'
  <2>1. Drawn' => Drawn /\ UNCHANGED <<vout_acodec, codec, got, frame, pictq, early>>
    BY <1>25 DEF OutAbort, Drawn, VoutHas, NodePlaces, OpenAt, DoneAt
  <2> QED
    BY <2>1, KeptStays
<1>26. ASSUME OutJoin PROVE BuffersKept'
  <2>1. Drawn' => Drawn /\ UNCHANGED <<vout_acodec, codec, got, frame, pictq, early>>
    BY <1>26 DEF OutJoin, Drawn, VoutHas, NodePlaces, OpenAt, DoneAt
  <2> QED
    BY <2>1, KeptStays
<1>27. ASSUME OutStop PROVE BuffersKept'
  <2>1. Drawn' => Drawn /\ UNCHANGED <<vout_acodec, codec, got, frame, pictq, early>>
    BY <1>27 DEF OutStop, StopNode, Drawn, VoutHas, NodePlaces, OpenAt, DoneAt
  <2> QED
    BY <2>1, KeptStays
<1>28. ASSUME CloseStream PROVE BuffersKept'
  <2>1. Drawn' => Drawn /\ UNCHANGED <<vout_acodec, codec, got, frame, pictq, early>>
    BY <1>28 DEF CloseStream, Drawn, VoutHas, NodePlaces, OpenAt, DoneAt
  <2> QED
    BY <2>1, KeptStays
<1>29. ASSUME DestroyPicture PROVE BuffersKept'
  <2>1. Release(Head(pictq)) /\ Head(pictq) \in Hands /\ \A q \in Hands : q # Head(pictq) => q \in Hands'
    BY <1>29, FirstIsAll, FirstIs, HandsIs, HandsIsNext DEF DestroyPicture, HandsInv
  <2>2. Drawn' => Drawn /\ UNCHANGED <<vout_acodec, got>>
    BY <1>29 DEF DestroyPicture, Drawn, DoneAt, NodePlaces
  <2> QED
    BY <2>1, <2>2, KeptReleased DEF NodeInv
<1>30. ASSUME Unpublish PROVE BuffersKept'
  <2>1. Drawn' => Drawn /\ UNCHANGED <<vout_acodec, codec, got, frame, pictq, early>>
    BY <1>30 DEF Unpublish, Drawn, VoutHas, NodePlaces, OpenAt, DoneAt
  <2> QED
    BY <2>1, KeptStays
<1>31. ASSUME FreePlayer PROVE BuffersKept'
  <2>1. Drawn' => Drawn /\ UNCHANGED <<vout_acodec, codec, got, frame, pictq, early>>
    BY <1>31 DEF FreePlayer, Drawn, VoutHas, NodePlaces, OpenAt, DoneAt
  <2> QED
    BY <2>1, KeptStays
<1>32. ASSUME Show PROVE BuffersKept'
  <2>1. Release(Head(pictq)) /\ Head(pictq) \in Hands /\ \A q \in Hands : q # Head(pictq) => q \in Hands'
    BY <1>32, FirstIsAll, FirstIs, HandsIs, HandsIsNext DEF Show, HandsInv
  <2>2. Drawn' => Drawn /\ UNCHANGED <<vout_acodec, got>>
    BY <1>32 DEF Show, Drawn, DoneAt, NodePlaces
  <2> QED
    BY <2>1, <2>2, KeptReleased DEF NodeInv
<1>33. ASSUME NextPicture PROVE BuffersKept'
  <2>1. CASE shown
    <3>1. Release(Head(pictq)) /\ pictq' = Tail(pictq) /\ Len(pictq) > 1 /\ UNCHANGED <<frame, early>>
      BY <1>33, <2>1 DEF NextPicture
    <3>2. pictq # <<>>
      BY <3>1
    <3>3. Head(pictq) \in Hands /\ \A q \in Hands : q # Head(pictq) => q \in Hands'
      BY <3>1, <3>2, FirstIsAll, FirstIs, HandsIs DEF HandsInv
    <3>4. Drawn' => Drawn /\ UNCHANGED <<vout_acodec, got>>
      BY <1>33 DEF NextPicture, Drawn
    <3> QED
      BY <3>1, <3>3, <3>4, KeptReleased
  <2>2. CASE ~shown
    <3>1. Drawn' => Drawn /\ UNCHANGED <<vout_acodec, codec, got, frame, pictq, early>>
      BY <1>33, <2>2 DEF NextPicture, Drawn
    <3> QED
      BY <3>1, KeptStays
  <2> QED
    BY <2>1, <2>2
<1>34. ASSUME NEW s \in Surfaces \cup {Null}, SetWindow(s) PROVE BuffersKept'
  <2>1. Drawn' => Drawn /\ UNCHANGED <<vout_acodec, codec, got, frame, pictq, early>>
    BY <1>34 DEF SetWindow, Drawn, SurfaceFollowed
  <2> QED
    BY <2>1, KeptStays
<1>35. ASSUME SetPipeline PROVE BuffersKept'
  <2>1. Drawn' => Drawn /\ UNCHANGED <<vout_acodec, codec, got, frame, pictq, early>>
    BY <1>35 DEF SetPipeline, SetAMediaCodec, Drawn, VoutHas, NodePlaces, OpenAt, DoneAt
  <2> QED
    BY <2>1, KeptStays
<1>36. ASSUME SeekHint PROVE BuffersKept'
  <2>1. Drawn' => Drawn /\ UNCHANGED <<vout_acodec, codec, got, frame, pictq, early>>
    BY <1>36 DEF SeekHint, Drawn, VoutHas, NodePlaces, OpenAt, DoneAt
  <2> QED
    BY <2>1, KeptStays
<1>37. ASSUME SeekPut PROVE BuffersKept'
  <2>1. Drawn' => Drawn /\ UNCHANGED <<vout_acodec, codec, got, frame, pictq, early>>
    BY <1>37 DEF SeekPut, Drawn, VoutHas, NodePlaces, OpenAt, DoneAt
  <2> QED
    BY <2>1, KeptStays
<1>38. ASSUME Abort PROVE BuffersKept'
  <2>1. Drawn' => Drawn /\ UNCHANGED <<vout_acodec, codec, got, frame, pictq, early>>
    BY <1>38 DEF Abort, Drawn, VoutHas, NodePlaces, OpenAt, DoneAt
  <2> QED
    BY <2>1, KeptStays
<1>39. CASE UNCHANGED codecVars
  BY <1>39, KeptStays DEF Drawn
<1> QED
  BY <1>1, <1>2, <1>3, <1>4, <1>5, <1>6, <1>7, <1>8, <1>9, <1>10, <1>11, <1>12, <1>13, <1>14, <1>15, <1>16, <1>17, <1>18, <1>19, <1>20, <1>21, <1>22, <1>23, <1>24, <1>25, <1>26, <1>27, <1>28, <1>29, <1>30, <1>31, <1>32, <1>33, <1>34, <1>35, <1>36, <1>37, <1>38, <1>39
  DEF CodecNext, OpenVideoDecoder, InputThread, FeedInputBuffer, Flush, Reconfigure, OutputThread, DrainOutputBuffer, OutputFrame, OutputEnds, Closing

LEMMA NothingIsForgotten ==
  ASSUME NodeInv, SurfaceFollowed, BuffersKept
  PROVE  NoBufferLost
<1>1. SUFFICES ASSUME jsurface # Null, Settled, vout_acodec # 0, NEW b \in codec[vout_acodec].held
               PROVE  got = b \/ \E p \in Proxies \cup Range(early) : GoesBack(p) /\ p.index = b
  BY DEF NoBufferLost, NothingForgotten
<1>2. in_at # "none"
  BY <1>1 DEF Settled, Opening, NodeInv, NodePlaces, OpenAt, DoneAt
<1>3. jsurface = surface /\ window = surface
  BY <1>1, <1>2 DEF Settled, SurfaceFollowed
<1>4. Drawn
  BY <1>1, <1>3 DEF Settled, Drawn, DoneAt
<1>5. got = b \/ \E p \in Hands : p.index = b /\ p.serial = codec[vout_acodec].serial
  BY <1>1, <1>4 DEF BuffersKept
<1>6. b \in Buffers /\ b # NoIndex
  BY <1>1, BuffersAssumption DEF NodeInv, CodecTypes, Codec, NoIndex
<1> QED
  BY <1>1, <1>5, <1>6 DEF GoesBack, Hands

LEMMA SurfaceInit ==
  ASSUME CodecInit
  PROVE  SurfaceFollowed /\ BuffersKept
  BY DEF CodecInit, SurfaceFollowed, BuffersKept, Drawn

\* When no surface is on its way, a buffer the codec has handed out is in the output
\* thread's hand, in a frame to be shown or held back, and will return to the codec.
\* The resolution must not be followed: when a format that changed comes after a
\* surface that changed and finds no decoder, the node stays with a surface the
\* pipeline no longer has, and nobody tells it (recreate_format_l).
THEOREM BuffersAreKept == CodecSpec => [](~opt.resolution => NoBufferLost)
<1> DEFINE I == NodeInv /\ (~opt.resolution => SurfaceFollowed /\ BuffersKept)
<1>1. CodecInit => I
  BY NodeInit, SurfaceInit
<1>2. I /\ [CodecNext]_codecVars => I'
  <2>1. SUFFICES ASSUME I, [CodecNext]_codecVars PROVE I'
    OBVIOUS
  <2>2. NodeInv' /\ opt' = opt
    BY <2>1, NodeNext, OptionsStay
  <2>3. ASSUME ~opt.resolution PROVE SurfaceFollowed' /\ BuffersKept'
    <3>1. NodeInv /\ NodePlaces /\ SurfaceFollowed /\ BuffersKept
      BY <2>1, <2>3 DEF NodeInv
    <3> QED
      BY <2>1, <2>3, <3>1, SurfaceFollows, BuffersStay
  <2> QED
    BY <2>2, <2>3
<1>3. I => (~opt.resolution => NoBufferLost)
  BY NothingIsForgotten
<1> QED
  BY <1>1, <1>2, <1>3, PTL DEF CodecSpec
=============================================================================
