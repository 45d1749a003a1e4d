------------------------------ MODULE Playback ------------------------------
(***************************************************************************)
(* The flags of one playing VideoState.  The message loop carries out      *)
(* start, pause and seek, the read thread seeks, buffers and finds the end *)
(* of the stream, the decoders ask for buffering and the refresh thread    *)
(* shows frames.  play_mutex makes each change of the flags one step;      *)
(* between two of them the other threads run.                              *)
(***************************************************************************)
EXTENDS Naturals, Sequences, FiniteSets

CONSTANTS
  MaxCalls,  \* how often the application calls start, pause or seekTo
  MaxQueue   \* a bound on the queue: no start over while it is longer

ASSUME BoundsAssumption == MaxCalls \in Nat /\ MaxQueue \in Nat

VARIABLES
  mp_state, restart, restart_from_beginning, seek_req,  \* IjkMediaPlayer
  queue,        \* ffp->msg_queue
  loop_at,      \* what the message loop is doing
  held,         \* the message it has taken
  looping,      \* setLooping: the stream starts over at its end
  auto_resume,  \* ffp->auto_resume
  play,         \* the flags of the VideoState
  is_seek,      \* is->seek_req
  read_at,      \* what the read thread is doing
  completed,    \* its local: the end was found and no seek has come since
  showing,      \* has the refresh thread decided to show a frame?
  announced,    \* was BUFFERING_START the last announcement of buffering?
  failed,       \* was an error the end of the stream?
  calls

player   == <<mp_state, restart, restart_from_beginning, seek_req>>
loopVars == <<loop_at, held>>
reader   == <<read_at, completed, failed>>
vars == <<player, queue, loopVars, looping, auto_resume, play, is_seek, reader, showing, announced, calls>>

Message == {"PREPARED", "COMPLETED", "SEEK_COMPLETE", "ERROR", "REQ_START", "REQ_PAUSE", "REQ_SEEK"}
CheckedState == {"PREPARED", "STARTED", "PAUSED", "COMPLETED"}

TypeOK ==
  /\ mp_state \in CheckedState \cup {"ASYNC_PREPARING"}
  /\ restart \in BOOLEAN /\ restart_from_beginning \in BOOLEAN /\ seek_req \in BOOLEAN
  /\ queue \in Seq(Message) /\ held \in Message
  /\ loop_at \in {"getting", "holding", "buffering", "seeking"}
  /\ looping \in BOOLEAN /\ auto_resume \in BOOLEAN /\ is_seek \in BOOLEAN
  /\ play \in [pause_req : BOOLEAN, buffering_on : BOOLEAN, step : BOOLEAN,
               paused : BOOLEAN, silent : BOOLEAN]
  /\ read_at \in {"prepared", "resuming", "reading", "seeking", "sought", "telling", "rebuffering",
                  "ending", "stopping", "reporting"}
  /\ completed \in BOOLEAN /\ failed \in BOOLEAN /\ showing \in BOOLEAN
  /\ announced \in BOOLEAN /\ calls \in 0 .. MaxCalls

\* The moment read_thread has put FFP_MSG_PREPARED; start_on_prepared = 1.
Init ==
  /\ mp_state = "ASYNC_PREPARING" /\ restart = FALSE /\ restart_from_beginning = FALSE
  /\ seek_req = FALSE
  /\ queue = <<"PREPARED">> /\ loop_at = "getting" /\ held = "PREPARED"
  /\ looping \in BOOLEAN /\ auto_resume = FALSE /\ is_seek = FALSE
  /\ play = [pause_req |-> FALSE, buffering_on |-> FALSE, step |-> FALSE,
             paused |-> FALSE, silent |-> FALSE]
  /\ read_at = "prepared" /\ completed = FALSE /\ failed = FALSE /\ showing = FALSE
  /\ announced = FALSE /\ calls = 0

(***************************************************************************)
(* The flags.  "silent" is the pause given to the audio output; a step to  *)
(* the next frame of a paused or buffering video leaves it as it is.       *)
(***************************************************************************)
stream_toggle_pause(p, on) ==
  [p EXCEPT !.paused = on,
            !.silent = IF p.step /\ (p.pause_req \/ p.buffering_on) THEN p.silent ELSE on]

stream_update_pause(p) == stream_toggle_pause(p, ~p.step /\ (p.pause_req \/ p.buffering_on))

\* The step is forgotten only after the pause was worked out.
toggle_pause(p, on) == [stream_update_pause([p EXCEPT !.pause_req = on]) EXCEPT !.step = FALSE]

TogglePause(on) == play' = toggle_pause(play, on) /\ auto_resume' = ~on

step_to_next_frame(p) ==
  LET q == [p EXCEPT !.step = TRUE] IN IF p.paused THEN stream_toggle_pause(q, FALSE) ELSE q

\* Mutant: buffering leaves the pause to the next start or pause.
MutToggleBuffering(on) ==
  IF play.buffering_on = on THEN UNCHANGED <<play, announced>>
  ELSE play' = [play EXCEPT !.buffering_on = on] /\ announced' = on

ffp_toggle_buffering(on) ==
  IF play.buffering_on = on THEN UNCHANGED <<play, announced>>
  ELSE play' = stream_update_pause([play EXCEPT !.buffering_on = on]) /\ announced' = on

\* stream_seek: a seek already asked for is kept.
stream_seek == is_seek' = TRUE

Put(m) == queue' = Append(queue, m)

\* msg_queue_remove: the one sequence that is left, the others in their order.
Without(what) ==
  LET kept == {i \in DOMAIN queue : queue[i] \notin what}
      inOrder == {w \in [1 .. Cardinality(kept) -> kept] : \A i, j \in DOMAIN w : i < j => w[i] < w[j]}
  IN  {[i \in DOMAIN w |-> queue[w[i]]] : w \in inOrder}
-----------------------------------------------------------------------------
(***************************************************************************)
(* The application: each call replaces the requests it makes obsolete.     *)
(* It waits while the message loop holds mp->mutex.                        *)
(***************************************************************************)
Ask(what, m) ==
  /\ mp_state \in CheckedState /\ loop_at \in {"getting", "holding"} /\ calls < MaxCalls
  /\ \E q \in Without(what) : queue' = Append(q, m)
  /\ calls' = calls + 1
  /\ UNCHANGED <<mp_state, restart, restart_from_beginning, loopVars, looping, auto_resume, play,
                 is_seek, reader, showing, announced>>

start  == Ask({"REQ_START", "REQ_PAUSE"}, "REQ_START") /\ UNCHANGED seek_req
pause  == Ask({"REQ_START", "REQ_PAUSE"}, "REQ_PAUSE") /\ UNCHANGED seek_req
seekTo == Ask({"REQ_SEEK"}, "REQ_SEEK") /\ seek_req' = TRUE
-----------------------------------------------------------------------------
(***************************************************************************)
(* The message loop: ijkmp_get_msg.                                        *)
(***************************************************************************)
msg_queue_get ==
  /\ loop_at = "getting" /\ queue # <<>>
  /\ held' = Head(queue) /\ queue' = Tail(queue) /\ loop_at' = "holding"
  /\ UNCHANGED <<player, looping, auto_resume, play, is_seek, reader, showing, announced, calls>>

Holds(m) == loop_at = "holding" /\ held = m

OnPrepared ==
  /\ Holds("PREPARED")
  /\ mp_state' = IF mp_state = "ASYNC_PREPARING" THEN "PREPARED" ELSE mp_state
  /\ loop_at' = "getting"
  /\ UNCHANGED <<restart, restart_from_beginning, seek_req, queue, held, looping, auto_resume, play,
                 is_seek, reader, showing, announced, calls>>

OnCompleted ==
  /\ Holds("COMPLETED")
  /\ restart' = TRUE /\ restart_from_beginning' = TRUE /\ mp_state' = "COMPLETED"
  /\ loop_at' = "getting"
  /\ UNCHANGED <<seek_req, queue, held, looping, auto_resume, play, is_seek, reader, showing, announced, calls>>

OnSeekComplete ==
  /\ Holds("SEEK_COMPLETE")
  /\ seek_req' = FALSE /\ loop_at' = "getting"
  /\ UNCHANGED <<mp_state, restart, restart_from_beginning, queue, held, looping, auto_resume, play,
                 is_seek, reader, showing, announced, calls>>

\* An error is passed on to the application.
OnError ==
  /\ Holds("ERROR") /\ loop_at' = "getting"
  /\ UNCHANGED <<player, queue, held, looping, auto_resume, play, is_seek, reader, showing, announced, calls>>

Started == mp_state' = "STARTED" /\ restart' = FALSE /\ restart_from_beginning' = FALSE /\ loop_at' = "getting"

ffp_start ==
  /\ Holds("REQ_START") /\ ~(restart /\ restart_from_beginning)
  /\ IF mp_state \in CheckedState THEN TogglePause(FALSE) /\ Started
     ELSE loop_at' = "getting" /\ UNCHANGED <<player, auto_resume, play>>
  /\ UNCHANGED <<seek_req, queue, held, looping, is_seek, reader, showing, announced, calls>>

\* Mutant: a restart trusts the seek to resume.
MutStartFrom ==
  /\ Holds("REQ_START") /\ restart /\ restart_from_beginning /\ mp_state \in CheckedState
  /\ loop_at' = "buffering"
  /\ UNCHANGED <<player, queue, held, looping, auto_resume, play, is_seek, reader, showing, announced, calls>>

\* ffp_start_from, of a completed stream: resume once it has been sought.
ffp_start_from ==
  /\ Holds("REQ_START") /\ restart /\ restart_from_beginning /\ mp_state \in CheckedState
  /\ auto_resume' = TRUE /\ loop_at' = "buffering"
  /\ UNCHANGED <<player, queue, held, looping, play, is_seek, reader, showing, announced, calls>>

startBuffers ==
  /\ loop_at = "buffering"
  /\ ffp_toggle_buffering(TRUE) /\ loop_at' = "seeking"
  /\ UNCHANGED <<player, queue, held, looping, auto_resume, is_seek, reader, showing, calls>>

startSeeks ==
  /\ loop_at = "seeking"
  /\ stream_seek /\ Started
  /\ UNCHANGED <<seek_req, queue, held, looping, auto_resume, play, reader, showing, announced, calls>>

ffp_pause ==
  /\ Holds("REQ_PAUSE")
  /\ IF mp_state \in CheckedState THEN TogglePause(TRUE) /\ mp_state' = "PAUSED"
     ELSE UNCHANGED <<mp_state, auto_resume, play>>
  /\ loop_at' = "getting"
  /\ UNCHANGED <<restart, restart_from_beginning, seek_req, queue, held, looping, is_seek, reader,
                 showing, announced, calls>>

ffp_seek_to ==
  /\ Holds("REQ_SEEK")
  /\ IF mp_state \in CheckedState THEN restart_from_beginning' = FALSE /\ stream_seek
     ELSE UNCHANGED <<restart_from_beginning, is_seek>>
  /\ loop_at' = "getting"
  /\ UNCHANGED <<mp_state, restart, seek_req, queue, held, looping, auto_resume, play, reader,
                 showing, announced, calls>>
-----------------------------------------------------------------------------
(***************************************************************************)
(* The read thread.                                                        *)
(***************************************************************************)
ReadStep(from, to) == read_at = from /\ read_at' = to

\* After PREPARED: a start that came first is asked for again.
checkResume ==
  /\ ReadStep("prepared", IF auto_resume THEN "resuming" ELSE "reading")
  /\ IF auto_resume THEN Put("REQ_START") ELSE UNCHANGED queue
  /\ UNCHANGED <<player, loopVars, looping, auto_resume, play, is_seek, completed, failed, showing,
                 announced, calls>>

resumeAsked ==
  /\ ReadStep("resuming", "reading")
  /\ auto_resume' = FALSE
  /\ UNCHANGED <<player, queue, loopVars, looping, play, is_seek, completed, failed, showing, announced, calls>>

\* Mutant: a seek buffers only once it is done.
MutBeginSeek ==
  /\ is_seek /\ ReadStep("reading", "seeking")
  /\ UNCHANGED <<player, queue, loopVars, looping, auto_resume, play, is_seek, completed, failed,
                 showing, announced, calls>>

beginSeek ==
  /\ is_seek /\ ReadStep("reading", "seeking")
  /\ ffp_toggle_buffering(TRUE)
  /\ UNCHANGED <<player, queue, loopVars, looping, auto_resume, is_seek, completed, failed, showing, calls>>

avformat_seek ==
  /\ ReadStep("seeking", "sought")
  /\ is_seek' = FALSE /\ completed' = FALSE
  /\ UNCHANGED <<player, queue, loopVars, looping, auto_resume, play, failed, showing, announced, calls>>

\* A resume turns buffering on without a word; a paused video shows one frame.
resumeOrStep ==
  /\ ReadStep("sought", "telling")
  /\ LET resumed == IF auto_resume
                    THEN stream_update_pause([play EXCEPT !.pause_req = FALSE, !.buffering_on = TRUE])
                    ELSE play
     IN play' = IF resumed.pause_req THEN step_to_next_frame(resumed) ELSE resumed
  /\ auto_resume' = FALSE
  /\ UNCHANGED <<player, queue, loopVars, looping, is_seek, completed, failed, showing, announced, calls>>

tellSeek ==
  /\ ReadStep("telling", "rebuffering") /\ Put("SEEK_COMPLETE")
  /\ UNCHANGED <<player, loopVars, looping, auto_resume, play, is_seek, completed, failed, showing,
                 announced, calls>>

\* Mutant: the request is given up at the end of the seek.
MutRebuffer ==
  /\ ReadStep("rebuffering", "reading") /\ ffp_toggle_buffering(TRUE) /\ is_seek' = FALSE
  /\ UNCHANGED <<player, queue, loopVars, looping, auto_resume, completed, failed, showing, calls>>

rebuffer ==
  /\ ReadStep("rebuffering", "reading") /\ ffp_toggle_buffering(TRUE)
  /\ UNCHANGED <<player, queue, loopVars, looping, auto_resume, is_seek, completed, failed, showing, calls>>

\* Enough time or bytes are buffered (the water marks of ffp_check_buffering_l), or
\* the queues are full, or there is no more to read.
buffered ==
  /\ read_at = "reading" /\ ffp_toggle_buffering(FALSE)
  /\ UNCHANGED <<player, queue, loopVars, looping, auto_resume, is_seek, reader, showing, calls>>

\* Everything that was read has been played.
AtEnd == read_at = "reading" /\ (~play.paused \/ completed)

startOver ==
  /\ AtEnd /\ looping /\ Len(queue) < MaxQueue /\ stream_seek
  /\ UNCHANGED <<player, queue, loopVars, looping, auto_resume, play, reader, showing, announced, calls>>

complete ==
  /\ AtEnd /\ ~looping /\ ~completed
  /\ completed' = TRUE /\ auto_resume' = FALSE /\ read_at' = "ending"
  /\ UNCHANGED <<player, queue, loopVars, looping, play, is_seek, failed, showing, announced, calls>>

endBuffering ==
  /\ ReadStep("ending", "stopping") /\ ffp_toggle_buffering(FALSE)
  /\ UNCHANGED <<player, queue, loopVars, looping, auto_resume, is_seek, completed, failed, showing, calls>>

endPause ==
  /\ ReadStep("stopping", "reporting") /\ TogglePause(TRUE)
  /\ UNCHANGED <<player, queue, loopVars, looping, is_seek, completed, failed, showing, announced, calls>>

reportEnd ==
  /\ ReadStep("reporting", "reading")
  /\ \/ Put("COMPLETED") /\ UNCHANGED failed
     \/ Put("ERROR") /\ failed' = TRUE
  /\ UNCHANGED <<player, loopVars, looping, auto_resume, play, is_seek, completed, showing, announced, calls>>
-----------------------------------------------------------------------------
\* packet_queue_get_or_buffering: a decoder finds no packet.
starve ==
  /\ ffp_toggle_buffering(TRUE)
  /\ UNCHANGED <<player, queue, loopVars, looping, auto_resume, is_seek, reader, showing, calls>>

\* video_refresh looks at "paused" before it takes play_mutex.
chooseFrame ==
  /\ ~showing /\ ~play.paused /\ showing' = TRUE
  /\ UNCHANGED <<player, queue, loopVars, looping, auto_resume, play, is_seek, reader, announced, calls>>

video_refresh ==
  /\ showing /\ showing' = FALSE
  /\ LET shown == [play EXCEPT !.step = FALSE] IN
     play' = IF play.step /\ ~play.paused THEN stream_update_pause(shown) ELSE shown
  /\ UNCHANGED <<player, queue, loopVars, looping, auto_resume, is_seek, reader, announced, calls>>
-----------------------------------------------------------------------------
Application == start \/ pause \/ seekTo

MessageLoop ==
  \/ msg_queue_get \/ OnPrepared \/ OnCompleted \/ OnSeekComplete \/ OnError
  \/ ffp_start \/ ffp_start_from \/ startBuffers \/ startSeeks \/ ffp_pause \/ ffp_seek_to

Seeking == beginSeek \/ avformat_seek \/ resumeOrStep \/ tellSeek \/ rebuffer
Ending  == endBuffering \/ endPause \/ reportEnd

ReadThread ==
  \/ checkResume \/ resumeAsked \/ Seeking
  \/ buffered \/ startOver \/ complete \/ Ending

Next == Application \/ MessageLoop \/ ReadThread \/ starve \/ chooseFrame \/ video_refresh

Spec == Init /\ [][Next]_vars

(* The message loop and the read thread run; whether the stream ends, is   *)
(* buffered or starves is up to the network.                               *)
Fairness ==
  /\ WF_vars(MessageLoop)
  /\ WF_vars(checkResume) /\ WF_vars(resumeAsked) /\ WF_vars(Seeking) /\ WF_vars(Ending)

FairSpec == Spec /\ Fairness
-----------------------------------------------------------------------------
Quiet ==
  /\ queue = <<>> /\ loop_at = "getting"
  /\ read_at = "reading" /\ ~is_seek /\ ~showing

(* ffp_toggle_buffering_l and the seek in read_thread: the application has *)
(* been told of every change of buffering, also of the one that is made    *)
(* without a word, so that its START and END alternate.                    *)
BufferingAnnounced == announced = play.buffering_on

(* stream_update_pause_l: picture or sound stand still only for a reason.  *)
NeverStuck == play.paused \/ play.silent => play.pause_req \/ play.buffering_on

(* ijkmp_get_msg and read_thread: once everything has been carried out, a  *)
(* STARTED player plays (unless an error ended it) and a PAUSED one was    *)
(* asked to pause, whichever of the threads asked last.                    *)
StateObeyed ==
  Quiet => /\ mp_state = "STARTED" => ~play.pause_req \/ failed
           /\ mp_state = "PAUSED" => play.pause_req

(* ijkmp_seek_to_l: the position reported during a seek is given up once   *)
(* the seek is done, also when it is merged with another one.              *)
SeekSettles == seek_req ~> ~seek_req

(* toggle_pause_l: once everything has been carried out, the buffering is  *)
(* over and no frame is owed to a seek, a video that was asked to pause    *)
(* stands still.                                                           *)
PausedStays == Quiet /\ play.pause_req /\ ~play.buffering_on /\ ~play.step => play.paused
=============================================================================
