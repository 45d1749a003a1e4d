----------------------------- MODULE StreamLife -----------------------------
(***************************************************************************)
(* The life of a VideoState: stream_open starts the refresh and the read   *)
(* thread, the read thread opens the input and then a decoder, an output   *)
(* and a thread for each stream, any of these steps may fail, and the      *)
(* application may stop and destroy the player in the middle of it.  The   *)
(* memory a thread relies on is followed from its allocation to its        *)
(* release; a thread that waits is asleep until it is woken.               *)
(***************************************************************************)
EXTENDS Naturals, Sequences

CONSTANTS
  Files,     \* the files: the kinds of streams they have
  Faults,    \* the calls that may fail
  Selected,  \* the streams the application may no longer want once it plays
  OPENSLES_BUFFERS,
  Formats    \* bound: the formats audio_open tries, after the first

Order == <<"audio", "video", "subtitle">>
Streams == {"audio", "video", "subtitle"}

ASSUME FilesAssumption == Files \subseteq SUBSET Streams /\ Files # {}
ASSUME FaultsAssumption ==
  Faults \subseteq {"audio_output", "open_input", "find_stream_info", "decoder",
                   "audio_device", "audio_buffer", "enqueue", "mediacodec"}
ASSUME SelectedAssumption == Selected \subseteq Streams
ASSUME BuffersAssumption == OPENSLES_BUFFERS \in Nat \ {0} /\ Formats \in Nat

VARIABLES
  file,          \* the streams of the file
  async_init,    \* ffp->async_init_decoder
  auto_start,    \* ffp->start_on_prepared
  opensles,      \* ffp->opensles: the output is an OpenSLES player, not an AudioTrack
  subtitle,      \* ffp->subtitle: subtitles are to be decoded
  app_at,        \* where the thread that opens and closes the player is
  closing,       \* the stream it closes, by its place in Order
  read_at,       \* where the read thread is
  opening,       \* the stream it opens
  formats,       \* how many other formats audio_open has left to try
  refresh_at,    \* the refresh thread
  dec_at,        \* the decoder threads
  aout_at,       \* the thread of the audio output
  queued,        \* the buffers the OpenSLES player is still to play
  next_buffer,   \* the one the callback fills next
  life,          \* what has been allocated and released
  context,       \* the AVCodecContext of each stream
  avctx,         \* does Decoder.avctx point to one?
  node_vdec,     \* does ffp->node_vdec point to a node?
  stream_index,  \* is->audio_stream >= 0, is->video_stream >= 0, ...
  aborted,       \* PacketQueue.abort_request
  abort_request, \* VideoState.abort_request
  pause_req,
  paused,
  pause_on,      \* the output is to pause
  aout_abort,    \* the output is to stop
  initialized_decoder,
  prepared,
  muted,         \* the message queue is aborted
  told           \* what the application was told of the preparation

outVars    == <<aout_at, queued, next_buffer>>
threadVars == <<read_at, opening, formats, refresh_at, dec_at, outVars>>
ownVars    == <<life, context, avctx, node_vdec, stream_index>>
pauseVars  == <<pause_req, paused, pause_on>>
toldVars   == <<prepared, muted, told>>
flagVars   == <<aborted, abort_request, pauseVars, aout_abort, initialized_decoder, toldVars>>
optionVars == <<file, async_init, auto_start, opensles, subtitle>>
vars == <<optionVars, app_at, closing, threadVars, ownVars, flagVars>>

Things == {"state", "input", "node", "output", "device", "buffer"}
Life == {"none", "live", "freed", "twice", "lost"}

AppAt == {"idle", "created", "no_output", "refreshing", "reading", "opened", "stopping", "stopped", "join_reader",
          "component", "join_decoder", "close_device", "join_device", "destroy_decoder", "input",
          "join_refresh", "output", "join_output", "gone"}
ReadAt == {"none", "input", "info", "component", "device", "buffer", "node", "config", "open_node", "start",
           "check", "wait_start", "loop", "fail", "ended"}
DecAt == {"none", "running", "no_packet", "no_room", "ended"}
AoutAt == {"none", "loop", "paused", "callback", "no_frame", "held", "write", "ended"}
Buffers == 0 .. OPENSLES_BUFFERS - 1

TypeOK ==
  /\ file \in Files /\ async_init \in BOOLEAN /\ auto_start \in BOOLEAN /\ subtitle \in BOOLEAN
  /\ opensles \in BOOLEAN
  /\ app_at \in AppAt /\ closing \in 1 .. 4 /\ opening \in 1 .. 4 /\ formats \in 0 .. Formats
  /\ read_at \in ReadAt /\ refresh_at \in {"none", "running", "ended"}
  /\ dec_at \in [Streams -> DecAt] /\ aout_at \in AoutAt
  /\ queued \in Seq(Buffers) /\ next_buffer \in Buffers
  /\ life \in [Things -> Life] /\ context \in [Streams -> Life]
  /\ avctx \in [Streams -> BOOLEAN] /\ node_vdec \in BOOLEAN
  /\ stream_index \in [Streams -> BOOLEAN] /\ aborted \in [Streams -> BOOLEAN]
  /\ abort_request \in BOOLEAN /\ pause_req \in BOOLEAN /\ paused \in BOOLEAN /\ pause_on \in BOOLEAN
  /\ aout_abort \in BOOLEAN /\ initialized_decoder \in BOOLEAN
  /\ prepared \in BOOLEAN /\ muted \in BOOLEAN
  /\ told \subseteq {"prepared", "error"}

\* (An option that a file has no use for is left out.)
Init ==
  /\ file \in Files /\ auto_start \in BOOLEAN
  /\ async_init \in {"video" \in file, FALSE} /\ subtitle \in {"subtitle" \in file, FALSE}
  /\ opensles \in {"audio" \in file, FALSE}
  /\ app_at = "idle" /\ closing = 1 /\ opening = 1 /\ formats = Formats
  /\ read_at = "none" /\ refresh_at = "none" /\ aout_at = "none"
  /\ queued = <<>> /\ next_buffer = 0
  /\ dec_at = [s \in Streams |-> "none"]
  /\ life = [t \in Things |-> "none"]
  /\ context = [s \in Streams |-> "none"] /\ avctx = [s \in Streams |-> FALSE]
  /\ node_vdec = FALSE /\ stream_index = [s \in Streams |-> FALSE]
  /\ aborted = [s \in Streams |-> TRUE]
  /\ abort_request = FALSE /\ pause_req = FALSE /\ paused = FALSE /\ pause_on = TRUE
  /\ aout_abort = FALSE
  /\ initialized_decoder = FALSE /\ prepared = FALSE /\ muted = FALSE /\ told = {}

Freed(l) == IF l = "live" THEN "freed" ELSE "twice"
Acquire(t) == life' = [life EXCEPT ![t] = IF @ = "live" THEN "lost" ELSE "live"]
Release(t) == life' = [life EXCEPT ![t] = Freed(@)]
\* A pointer that is NULL, or is set to NULL as it is freed, frees nothing.
Drop(ts) == life' = [t \in Things |-> IF t \in ts /\ life[t] = "live" THEN "freed" ELSE life[t]]
notify(what) == told' = IF muted THEN told ELSE told \cup {what}

\* toggle_pause: the state is told, and so is the output, whether it is open or not.
aout_pause_audio(on) == pause_on' = on
toggle_pause(on) == pause_req' = on /\ paused' = on /\ aout_pause_audio(on)
-----------------------------------------------------------------------------
(***************************************************************************)
(* stream_open, on the thread of the application.                          *)
(***************************************************************************)
AppTo(at) == app_at' = at

CreateForAudioTrack == ~opensles /\ Acquire("output") /\ AppTo("created")

\* What fails frees itself, and the preparation has failed.
CreateForOpenSLES ==
  /\ opensles
  /\ \/ Acquire("output") /\ AppTo("created")
     \/ "audio_output" \in Faults /\ AppTo("no_output") /\ UNCHANGED life

open_audio_output ==
  /\ app_at = "idle"
  /\ CreateForAudioTrack \/ CreateForOpenSLES
  /\ UNCHANGED <<optionVars, closing, threadVars, context, avctx, node_vdec, stream_index,
                 flagVars>>

stream_open ==
  /\ app_at = "created"
  /\ Acquire("state") /\ refresh_at' = "running"
  /\ pause_req' = ~auto_start
  /\ AppTo("refreshing")
  /\ UNCHANGED <<optionVars, closing, read_at, opening, formats, dec_at, outVars, context, avctx,
                 node_vdec, stream_index, aborted, abort_request, paused, pause_on, aout_abort,
                 initialized_decoder, toldVars>>

start_read_thread ==
  /\ app_at = "refreshing"
  /\ read_at' = "input"
  /\ AppTo("reading")
  /\ UNCHANGED <<optionVars, closing, opening, formats, refresh_at, dec_at, outVars, ownVars,
                 flagVars>>

\* The decoder is made ahead, while the read thread opens the input; it may not be available.
init_decoder ==
  /\ app_at = "reading"
  /\ \/ /\ async_init /\ Acquire("node") /\ node_vdec' = TRUE
     \/ /\ ~async_init \/ "mediacodec" \in Faults
        /\ UNCHANGED <<life, node_vdec>>
  /\ initialized_decoder' = TRUE
  /\ AppTo("opened")
  /\ UNCHANGED <<optionVars, closing, threadVars, context, avctx, stream_index, aborted,
                 abort_request, pauseVars, aout_abort, toldVars>>
-----------------------------------------------------------------------------
(***************************************************************************)
(* The read thread opens the input and its streams.                        *)
(***************************************************************************)
ReadTo(at) == read_at' = at /\ opening' = opening
Opening == Order[opening]
OpenNext == read_at' = "component" /\ opening' = opening + 1

openRest == UNCHANGED <<optionVars, app_at, closing, refresh_at>>
appRest  == openRest /\ UNCHANGED formats

avformat_open_input ==
  /\ read_at = "input"
  /\ \/ Acquire("input") /\ ReadTo("info")
     \/ "open_input" \in Faults /\ ReadTo("fail") /\ UNCHANGED life
  /\ appRest
  /\ UNCHANGED <<dec_at, outVars, context, avctx, node_vdec, stream_index, flagVars>>

find_stream_info ==
  /\ read_at = "info"
  /\ \/ ReadTo("component")
     \/ "find_stream_info" \in Faults /\ ReadTo("fail")
  /\ appRest /\ UNCHANGED <<dec_at, outVars, ownVars, flagVars>>

\* decode_interrupt_cb ends a call to the network that would not return.
interrupted ==
  /\ abort_request /\ read_at \in {"input", "info"}
  /\ ReadTo("fail")
  /\ appRest /\ UNCHANGED <<dec_at, outVars, ownVars, flagVars>>

skip_stream ==
  /\ read_at = "component" /\ opening <= Len(Order) /\ Opening \notin file
  /\ OpenNext
  /\ appRest /\ UNCHANGED <<dec_at, outVars, ownVars, flagVars>>

\* No decoder, or one that cannot be opened: the context goes and the stream is left out.
no_decoder ==
  /\ read_at = "component" /\ opening <= Len(Order) /\ Opening \in file /\ "decoder" \in Faults
  /\ context' = [context EXCEPT ![Opening] = "freed"]
  /\ OpenNext
  /\ appRest
  /\ UNCHANGED <<dec_at, outVars, life, avctx, node_vdec, stream_index, flagVars>>

\* A subtitle stream that is not wanted is left there, its context allocated.
avcodec_open ==
  /\ read_at = "component" /\ opening <= Len(Order) /\ Opening \in file
  /\ context' = [context EXCEPT ![Opening] = "live"]
  /\ stream_index' = [stream_index EXCEPT !["video"] = @ \/ Opening = "video"]
  /\ IF Opening = "subtitle" /\ ~subtitle
       THEN OpenNext
       ELSE ReadTo([audio |-> "device", video |-> "node", subtitle |-> "start"][Opening])
  /\ appRest
  /\ UNCHANGED <<dec_at, outVars, life, avctx, node_vdec, flagVars>>

\* A format the output refuses: another is tried, unless the player is being closed.
TryAnother ==
  IF abort_request \/ formats = 0
  THEN /\ context' = [context EXCEPT !["audio"] = Freed(@)]
       /\ formats' = Formats /\ OpenNext
  ELSE /\ formats' = formats - 1 /\ ReadTo("device")
       /\ UNCHANGED context

\* SDL_Android_AudioTrack_new_from_sdl_spec, CreateAudioPlayer
new_device ==
  /\ read_at = "device"
  /\ \/ Acquire("device") /\ ReadTo("buffer") /\ UNCHANGED <<formats, context>>
     \/ "audio_device" \in Faults /\ TryAnother /\ UNCHANGED life
  /\ openRest /\ UNCHANGED <<dec_at, outVars, avctx, node_vdec, stream_index, flagVars>>

\* The buffers of an OpenSLES player are all queued, silent.  The thread starts, paused.
start_output ==
  /\ read_at = "buffer"
  /\ Acquire("buffer") /\ aout_at' = "loop" /\ pause_on' = TRUE /\ aout_abort' = FALSE
  /\ queued' = (IF opensles THEN [i \in 1 .. OPENSLES_BUFFERS |-> i - 1] ELSE <<>>)
  /\ stream_index' = [stream_index EXCEPT !["audio"] = TRUE]
  /\ formats' = Formats /\ ReadTo("start")
  /\ openRest
  /\ UNCHANGED <<next_buffer, dec_at, context, avctx, node_vdec, aborted, abort_request, pause_req,
                 paused, initialized_decoder, toldVars>>

\* What fails once there is a device frees it.
no_buffer ==
  /\ read_at = "buffer" /\ "audio_buffer" \in Faults
  /\ Release("device") /\ TryAnother
  /\ aout_abort' = (aout_abort \/ opensles)
  /\ openRest
  /\ UNCHANGED <<dec_at, outVars, avctx, node_vdec, stream_index, aborted, abort_request,
                 pauseVars, initialized_decoder, toldVars>>

await_decoder ==
  /\ read_at = "node" /\ (async_init => initialized_decoder)
  /\ IF async_init /\ node_vdec THEN ReadTo("config") ELSE ReadTo("open_node")
  /\ appRest /\ UNCHANGED <<dec_at, outVars, ownVars, flagVars>>

\* Mutant: the node that was not configured is not freed.
MutConfigVideoDecoder ==
  /\ read_at = "config"
  /\ avctx' = [avctx EXCEPT !["video"] = TRUE]
  /\ \/ ReadTo("start")
     \/ "mediacodec" \in Faults /\ ReadTo("open_node")
  /\ appRest
  /\ UNCHANGED <<dec_at, outVars, life, context, node_vdec, stream_index, flagVars>>

\* A node that cannot be configured is freed there, and another takes its place.
config_video_decoder ==
  /\ read_at = "config"
  /\ avctx' = [avctx EXCEPT !["video"] = TRUE]
  /\ \/ ReadTo("start") /\ UNCHANGED life
     \/ "mediacodec" \in Faults /\ Release("node") /\ ReadTo("open_node")
  /\ appRest /\ UNCHANGED <<dec_at, outVars, context, node_vdec, stream_index, flagVars>>

open_video_decoder ==
  /\ read_at = "open_node"
  /\ avctx' = [avctx EXCEPT !["video"] = TRUE]
  /\ Acquire("node") /\ node_vdec' = TRUE
  /\ ReadTo("start")
  /\ appRest /\ UNCHANGED <<dec_at, outVars, context, stream_index, flagVars>>

\* packet_queue_start forgets an abort that came while the stream was being opened.
decoder_start ==
  /\ read_at = "start"
  /\ avctx' = [avctx EXCEPT ![Opening] = TRUE]
  /\ stream_index' = [stream_index EXCEPT ![Opening] = TRUE]
  /\ aborted' = [aborted EXCEPT ![Opening] = FALSE]
  /\ dec_at' = [dec_at EXCEPT ![Opening] = "running"]
  /\ IF Opening = "audio" THEN aout_pause_audio(FALSE) ELSE UNCHANGED pause_on
  /\ OpenNext
  /\ appRest
  /\ UNCHANGED <<outVars, life, context, node_vdec, abort_request, pause_req, paused, aout_abort,
                 initialized_decoder, toldVars>>

opened_none ==
  /\ read_at = "component" /\ opening > Len(Order)
  /\ ~stream_index["audio"] /\ ~stream_index["video"]
  /\ ReadTo("fail")
  /\ appRest /\ UNCHANGED <<dec_at, outVars, ownVars, flagVars>>

opened_some ==
  /\ read_at = "component" /\ opening > Len(Order)
  /\ stream_index["audio"] \/ stream_index["video"]
  /\ IF auto_start THEN UNCHANGED <<pause_req, paused, pause_on>> ELSE toggle_pause(TRUE)
  /\ prepared' = TRUE /\ notify("prepared")
  /\ ReadTo(IF auto_start THEN "loop" ELSE "wait_start")
  /\ appRest
  /\ UNCHANGED <<dec_at, outVars, ownVars, aborted, abort_request, aout_abort,
                 initialized_decoder, muted>>

wait_start ==
  /\ read_at = "wait_start" /\ (~pause_req \/ abort_request)
  /\ ReadTo("loop")
  /\ appRest /\ UNCHANGED <<dec_at, outVars, ownVars, flagVars>>

read_loop_ends ==
  /\ read_at = "loop" /\ abort_request
  /\ ReadTo("fail")
  /\ appRest /\ UNCHANGED <<dec_at, outVars, ownVars, flagVars>>

\* Mutant: the end of the read thread is told as an error, wanted or not.
MutReadThreadEnds ==
  /\ read_at = "fail"
  /\ notify("error")
  /\ ReadTo("ended")
  /\ appRest
  /\ UNCHANGED <<dec_at, outVars, ownVars, aborted, abort_request, pauseVars, aout_abort,
                 initialized_decoder, prepared, muted>>

read_thread_ends ==
  /\ read_at = "fail"
  /\ IF ~prepared \/ ~abort_request THEN notify("error") ELSE UNCHANGED told
  /\ ReadTo("ended")
  /\ appRest
  /\ UNCHANGED <<dec_at, outVars, ownVars, aborted, abort_request, pauseVars, aout_abort,
                 initialized_decoder, prepared, muted>>

ReadThread ==
  \/ avformat_open_input \/ find_stream_info \/ interrupted \/ skip_stream \/ no_decoder
  \/ avcodec_open \/ new_device \/ start_output \/ no_buffer \/ await_decoder \/ config_video_decoder \/ open_video_decoder
  \/ decoder_start \/ opened_none \/ opened_some \/ wait_start \/ read_loop_ends
  \/ read_thread_ends
-----------------------------------------------------------------------------
(***************************************************************************)
(* The threads that play: decoders, audio output, refresh.                 *)
(***************************************************************************)
playRest == UNCHANGED <<optionVars, app_at, closing, read_at, opening, formats, context, avctx,
                        node_vdec, stream_index, flagVars>>
DecoderTo(s, at) == dec_at' = [dec_at EXCEPT ![s] = at]

decoder_waits(s) ==
  /\ dec_at[s] = "running" /\ ~aborted[s]
  /\ \E at \in {"no_packet", "no_room"} : DecoderTo(s, at)
  /\ playRest /\ UNCHANGED <<refresh_at, outVars, life>>

decoder_ends(s) ==
  /\ dec_at[s] = "running" /\ aborted[s]
  /\ DecoderTo(s, "ended")
  /\ playRest /\ UNCHANGED <<refresh_at, outVars, life>>

\* A packet comes.
feed(s) ==
  /\ read_at = "loop" /\ dec_at[s] = "no_packet"
  /\ DecoderTo(s, "running")
  /\ playRest /\ UNCHANGED <<refresh_at, outVars, life>>

\* A frame is taken by the callback or the refresh thread and leaves room.
consume(s) ==
  /\ dec_at[s] = "no_room"
  /\ IF s = "audio" THEN aout_at = "callback" ELSE refresh_at = "running"
  /\ DecoderTo(s, "running")
  /\ playRest /\ UNCHANGED <<refresh_at, outVars, life>>

AoutTo(at) == aout_at' = at
aoutRest == playRest /\ UNCHANGED <<dec_at, refresh_at>>

Full == opensles /\ Len(queued) >= OPENSLES_BUFFERS
Waits == pause_on \/ Full

\* The wait has a timeout.  One that ends with the abort plays once more.
aout_waits ==
  /\ aout_at = "loop" /\ ~aout_abort
  /\ AoutTo(IF Waits THEN "paused" ELSE "callback")
  /\ aoutRest /\ UNCHANGED <<queued, next_buffer, life>>

aout_resumes ==
  /\ aout_at = "paused" /\ (~Waits \/ aout_abort)
  /\ AoutTo("callback")
  /\ aoutRest /\ UNCHANGED <<queued, next_buffer, life>>

audio_decode_frame ==
  /\ aout_at = "callback" /\ ~aborted["audio"] /\ ~paused
  /\ AoutTo("no_frame")
  /\ aoutRest /\ UNCHANGED <<queued, next_buffer, life>>

frame_comes ==
  /\ aout_at = "no_frame" /\ dec_at["audio"] = "running"
  /\ AoutTo("callback")
  /\ aoutRest /\ UNCHANGED <<queued, next_buffer, life>>

\* There is something to play, if only silence.  With render_wait_start the callback keeps it.
sdl_audio_callback ==
  /\ aout_at = "callback"
  /\ AoutTo("write") \/ (~auto_start /\ AoutTo("held"))
  /\ aoutRest /\ UNCHANGED <<queued, next_buffer, life>>

held_until_start ==
  /\ aout_at = "held" /\ (~pause_req \/ abort_request)
  /\ AoutTo("write")
  /\ aoutRest /\ UNCHANGED <<queued, next_buffer, life>>

write_track ==
  /\ aout_at = "write" /\ ~opensles
  /\ AoutTo("loop")
  /\ aoutRest /\ UNCHANGED <<queued, next_buffer, life>>

\* What was decoded before a seek asks for a flush.  A queue that is full just takes no more; one
\* that fails ends the thread.
enqueue ==
  /\ aout_at = "write" /\ opensles
  /\ next_buffer' = (next_buffer + 1) % OPENSLES_BUFFERS
  /\ \E flushed \in BOOLEAN :
       LET left == IF flushed THEN <<>> ELSE queued IN
       \/ AoutTo("loop") /\ queued' = (IF Len(left) < OPENSLES_BUFFERS THEN Append(left, next_buffer) ELSE left)
       \/ "enqueue" \in Faults /\ AoutTo("ended") /\ queued' = left
  /\ aoutRest /\ UNCHANGED life

plays ==
  /\ queued # <<>> /\ ~pause_on
  /\ queued' = Tail(queued)
  /\ aoutRest /\ UNCHANGED <<aout_at, next_buffer, life>>

\* The thread of an AudioTrack frees it.
aout_ends ==
  /\ aout_at = "loop" /\ aout_abort
  /\ AoutTo("ended")
  /\ IF opensles THEN UNCHANGED life ELSE Release("device")
  /\ aoutRest /\ UNCHANGED <<queued, next_buffer>>

refresh_ends ==
  /\ refresh_at = "running" /\ abort_request
  /\ refresh_at' = "ended"
  /\ playRest /\ UNCHANGED <<dec_at, outVars, life>>

Output ==
  \/ aout_waits \/ aout_resumes \/ audio_decode_frame \/ frame_comes \/ sdl_audio_callback
  \/ held_until_start \/ write_track \/ enqueue \/ plays \/ aout_ends

Playing ==
  \/ \E s \in Streams : decoder_waits(s) \/ decoder_ends(s) \/ feed(s) \/ consume(s)
  \/ Output \/ refresh_ends
-----------------------------------------------------------------------------
(***************************************************************************)
(* start, and then shutdown and destroy: ffp_stop_l, stream_close and      *)
(* ffp_destroy.                                                            *)
(***************************************************************************)
appOnly == UNCHANGED <<optionVars, read_at, opening, formats, refresh_at>>

start ==
  /\ app_at = "opened" /\ prepared /\ pause_req
  /\ toggle_pause(FALSE)
  /\ appOnly
  /\ UNCHANGED <<app_at, closing, dec_at, outVars, ownVars, aborted, abort_request, aout_abort,
                 initialized_decoder, toldVars>>

\* ffp_set_stream_selected, once the application knows the streams.
deselect(s) ==
  /\ app_at = "opened" /\ prepared /\ stream_index[s]
  /\ \E n \in DOMAIN Order : Order[n] = s /\ closing' = n
  /\ AppTo("component")
  /\ appOnly /\ UNCHANGED <<dec_at, outVars, ownVars, flagVars>>

stop ==
  /\ app_at = "opened"
  /\ abort_request' = TRUE /\ toggle_pause(TRUE)
  /\ AppTo("stopping")
  /\ appOnly
  /\ UNCHANGED <<closing, dec_at, outVars, ownVars, aborted, aout_abort, initialized_decoder,
                 toldVars>>

msg_queue_abort ==
  /\ app_at = "stopping"
  /\ muted' = TRUE
  /\ AppTo("stopped")
  /\ appOnly
  /\ UNCHANGED <<closing, dec_at, outVars, ownVars, aborted, abort_request, pauseVars, aout_abort,
                 initialized_decoder, prepared, told>>

\* packet_queue_abort wakes a decoder that waits for a packet.
Woken(at) == IF at = "no_packet" THEN "running" ELSE at

stream_close ==
  /\ app_at = "stopped"
  /\ abort_request' = TRUE
  /\ aborted' = [aborted EXCEPT !["video"] = TRUE, !["audio"] = TRUE]
  /\ dec_at' = [s \in Streams |-> IF s = "subtitle" THEN dec_at[s] ELSE Woken(dec_at[s])]
  /\ AppTo("join_reader")
  /\ appOnly
  /\ UNCHANGED <<closing, outVars, ownVars, pauseVars, aout_abort, initialized_decoder,
                 toldVars>>

join_read_thread ==
  /\ app_at = "join_reader" /\ read_at = "ended"
  /\ AppTo("component")
  /\ appOnly /\ UNCHANGED <<closing, dec_at, outVars, ownVars, flagVars>>

Closing == Order[closing]

\* Mutant: the abort at the beginning of stream_close is taken to be enough.
MutDecoderAbort ==
  /\ app_at = "component" /\ closing <= Len(Order) /\ stream_index[Closing]
  /\ dec_at' = [dec_at EXCEPT ![Closing] = IF @ = "no_room" THEN "running" ELSE Woken(@)]
  /\ aout_at' = IF Closing = "audio" /\ aout_at = "no_frame" THEN "callback" ELSE aout_at
  /\ AppTo("join_decoder")
  /\ appOnly /\ UNCHANGED <<closing, queued, next_buffer, ownVars, flagVars>>

\* packet_queue_abort, and frame_queue_signal for a decoder or a callback at the ring.
decoder_abort ==
  /\ app_at = "component" /\ closing <= Len(Order) /\ stream_index[Closing]
  /\ aborted' = [aborted EXCEPT ![Closing] = TRUE]
  /\ dec_at' = [dec_at EXCEPT ![Closing] = IF @ = "no_room" THEN "running" ELSE Woken(@)]
  /\ aout_at' = IF Closing = "audio" /\ aout_at = "no_frame" THEN "callback" ELSE aout_at
  /\ AppTo("join_decoder")
  /\ appOnly
  /\ UNCHANGED <<closing, queued, next_buffer, ownVars, abort_request, pauseVars, aout_abort,
                 initialized_decoder, toldVars>>

not_opened ==
  /\ app_at = "component" /\ closing <= Len(Order) /\ ~stream_index[Closing]
  /\ closing' = closing + 1
  /\ appOnly /\ UNCHANGED <<app_at, dec_at, outVars, ownVars, flagVars>>

\* Mutant: the output goes on while the decoder it plays is destroyed.
MutJoinDecoder ==
  /\ app_at = "join_decoder" /\ dec_at[Closing] = "ended"
  /\ AppTo("destroy_decoder")
  /\ appOnly /\ UNCHANGED <<closing, dec_at, outVars, ownVars, flagVars>>

join_decoder ==
  /\ app_at = "join_decoder" /\ dec_at[Closing] = "ended"
  /\ AppTo(IF Closing = "audio" THEN "close_device" ELSE "destroy_decoder")
  /\ appOnly /\ UNCHANGED <<closing, dec_at, outVars, ownVars, flagVars>>

\* aout_close_audio: once to close the stream, once more when the output is freed.
aout_close_audio ==
  /\ app_at \in {"close_device", "output"}
  /\ aout_abort' = TRUE
  /\ AppTo(IF app_at = "output" THEN "join_output" ELSE "join_device")
  /\ appOnly
  /\ UNCHANGED <<closing, dec_at, outVars, ownVars, aborted, abort_request, pauseVars,
                 initialized_decoder, toldVars>>

\* An OpenSLES player goes with its buffers.
join_device ==
  /\ app_at = "join_device" /\ aout_at = "ended"
  /\ IF opensles THEN Drop({"device", "buffer"}) /\ queued' = <<>> /\ next_buffer' = 0
     ELSE UNCHANGED <<life, queued, next_buffer>>
  /\ AppTo("destroy_decoder")
  /\ appOnly
  /\ UNCHANGED <<closing, dec_at, aout_at, context, avctx, node_vdec, stream_index, flagVars>>

\* A stream that is not wanted any more is closed while the others play.
decoder_destroy ==
  /\ app_at = "destroy_decoder"
  /\ context' = [context EXCEPT ![Closing] = IF avctx[Closing] THEN Freed(@) ELSE @]
  /\ avctx' = [avctx EXCEPT ![Closing] = FALSE]
  /\ stream_index' = [stream_index EXCEPT ![Closing] = FALSE]
  /\ closing' = IF abort_request THEN closing + 1 ELSE 1
  /\ AppTo(IF abort_request THEN "component" ELSE "opened")
  /\ appOnly
  /\ UNCHANGED <<dec_at, outVars, life, node_vdec, flagVars>>

avformat_close_input ==
  /\ app_at = "component" /\ closing > Len(Order)
  /\ IF life["input"] = "none" THEN UNCHANGED life ELSE Release("input")
  /\ AppTo("join_refresh")
  /\ appOnly
  /\ UNCHANGED <<closing, dec_at, outVars, context, avctx, node_vdec, stream_index, flagVars>>

join_refresh_thread ==
  /\ app_at = "join_refresh" /\ refresh_at = "ended"
  /\ Release("state")
  /\ AppTo("output")
  /\ appOnly
  /\ UNCHANGED <<closing, dec_at, outVars, context, avctx, node_vdec, stream_index, flagVars>>

\* SDL_AoutFreeP: the thread of an output that was closed is NULL and not waited for.
ffp_destroy ==
  /\ app_at \in {"join_output", "no_output"}
  /\ Drop({"output", "buffer"} \cup IF node_vdec THEN {"node"} ELSE {})
  /\ node_vdec' = FALSE
  /\ AppTo("gone")
  /\ appOnly
  /\ UNCHANGED <<closing, dec_at, outVars, context, avctx, stream_index, flagVars>>

AppOpens == open_audio_output \/ stream_open \/ start_read_thread \/ init_decoder
AppCloses ==
  \/ msg_queue_abort \/ stream_close \/ join_read_thread \/ decoder_abort \/ not_opened
  \/ join_decoder
  \/ aout_close_audio \/ join_device \/ decoder_destroy \/ avformat_close_input
  \/ join_refresh_thread \/ ffp_destroy

Next == AppOpens \/ start \/ stop \/ (\E s \in Selected : deselect(s)) \/ AppCloses \/ ReadThread \/ Playing

\* Threads go on as long as they can.  The network answers, the application starts and
\* stops, and frames come and go, only if they do.
Spec ==
  /\ Init /\ [][Next]_vars
  /\ WF_vars(AppOpens) /\ WF_vars(AppCloses)
  /\ WF_vars(interrupted) /\ WF_vars(skip_stream \/ avcodec_open \/ new_device \/ start_output
       \/ await_decoder \/ config_video_decoder \/ open_video_decoder \/ decoder_start \/ opened_none
       \/ opened_some \/ wait_start \/ read_loop_ends \/ read_thread_ends)
  /\ \A s \in Streams : WF_vars(decoder_ends(s))
  /\ WF_vars(aout_waits) /\ WF_vars(aout_resumes) /\ WF_vars(sdl_audio_callback)
  /\ WF_vars(held_until_start) /\ WF_vars(write_track \/ enqueue) /\ WF_vars(aout_ends)
  /\ WF_vars(refresh_ends)
-----------------------------------------------------------------------------
(***************************************************************************)
(* Properties.                                                             *)
(***************************************************************************)
Decoding(s) == dec_at[s] \in {"running", "no_packet", "no_room"}
InCallback == aout_at \in {"callback", "no_frame", "held"}

\* No thread runs on what has been released: every join in stream_close comes before the
\* release of what the joined thread uses, whatever had been opened when the player was
\* stopped (stream_component_close, stream_close, ffp_destroy; the callback uses the
\* resampler, which goes with the decoder of the stream).
HeldWhileRunning ==
  /\ refresh_at = "running" => life["state"] = "live"
  /\ read_at \notin {"none", "ended"} => life["state"] = "live"
  /\ read_at \in {"component", "device", "node", "config", "open_node", "start", "loop"}
       => life["input"] = "live"
  /\ read_at = "loop" /\ stream_index["video"] => node_vdec /\ life["node"] = "live"
  /\ \A s \in Streams : Decoding(s) => life["state"] = "live" /\ context[s] = "live"
  /\ Decoding("video") => life["node"] = "live"
  /\ aout_at \notin {"none", "ended"} => life["output"] = "live" /\ life["device"] = "live"
  /\ InCallback => /\ life["state"] = "live" /\ context["audio"] = "live"
                   /\ life["buffer"] = "live"
                   /\ opensles /\ ~aout_abort => \A i \in DOMAIN queued : queued[i] # next_buffer

\* Nothing is released twice or lost for another, and when the player is gone nothing is
\* left, neither memory nor a thread: the failing paths of stream_component_open and of the
\* MediaCodec node release just what stream_close and ffp_destroy do not find.  One is left: the
\* context of a subtitle stream that was opened and is not wanted (stream_component_open).
ReleasedOnce ==
  /\ \A t \in Things : life[t] \notin {"twice", "lost"}
  /\ \A s \in Streams : context[s] # "twice"
  /\ app_at = "gone" =>
       /\ \A t \in Things : life[t] # "live"
       /\ \A s \in Streams : dec_at[s] \in {"none", "ended"}
                              /\ (context[s] = "live" => s = "subtitle" /\ ~subtitle)
       /\ {read_at, refresh_at, aout_at} \subseteq {"none", "ended"}

\* A preparation succeeds or fails, never both: a stop during the opening or after it does
\* not turn into an error (read_thread, fail).
ToldOnce == told # {"prepared", "error"}

\* A player that is stopped is gone in the end, wherever the read thread was and even if the
\* network never answers: every wait of stream_close ends.
CloseEnds == app_at = "stopping" ~> app_at = "gone"
=============================================================================
