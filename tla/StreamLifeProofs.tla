-------------------------- MODULE StreamLifeProofs --------------------------
(***************************************************************************)
(* What holds of StreamLife for any files, faults, formats and number of   *)
(* buffers.  Where the application's thread is says which threads still    *)
(* run (Course).  A stream is ahead, being opened, open or closed, and     *)
(* that says what it owns (StreamsFit); so it is for the VideoState and    *)
(* the output, the input, the device and its buffer, and the node of the   *)
(* video decoder (PlayerFits, InputFits, SoundFits, NodeFits).  The        *)
(* buffers an OpenSLES player has are the last ones filled (RingFits).     *)
(***************************************************************************)
EXTENDS StreamLife, TLAPS

Place == [s \in Streams |-> IF s = "audio" THEN 1 ELSE IF s = "video" THEN 2 ELSE 3]

-----------------------------------------------------------------------------
(* The parts of the inductive invariant.                                   *)

OpeningAt == {"device", "buffer", "node", "config", "open_node", "start"}
ClosingAt == {"component", "join_decoder", "close_device", "join_device", "destroy_decoder"}
LateAt    == {"join_refresh", "output", "join_output"}
EarlyAt   == {"idle", "created", "no_output"}

\* The application's thread, and which other threads there can be.
Course ==
  /\ app_at \notin ClosingAt \cup LateAt \cup {"gone"} => closing = 1
  /\ app_at \in LateAt => closing = 4 /\ abort_request
  /\ app_at \in {"join_decoder", "close_device", "join_device", "destroy_decoder"}
       => closing <= 3 /\ \A s \in Streams : Place[s] = closing => stream_index[s]
  /\ app_at \in {"close_device", "join_device"} => closing = 1
  /\ app_at \in EarlyAt \cup {"refreshing", "reading", "opened"} => ~abort_request
  /\ app_at \in {"stopping", "stopped", "join_reader"} => abort_request
  /\ app_at \in ClosingAt /\ ~abort_request =>
       closing <= 3 /\ (\A s \in Streams : Place[s] = closing => stream_index[s]) /\ prepared
  /\ app_at \in EarlyAt => refresh_at = "none"
  /\ app_at \in {"output", "join_output"} => refresh_at = "ended"
  /\ app_at \in EarlyAt \cup {"refreshing"} => read_at = "none"
  /\ app_at \in ClosingAt \cup LateAt /\ abort_request => read_at = "ended"
  /\ app_at \in ClosingAt \cup LateAt /\ abort_request =>
       \A s \in Streams : Place[s] < closing => ~stream_index[s]
  /\ app_at = "gone" => /\ {read_at, refresh_at} \subseteq {"none", "ended"}
                        /\ \A s \in Streams : ~stream_index[s]
  /\ prepared => read_at \in {"wait_start", "loop", "fail", "ended"}
  /\ prepared /\ ~abort_request => read_at \in {"wait_start", "loop"}
  /\ read_at = "component" \/ opening <= 3 \/ read_at \in {"wait_start", "loop", "fail", "ended"}
  /\ read_at \in {"device", "buffer"} => opening = 1
  /\ read_at \in {"node", "config", "open_node"} => opening = 2
  /\ read_at \in {"none", "input", "info"} => opening = 1

Busy(s) == read_at \in OpeningAt /\ opening = Place[s]
Ahead(s) == Place[s] > opening \/ (Place[s] = opening /\ read_at \notin OpeningAt)

\* A stream and its thread.
StreamFits(s) ==
  /\ context[s] \in {"none", "live", "freed"}
  /\ Ahead(s) => context[s] = "none" /\ ~avctx[s] /\ ~stream_index[s] /\ dec_at[s] = "none"
  /\ Busy(s) => context[s] = "live" /\ dec_at[s] = "none"
  /\ Busy(s) /\ read_at \in {"device", "buffer"} => ~avctx[s] /\ ~stream_index[s]
  /\ avctx[s] => context[s] = "live"
  /\ stream_index[s] => context[s] = "live"
  /\ ~Busy(s) /\ stream_index[s] => avctx[s]
  /\ ~Busy(s) /\ context[s] = "live" => stream_index[s] \/ (s = "subtitle" /\ ~subtitle)
  /\ Decoding(s) => stream_index[s]
  /\ app_at \in {"close_device", "join_device", "destroy_decoder"} /\ closing = Place[s]
       => dec_at[s] = "ended"

StreamsFit == \A s \in Streams : StreamFits(s)

Sounding == aout_at \notin {"none", "ended"}

Early == EarlyAt \cup {"refreshing", "reading"}
Known == {"none", "live", "freed"}

\* The VideoState and the output: the first and the last of all.
PlayerFits ==
  /\ life["state"] \in Known /\ life["output"] \in Known
  /\ app_at \in EarlyAt => life["state"] = "none"
  /\ app_at \notin EarlyAt \cup {"output", "join_output", "gone"} => life["state"] = "live"
  /\ app_at \in {"output", "join_output"} => life["state"] = "freed"
  /\ app_at = "idle" => life["output"] = "none"
  /\ app_at \notin {"idle", "no_output", "gone"} => life["output"] = "live"
  /\ app_at = "no_output" => life["output"] = "none"
  /\ app_at = "gone" => life["state"] # "live" /\ life["output"] # "live"

InputFits ==
  /\ life["input"] \in Known
  /\ read_at \in {"none", "input"} => life["input"] = "none"
  /\ read_at \notin {"none", "input", "fail", "ended"} => life["input"] = "live"
  /\ app_at \notin LateAt \cup {"gone"} => life["input"] \in {"none", "live"}
  /\ app_at \in LateAt \cup {"gone"} => life["input"] # "live"

\* The AudioTrack or OpenSLES player and its buffer.
SoundFits ==
  /\ life["device"] \in Known /\ life["buffer"] \in Known
  /\ life["device"] = "live" => read_at = "buffer" \/ stream_index["audio"]
  /\ read_at = "buffer" => life["device"] = "live"
  /\ read_at = "device" => life["device"] # "live"
  /\ Ahead("audio") \/ read_at \in {"device", "buffer"} =>
       aout_at = "none" /\ life["buffer"] = "none" /\ ~stream_index["audio"] /\ next_buffer = 0
  /\ Ahead("audio") => life["device"] = "none"
  /\ app_at = "destroy_decoder" /\ closing = 1 => life["device"] # "live"
  /\ Sounding => /\ life["device"] = "live" /\ life["buffer"] = "live" /\ stream_index["audio"]
                 /\ ~(app_at = "destroy_decoder" /\ closing = 1)
  /\ life["device"] = "live" /\ ~opensles => Sounding \/ read_at = "buffer"
  /\ app_at = "gone" => life["device"] # "live" /\ life["buffer"] # "live"

\* The node of the video decoder, made ahead (async_init) or by the read thread.
NodeFits ==
  /\ life["node"] \in Known
  /\ life["node"] = "live" => node_vdec
  /\ node_vdec /\ read_at # "open_node" => life["node"] = "live"
  /\ read_at = "open_node" => life["node"] # "live"
  /\ app_at \in Early /\ async_init => ~node_vdec /\ life["node"] = "none"
  /\ app_at \in Early => ~initialized_decoder
  /\ async_init /\ ~initialized_decoder => read_at \notin {"config", "open_node"}
                                            /\ (read_at = "start" => opening # 2)
  /\ ~async_init /\ (Ahead("video") \/ read_at = "node") => ~node_vdec
  /\ read_at = "config" => node_vdec
  /\ stream_index["video"] /\ read_at \notin {"node", "open_node"} => node_vdec
  /\ read_at = "start" /\ opening = 2 => node_vdec
  /\ app_at = "gone" => ~node_vdec

\* The buffers that are queued are the ones filled last, in their order.
Queued == Len(queued)
RingFits ==
  opensles /\ ~aout_abort /\ Sounding =>
    /\ Queued <= OPENSLES_BUFFERS
    /\ \A i \in 1 .. Queued :
         queued[i] = IF i > Queued - next_buffer THEN next_buffer - (Queued - i) - 1
                     ELSE next_buffer - (Queued - i) - 1 + OPENSLES_BUFFERS
    /\ aout_at \in {"callback", "no_frame", "held", "write"} => Queued < OPENSLES_BUFFERS

Told ==
  /\ "prepared" \in told => prepared
  /\ "error" \in told => read_at = "ended" /\ ~("prepared" \in told)

-----------------------------------------------------------------------------
(* Types.                                                                  *)

LEMMA OrderIs ==
  /\ Len(Order) = 3
  /\ \A k \in 1 .. 3 : Order[k] \in Streams /\ Place[Order[k]] = k
  /\ \A s \in Streams : Place[s] \in 1 .. 3 /\ Order[Place[s]] = s
<1>1. Len(Order) = 3 /\ Order[1] = "audio" /\ Order[2] = "video" /\ Order[3] = "subtitle"
  BY DEF Order
<1>2. Place["audio"] = 1 /\ Place["video"] = 2 /\ Place["subtitle"] = 3
  BY DEF Place, Streams
<1>3. \A k \in 1 .. 3 : k = 1 \/ k = 2 \/ k = 3
  OBVIOUS
<1> QED
  BY <1>1, <1>2, <1>3 DEF Streams

LEMMA AppendIs ==
  ASSUME NEW S, NEW s \in Seq(S), NEW x \in S
  PROVE  Append(s, x) \in Seq(S)
OBVIOUS

LEMMA TailIs ==
  ASSUME NEW S, NEW s \in Seq(S), s # <<>>
  PROVE  Tail(s) \in Seq(S)
OBVIOUS

LEMMA AcquireIs ==
  ASSUME life \in [Things -> Life], NEW t \in Things, Acquire(t)
  PROVE  /\ life' \in [Things -> Life]
         /\ \A u \in Things : u # t => life'[u] = life[u]
         /\ life[t] # "live" => life'[t] = "live"
BY DEF Acquire, Life

LEMMA ReleaseIs ==
  ASSUME life \in [Things -> Life], NEW t \in Things, Release(t)
  PROVE  /\ life' \in [Things -> Life]
         /\ \A u \in Things : u # t => life'[u] = life[u]
         /\ life[t] = "live" => life'[t] = "freed"
BY DEF Release, Freed, Life

LEMMA DropIs ==
  ASSUME life \in [Things -> Life], NEW ts, Drop(ts)
  PROVE  /\ life' \in [Things -> Life]
         /\ \A u \in Things : life'[u] = IF u \in ts /\ life[u] = "live" THEN "freed" ELSE life[u]
BY DEF Drop, Life

LEMMA AppTypes ==
  ASSUME TypeOK, Course, AppOpens \/ start \/ stop \/ (\E s \in Selected : deselect(s)) \/ AppCloses
  PROVE  TypeOK'
<1> USE DEF vars, optionVars, threadVars, ownVars, pauseVars, toldVars, flagVars, outVars, AppTo, appOnly
<1>1. CASE open_audio_output
  <2>1. life' \in [Things -> Life]
    BY <1>1, AcquireIs DEF open_audio_output, CreateForAudioTrack, CreateForOpenSLES, TypeOK, Things
  <2>2. app_at' \in AppAt
    BY <1>1 DEF open_audio_output, CreateForAudioTrack, CreateForOpenSLES, AppAt
  <2> QED
    BY <1>1, <2>1, <2>2 DEF open_audio_output, TypeOK
<1>2. CASE stream_open
  <2>1. life' \in [Things -> Life]
    BY <1>2, AcquireIs DEF stream_open, TypeOK, Things
  <2> QED
    BY <1>2, <2>1 DEF stream_open, TypeOK, AppAt
<1>3. CASE start_read_thread
  BY <1>3 DEF start_read_thread, TypeOK, AppAt, ReadAt
<1>4. CASE init_decoder
  <2>1. life' \in [Things -> Life]
    BY <1>4, AcquireIs DEF init_decoder, TypeOK, Things
  <2>2. node_vdec' \in BOOLEAN
    BY <1>4 DEF init_decoder, TypeOK
  <2> QED
    BY <1>4, <2>1, <2>2 DEF init_decoder, TypeOK, AppAt
<1>5. CASE start
  BY ZenonT(30), <1>5 DEF start, toggle_pause, aout_pause_audio, TypeOK
<1>6. CASE stop
  BY <1>6 DEF stop, toggle_pause, aout_pause_audio, TypeOK, AppAt
<1>7. ASSUME NEW s \in Selected, deselect(s) PROVE TypeOK'
  <2>1. closing' \in 1 .. 4
    BY <1>7, OrderIs DEF deselect, Order
  <2> QED
    BY <1>7, <2>1 DEF deselect, TypeOK, AppAt
<1>8. CASE msg_queue_abort
  BY <1>8 DEF msg_queue_abort, TypeOK, AppAt
<1>9. CASE stream_close
  <2>1. dec_at' \in [Streams -> DecAt]
    BY <1>9 DEF stream_close, Woken, TypeOK, DecAt
  <2>2. aborted' \in [Streams -> BOOLEAN]
    BY <1>9 DEF stream_close, TypeOK
  <2>3. abort_request' \in BOOLEAN /\ app_at' \in AppAt
    BY <1>9 DEF stream_close, AppAt
  <2>4. UNCHANGED <<optionVars, read_at, opening, formats, refresh_at, closing, outVars, ownVars, pauseVars,
                    aout_abort, initialized_decoder, toldVars>>
    BY <1>9 DEF stream_close
  <2> QED
    BY <2>1, <2>2, <2>3, <2>4 DEF TypeOK
<1>10. CASE join_read_thread \/ join_decoder
  <2>1. app_at' \in AppAt
    BY <1>10 DEF join_read_thread, join_decoder, AppAt
  <2>2. UNCHANGED <<optionVars, threadVars, closing, ownVars, flagVars>>
    BY <1>10 DEF join_read_thread, join_decoder
  <2> QED
    BY <2>1, <2>2 DEF TypeOK
<1>11. CASE decoder_abort
  <2>1. dec_at' \in [Streams -> DecAt]
    BY <1>11 DEF decoder_abort, Woken, TypeOK, DecAt
  <2>2. aborted' \in [Streams -> BOOLEAN] /\ aout_at' \in AoutAt
    BY <1>11 DEF decoder_abort, TypeOK, AoutAt
  <2> QED
    BY <1>11, <2>1, <2>2 DEF decoder_abort, TypeOK, AppAt
<1>12. CASE not_opened
  <2>1. closing' \in 1 .. 4
    BY <1>12, OrderIs DEF not_opened, TypeOK
  <2> QED
    BY <1>12, <2>1 DEF not_opened, TypeOK
<1>13. CASE aout_close_audio
  BY <1>13 DEF aout_close_audio, TypeOK, AppAt
<1>14. CASE join_device
  <2>1. life' \in [Things -> Life]
    BY <1>14, DropIs DEF join_device, TypeOK
  <2>2. 0 \in Buffers /\ <<>> \in Seq(Buffers)
    BY BuffersAssumption DEF Buffers
  <2>3. queued' \in Seq(Buffers) /\ next_buffer' \in Buffers
    BY <1>14, <2>2 DEF join_device, TypeOK
  <2> QED
    BY <1>14, <2>1, <2>3 DEF join_device, TypeOK, AppAt
<1>15. CASE decoder_destroy
  <2>1. closing' \in 1 .. 4
    <3>1. closing \in 1 .. 3
      BY <1>15 DEF decoder_destroy, Course, TypeOK
    <3> QED
      BY <1>15, <3>1 DEF decoder_destroy
  <2>2. context' \in [Streams -> Life]
    BY <1>15 DEF decoder_destroy, TypeOK, Life, Freed
  <2>3. avctx' \in [Streams -> BOOLEAN] /\ stream_index' \in [Streams -> BOOLEAN]
    BY <1>15 DEF decoder_destroy, TypeOK
  <2>4. app_at' \in AppAt
    BY <1>15 DEF decoder_destroy, AppAt
  <2>5. UNCHANGED <<optionVars, threadVars, life, node_vdec, flagVars>>
    BY <1>15 DEF decoder_destroy
  <2> QED
    BY <2>1, <2>2, <2>3, <2>4, <2>5 DEF TypeOK
<1>16. CASE avformat_close_input
  <2>1. life' \in [Things -> Life]
    BY <1>16, ReleaseIs DEF avformat_close_input, TypeOK, Things
  <2> QED
    BY <1>16, <2>1 DEF avformat_close_input, TypeOK, AppAt
<1>17. CASE join_refresh_thread
  <2>1. life' \in [Things -> Life]
    BY <1>17, ReleaseIs DEF join_refresh_thread, TypeOK, Things
  <2> QED
    BY <1>17, <2>1 DEF join_refresh_thread, TypeOK, AppAt
<1>18. CASE ffp_destroy
  <2>1. life' \in [Things -> Life]
    BY <1>18, DropIs DEF ffp_destroy, TypeOK
  <2>2. node_vdec' \in BOOLEAN /\ app_at' \in AppAt
    BY <1>18 DEF ffp_destroy, AppAt
  <2>3. UNCHANGED <<optionVars, closing, threadVars, context, avctx, stream_index, flagVars>>
    BY <1>18 DEF ffp_destroy
  <2> QED
    BY <2>1, <2>2, <2>3 DEF TypeOK
<1> QED
  BY <1>1, <1>2, <1>3, <1>4, <1>5, <1>6, <1>7, <1>8, <1>9, <1>10, <1>11, <1>12, <1>13, <1>14, <1>15,
     <1>16, <1>17, <1>18 DEF AppOpens, AppCloses

\* What every step of the read thread leaves alone, and where it goes.
LEMMA ReadGoes ==
  ASSUME TypeOK, Course, ReadThread
  PROVE  /\ read_at' \in ReadAt /\ opening' \in 1 .. 4 /\ formats' \in 0 .. Formats
         /\ opening' = opening \/ (opening <= 3 /\ opening' = opening + 1 /\ read_at' = "component")
         /\ UNCHANGED <<optionVars, app_at, closing, refresh_at, next_buffer, abort_request, muted,
                         initialized_decoder>>
<1>1. UNCHANGED <<optionVars, app_at, closing, refresh_at, next_buffer, abort_request, muted,
                  initialized_decoder>>
  BY DEF ReadThread, avformat_open_input, find_stream_info, interrupted, skip_stream, no_decoder,
     avcodec_open, new_device, start_output, no_buffer, await_decoder, config_video_decoder, open_video_decoder,
     decoder_start, opened_none, opened_some, wait_start, read_loop_ends, read_thread_ends,
     openRest, appRest, flagVars, outVars, toldVars
<1>2. formats' = formats \/ formats' = Formats \/ (formats # 0 /\ formats' = formats - 1)
  BY DEF ReadThread, avformat_open_input, find_stream_info, interrupted, skip_stream, no_decoder,
     avcodec_open, new_device, start_output, no_buffer, await_decoder, config_video_decoder, open_video_decoder,
     decoder_start, opened_none, opened_some, wait_start, read_loop_ends, read_thread_ends,
     appRest, TryAnother
<1>3. \/ opening' = opening /\ read_at' \in ReadAt
      \/ opening <= 3 /\ opening' = opening + 1 /\ read_at' = "component"
  <2>1. CASE \/ avformat_open_input \/ find_stream_info \/ interrupted \/ await_decoder
             \/ config_video_decoder \/ open_video_decoder \/ start_output \/ opened_none
             \/ opened_some \/ wait_start \/ read_loop_ends \/ read_thread_ends
    BY <2>1 DEF avformat_open_input, find_stream_info, interrupted, await_decoder, config_video_decoder,
       open_video_decoder, start_output, opened_none, opened_some, wait_start, read_loop_ends,
       read_thread_ends, ReadTo, ReadAt
  <2>2. CASE skip_stream \/ no_decoder
    BY <2>2, OrderIs DEF skip_stream, no_decoder, OpenNext
  <2>3. CASE avcodec_open
    <3>1. opening \in 1 .. 3 /\ Opening \in Streams
      BY <2>3, OrderIs DEF avcodec_open, TypeOK, Opening
    <3>2. [audio |-> "device", video |-> "node", subtitle |-> "start"][Opening] \in {"device", "node", "start"}
      BY <3>1 DEF Streams
    <3> QED
      BY <2>3, <3>1, <3>2 DEF avcodec_open, OpenNext, ReadTo, ReadAt
  <2>4. CASE new_device \/ no_buffer
    BY <2>4 DEF new_device, no_buffer, TryAnother, OpenNext, ReadTo, ReadAt, Course
  <2>5. CASE decoder_start
    BY <2>5 DEF decoder_start, OpenNext, Course
  <2> QED
    BY <2>1, <2>2, <2>3, <2>4, <2>5 DEF ReadThread
<1>4. opening' \in 1 .. 4 /\ read_at' \in ReadAt
  BY <1>3 DEF TypeOK, ReadAt
<1>5. formats' \in 0 .. Formats
  BY <1>2, BuffersAssumption DEF TypeOK
<1>6. opening' = opening \/ (opening <= 3 /\ opening' = opening + 1 /\ read_at' = "component")
  BY <1>3
<1> QED
  BY <1>1, <1>4, <1>5, <1>6

LEMMA ReadTypes ==
  ASSUME TypeOK, Course, ReadThread
  PROVE  TypeOK'
<1> DEFINE Rest == /\ pause_req' \in BOOLEAN /\ paused' \in BOOLEAN /\ pause_on' \in BOOLEAN
                   /\ aout_abort' \in BOOLEAN /\ prepared' \in BOOLEAN
                   /\ told' \subseteq {"prepared", "error"}
           Own == /\ context' \in [Streams -> Life] /\ avctx' \in [Streams -> BOOLEAN]
                  /\ stream_index' \in [Streams -> BOOLEAN] /\ node_vdec' \in BOOLEAN
                  /\ life' \in [Things -> Life]
           Threads == /\ dec_at' \in [Streams -> DecAt] /\ aborted' \in [Streams -> BOOLEAN]
                      /\ aout_at' \in AoutAt /\ queued' \in Seq(Buffers)
<1>1. Rest
  <2>1. UNCHANGED <<pauseVars, aout_abort, prepared, told>> => Rest
    BY DEF TypeOK, pauseVars
  <2>2. CASE \/ avformat_open_input \/ find_stream_info \/ interrupted \/ skip_stream \/ no_decoder
             \/ avcodec_open \/ new_device \/ await_decoder \/ config_video_decoder \/ open_video_decoder
             \/ opened_none \/ wait_start \/ read_loop_ends
    BY <2>1, <2>2 DEF avformat_open_input, find_stream_info, interrupted, skip_stream, no_decoder, avcodec_open,
       new_device, await_decoder, config_video_decoder, open_video_decoder, opened_none, wait_start,
       read_loop_ends, flagVars, toldVars
  <2>3. CASE start_output \/ no_buffer \/ decoder_start
    BY <2>3 DEF start_output, no_buffer, decoder_start, aout_pause_audio, TypeOK, pauseVars, toldVars
  <2>4. CASE opened_some \/ read_thread_ends
    BY <2>4 DEF opened_some, read_thread_ends, toggle_pause, aout_pause_audio, notify, TypeOK, pauseVars, toldVars
  <2> QED
    BY <2>2, <2>3, <2>4 DEF ReadThread
<1>2. Threads
  <2>1. UNCHANGED <<dec_at, aborted, aout_at, queued>> => Threads
    BY DEF TypeOK
  <2>2. CASE \/ avformat_open_input \/ find_stream_info \/ interrupted \/ skip_stream \/ no_decoder
             \/ avcodec_open \/ new_device \/ no_buffer \/ await_decoder \/ config_video_decoder
             \/ open_video_decoder \/ opened_none \/ opened_some \/ wait_start \/ read_loop_ends
             \/ read_thread_ends
    BY <2>1, <2>2 DEF avformat_open_input, find_stream_info, interrupted, skip_stream, no_decoder, avcodec_open,
       new_device, no_buffer, await_decoder, config_video_decoder, open_video_decoder, opened_none, opened_some,
       wait_start, read_loop_ends, read_thread_ends, flagVars, outVars
  <2>3. CASE start_output
    <3>1. [i \in 1 .. OPENSLES_BUFFERS |-> i - 1] \in Seq(Buffers) /\ <<>> \in Seq(Buffers)
      BY BuffersAssumption DEF Buffers
    <3>2. queued' \in Seq(Buffers)
      BY <2>3, <3>1 DEF start_output
    <3> QED
      BY <2>3, <3>2 DEF start_output, TypeOK, AoutAt
  <2>4. CASE decoder_start
    BY <2>4 DEF decoder_start, TypeOK, DecAt, outVars
  <2> QED
    BY <2>2, <2>3, <2>4 DEF ReadThread
<1>3. Own
  <2>1. UNCHANGED <<context, avctx, stream_index, node_vdec, life>> => Own
    BY DEF TypeOK
  <2>2. CASE \/ find_stream_info \/ interrupted \/ skip_stream \/ await_decoder \/ opened_none
             \/ opened_some \/ wait_start \/ read_loop_ends \/ read_thread_ends
    BY <2>1, <2>2 DEF find_stream_info, interrupted, skip_stream, await_decoder, opened_none, opened_some,
       wait_start, read_loop_ends, read_thread_ends, ownVars
  <2>3. CASE avformat_open_input \/ start_output \/ open_video_decoder
    <3>1. life' \in [Things -> Life]
      BY <2>3, AcquireIs DEF avformat_open_input, start_output, open_video_decoder, TypeOK, Things
    <3>2. /\ context' = context
          /\ avctx' = avctx \/ avctx' = [avctx EXCEPT !["video"] = TRUE]
          /\ stream_index' = stream_index \/ stream_index' = [stream_index EXCEPT !["audio"] = TRUE]
          /\ node_vdec' = node_vdec \/ node_vdec' = TRUE
      BY <2>3 DEF avformat_open_input, start_output, open_video_decoder
    <3>3. avctx' \in [Streams -> BOOLEAN]
      BY <3>2 DEF TypeOK
    <3>4. stream_index' \in [Streams -> BOOLEAN]
      BY <3>2 DEF TypeOK
    <3>5. node_vdec' \in BOOLEAN
      BY <3>2 DEF TypeOK
    <3> QED
      BY <3>1, <3>2, <3>3, <3>4, <3>5 DEF TypeOK
  <2>4. CASE no_decoder \/ avcodec_open
    <3>1. context' \in [Streams -> Life] /\ UNCHANGED <<avctx, node_vdec, life>>
      BY <2>4 DEF no_decoder, avcodec_open, TypeOK, Life
    <3>2. stream_index' \in [Streams -> BOOLEAN]
      BY <2>4 DEF no_decoder, avcodec_open, TypeOK
    <3> QED
      BY <3>1, <3>2 DEF TypeOK
  <2>5. CASE new_device \/ no_buffer
    <3>1. life' \in [Things -> Life]
      BY <2>5, AcquireIs, ReleaseIs DEF new_device, no_buffer, TypeOK, Things
    <3>2. context' \in [Streams -> Life] /\ UNCHANGED <<avctx, node_vdec, stream_index>>
      BY <2>5 DEF new_device, no_buffer, TryAnother, TypeOK, Life, Freed
    <3> QED
      BY <3>1, <3>2 DEF TypeOK
  <2>6. CASE config_video_decoder
    <3>1. life' \in [Things -> Life]
      BY <2>6, ReleaseIs DEF config_video_decoder, TypeOK, Things
    <3> QED
      BY <2>6, <3>1 DEF config_video_decoder, TypeOK
  <2>7. CASE decoder_start
    BY <2>7 DEF decoder_start, TypeOK
  <2> QED
    BY <2>2, <2>3, <2>4, <2>5, <2>6, <2>7 DEF ReadThread
<1> QED
  BY <1>1, <1>2, <1>3, ReadGoes DEF TypeOK, optionVars

LEMMA PlayTypes ==
  ASSUME TypeOK, Playing
  PROVE  TypeOK'
<1>1. playRest
  BY DEF Playing, Output, decoder_waits, decoder_ends, feed, consume, refresh_ends, aoutRest, aout_waits,
     aout_resumes, audio_decode_frame, frame_comes, sdl_audio_callback, held_until_start, write_track, enqueue,
     plays, aout_ends
<1>2. refresh_at' \in {"none", "running", "ended"}
  BY DEF Playing, Output, decoder_waits, decoder_ends, feed, consume, refresh_ends, aoutRest, aout_waits,
     aout_resumes, audio_decode_frame, frame_comes, sdl_audio_callback, held_until_start, write_track, enqueue,
     plays, aout_ends, TypeOK
<1>3. dec_at' \in [Streams -> DecAt]
  <2>1. CASE \E s \in Streams, at \in DecAt : DecoderTo(s, at)
    BY <2>1 DEF DecoderTo, TypeOK
  <2>2. CASE dec_at' = dec_at
    BY <2>2 DEF TypeOK
  <2> QED
    BY <2>1, <2>2 DEF Playing, Output, decoder_waits, decoder_ends, feed, consume, refresh_ends, aoutRest, aout_waits,
       aout_resumes, audio_decode_frame, frame_comes, sdl_audio_callback, held_until_start, write_track,
       enqueue, plays, aout_ends, DecAt
<1>4. aout_at' \in AoutAt
  BY DEF Playing, Output, decoder_waits, decoder_ends, feed, consume, refresh_ends, outVars, AoutTo, aout_waits,
     aout_resumes, audio_decode_frame, frame_comes, sdl_audio_callback, held_until_start, write_track, enqueue,
     plays, aout_ends, TypeOK, AoutAt
<1>5. queued' \in Seq(Buffers) /\ next_buffer' \in Buffers
  <2>1. CASE UNCHANGED <<queued, next_buffer>>
    BY <2>1 DEF TypeOK
  <2>2. CASE plays
    BY <2>2, TailIs DEF plays, TypeOK
  <2>3. CASE enqueue
    <3>1. next_buffer' \in Buffers
      BY <2>3, BuffersAssumption DEF enqueue, TypeOK, Buffers
    <3>2. \E left \in {<<>>, queued} : queued' = left \/ queued' = Append(left, next_buffer)
      BY <2>3 DEF enqueue
    <3>3. queued \in Seq(Buffers) /\ <<>> \in Seq(Buffers) /\ next_buffer \in Buffers
      BY DEF TypeOK
    <3> QED
      BY <3>1, <3>2, <3>3, AppendIs
  <2> QED
    BY <2>1, <2>2, <2>3 DEF Playing, Output, decoder_waits, decoder_ends, feed, consume, refresh_ends, outVars,
       aout_waits, aout_resumes, audio_decode_frame, frame_comes, sdl_audio_callback, held_until_start,
       write_track, aout_ends
<1>6. life' \in [Things -> Life]
  <2>1. CASE life' = life
    BY <2>1 DEF TypeOK
  <2>2. CASE aout_ends
    BY <2>2, ReleaseIs DEF aout_ends, TypeOK, Things
  <2> QED
    BY <2>1, <2>2 DEF Playing, Output, decoder_waits, decoder_ends, feed, consume, refresh_ends,
       aout_waits, aout_resumes, audio_decode_frame, frame_comes, sdl_audio_callback, held_until_start,
       write_track, enqueue, plays
<1> QED
  BY <1>1, <1>2, <1>3, <1>4, <1>5, <1>6 DEF playRest, TypeOK, optionVars, flagVars, pauseVars, toldVars

LEMMA NextTypes ==
  ASSUME TypeOK, Course, [Next]_vars
  PROVE  TypeOK'
<1>1. CASE UNCHANGED vars
  BY <1>1 DEF vars, optionVars, threadVars, ownVars, pauseVars, toldVars, flagVars, outVars, TypeOK
<1> QED
  BY <1>1, AppTypes, ReadTypes, PlayTypes DEF Next

-----------------------------------------------------------------------------
(* Where the threads are.                                                  *)

LEMMA PlayRest ==
  ASSUME TypeOK, Playing
  PROVE  /\ playRest
         /\ \/ refresh_at' = refresh_at
            \/ refresh_at = "running" /\ refresh_at' = "ended" /\ abort_request
BY DEF Playing, Output, decoder_waits, decoder_ends, feed, consume, refresh_ends, aoutRest, aout_waits,
   aout_resumes, audio_decode_frame, frame_comes, sdl_audio_callback, held_until_start, write_track, enqueue,
   plays, aout_ends

LEMMA CoursePlay ==
  ASSUME TypeOK, Course, Playing
  PROVE  Course'
BY PlayRest DEF playRest, flagVars, toldVars, Course, TypeOK

LEMMA CourseRead ==
  ASSUME TypeOK, Course, ReadThread
  PROVE  Course'
<1>1. read_at \notin {"none", "ended"}
  BY DEF ReadThread, avformat_open_input, find_stream_info, interrupted, skip_stream, no_decoder, avcodec_open,
     new_device, start_output, no_buffer, await_decoder, config_video_decoder, open_video_decoder, decoder_start,
     opened_none, opened_some, wait_start, read_loop_ends, read_thread_ends
<1>2. /\ app_at \notin EarlyAt \cup LateAt \cup {"refreshing", "gone"}
      /\ app_at \in ClosingAt => ~abort_request
  BY <1>1 DEF Course, LateAt
<1>3. UNCHANGED <<app_at, closing, refresh_at, abort_request>>
  BY ReadGoes
<1>4. \A s \in Streams : stream_index[s] => stream_index'[s]
  <2>1. CASE stream_index' = stream_index
    BY <2>1
  <2>2. CASE \E s \in Streams : stream_index' = [stream_index EXCEPT ![s] = TRUE]
    BY <2>2 DEF TypeOK
  <2>3. CASE \E s \in Streams : stream_index' = [stream_index EXCEPT !["video"] = @ \/ s = "video"]
    BY <2>3 DEF TypeOK
  <2>4. read_at = "start" => Opening \in Streams
    BY OrderIs DEF Course, Opening, TypeOK
  <2>5. avcodec_open => Opening \in Streams
    BY OrderIs DEF avcodec_open, Opening, TypeOK
  <2> QED
    BY <2>1, <2>2, <2>3, <2>4, <2>5 DEF Streams, ReadThread, avformat_open_input, find_stream_info, interrupted,
       skip_stream, no_decoder, avcodec_open, new_device, start_output, no_buffer, await_decoder,
       config_video_decoder, open_video_decoder, decoder_start, opened_none, opened_some, wait_start,
       read_loop_ends, read_thread_ends, ownVars
<1>5. /\ prepared => prepared'
      /\ prepared' => read_at' \in {"wait_start", "loop", "fail", "ended"}
      /\ prepared' /\ ~abort_request => read_at' \in {"wait_start", "loop"}
  <2>1. CASE opened_some
    BY <2>1 DEF opened_some, ReadTo
  <2>2. CASE wait_start \/ read_loop_ends \/ read_thread_ends
    BY <2>2 DEF wait_start, read_loop_ends, read_thread_ends, ReadTo, flagVars, toldVars, Course
  <2>3. CASE prepared' = prepared /\ read_at \notin {"wait_start", "loop", "fail", "ended"}
    BY <2>3 DEF Course
  <2> QED
    BY <2>1, <2>2, <2>3 DEF ReadThread, avformat_open_input, find_stream_info, interrupted,
       skip_stream, no_decoder, avcodec_open, new_device, start_output, no_buffer, await_decoder,
       config_video_decoder, open_video_decoder, decoder_start, opened_none, flagVars, toldVars
<1>6. /\ read_at' = "component" \/ opening' <= 3 \/ read_at' \in {"wait_start", "loop", "fail", "ended"}
      /\ read_at' \in {"device", "buffer"} => opening' = 1
      /\ read_at' \in {"node", "config", "open_node"} => opening' = 2
      /\ read_at' \in {"none", "input", "info"} => opening' = 1
  <2>1. CASE avcodec_open
    <3>1. opening \in 1 .. 3 /\ Opening = Order[opening]
      BY <2>1, OrderIs DEF avcodec_open, Opening, TypeOK
    <3>2. read_at' \in {"component", "device", "node", "start"}
          /\ (read_at' = "component" \/ opening' = opening)
          /\ (read_at' = "device" => Opening = "audio") /\ (read_at' = "node" => Opening = "video")
      BY <2>1, <3>1, OrderIs DEF avcodec_open, OpenNext, ReadTo, Streams
    <3>3. (Opening = "audio" => opening = 1) /\ (Opening = "video" => opening = 2)
      BY <3>1, OrderIs DEF Place, Streams
    <3> QED
      BY <3>1, <3>2, <3>3
  <2>2. CASE opening' = opening /\ read_at' = read_at
    BY <2>2 DEF Course
  <2>3. CASE avformat_open_input \/ find_stream_info \/ interrupted
    BY <2>3 DEF avformat_open_input, find_stream_info, interrupted, ReadTo, Course
  <2>4. CASE read_at' = "component"
    BY <2>4
  <2>5. CASE \/ new_device \/ start_output \/ no_buffer \/ await_decoder \/ config_video_decoder
             \/ open_video_decoder
    BY <2>4, <2>5 DEF new_device, start_output, no_buffer, await_decoder, config_video_decoder,
       open_video_decoder, TryAnother, OpenNext, ReadTo, Course
  <2>6. CASE skip_stream \/ no_decoder \/ decoder_start
    BY <2>4, <2>6 DEF skip_stream, no_decoder, decoder_start, OpenNext
  <2>7. CASE opened_none \/ opened_some \/ wait_start \/ read_loop_ends \/ read_thread_ends
    BY <2>7 DEF opened_none, opened_some, wait_start, read_loop_ends, read_thread_ends, ReadTo
  <2> QED
    BY <2>1, <2>3, <2>5, <2>6, <2>7 DEF ReadThread
<1> QED
  BY <1>2, <1>3, <1>4, <1>5, <1>6 DEF Course, ClosingAt, LateAt, EarlyAt

LEMMA NothingOpened ==
  ASSUME TypeOK, Course, StreamsFit, read_at = "none"
  PROVE  \A s \in Streams : ~stream_index[s] /\ ~Busy(s) /\ ~Decoding(s)
<1>1. opening = 1 /\ \A s \in Streams : Place[s] \in 1 .. 3
  BY OrderIs DEF Course
<1>2. \A s \in Streams : Ahead(s)
  BY <1>1 DEF Ahead, OpeningAt
<1> QED
  BY <1>2 DEF StreamsFit, StreamFits, Busy, OpeningAt, Decoding

LEMMA CourseApp ==
  ASSUME TypeOK, Course, StreamsFit,
         AppOpens \/ start \/ stop \/ (\E s \in Selected : deselect(s)) \/ AppCloses
  PROVE  Course'
<1> USE DEF AppTo, ClosingAt, LateAt, EarlyAt
<1>1. CASE open_audio_output
  <2>1. app_at = "idle" /\ app_at' \in {"created", "no_output"} /\ closing' = closing
    BY <1>1 DEF open_audio_output, CreateForAudioTrack, CreateForOpenSLES
  <2>2. UNCHANGED <<read_at, refresh_at, prepared, opening, abort_request, stream_index>>
    BY <1>1 DEF open_audio_output, threadVars, flagVars, toldVars
  <2> QED
    BY <2>1, <2>2 DEF Course
<1>2. CASE stream_open
  <2>1. app_at = "created" /\ app_at' = "refreshing" /\ closing' = closing /\ refresh_at' = "running"
        /\ UNCHANGED <<read_at, prepared, opening, abort_request, stream_index>>
    BY <1>2 DEF stream_open, toldVars
  <2> QED
    BY <2>1 DEF Course
<1>3. CASE start_read_thread
  <2>1. app_at = "refreshing" /\ app_at' = "reading" /\ closing' = closing /\ read_at' = "input"
        /\ UNCHANGED <<refresh_at, prepared, opening, abort_request, stream_index>>
    BY <1>3 DEF start_read_thread, ownVars, flagVars, toldVars
  <2>2. ~prepared /\ opening = 1
    BY <2>1 DEF Course
  <2> QED
    BY <2>1, <2>2 DEF Course
<1>4. CASE init_decoder \/ start \/ stop \/ msg_queue_abort \/ stream_close
  <2>1. /\ app_at \in {"reading", "opened", "stopping", "stopped"} /\ closing' = closing
        /\ app_at' \in {"opened", "stopping", "stopped", "join_reader"}
        /\ (app_at' = "opened" => abort_request' = abort_request /\ app_at \in {"reading", "opened"})
        /\ (app_at' # "opened" => abort_request' = TRUE \/ (abort_request' = abort_request /\ app_at = "stopping"))
        /\ UNCHANGED <<read_at, refresh_at, prepared, opening, stream_index>>
    BY <1>4 DEF init_decoder, start, stop, msg_queue_abort, stream_close, appOnly, threadVars, ownVars, toldVars
  <2> QED
    BY <2>1 DEF Course
<1>5. ASSUME NEW s \in Selected, deselect(s) PROVE Course'
  <2>1. /\ app_at = "opened" /\ prepared /\ stream_index[s] /\ app_at' = "component"
        /\ closing' \in 1 .. 3 /\ Order[closing'] = s
        /\ UNCHANGED <<read_at, refresh_at, prepared, opening, abort_request, stream_index>>
    BY <1>5 DEF deselect, appOnly, ownVars, flagVars, toldVars, Order
  <2>2. \A t \in Streams : Place[t] = closing' => stream_index'[t]
    BY <2>1, OrderIs
  <2>3. ~abort_request
    BY <2>1 DEF Course
  <2> QED
    BY <2>1, <2>2, <2>3 DEF Course
<1>6. CASE join_read_thread
  <2>1. /\ app_at = "join_reader" /\ read_at = "ended" /\ app_at' = "component"
        /\ UNCHANGED <<closing, read_at, refresh_at, prepared, opening, abort_request, stream_index>>
    BY <1>6 DEF join_read_thread, appOnly, ownVars, flagVars, toldVars
  <2>2. closing = 1 /\ abort_request
    BY <2>1 DEF Course
  <2>3. \A s \in Streams : ~(Place[s] < closing)
    BY <2>2, OrderIs
  <2> QED
    BY <2>1, <2>2, <2>3 DEF Course
<1>7. CASE decoder_abort \/ join_decoder
  <2>1. /\ app_at \in {"component", "join_decoder"} /\ closing \in 1 .. 3
        /\ app_at' \in {"join_decoder", "close_device", "destroy_decoder"}
        /\ (app_at' = "close_device" => Order[closing] = "audio")
        /\ (app_at = "component" => stream_index[Order[closing]])
        /\ UNCHANGED <<closing, read_at, refresh_at, prepared, opening, abort_request, stream_index>>
    BY <1>7, OrderIs DEF decoder_abort, join_decoder, appOnly, ownVars, flagVars, toldVars, Closing, Course, TypeOK
  <2>2. app_at' = "close_device" => closing = 1
    BY <2>1, OrderIs DEF Place, Streams
  <2>3. \A s \in Streams : Place[s] = closing => stream_index[s]
    BY <2>1, OrderIs DEF Course
  <2> QED
    BY <2>1, <2>2, <2>3 DEF Course
<1>8. CASE not_opened
  <2>1. /\ app_at = "component" /\ closing \in 1 .. 3 /\ ~stream_index[Order[closing]]
        /\ closing' = closing + 1
        /\ UNCHANGED <<app_at, read_at, refresh_at, prepared, opening, abort_request, stream_index>>
    BY <1>8, OrderIs DEF not_opened, appOnly, ownVars, flagVars, toldVars, Closing, TypeOK
  <2>2. \A s \in Streams : Place[s] \in 1 .. 3 /\ (Place[s] = closing => ~stream_index[s])
    BY <2>1, OrderIs
  <2>3. abort_request
    BY <2>1, <2>2, OrderIs DEF Course
  <2>4. \A s \in Streams : Place[s] < closing' => ~stream_index[s]
    BY <2>1, <2>2, <2>3 DEF Course
  <2> QED
    BY <2>1, <2>3, <2>4 DEF Course
<1>9. CASE aout_close_audio
  <2>1. UNCHANGED <<closing, read_at, refresh_at, prepared, opening, abort_request, stream_index>>
    BY <1>9 DEF aout_close_audio, appOnly, ownVars, toldVars
  <2>2. CASE app_at = "close_device"
    BY <1>9, <2>1, <2>2 DEF aout_close_audio, Course
  <2>3. CASE app_at = "output"
    BY <1>9, <2>1, <2>3 DEF aout_close_audio, Course
  <2> QED
    BY <1>9, <2>2, <2>3 DEF aout_close_audio
<1>10. CASE join_device
  <2>1. /\ app_at = "join_device" /\ app_at' = "destroy_decoder"
        /\ UNCHANGED <<closing, read_at, refresh_at, prepared, opening, abort_request, stream_index>>
    BY <1>10 DEF join_device, appOnly, flagVars, toldVars
  <2> QED
    BY <2>1 DEF Course
<1>11. CASE decoder_destroy
  <2>1. /\ app_at = "destroy_decoder" /\ closing \in 1 .. 3
        /\ stream_index' = [stream_index EXCEPT ![Order[closing]] = FALSE]
        /\ closing' = (IF abort_request THEN closing + 1 ELSE 1)
        /\ app_at' = (IF abort_request THEN "component" ELSE "opened")
        /\ UNCHANGED <<read_at, refresh_at, prepared, opening, abort_request>>
    BY <1>11 DEF decoder_destroy, appOnly, flagVars, toldVars, Closing, Course, TypeOK
  <2>2. \A s \in Streams : Place[s] \in 1 .. 3
                            /\ (stream_index'[s] <=> stream_index[s] /\ Place[s] # closing)
    BY <2>1, OrderIs DEF TypeOK
  <2>3. CASE ~abort_request
    BY <2>1, <2>3 DEF Course
  <2>4. CASE abort_request
    <3>1. \A s \in Streams : Place[s] < closing' => ~stream_index'[s]
      BY <2>1, <2>2, <2>4 DEF Course
    <3> QED
      BY <2>1, <2>4, <3>1 DEF Course
  <2> QED
    BY <2>3, <2>4
<1>12. CASE avformat_close_input
  <2>1. /\ app_at = "component" /\ closing > 3 /\ app_at' = "join_refresh"
        /\ UNCHANGED <<closing, read_at, refresh_at, prepared, opening, abort_request, stream_index>>
    BY <1>12, OrderIs DEF avformat_close_input, appOnly, flagVars, toldVars
  <2>2. closing = 4 /\ abort_request
    BY <2>1 DEF Course, TypeOK
  <2> QED
    BY <2>1, <2>2 DEF Course
<1>13. CASE join_refresh_thread
  <2>1. /\ app_at = "join_refresh" /\ refresh_at = "ended" /\ app_at' = "output"
        /\ UNCHANGED <<closing, read_at, refresh_at, prepared, opening, abort_request, stream_index>>
    BY <1>13 DEF join_refresh_thread, appOnly, flagVars, toldVars
  <2> QED
    BY <2>1 DEF Course
<1>14. CASE ffp_destroy
  <2>1. /\ app_at \in {"join_output", "no_output"} /\ app_at' = "gone"
        /\ UNCHANGED <<closing, read_at, refresh_at, prepared, opening, abort_request, stream_index>>
    BY <1>14 DEF ffp_destroy, appOnly, flagVars, toldVars
  <2>2. CASE app_at = "no_output"
    <3>1. read_at = "none" /\ refresh_at = "none" /\ \A s \in Streams : ~stream_index[s]
      BY <2>2, NothingOpened DEF Course
    <3> QED
      BY <2>1, <2>2, <3>1 DEF Course
  <2>3. CASE app_at = "join_output"
    <3>1. read_at = "ended" /\ refresh_at = "ended" /\ closing = 4
      BY <2>3 DEF Course
    <3>2. \A s \in Streams : ~stream_index[s]
      BY <2>3, <3>1, OrderIs DEF Course
    <3> QED
      BY <2>1, <2>3, <3>1, <3>2 DEF Course
  <2> QED
    BY <2>1, <2>2, <2>3
<1> QED
  BY <1>1, <1>2, <1>3, <1>4, <1>5, <1>6, <1>7, <1>8, <1>9, <1>10, <1>11, <1>12, <1>13, <1>14 DEF AppOpens, AppCloses

LEMMA NextCourse ==
  ASSUME TypeOK, Course, StreamsFit, [Next]_vars
  PROVE  Course'
<1>1. CASE UNCHANGED vars
  BY <1>1 DEF vars, threadVars, ownVars, flagVars, toldVars, Course
<1> QED
  BY <1>1, CourseApp, CourseRead, CoursePlay DEF Next

-----------------------------------------------------------------------------
(* The streams.                                                            *)

\* A stream whose own state, and whose turn, a step does not change.
LEMMA Untouched ==
  ASSUME NEW s \in Streams, StreamFits(s), subtitle' = subtitle,
         context'[s] = context[s], avctx'[s] = avctx[s], stream_index'[s] = stream_index[s],
         dec_at'[s] = dec_at[s],
         Ahead(s)' <=> Ahead(s), Busy(s)' <=> Busy(s),
         Busy(s) /\ read_at' \in {"device", "buffer"} => read_at \in {"device", "buffer"},
         app_at' \in {"close_device", "join_device", "destroy_decoder"} /\ closing' = Place[s]
           => dec_at[s] = "ended"
  PROVE  StreamFits(s)'
BY DEF StreamFits, Decoding

LEMMA SamePlace ==
  ASSUME NEW s \in Streams, UNCHANGED <<read_at, opening>>
  PROVE  (Ahead(s)' <=> Ahead(s)) /\ (Busy(s)' <=> Busy(s))
BY DEF Ahead, Busy

LEMMA StreamsPlay ==
  ASSUME TypeOK, Course, StreamsFit, Playing
  PROVE  StreamsFit'
<1> SUFFICES ASSUME NEW s \in Streams PROVE StreamFits(s)'
  BY DEF StreamsFit
<1>1. StreamFits(s)
  BY DEF StreamsFit
<1>2. UNCHANGED <<subtitle, app_at, closing, read_at, opening, context, avctx, stream_index>>
  BY PlayRest DEF playRest, optionVars
<1>3. dec_at'[s] = dec_at[s] \/ (Decoding(s) /\ dec_at'[s] # "none")
  <2>1. CASE dec_at' = dec_at
    BY <2>1
  <2>2. CASE \E t \in Streams, at \in DecAt \ {"none"} : DecoderTo(t, at) /\ Decoding(t)
    BY <2>2 DEF DecoderTo, TypeOK
  <2> QED
    BY <2>1, <2>2 DEF Playing, Output, decoder_waits, decoder_ends, feed, consume, refresh_ends, aoutRest,
       aout_waits, aout_resumes, audio_decode_frame, frame_comes, sdl_audio_callback, held_until_start,
       write_track, enqueue, plays, aout_ends, Decoding, DecAt
<1>4. CASE dec_at'[s] = dec_at[s]
  BY <1>1, <1>2, <1>4, SamePlace, Untouched DEF StreamFits
<1>5. CASE Decoding(s) /\ dec_at'[s] # "none"
  <2>1. ~Ahead(s) /\ ~Busy(s) /\ stream_index[s]
        /\ ~(app_at \in {"close_device", "join_device", "destroy_decoder"} /\ closing = Place[s])
    BY <1>1, <1>5 DEF StreamFits, Decoding
  <2>2. ~Ahead(s)' /\ ~Busy(s)'
    BY <1>2, <2>1, SamePlace
  <2> QED
    BY <1>1, <1>2, <2>1, <2>2 DEF StreamFits
<1> QED
  BY <1>3, <1>4, <1>5

\* The read thread touches no stream but the one it opens.
LEMMA ReadElsewhere ==
  ASSUME TypeOK, Course, ReadThread, NEW s \in Streams, Place[s] # opening
  PROVE  /\ context'[s] = context[s] /\ avctx'[s] = avctx[s]
         /\ stream_index'[s] = stream_index[s] /\ dec_at'[s] = dec_at[s]
<1>1. /\ opening = 1 => s # "audio"
      /\ opening = 2 => s # "video"
      /\ opening <= 3 => s # Opening
  BY OrderIs DEF Place, Streams, Opening, TypeOK
<1>2. CASE \/ avformat_open_input \/ find_stream_info \/ interrupted \/ skip_stream \/ await_decoder
           \/ opened_none \/ opened_some \/ wait_start \/ read_loop_ends \/ read_thread_ends
  BY <1>2 DEF avformat_open_input, find_stream_info, interrupted, skip_stream, await_decoder, opened_none,
     opened_some, wait_start, read_loop_ends, read_thread_ends, ownVars
<1>3. CASE no_decoder
  BY <1>1, <1>3, OrderIs DEF no_decoder, TypeOK
<1>4. CASE avcodec_open
  <2>1. s # Opening /\ UNCHANGED <<avctx, dec_at>> /\ context' = [context EXCEPT ![Opening] = "live"]
        /\ stream_index' = [stream_index EXCEPT !["video"] = @ \/ Opening = "video"]
    BY <1>1, <1>4, OrderIs DEF avcodec_open
  <2>2. context'[s] = context[s]
    BY <2>1 DEF TypeOK
  <2>3. stream_index'[s] = stream_index[s]
    BY <2>1 DEF TypeOK
  <2> QED
    BY <2>1, <2>2, <2>3
<1>5. CASE new_device \/ no_buffer
  BY <1>1, <1>5 DEF new_device, no_buffer, TryAnother, Course, TypeOK
<1>6. CASE start_output
  BY <1>1, <1>6 DEF start_output, Course, TypeOK
<1>7. CASE config_video_decoder \/ open_video_decoder
  BY <1>1, <1>7 DEF config_video_decoder, open_video_decoder, Course, TypeOK
<1>8. CASE decoder_start
  BY <1>1, <1>8 DEF decoder_start, Course, TypeOK
<1> QED
  BY <1>2, <1>3, <1>4, <1>5, <1>6, <1>7, <1>8 DEF ReadThread

LEMMA StreamsRead ==
  ASSUME TypeOK, Course, StreamsFit, ReadThread
  PROVE  StreamsFit'
<1> SUFFICES ASSUME NEW s \in Streams PROVE StreamFits(s)'
  BY DEF StreamsFit
<1>1. StreamFits(s) /\ Place[s] \in 1 .. 3 /\ Order[Place[s]] = s
  BY OrderIs DEF StreamsFit
<1>2. UNCHANGED <<subtitle, app_at, closing>> /\ opening \in 1 .. 4
      /\ (opening' = opening \/ (opening' = opening + 1 /\ read_at' = "component"))
  BY ReadGoes DEF optionVars, TypeOK
<1>3. app_at' \in {"close_device", "join_device", "destroy_decoder"} /\ closing' = Place[s]
        => dec_at[s] = "ended"
  BY <1>1, <1>2 DEF StreamFits
<1>4. CASE Place[s] # opening
  <2>1. (Ahead(s)' <=> Ahead(s)) /\ ~Busy(s) /\ ~Busy(s)'
    BY <1>1, <1>2, <1>4 DEF Ahead, Busy, OpeningAt
  <2> QED
    BY <1>1, <1>2, <1>3, <1>4, <2>1, ReadElsewhere, Untouched
<1>5. CASE Place[s] = opening
  <2>1. s = Opening /\ opening <= 3
    BY <1>1, <1>5 DEF Opening
  <2>2. /\ opening = 1 <=> s = "audio"
        /\ opening = 2 <=> s = "video"
        /\ opening = 3 <=> s = "subtitle"
    BY <1>5 DEF Place, Streams
  <2>3. (Ahead(s) <=> read_at \notin OpeningAt) /\ (Busy(s) <=> read_at \in OpeningAt)
    BY <1>1, <1>5 DEF Ahead, Busy
  <2>4. opening' = opening => (Ahead(s)' <=> read_at' \notin OpeningAt) /\ (Busy(s)' <=> read_at' \in OpeningAt)
    BY <1>1, <1>5 DEF Ahead, Busy
  <2>5. opening' = opening + 1 => ~Ahead(s)' /\ ~Busy(s)'
    BY <1>1, <1>2, <1>5 DEF Ahead, Busy
  <2>6. CASE \/ avformat_open_input \/ find_stream_info \/ interrupted
             \/ opened_none \/ opened_some \/ wait_start \/ read_loop_ends \/ read_thread_ends
    <3>1. read_at' \notin OpeningAt /\ read_at \notin OpeningAt /\ opening' = opening
          /\ UNCHANGED <<context, avctx, stream_index, dec_at>>
      BY <2>6 DEF avformat_open_input, find_stream_info, interrupted, opened_none, opened_some, wait_start,
         read_loop_ends, read_thread_ends, ownVars, ReadTo, OpeningAt
    <3> QED
      BY <1>1, <1>2, <1>3, <2>3, <2>4, <3>1, Untouched
  <2>7. CASE skip_stream
    <3>1. opening' = opening + 1 /\ read_at = "component" /\ UNCHANGED <<context, avctx, stream_index, dec_at>>
      BY <2>7 DEF skip_stream, OpenNext, ownVars
    <3>2. Ahead(s)
      BY <2>3, <3>1 DEF OpeningAt
    <3> QED
      BY <1>1, <1>2, <1>3, <2>5, <3>1, <3>2 DEF StreamFits, Decoding
  <2>8. CASE no_decoder
    <3>1. opening' = opening + 1 /\ read_at = "component" /\ UNCHANGED <<avctx, stream_index, dec_at>>
          /\ context' = [context EXCEPT ![s] = "freed"]
      BY <2>1, <2>8 DEF no_decoder, OpenNext
    <3>2. Ahead(s) /\ context'[s] = "freed"
      BY <2>3, <3>1 DEF OpeningAt, TypeOK
    <3> QED
      BY <1>1, <1>2, <1>3, <2>5, <3>1, <3>2 DEF StreamFits, Decoding
  <2>9. CASE avcodec_open
    <3>1. /\ read_at = "component" /\ UNCHANGED <<avctx, dec_at>> /\ context'[s] = "live"
      BY <2>1, <2>9 DEF avcodec_open, TypeOK
    <3>2. Ahead(s)
      BY <2>3, <3>1 DEF OpeningAt
    <3>3. context[s] = "none" /\ ~avctx'[s] /\ ~stream_index[s] /\ dec_at'[s] = "none"
      BY <1>1, <3>1, <3>2 DEF StreamFits
    <3>4. CASE s = "subtitle" /\ ~subtitle
      <4>1. opening' = opening + 1 /\ stream_index'[s] = stream_index[s]
        BY <2>1, <2>9, <3>4 DEF avcodec_open, OpenNext, TypeOK
      <4> QED
        BY <1>2, <1>3, <2>5, <3>1, <3>3, <3>4, <4>1 DEF StreamFits, Decoding
    <3>5. CASE ~(s = "subtitle" /\ ~subtitle)
      <4>1. opening' = opening /\ read_at' = [audio |-> "device", video |-> "node", subtitle |-> "start"][s]
        BY <2>1, <2>9, <3>5 DEF avcodec_open, ReadTo
      <4>2. read_at' \in OpeningAt /\ (read_at' \in {"device", "buffer"} => s = "audio")
        BY <4>1 DEF Streams, OpeningAt
      <4>3. s = "audio" => stream_index'[s] = stream_index[s]
        BY <2>9 DEF avcodec_open, TypeOK
      <4> QED
        BY <1>2, <1>3, <2>4, <3>1, <3>3, <4>1, <4>2, <4>3 DEF StreamFits, Decoding
    <3> QED
      BY <3>4, <3>5
  <2>10. CASE new_device \/ no_buffer
    <3>1. s = "audio" /\ read_at \in {"device", "buffer"} /\ UNCHANGED <<avctx, stream_index, dec_at>>
      BY <1>5, <2>2, <2>10 DEF new_device, no_buffer, Course
    <3>2. Busy(s) /\ context[s] = "live" /\ ~avctx[s] /\ ~stream_index[s] /\ dec_at[s] = "none"
      BY <1>1, <2>3, <3>1 DEF StreamFits, OpeningAt
    <3>3. CASE opening' = opening /\ read_at' \in {"device", "buffer"} /\ context' = context
      BY <1>2, <1>3, <2>4, <3>1, <3>2, <3>3 DEF StreamFits, OpeningAt, Decoding
    <3>4. CASE opening' = opening + 1 /\ context' = [context EXCEPT !["audio"] = Freed(@)]
      <4>1. context'[s] = "freed"
        BY <3>1, <3>2, <3>4 DEF Freed, TypeOK
      <4> QED
        BY <1>2, <1>3, <2>5, <3>1, <3>2, <3>4, <4>1 DEF StreamFits, Decoding
    <3> QED
      BY <2>10, <3>3, <3>4 DEF new_device, no_buffer, TryAnother, ReadTo, OpenNext
  <2>11. CASE start_output
    <3>1. s = "audio" /\ read_at = "buffer" /\ read_at' = "start" /\ opening' = opening
          /\ UNCHANGED <<avctx, context, dec_at>>
      BY <1>5, <2>2, <2>11 DEF start_output, ReadTo, Course
    <3> QED
      BY <1>1, <1>2, <1>3, <2>3, <2>4, <3>1 DEF StreamFits, OpeningAt, Decoding
  <2>12. CASE await_decoder \/ config_video_decoder \/ open_video_decoder
    <3>1. /\ s = "video" /\ read_at \in OpeningAt /\ read_at' \in OpeningAt \ {"device", "buffer"}
          /\ opening' = opening /\ UNCHANGED <<context, dec_at, stream_index>>
      BY <1>5, <2>2, <2>12 DEF await_decoder, config_video_decoder, open_video_decoder, ReadTo, Course,
         OpeningAt, ownVars
    <3> QED
      BY <1>1, <1>2, <1>3, <2>3, <2>4, <3>1 DEF StreamFits, Decoding
  <2>13. CASE decoder_start
    <3>1. /\ read_at = "start" /\ opening' = opening + 1 /\ context' = context
          /\ avctx'[s] = TRUE /\ stream_index'[s] = TRUE /\ dec_at'[s] = "running"
      BY <2>1, <2>13 DEF decoder_start, OpenNext, TypeOK
    <3>2. context[s] = "live" /\ dec_at[s] = "none"
      BY <1>1, <2>3, <3>1 DEF StreamFits, OpeningAt
    <3> QED
      BY <1>2, <1>3, <2>5, <3>1, <3>2 DEF StreamFits, Decoding
  <2> QED
    BY <2>6, <2>7, <2>8, <2>9, <2>10, <2>11, <2>12, <2>13 DEF ReadThread
<1> QED
  BY <1>4, <1>5

LEMMA StreamsApp ==
  ASSUME TypeOK, Course, StreamsFit,
         AppOpens \/ start \/ stop \/ (\E s \in Selected : deselect(s)) \/ AppCloses
  PROVE  StreamsFit'
<1> SUFFICES ASSUME NEW s \in Streams PROVE StreamFits(s)'
  BY DEF StreamsFit
<1> USE DEF AppTo
<1>1. StreamFits(s) /\ Place[s] \in 1 .. 3 /\ Order[Place[s]] = s
  BY OrderIs DEF StreamsFit
<1>2. CASE start_read_thread
  <2>1. /\ read_at = "none" /\ read_at' = "input" /\ app_at' = "reading"
        /\ UNCHANGED <<subtitle, opening, context, avctx, stream_index, dec_at>>
    BY <1>2 DEF start_read_thread, optionVars, ownVars, Course
  <2>2. (Ahead(s)' <=> Ahead(s)) /\ (Busy(s)' <=> Busy(s))
    BY <2>1 DEF Ahead, Busy, OpeningAt
  <2> QED
    BY <1>1, <2>1, <2>2, Untouched
<1>3. CASE AppOpens \/ start \/ stop \/ msg_queue_abort \/ join_read_thread \/ not_opened
           \/ avformat_close_input \/ join_refresh_thread \/ ffp_destroy
           \/ \E t \in Selected : deselect(t)
  <2>1. CASE ~start_read_thread
    <3>1. /\ UNCHANGED <<subtitle, read_at, opening, context, avctx, stream_index, dec_at>>
      BY <1>3, <2>1 DEF AppOpens, open_audio_output, stream_open, init_decoder, start, stop, deselect,
         msg_queue_abort, join_read_thread, not_opened, avformat_close_input, join_refresh_thread, ffp_destroy,
         appOnly, threadVars, optionVars, ownVars
    <3>2. app_at' \notin {"close_device", "join_device", "destroy_decoder"}
      BY <1>3, <2>1 DEF AppOpens, open_audio_output, CreateForAudioTrack, CreateForOpenSLES, stream_open,
         init_decoder, start, stop, deselect, msg_queue_abort, join_read_thread, not_opened,
         avformat_close_input, join_refresh_thread, ffp_destroy
    <3> QED
      BY <1>1, <3>1, <3>2, SamePlace, Untouched
  <2> QED
    BY <1>2, <2>1
<1>4. CASE stream_close
  <2>1. /\ UNCHANGED <<subtitle, read_at, opening, context, avctx, stream_index>> /\ app_at' = "join_reader"
        /\ dec_at'[s] = dec_at[s] \/ dec_at'[s] = Woken(dec_at[s])
    BY <1>4 DEF stream_close, appOnly, optionVars, ownVars
  <2>2. (Ahead(s)' <=> Ahead(s)) /\ (Busy(s)' <=> Busy(s))
    BY <2>1, SamePlace
  <2> QED
    BY <1>1, <2>1, <2>2 DEF StreamFits, Decoding, Woken
<1>5. CASE decoder_abort
  <2>1. /\ UNCHANGED <<subtitle, read_at, opening, context, avctx, stream_index>> /\ app_at' = "join_decoder"
        /\ dec_at' = [dec_at EXCEPT ![Closing] = IF @ = "no_room" THEN "running" ELSE Woken(@)]
    BY <1>5 DEF decoder_abort, appOnly, optionVars, ownVars
  <2>2. dec_at'[s] \in {dec_at[s], Woken(dec_at[s])} \/ (dec_at[s] = "no_room" /\ dec_at'[s] = "running")
    BY <2>1 DEF TypeOK
  <2>3. (Ahead(s)' <=> Ahead(s)) /\ (Busy(s)' <=> Busy(s))
    BY <2>1, SamePlace
  <2> QED
    BY <1>1, <2>1, <2>2, <2>3 DEF StreamFits, Decoding, Woken
<1>6. CASE join_decoder \/ aout_close_audio \/ join_device
  <2>1. UNCHANGED <<subtitle, read_at, opening, context, avctx, stream_index, dec_at, closing>>
    BY <1>6 DEF join_decoder, aout_close_audio, join_device, appOnly, optionVars, ownVars
  <2>2. closing = Place[s] /\ app_at' \in {"close_device", "join_device", "destroy_decoder"} => dec_at[s] = "ended"
    BY <1>1, <1>6 DEF join_decoder, aout_close_audio, join_device, StreamFits, Closing
  <2> QED
    BY <1>1, <2>1, <2>2, SamePlace, Untouched
<1>7. CASE decoder_destroy
  <2>1. /\ UNCHANGED <<subtitle, read_at, opening, dec_at>> /\ app_at = "destroy_decoder"
        /\ app_at' \in {"component", "opened"} /\ closing \in 1 .. 3
    BY <1>7 DEF decoder_destroy, appOnly, optionVars, Course, TypeOK
  <2>2. (Ahead(s)' <=> Ahead(s)) /\ (Busy(s)' <=> Busy(s))
    BY <2>1, SamePlace
  <2>3. CASE Place[s] # closing
    <3>1. Closing # s
      BY <2>1, <2>3, OrderIs DEF Closing
    <3>2. context'[s] = context[s] /\ avctx'[s] = avctx[s] /\ stream_index'[s] = stream_index[s]
      BY <1>7, <3>1 DEF decoder_destroy, TypeOK
    <3> QED
      BY <1>1, <2>1, <2>2, <3>2, Untouched
  <2>4. CASE Place[s] = closing
    <3>1. Closing = s
      BY <1>1, <2>4 DEF Closing
    <3>2. avctx'[s] = FALSE /\ stream_index'[s] = FALSE
          /\ context'[s] = IF avctx[s] THEN Freed(context[s]) ELSE context[s]
      BY <1>7, <3>1 DEF decoder_destroy, TypeOK
    <3>3. stream_index[s] /\ read_at \notin OpeningAt
      BY <2>1, <2>4 DEF Course, ClosingAt, OpeningAt
    <3>4. ~Busy(s) /\ ~Ahead(s) /\ avctx[s] /\ context[s] = "live" /\ dec_at[s] = "ended"
      BY <1>1, <2>1, <2>4, <3>3 DEF StreamFits, Busy
    <3> QED
      BY <2>1, <2>2, <3>2, <3>4 DEF StreamFits, Decoding, Freed
  <2> QED
    BY <2>3, <2>4
<1> QED
  BY <1>2, <1>3, <1>4, <1>5, <1>6, <1>7 DEF AppCloses

LEMMA NextStreams ==
  ASSUME TypeOK, Course, StreamsFit, [Next]_vars
  PROVE  StreamsFit'
<1>1. CASE UNCHANGED vars
  <2> SUFFICES ASSUME NEW s \in Streams PROVE StreamFits(s)'
    BY DEF StreamsFit
  <2>1. UNCHANGED <<subtitle, read_at, opening, context, avctx, stream_index, dec_at, app_at, closing>>
    BY <1>1 DEF vars, optionVars, threadVars, ownVars
  <2> QED
    BY <2>1, SamePlace, Untouched DEF StreamsFit, StreamFits
<1> QED
  BY <1>1, StreamsApp, StreamsRead, StreamsPlay DEF Next

-----------------------------------------------------------------------------
(* What is allocated and released, and where the threads go from where.    *)

LEMMA LifeMoves ==
  ASSUME TypeOK, [Next]_vars
  PROVE  /\ life'["state"] = life["state"] \/ stream_open \/ join_refresh_thread
         /\ life'["output"] = life["output"] \/ open_audio_output \/ ffp_destroy
         /\ life'["input"] = life["input"] \/ avformat_open_input \/ avformat_close_input
         /\ life'["device"] = life["device"] \/ new_device \/ no_buffer \/ join_device \/ aout_ends
         /\ life'["buffer"] = life["buffer"] \/ start_output \/ join_device \/ ffp_destroy
         /\ life'["node"] = life["node"] \/ init_decoder \/ config_video_decoder \/ open_video_decoder
              \/ ffp_destroy
<1> USE DEF Things
<1>1. CASE life' = life
  BY <1>1
<1>2. CASE open_audio_output
  <2>1. life' = life \/ Acquire("output")
    BY <1>2 DEF open_audio_output, CreateForAudioTrack, CreateForOpenSLES
  <2> QED
    BY <1>2, <2>1, AcquireIs DEF TypeOK
<1>3. CASE stream_open
  BY <1>3, AcquireIs DEF stream_open, TypeOK
<1>4. CASE init_decoder
  <2>1. life' = life \/ Acquire("node")
    BY <1>4 DEF init_decoder
  <2> QED
    BY <1>4, <2>1, AcquireIs DEF TypeOK
<1>5. CASE join_device
  <2>1. life' = life \/ Drop({"device", "buffer"})
    BY <1>5 DEF join_device
  <2> QED
    BY <1>5, <2>1, DropIs DEF TypeOK
<1>6. CASE avformat_close_input \/ join_refresh_thread
  <2>1. life' = life \/ (avformat_close_input /\ Release("input")) \/ (join_refresh_thread /\ Release("state"))
    BY <1>6 DEF avformat_close_input, join_refresh_thread
  <2> QED
    BY <2>1, ReleaseIs DEF TypeOK
<1>7. CASE ffp_destroy
  <2>1. \E ts \in SUBSET {"output", "buffer", "node"} : Drop(ts)
    BY <1>7 DEF ffp_destroy
  <2> QED
    BY <1>7, <2>1, DropIs DEF TypeOK
<1>8. CASE avformat_open_input \/ new_device \/ start_output \/ open_video_decoder
  <2>1. \/ life' = life
        \/ avformat_open_input /\ Acquire("input")
        \/ new_device /\ Acquire("device")
        \/ start_output /\ Acquire("buffer")
        \/ open_video_decoder /\ Acquire("node")
    BY <1>8 DEF avformat_open_input, new_device, start_output, open_video_decoder
  <2> QED
    BY <2>1, AcquireIs DEF TypeOK
<1>9. CASE no_buffer \/ config_video_decoder \/ aout_ends
  <2>1. \/ life' = life
        \/ no_buffer /\ Release("device")
        \/ config_video_decoder /\ Release("node")
        \/ aout_ends /\ Release("device")
    BY <1>9 DEF no_buffer, config_video_decoder, aout_ends
  <2> QED
    BY <2>1, ReleaseIs DEF TypeOK
<1>10. CASE UNCHANGED vars
  BY <1>1, <1>10 DEF vars, ownVars
<1>11. CASE start_read_thread \/ start \/ stop \/ (\E s \in Selected : deselect(s))
  BY <1>1, <1>11 DEF start_read_thread, start, stop, deselect, ownVars
<1>12. CASE \/ msg_queue_abort \/ stream_close \/ join_read_thread \/ decoder_abort \/ not_opened
            \/ join_decoder \/ aout_close_audio \/ decoder_destroy
  BY <1>1, <1>12 DEF msg_queue_abort, stream_close, join_read_thread, decoder_abort, not_opened, join_decoder,
     aout_close_audio, decoder_destroy, ownVars
<1>13. CASE \/ find_stream_info \/ interrupted \/ skip_stream \/ no_decoder \/ avcodec_open \/ await_decoder
            \/ decoder_start \/ opened_none \/ opened_some \/ wait_start \/ read_loop_ends \/ read_thread_ends
  BY <1>1, <1>13 DEF find_stream_info, interrupted, skip_stream, no_decoder, avcodec_open, await_decoder,
     decoder_start, opened_none, opened_some, wait_start, read_loop_ends, read_thread_ends, ownVars
<1>14. CASE Playing /\ ~aout_ends
  BY <1>1, <1>14 DEF Playing, Output, decoder_waits, decoder_ends, feed, consume, refresh_ends,
     aout_waits, aout_resumes, audio_decode_frame, frame_comes, sdl_audio_callback, held_until_start,
     write_track, enqueue, plays
<1> QED
  BY <1>2, <1>3, <1>4, <1>5, <1>6, <1>7, <1>8, <1>9, <1>10, <1>11, <1>12, <1>13, <1>14
     DEF Next, AppOpens, AppCloses, ReadThread

Middle == {"opened", "stopping", "stopped", "join_reader"} \cup ClosingAt

LEMMA AppMoves ==
  ASSUME TypeOK, [Next]_vars
  PROVE  \/ app_at' = app_at
         \/ open_audio_output \/ stream_open \/ join_refresh_thread \/ ffp_destroy
         \/ app_at = "refreshing" /\ app_at' = "reading"
         \/ app_at = "reading" /\ app_at' = "opened" /\ init_decoder
         \/ app_at \in Middle /\ app_at' \in Middle
         \/ app_at = "component" /\ app_at' = "join_refresh" /\ avformat_close_input
         \/ app_at = "output" /\ app_at' = "join_output"
<1> USE DEF AppTo, Middle, ClosingAt
<1>1. CASE UNCHANGED vars
  BY <1>1 DEF vars
<1>2. CASE AppOpens
  BY <1>2 DEF AppOpens, start_read_thread, init_decoder
<1>3. CASE start \/ stop \/ (\E s \in Selected : deselect(s))
  BY <1>3 DEF start, stop, deselect
<1>4. CASE AppCloses
  BY <1>4 DEF AppCloses, msg_queue_abort, stream_close, join_read_thread, decoder_abort, not_opened, join_decoder,
     aout_close_audio, join_device, decoder_destroy, avformat_close_input
<1>5. CASE ReadThread \/ Playing
  <2>1. app_at' = app_at
    BY <1>5 DEF ReadThread, avformat_open_input, find_stream_info, interrupted, skip_stream, no_decoder,
       avcodec_open, new_device, start_output, no_buffer, await_decoder, config_video_decoder,
       open_video_decoder, decoder_start, opened_none, opened_some, wait_start, read_loop_ends,
       read_thread_ends, openRest, appRest, PlayRest, playRest,
       Playing, Output, decoder_waits, decoder_ends, feed, consume, refresh_ends, aoutRest, aout_waits,
       aout_resumes, audio_decode_frame, frame_comes, sdl_audio_callback, held_until_start, write_track, enqueue,
       plays, aout_ends
  <2> QED
    BY <2>1
<1> QED
  BY <1>1, <1>2, <1>3, <1>4, <1>5 DEF Next

LEMMA ReadMoves ==
  ASSUME TypeOK, Course, [Next]_vars
  PROVE  \/ read_at' = read_at
         \/ start_read_thread
         \/ /\ ReadThread /\ read_at' \notin {"none", "input"}
            /\ \/ read_at' \in {"fail", "ended"}
               \/ avformat_open_input /\ Acquire("input")
               \/ read_at \notin {"none", "input", "fail", "ended"}
<1>1. CASE UNCHANGED vars
  BY <1>1 DEF vars, threadVars
<1>2. CASE AppOpens
  BY <1>2 DEF AppOpens, open_audio_output, stream_open, init_decoder, threadVars
<1>3. CASE start \/ stop \/ (\E s \in Selected : deselect(s))
  BY <1>3 DEF start, stop, deselect, appOnly
<1>4. CASE AppCloses
  BY <1>4 DEF AppCloses, msg_queue_abort, stream_close, join_read_thread, decoder_abort, not_opened, join_decoder,
     aout_close_audio, join_device, decoder_destroy, avformat_close_input, join_refresh_thread, ffp_destroy, appOnly
<1>5. CASE Playing
  BY <1>5, PlayRest DEF playRest
<1>6. CASE ReadThread
  <2>1. CASE avcodec_open
    <3>1. opening \in 1 .. 3 /\ Opening \in Streams
      BY <2>1, OrderIs DEF avcodec_open, TypeOK, Opening
    <3>2. [audio |-> "device", video |-> "node", subtitle |-> "start"][Opening] \in {"device", "node", "start"}
      BY <3>1 DEF Streams
    <3> QED
      BY <1>6, <2>1, <3>2 DEF avcodec_open, OpenNext, ReadTo
  <2>2. CASE ~avcodec_open
    BY <1>6, <2>2 DEF ReadThread, avformat_open_input, find_stream_info, interrupted, skip_stream, no_decoder,
       new_device, start_output, no_buffer, await_decoder, config_video_decoder, open_video_decoder,
       decoder_start, opened_none, opened_some, wait_start, read_loop_ends, read_thread_ends, TryAnother, OpenNext,
       ReadTo
  <2> QED
    BY <2>1, <2>2
<1> QED
  BY <1>1, <1>2, <1>3, <1>4, <1>5, <1>6 DEF Next

-----------------------------------------------------------------------------
(* The memory.                                                             *)

LEMMA NextPlayer ==
  ASSUME TypeOK, Course, PlayerFits, [Next]_vars
  PROVE  PlayerFits'
<1> USE DEF Things
<1>1. CASE open_audio_output
  <2>1. /\ app_at = "idle" /\ life'["state"] = life["state"]
        /\ \/ app_at' = "created" /\ Acquire("output")
           \/ app_at' = "no_output" /\ life' = life
    BY <1>1, LifeMoves DEF open_audio_output, CreateForAudioTrack, CreateForOpenSLES, AppTo, stream_open,
       join_refresh_thread
  <2>2. CASE app_at' = "created" /\ Acquire("output")
    BY <2>1, <2>2, AcquireIs DEF TypeOK, PlayerFits, EarlyAt, Known
  <2>3. CASE app_at' = "no_output" /\ life' = life
    BY <2>1, <2>3 DEF PlayerFits, EarlyAt
  <2> QED
    BY <2>1, <2>2, <2>3
<1>2. CASE stream_open
  <2>1. app_at = "created" /\ app_at' = "refreshing" /\ Acquire("state")
    BY <1>2 DEF stream_open, AppTo
  <2>2. life'["state"] = "live" /\ life'["output"] = life["output"]
    BY <2>1, AcquireIs DEF TypeOK, PlayerFits, EarlyAt
  <2> QED
    BY <2>1, <2>2 DEF PlayerFits, EarlyAt, Known
<1>3. CASE join_refresh_thread
  <2>1. app_at = "join_refresh" /\ app_at' = "output" /\ Release("state")
    BY <1>3 DEF join_refresh_thread, AppTo
  <2>2. life'["state"] = "freed" /\ life'["output"] = life["output"]
    BY <2>1, ReleaseIs DEF TypeOK, PlayerFits, EarlyAt
  <2> QED
    BY <2>1, <2>2 DEF PlayerFits, EarlyAt, Known
<1>4. CASE ffp_destroy
  <2>1. /\ app_at \in {"join_output", "no_output"} /\ app_at' = "gone"
        /\ Drop({"output", "buffer"} \cup IF node_vdec THEN {"node"} ELSE {})
    BY <1>4 DEF ffp_destroy, AppTo
  <2>2. /\ life'["state"] = life["state"]
        /\ life'["output"] = IF life["output"] = "live" THEN "freed" ELSE life["output"]
    BY <2>1, DropIs DEF TypeOK
  <2> QED
    BY <2>1, <2>2 DEF PlayerFits, EarlyAt, Known
<1>5. CASE ~open_audio_output /\ ~stream_open /\ ~join_refresh_thread /\ ~ffp_destroy
  <2>1. life'["state"] = life["state"] /\ life'["output"] = life["output"]
    BY <1>5, LifeMoves
  <2>2. \/ app_at' = app_at
        \/ {app_at, app_at'} \cap (EarlyAt \cup {"output", "join_output", "gone"}) = {}
        \/ app_at = "output" /\ app_at' = "join_output"
    BY <1>5, AppMoves DEF EarlyAt, Middle, ClosingAt
  <2> QED
    BY <2>1, <2>2 DEF PlayerFits, EarlyAt
<1> QED
  BY <1>1, <1>2, <1>3, <1>4, <1>5

LEMMA NextInput ==
  ASSUME TypeOK, Course, InputFits, [Next]_vars
  PROVE  InputFits'
<1> USE DEF Things
<1>1. CASE avformat_open_input
  <2>1. read_at = "input" /\ app_at' = app_at
    BY <1>1 DEF avformat_open_input, appRest, openRest
  <2>2. app_at \notin LateAt \cup {"gone"}
    BY <2>1 DEF Course, LateAt
  <2>3. \/ Acquire("input") /\ read_at' = "info"
        \/ life' = life /\ read_at' = "fail"
    BY <1>1 DEF avformat_open_input, ReadTo
  <2>4. life["input"] = "none"
    BY <2>1 DEF InputFits
  <2>5. \/ life'["input"] = "live" /\ read_at' = "info"
        \/ life'["input"] = "none" /\ read_at' = "fail"
    BY <2>3, <2>4, AcquireIs DEF TypeOK
  <2> QED
    BY <2>1, <2>2, <2>5 DEF InputFits, Known
<1>2. CASE avformat_close_input
  <2>1. app_at = "component" /\ closing > 3 /\ app_at' = "join_refresh" /\ read_at' = read_at
        /\ IF life["input"] = "none" THEN life' = life ELSE Release("input")
    BY <1>2, OrderIs DEF avformat_close_input, AppTo, appOnly
  <2>2. read_at = "ended" /\ life["input"] \in {"none", "live"}
    <3>1. app_at \in ClosingAt /\ abort_request
      BY <2>1 DEF Course, ClosingAt, TypeOK
    <3> QED
      BY <2>1, <3>1 DEF Course, InputFits, LateAt
  <2>3. life'["input"] \in {"none", "freed"}
    BY <2>1, <2>2, ReleaseIs DEF TypeOK
  <2> QED
    BY <2>1, <2>2, <2>3 DEF InputFits, Known, LateAt
<1>3. CASE start_read_thread
  <2>1. app_at' = "reading" /\ life' = life /\ read_at' = "input" /\ app_at = "refreshing"
    BY <1>3 DEF start_read_thread, AppTo, ownVars
  <2>2. read_at = "none"
    BY <2>1 DEF Course
  <2> QED
    BY <2>1, <2>2 DEF InputFits, LateAt, Known
<1>4. CASE ffp_destroy
  <2>1. /\ app_at \in {"join_output", "no_output"} /\ app_at' = "gone" /\ read_at' = read_at
    BY <1>4 DEF ffp_destroy, AppTo, appOnly
  <2>2. life'["input"] = life["input"]
    BY <2>1, LifeMoves DEF avformat_open_input, appRest, openRest, avformat_close_input
  <2>3. app_at = "no_output" => read_at = "none"
    BY DEF Course, EarlyAt
  <2> QED
    BY <2>1, <2>2, <2>3 DEF InputFits, LateAt
<1>5. CASE ~avformat_open_input /\ ~avformat_close_input /\ ~start_read_thread /\ ~ffp_destroy
  <2>1. life'["input"] = life["input"]
    BY <1>5, LifeMoves
  <2>2. (app_at' \in LateAt \cup {"gone"}) <=> (app_at \in LateAt \cup {"gone"})
    BY <1>5, AppMoves DEF Middle, ClosingAt, LateAt, join_refresh_thread, AppTo, open_audio_output,
       stream_open, CreateForAudioTrack, CreateForOpenSLES
  <2>3. \/ read_at' = read_at
        \/ read_at' \in {"fail", "ended"}
        \/ read_at \notin {"none", "input", "fail", "ended"} /\ read_at' \notin {"none", "input"}
    BY <1>5, ReadMoves
  <2> QED
    BY <2>1, <2>2, <2>3 DEF InputFits
<1> QED
  BY <1>1, <1>2, <1>3, <1>4, <1>5

\* Once a stream's turn has come it is not ahead any more.
LEMMA AheadShrinks ==
  ASSUME TypeOK, Course, [Next]_vars, NEW s \in Streams, Ahead(s)'
  PROVE  Ahead(s)
<1>1. CASE ReadThread
  <2>1. opening' = opening \/ opening' = opening + 1
    BY <1>1, ReadGoes
  <2>2. opening' = opening /\ read_at \in OpeningAt => read_at' \in OpeningAt
    <3>1. CASE \/ avformat_open_input \/ find_stream_info \/ interrupted \/ skip_stream \/ no_decoder
               \/ avcodec_open \/ opened_none \/ opened_some \/ wait_start \/ read_loop_ends \/ read_thread_ends
      BY <3>1 DEF avformat_open_input, find_stream_info, interrupted, skip_stream, no_decoder, avcodec_open,
         opened_none, opened_some, wait_start, read_loop_ends, read_thread_ends, OpeningAt
    <3>2. CASE new_device \/ start_output \/ no_buffer \/ decoder_start
      <4>1. OpenNext => opening' # opening
        BY DEF OpenNext, TypeOK
      <4>2. OpenNext \/ read_at' \in {"device", "buffer", "start"}
        BY <3>2 DEF new_device, start_output, no_buffer, decoder_start, TryAnother, ReadTo
      <4> QED
        BY <4>1, <4>2 DEF OpeningAt
    <3>3. CASE await_decoder \/ config_video_decoder \/ open_video_decoder
      BY <3>3 DEF await_decoder, config_video_decoder, open_video_decoder, ReadTo, OpeningAt
    <3> QED
      BY <1>1, <3>1, <3>2, <3>3 DEF ReadThread
  <2>3. Place[s] \in 1 .. 3
    BY OrderIs
  <2> QED
    BY <2>1, <2>2, <2>3 DEF Ahead, TypeOK
<1>2. CASE start_read_thread
  <2>1. read_at = "none" /\ opening' = opening
    BY <1>2 DEF start_read_thread, Course
  <2> QED
    BY <2>1 DEF Ahead, OpeningAt
<1>3. CASE ~ReadThread /\ ~start_read_thread
  <2>1. UNCHANGED <<read_at, opening>>
    BY <1>3, PlayRest DEF Next, vars, AppOpens, open_audio_output, stream_open, init_decoder, threadVars, start, stop,
       deselect, AppCloses, msg_queue_abort, stream_close, join_read_thread, decoder_abort, not_opened, join_decoder,
       aout_close_audio, join_device, decoder_destroy, avformat_close_input, join_refresh_thread, ffp_destroy,
       appOnly, playRest
  <2> QED
    BY <2>1, SamePlace
<1> QED
  BY <1>1, <1>2, <1>3

LEMMA SoundRead ==
  ASSUME TypeOK, Course, StreamsFit, SoundFits, ReadThread
  PROVE  SoundFits'
<1> USE DEF Things
<1>1. UNCHANGED <<opensles, app_at, closing, next_buffer>> /\ [Next]_vars
  BY ReadGoes DEF optionVars, Next
<1>2. app_at \notin LateAt \cup {"gone"} /\ (app_at \in ClosingAt => read_at \in {"wait_start", "loop"})
  <2>1. read_at \notin {"none", "ended"}
    BY DEF ReadThread, avformat_open_input, find_stream_info, interrupted, skip_stream, no_decoder, avcodec_open,
       new_device, start_output, no_buffer, await_decoder, config_video_decoder, open_video_decoder, decoder_start,
       opened_none, opened_some, wait_start, read_loop_ends, read_thread_ends
  <2> QED
    BY <2>1 DEF Course, LateAt
<1>3. Ahead("audio")' => Ahead("audio")
  BY <1>1, AheadShrinks DEF Streams
<1>4. Ahead("audio") <=> opening = 1 /\ read_at \notin OpeningAt
  <2>1. Place["audio"] = 1
    BY DEF Place, Streams
  <2> QED
    BY <2>1 DEF Ahead, TypeOK
<1>5. Ahead("audio")' <=> opening' = 1 /\ read_at' \notin OpeningAt
  <2>1. Place["audio"] = 1 /\ opening' \in 1 .. 4
    BY ReadGoes DEF Place, Streams
  <2> QED
    BY <2>1 DEF Ahead
<1>6. CASE new_device
  <2>1. read_at = "device" /\ aout_at' = aout_at /\ stream_index' = stream_index /\ opening = 1
    BY <1>6 DEF new_device, outVars, Course
  <2>2. \/ Acquire("device") /\ read_at' = "buffer" /\ opening' = opening
        \/ life' = life /\ read_at' \in {"component", "device"} /\ (opening' = opening => read_at' = "device")
    BY <1>6, <2>1 DEF new_device, TryAnother, ReadTo, OpenNext
  <2>3. life'["buffer"] = life["buffer"]
        /\ (\/ life'["device"] = "live" /\ read_at' = "buffer" /\ opening' = opening
            \/ life' = life /\ read_at' \in {"component", "device"} /\ (opening' = opening => read_at' = "device"))
    BY <2>1, <2>2, AcquireIs DEF TypeOK, SoundFits
  <2>4. ~Ahead("audio")'
    BY <1>5, <2>1, <2>3, ReadGoes DEF OpeningAt
  <2> QED
    BY <1>1, <1>2, <2>1, <2>3, <2>4 DEF SoundFits, Sounding, Known, ClosingAt
<1>7. CASE no_buffer
  <2>1. read_at = "buffer" /\ aout_at' = aout_at /\ stream_index' = stream_index /\ opening = 1
        /\ Release("device")
        /\ read_at' \in {"component", "device"} /\ (opening' = opening => read_at' = "device")
    BY <1>7 DEF no_buffer, outVars, Course, TryAnother, ReadTo, OpenNext
  <2>2. life'["buffer"] = life["buffer"] /\ life'["device"] = "freed"
    BY <2>1, ReleaseIs DEF TypeOK, SoundFits
  <2>3. ~Ahead("audio")'
    BY <1>5, <2>1, ReadGoes DEF OpeningAt
  <2> QED
    BY <1>1, <1>2, <2>1, <2>2, <2>3 DEF SoundFits, Sounding, Known
<1>8. CASE start_output
  <2>1. read_at = "buffer" /\ aout_at' = "loop" /\ stream_index' = [stream_index EXCEPT !["audio"] = TRUE]
        /\ Acquire("buffer") /\ read_at' = "start" /\ opening' = opening
    BY <1>8 DEF start_output, ReadTo
  <2>2. stream_index'["audio"]
    BY <2>1 DEF TypeOK, Streams
  <2>3. life'["device"] = life["device"] /\ life'["buffer"] = "live"
    BY <2>1, AcquireIs DEF TypeOK, SoundFits
  <2>4. ~Ahead("audio")'
    BY <1>5, <2>1 DEF OpeningAt
  <2> QED
    BY <1>1, <1>2, <2>1, <2>2, <2>3, <2>4 DEF SoundFits, Sounding, Known, ClosingAt
<1>9. CASE avcodec_open
  <2>1. read_at = "component" /\ opening \in 1 .. 3 /\ UNCHANGED <<life, aout_at>>
    BY <1>9, OrderIs DEF avcodec_open, outVars, TypeOK
  <2>2. stream_index'["audio"] = stream_index["audio"]
    BY <1>9 DEF avcodec_open, TypeOK, Streams
  <2>3. read_at' \in {"component", "device", "node", "start"} /\ (read_at' = "device" => opening = 1)
    <3>1. opening = 2 => Opening = "video"
      BY DEF Opening, Order
    <3>2. opening = 3 => Opening = "subtitle"
      BY DEF Opening, Order
    <3>3. opening = 1 => Opening = "audio"
      BY DEF Opening, Order
    <3> QED
      BY <1>9, <2>1, <3>1, <3>2, <3>3 DEF avcodec_open, ReadTo, OpenNext
  <2>4. read_at' = "device" => Ahead("audio")
    BY <1>4, <2>1, <2>3 DEF OpeningAt
  <2> QED
    BY <1>1, <1>2, <1>3, <2>1, <2>2, <2>3, <2>4 DEF SoundFits, Sounding
<1>10. CASE ~new_device /\ ~no_buffer /\ ~start_output /\ ~avcodec_open
  <2>1. aout_at' = aout_at /\ read_at \notin {"device", "buffer"} /\ read_at' \notin {"device", "buffer"}
    BY <1>10 DEF ReadThread, avformat_open_input, find_stream_info, interrupted, skip_stream, no_decoder,
       await_decoder, config_video_decoder, open_video_decoder, decoder_start, opened_none, opened_some, wait_start,
       read_loop_ends, read_thread_ends, OpenNext, ReadTo, outVars
  <2>2. life'["device"] = life["device"] /\ life'["buffer"] = life["buffer"]
    <3>1. ~join_device /\ ~aout_ends /\ ~ffp_destroy
      BY <1>1, <1>2, <2>1 DEF join_device, ffp_destroy, aout_ends, AppTo, AoutTo
    <3> QED
      BY <1>1, <1>10, <3>1, LifeMoves
  <2>3. stream_index'["audio"] = stream_index["audio"] \/ (stream_index'["audio"] /\ ~Ahead("audio"))
    <3>1. CASE decoder_start
      BY <1>4, <3>1 DEF decoder_start, TypeOK, OpeningAt, Streams
    <3>2. CASE ~decoder_start
      BY <1>10, <3>2 DEF ReadThread, avformat_open_input, find_stream_info, interrupted, skip_stream, no_decoder,
         await_decoder, config_video_decoder, open_video_decoder, opened_none, opened_some, wait_start,
         read_loop_ends, read_thread_ends, ownVars
    <3> QED
      BY <3>1, <3>2
  <2> QED
    BY <1>1, <1>2, <1>3, <2>1, <2>2, <2>3 DEF SoundFits, Sounding
<1> QED
  BY <1>6, <1>7, <1>8, <1>9, <1>10

LEMMA SoundPlay ==
  ASSUME TypeOK, Course, SoundFits, Playing
  PROVE  SoundFits'
<1> USE DEF Things
<1>1. UNCHANGED <<opensles, app_at, closing, read_at, opening, stream_index>>
  BY PlayRest DEF playRest, optionVars
<1>2. Ahead("audio")' <=> Ahead("audio")
  BY <1>1, SamePlace DEF Streams
<1>3. CASE aout_ends
  <2>1. /\ Sounding /\ aout_at' = "ended" /\ next_buffer' = next_buffer
        /\ IF opensles THEN life' = life ELSE Release("device")
    BY <1>3 DEF aout_ends, AoutTo, Sounding
  <2>2. life["device"] = "live" /\ read_at # "buffer"
    BY <2>1 DEF SoundFits, Sounding
  <2>3. life'["buffer"] = life["buffer"]
        /\ life'["device"] = IF opensles THEN "live" ELSE "freed"
    BY <2>1, <2>2, ReleaseIs DEF TypeOK
  <2> QED
    BY <1>1, <1>2, <2>1, <2>2, <2>3 DEF SoundFits, Sounding, Known
<1>4. CASE enqueue
  <2>1. /\ Sounding /\ opensles /\ life' = life /\ aout_at' \in {"loop", "ended"}
    BY <1>4 DEF enqueue, AoutTo, Sounding
  <2>2. ~Ahead("audio") /\ read_at \notin {"device", "buffer"}
    BY <2>1 DEF SoundFits, Sounding
  <2> QED
    BY <1>1, <1>2, <2>1, <2>2 DEF SoundFits, Sounding
<1>5. CASE ~aout_ends /\ ~enqueue
  <2>1. life' = life /\ next_buffer' = next_buffer
        /\ (aout_at' = aout_at \/ (Sounding /\ aout_at' \notin {"none", "ended"}))
    BY <1>5 DEF Playing, Output, decoder_waits, decoder_ends, feed, consume, refresh_ends, aoutRest,
       aout_waits, aout_resumes, audio_decode_frame, frame_comes, sdl_audio_callback, held_until_start,
       write_track, plays, Sounding, outVars, AoutTo
  <2> QED
    BY <1>1, <1>2, <2>1 DEF SoundFits, Sounding
<1> QED
  BY <1>3, <1>4, <1>5

LEMMA SoundApp ==
  ASSUME TypeOK, Course, StreamsFit, SoundFits,
         AppOpens \/ start \/ stop \/ (\E s \in Selected : deselect(s)) \/ AppCloses
  PROVE  SoundFits'
<1> USE DEF Things
<1>1. [Next]_vars /\ UNCHANGED opensles
  BY DEF Next, AppOpens, open_audio_output, stream_open, start_read_thread, init_decoder, start, stop, deselect,
     AppCloses, msg_queue_abort, stream_close, join_read_thread, decoder_abort, not_opened, join_decoder,
     aout_close_audio, join_device, decoder_destroy, avformat_close_input, join_refresh_thread, ffp_destroy,
     appOnly, optionVars
<1>2. Ahead("audio")' => Ahead("audio")
  BY <1>1, AheadShrinks DEF Streams
<1>3. read_at' = read_at \/ (read_at = "none" /\ read_at' = "input")
  BY DEF AppOpens, open_audio_output, stream_open, start_read_thread, init_decoder, start, stop, deselect,
     AppCloses, msg_queue_abort, stream_close, join_read_thread, decoder_abort, not_opened, join_decoder,
     aout_close_audio, join_device, decoder_destroy, avformat_close_input, join_refresh_thread, ffp_destroy,
     appOnly, threadVars, Course
<1>4. CASE join_device
  <2>1. /\ app_at = "join_device" /\ aout_at = "ended" /\ app_at' = "destroy_decoder"
        /\ UNCHANGED <<aout_at, stream_index>>
        /\ IF opensles THEN Drop({"device", "buffer"}) /\ next_buffer' = 0
           ELSE UNCHANGED <<life, next_buffer>>
    BY <1>4 DEF join_device, AppTo
  <2>2. ~Sounding /\ read_at # "buffer"
    BY <2>1 DEF Sounding, Course, ClosingAt, LateAt
  <2>3. /\ life'["device"] \in {life["device"], "freed"} /\ life'["device"] # "live"
        /\ life'["buffer"] \in {life["buffer"], "freed"} /\ (life["buffer"] = "none" => life'["buffer"] = "none")
        /\ (life["device"] = "none" => life'["device"] = "none")
    BY <2>1, <2>2, DropIs DEF TypeOK, SoundFits
  <2> QED
    BY <1>1, <1>2, <1>3, <2>1, <2>2, <2>3 DEF SoundFits, Sounding, Known
<1>5. CASE decoder_destroy
  <2>1. /\ app_at = "destroy_decoder" /\ app_at' \in {"component", "opened"}
        /\ stream_index' = [stream_index EXCEPT ![Closing] = FALSE]
        /\ UNCHANGED <<aout_at, next_buffer, life>> /\ closing \in 1 .. 3
    BY <1>5 DEF decoder_destroy, AppTo, outVars, Course, TypeOK
  <2>2. CASE closing = 1
    <3>1. life["device"] # "live" /\ ~Sounding /\ stream_index["audio"]
      BY <2>1, <2>2 DEF SoundFits, Course, Place, Streams
    <3>2. ~Ahead("audio") /\ read_at \notin {"device", "buffer"}
      BY <3>1 DEF SoundFits
    <3> QED
      BY <1>1, <1>2, <1>3, <2>1, <3>1, <3>2 DEF SoundFits, Sounding
  <2>3. CASE closing # 1
    <3>1. Closing # "audio"
      BY <2>1, <2>3 DEF Closing, Order
    <3>2. stream_index'["audio"] = stream_index["audio"]
      BY <2>1, <3>1 DEF TypeOK, Streams
    <3> QED
      BY <1>1, <1>2, <1>3, <2>1, <3>2 DEF SoundFits, Sounding
  <2> QED
    BY <2>2, <2>3
<1>6. CASE ffp_destroy
  <2>1. /\ app_at \in {"join_output", "no_output"} /\ app_at' = "gone"
        /\ UNCHANGED <<aout_at, next_buffer, stream_index>>
        /\ Drop({"output", "buffer"} \cup IF node_vdec THEN {"node"} ELSE {})
    BY <1>6 DEF ffp_destroy, AppTo, outVars
  <2>2. ~stream_index["audio"] /\ read_at # "buffer"
    <3>1. CASE app_at = "no_output"
      <4>1. read_at = "none"
        BY <3>1 DEF Course, EarlyAt
      <4> QED
        BY <4>1, NothingOpened DEF Streams
    <3>2. CASE app_at = "join_output"
      <4>1. closing = 4 /\ read_at = "ended" /\ Place["audio"] < 4 /\ abort_request
        BY <3>2 DEF Course, LateAt, Place, Streams
      <4> QED
        BY <3>2, <4>1 DEF Course, LateAt, Streams
    <3> QED
      BY <2>1, <3>1, <3>2
  <2>3. life["device"] # "live" /\ ~Sounding
    BY <2>2 DEF SoundFits
  <2>4. life'["device"] = life["device"] /\ life'["buffer"] # "live"
        /\ life'["buffer"] \in {life["buffer"], "freed"} /\ (life["buffer"] = "none" => life'["buffer"] = "none")
    BY <2>1, <2>3, DropIs DEF TypeOK
  <2> QED
    BY <1>1, <1>2, <1>3, <2>1, <2>2, <2>3, <2>4 DEF SoundFits, Sounding, Known
<1>7. CASE ~join_device /\ ~decoder_destroy /\ ~ffp_destroy
  <2>1. UNCHANGED <<next_buffer, stream_index>>
        /\ (aout_at' = aout_at \/ (Sounding /\ aout_at' = "callback"))
    BY <1>7 DEF AppOpens, open_audio_output, stream_open, start_read_thread, init_decoder, start, stop, deselect,
       AppCloses, msg_queue_abort, stream_close, join_read_thread, decoder_abort, not_opened, join_decoder,
       aout_close_audio, avformat_close_input, join_refresh_thread, outVars, threadVars, ownVars, Sounding
  <2>2. life' = life \/ \E t \in {"output", "state", "node", "input"} : Acquire(t) \/ Release(t)
    BY <1>7 DEF AppOpens, open_audio_output, CreateForAudioTrack, CreateForOpenSLES, stream_open,
       start_read_thread, init_decoder, start, stop, deselect, AppCloses, msg_queue_abort, stream_close,
       join_read_thread, decoder_abort, not_opened, join_decoder, aout_close_audio, avformat_close_input,
       join_refresh_thread, ownVars
  <2>3. life'["device"] = life["device"] /\ life'["buffer"] = life["buffer"]
    BY <2>2, AcquireIs, ReleaseIs DEF TypeOK
  <2>4. /\ app_at' # "gone"
        /\ app_at' = "destroy_decoder" =>
             (app_at = "destroy_decoder" /\ closing' = closing) \/ closing' # 1
    <3>1. CASE join_decoder
      <4>1. app_at' = (IF Closing = "audio" THEN "close_device" ELSE "destroy_decoder") /\ closing' = closing
        BY <3>1 DEF join_decoder, AppTo
      <4>2. closing = 1 => Closing = "audio"
        BY DEF Closing, Order
      <4> QED
        BY <4>1, <4>2
    <3>2. CASE ~join_decoder
      BY <1>7, <3>2 DEF AppOpens, open_audio_output, CreateForAudioTrack, CreateForOpenSLES, stream_open,
         start_read_thread, init_decoder, start, stop, deselect,
         AppCloses, msg_queue_abort, stream_close, join_read_thread, decoder_abort, not_opened,
         aout_close_audio, avformat_close_input, join_refresh_thread, AppTo
    <3> QED
      BY <3>1, <3>2
  <2> QED
    BY <1>1, <1>2, <1>3, <2>1, <2>3, <2>4 DEF SoundFits, Sounding
<1> QED
  BY <1>4, <1>5, <1>6, <1>7

LEMMA NextSound ==
  ASSUME TypeOK, Course, StreamsFit, SoundFits, [Next]_vars
  PROVE  SoundFits'
<1>1. CASE UNCHANGED vars
  BY <1>1 DEF vars, optionVars, threadVars, ownVars, outVars, SoundFits, Sounding, Ahead
<1> QED
  BY <1>1, SoundApp, SoundRead, SoundPlay DEF Next

LEMMA NodeRead ==
  ASSUME TypeOK, Course, StreamsFit, NodeFits, ReadThread
  PROVE  NodeFits'
<1> USE DEF Things
<1>1. UNCHANGED <<async_init, app_at, initialized_decoder>> /\ [Next]_vars /\ app_at # "gone"
  <2>1. read_at \notin {"none", "ended"}
    BY DEF ReadThread, avformat_open_input, find_stream_info, interrupted, skip_stream, no_decoder, avcodec_open,
       new_device, start_output, no_buffer, await_decoder, config_video_decoder, open_video_decoder, decoder_start,
       opened_none, opened_some, wait_start, read_loop_ends, read_thread_ends
  <2> QED
    BY <2>1, ReadGoes DEF optionVars, Next, Course
<1>2. Ahead("video")' => Ahead("video")
  BY <1>1, AheadShrinks DEF Streams
<1>3. Ahead("video") <=> opening < 2 \/ (opening = 2 /\ read_at \notin OpeningAt)
  <2>1. Place["video"] = 2
    BY DEF Place, Streams
  <2> QED
    BY <2>1 DEF Ahead, TypeOK
<1>4. CASE await_decoder
  <2>1. /\ read_at = "node" /\ (async_init => initialized_decoder)
        /\ read_at' = (IF async_init /\ node_vdec THEN "config" ELSE "open_node")
        /\ UNCHANGED <<life, node_vdec, stream_index>>
    BY <1>4 DEF await_decoder, ReadTo, ownVars
  <2> QED
    BY <1>1, <1>2, <2>1 DEF NodeFits
<1>5. CASE config_video_decoder
  <2>1. /\ read_at = "config" /\ opening = 2 /\ opening' = opening
        /\ UNCHANGED <<node_vdec, stream_index>>
        /\ \/ read_at' = "start" /\ life' = life
           \/ read_at' = "open_node" /\ Release("node")
    BY <1>5 DEF config_video_decoder, ReadTo, Course
  <2>2. life["node"] = "live" /\ node_vdec /\ ~Ahead("video") /\ (async_init => initialized_decoder)
    BY <1>3, <2>1 DEF NodeFits, OpeningAt
  <2>3. \/ read_at' = "start" /\ life' = life
        \/ read_at' = "open_node" /\ life'["node"] = "freed"
    BY <2>1, <2>2, ReleaseIs DEF TypeOK
  <2>4. CASE read_at' = "start" /\ life' = life
    BY <1>1, <1>2, <2>1, <2>2, <2>4 DEF NodeFits
  <2>5. CASE read_at' = "open_node" /\ life'["node"] = "freed"
    BY <1>1, <1>2, <2>1, <2>2, <2>5 DEF NodeFits, Known
  <2> QED
    BY <2>3, <2>4, <2>5
<1>6. CASE open_video_decoder
  <2>1. /\ read_at = "open_node" /\ opening = 2 /\ opening' = opening /\ read_at' = "start"
        /\ stream_index' = stream_index /\ node_vdec' = TRUE /\ Acquire("node")
    BY <1>6 DEF open_video_decoder, ReadTo, Course
  <2>2. ~Ahead("video") /\ (async_init => initialized_decoder) /\ life'["node"] = "live"
    BY <1>3, <2>1, AcquireIs DEF NodeFits, OpeningAt, TypeOK
  <2>3. app_at \in Early => ~async_init
    BY <2>2 DEF NodeFits
  <2> QED
    BY <1>1, <1>2, <2>1, <2>2, <2>3 DEF NodeFits, Known
<1>7. CASE avcodec_open
  <2>1. read_at = "component" /\ UNCHANGED <<life, node_vdec>> /\ opening \in 1 .. 3
    BY <1>7, OrderIs DEF avcodec_open, TypeOK
  <2>2. /\ read_at' \in {"component", "device", "node", "start"}
        /\ read_at' = "node" => opening = 2
        /\ opening = 2 => read_at' = "node"
        /\ read_at' = "start" => opening' = opening
        /\ stream_index'["video"] = (stream_index["video"] \/ opening = 2)
    <3>1. /\ opening = 1 => Opening = "audio"
          /\ opening = 2 => Opening = "video"
          /\ opening = 3 => Opening = "subtitle"
      BY DEF Opening, Order
    <3>2. stream_index'["video"] = (stream_index["video"] \/ opening = 2)
      BY <1>7, <2>1, <3>1 DEF avcodec_open, TypeOK, Streams
    <3> QED
      BY <1>7, <2>1, <3>1, <3>2 DEF avcodec_open, ReadTo, OpenNext
  <2>3. read_at' = "node" => Ahead("video")
    BY <1>3, <2>1, <2>2 DEF OpeningAt
  <2> QED
    BY <1>1, <1>2, <2>1, <2>2, <2>3 DEF NodeFits
<1>8. CASE decoder_start
  <2>1. /\ read_at = "start" /\ read_at' = "component" /\ UNCHANGED <<life, node_vdec>>
        /\ stream_index' = [stream_index EXCEPT ![Opening] = TRUE]
    BY <1>8 DEF decoder_start, OpenNext
  <2>2. stream_index'["video"] => stream_index["video"] \/ opening = 2
    <3>1. opening \in 1 .. 3
      BY <2>1 DEF Course, TypeOK
    <3>2. Opening = "video" => opening = 2
      BY <3>1 DEF Opening, Order
    <3> QED
      BY <2>1, <3>2 DEF TypeOK, Streams
  <2> QED
    BY <1>1, <1>2, <2>1, <2>2 DEF NodeFits
<1>9. CASE ~await_decoder /\ ~config_video_decoder /\ ~open_video_decoder /\ ~avcodec_open /\ ~decoder_start
  <2>1. node_vdec' = node_vdec /\ read_at' \notin {"node", "config", "open_node"}
        /\ read_at \notin {"node", "config", "open_node"} /\ (read_at' = "start" => opening' = 1)
    BY <1>9 DEF ReadThread, avformat_open_input, find_stream_info, interrupted, skip_stream, no_decoder,
       new_device, start_output, no_buffer, opened_none, opened_some, wait_start, read_loop_ends,
       read_thread_ends, TryAnother, OpenNext, ReadTo, ownVars, Course
  <2>2. life'["node"] = life["node"]
    <3>1. life' = life \/ \E t \in {"input", "device", "buffer"} : Acquire(t) \/ Release(t)
      BY <1>9 DEF ReadThread, avformat_open_input, find_stream_info, interrupted, skip_stream, no_decoder,
         new_device, start_output, no_buffer, opened_none, opened_some, wait_start, read_loop_ends,
         read_thread_ends, ownVars
    <3> QED
      BY <3>1, AcquireIs, ReleaseIs DEF TypeOK
  <2>3. stream_index'["video"] = stream_index["video"]
    BY <1>9 DEF ReadThread, avformat_open_input, find_stream_info, interrupted, skip_stream, no_decoder,
       new_device, start_output, no_buffer, opened_none, opened_some, wait_start, read_loop_ends,
       read_thread_ends, ownVars, TypeOK, Streams
  <2> QED
    BY <1>1, <1>2, <2>1, <2>2, <2>3 DEF NodeFits
<1> QED
  BY <1>4, <1>5, <1>6, <1>7, <1>8, <1>9

LEMMA NodeApp ==
  ASSUME TypeOK, Course, StreamsFit, NodeFits,
         AppOpens \/ start \/ stop \/ (\E s \in Selected : deselect(s)) \/ AppCloses
  PROVE  NodeFits'
<1> USE DEF Things
<1>1. [Next]_vars /\ UNCHANGED async_init
  BY DEF Next, AppOpens, open_audio_output, stream_open, start_read_thread, init_decoder, start, stop, deselect,
     AppCloses, msg_queue_abort, stream_close, join_read_thread, decoder_abort, not_opened, join_decoder,
     aout_close_audio, join_device, decoder_destroy, avformat_close_input, join_refresh_thread, ffp_destroy,
     appOnly, optionVars
<1>2. Ahead("video")' => Ahead("video")
  BY <1>1, AheadShrinks DEF Streams
<1>3. opening' = opening /\ (read_at' = read_at \/ (read_at = "none" /\ read_at' = "input"))
  BY DEF AppOpens, open_audio_output, stream_open, start_read_thread, init_decoder, start, stop, deselect,
     AppCloses, msg_queue_abort, stream_close, join_read_thread, decoder_abort, not_opened, join_decoder,
     aout_close_audio, join_device, decoder_destroy, avformat_close_input, join_refresh_thread, ffp_destroy,
     appOnly, threadVars, Course
<1>4. stream_index'["video"] => stream_index["video"]
  <2>1. CASE decoder_destroy
    BY <2>1 DEF decoder_destroy, TypeOK, Streams
  <2>2. CASE ~decoder_destroy
    BY <2>2 DEF AppOpens, open_audio_output, stream_open, start_read_thread, init_decoder, start, stop, deselect,
       AppCloses, msg_queue_abort, stream_close, join_read_thread, decoder_abort, not_opened, join_decoder,
       aout_close_audio, join_device, avformat_close_input, join_refresh_thread, ffp_destroy, ownVars
  <2> QED
    BY <2>1, <2>2
<1>5. CASE init_decoder
  <2>1. /\ app_at = "reading" /\ app_at' = "opened" /\ initialized_decoder' = TRUE /\ read_at' = read_at
        /\ \/ async_init /\ Acquire("node") /\ node_vdec' = TRUE
           \/ UNCHANGED <<life, node_vdec>>
    BY <1>5 DEF init_decoder, AppTo, threadVars
  <2>2. CASE async_init /\ Acquire("node") /\ node_vdec' = TRUE
    <3>1. life'["node"] = "live" /\ read_at \notin {"config", "open_node"}
      BY <2>1, <2>2, AcquireIs DEF NodeFits, Early, TypeOK
    <3> QED
      BY <1>1, <1>2, <1>3, <1>4, <2>1, <2>2, <3>1 DEF NodeFits, Early, EarlyAt, Known
  <2>3. CASE UNCHANGED <<life, node_vdec>>
    BY <1>1, <1>2, <1>3, <1>4, <2>1, <2>3 DEF NodeFits, Early, EarlyAt
  <2> QED
    BY <2>1, <2>2, <2>3
<1>6. CASE ffp_destroy
  <2>1. /\ app_at \in {"join_output", "no_output"} /\ app_at' = "gone" /\ node_vdec' = FALSE
        /\ Drop({"output", "buffer"} \cup IF node_vdec THEN {"node"} ELSE {})
        /\ UNCHANGED <<read_at, stream_index, initialized_decoder>>
    BY <1>6 DEF ffp_destroy, AppTo, appOnly, flagVars
  <2>2. ~stream_index["video"] /\ read_at \in {"none", "ended"}
    <3>1. CASE app_at = "no_output"
      <4>1. read_at = "none"
        BY <3>1 DEF Course, EarlyAt
      <4> QED
        BY <4>1, NothingOpened DEF Streams
    <3>2. CASE app_at = "join_output"
      <4>1. closing = 4 /\ read_at = "ended" /\ Place["video"] < 4 /\ abort_request
        BY <3>2 DEF Course, LateAt, Place, Streams
      <4> QED
        BY <3>2, <4>1 DEF Course, LateAt, Streams
    <3> QED
      BY <2>1, <3>1, <3>2
  <2>3. life'["node"] \in {"none", "freed"}
    BY <2>1, <2>2, DropIs DEF TypeOK, NodeFits, Known
  <2> QED
    BY <1>1, <1>2, <2>1, <2>2, <2>3 DEF NodeFits, Early, EarlyAt, Known
<1>7. CASE ~init_decoder /\ ~ffp_destroy
  <2>1. UNCHANGED <<node_vdec, initialized_decoder>>
    BY <1>7 DEF AppOpens, open_audio_output, stream_open, start_read_thread, start, stop, deselect,
       AppCloses, msg_queue_abort, stream_close, join_read_thread, decoder_abort, not_opened, join_decoder,
       aout_close_audio, join_device, decoder_destroy, avformat_close_input, join_refresh_thread, ownVars, flagVars
  <2>2. life'["node"] = life["node"]
    <3>1. \/ life' = life \/ Drop({"device", "buffer"})
          \/ \E t \in {"output", "state", "input"} : Acquire(t) \/ Release(t)
      BY <1>7 DEF AppOpens, open_audio_output, CreateForAudioTrack, CreateForOpenSLES, stream_open,
         start_read_thread, start, stop, deselect, AppCloses, msg_queue_abort, stream_close,
         join_read_thread, decoder_abort, not_opened, join_decoder, aout_close_audio, join_device, decoder_destroy,
         avformat_close_input, join_refresh_thread, ownVars
    <3> QED
      BY <3>1, AcquireIs, ReleaseIs, DropIs DEF TypeOK
  <2>3. app_at' \in Early => app_at \in Early
    BY <1>1, <1>7, AppMoves DEF Early, EarlyAt, Middle, ClosingAt, open_audio_output, stream_open,
       join_refresh_thread, AppTo
  <2>4. app_at' = "gone" => app_at = "gone"
    BY <1>1, <1>7, AppMoves DEF Middle, ClosingAt, open_audio_output, CreateForAudioTrack, CreateForOpenSLES,
       stream_open, join_refresh_thread, AppTo
  <2> QED
    BY <1>1, <1>2, <1>3, <1>4, <2>1, <2>2, <2>3, <2>4 DEF NodeFits
<1> QED
  BY <1>5, <1>6, <1>7

LEMMA NextNode ==
  ASSUME TypeOK, Course, StreamsFit, NodeFits, [Next]_vars
  PROVE  NodeFits'
<1>1. CASE UNCHANGED vars
  BY <1>1 DEF vars, optionVars, threadVars, ownVars, flagVars, NodeFits, Ahead
<1>2. CASE Playing
  <2>1. /\ UNCHANGED <<async_init, app_at, read_at, opening, stream_index, node_vdec, initialized_decoder>>
    BY <1>2, PlayRest DEF playRest, optionVars, flagVars
  <2>2. life'["node"] = life["node"]
    <3>1. life' = life \/ Release("device")
      BY <1>2 DEF Playing, Output, decoder_waits, decoder_ends, feed, consume, refresh_ends, aout_waits,
         aout_resumes, audio_decode_frame, frame_comes, sdl_audio_callback, held_until_start, write_track,
         enqueue, plays, aout_ends
    <3> QED
      BY <3>1, ReleaseIs DEF TypeOK, Things
  <2> QED
    BY <2>1, <2>2 DEF NodeFits, Ahead
<1> QED
  BY <1>1, <1>2, NodeApp, NodeRead DEF Next

-----------------------------------------------------------------------------
(* The buffers of the OpenSLES player.                                     *)

LEMMA NextBuffer ==
  ASSUME NEW n \in Buffers
  PROVE  (n + 1) % OPENSLES_BUFFERS = IF n = OPENSLES_BUFFERS - 1 THEN 0 ELSE n + 1
BY BuffersAssumption DEF Buffers

\* The buffer filled next is the one after the last that is queued.
LEMMA EnqueueIs ==
  ASSUME TypeOK, enqueue, aout_at' # "ended", RingFits, ~aout_abort
  PROVE  RingFits'
<1> DEFINE At(q, n, i) == IF i > q - n THEN n - (q - i) - 1 ELSE n - (q - i) - 1 + OPENSLES_BUFFERS
<1>1. /\ OPENSLES_BUFFERS \in Nat \ {0} /\ next_buffer \in 0 .. OPENSLES_BUFFERS - 1
      /\ queued \in Seq(Buffers) /\ Queued \in Nat
  BY BuffersAssumption DEF TypeOK, Buffers, Queued
<1>2. /\ opensles /\ Queued < OPENSLES_BUFFERS
      /\ \A i \in 1 .. Queued : queued[i] = At(Queued, next_buffer, i)
  BY DEF enqueue, RingFits, Sounding
<1>3. PICK left \in {<<>>, queued} : queued' = IF Len(left) < OPENSLES_BUFFERS THEN Append(left, next_buffer) ELSE left
  BY DEF enqueue, AoutTo
<1>4. /\ left \in Seq(Buffers) /\ Len(left) \in 0 .. OPENSLES_BUFFERS - 1
      /\ \A i \in 1 .. Len(left) : left[i] = At(Len(left), next_buffer, i)
  <2>1. CASE left = <<>>
    BY <1>1, <2>1
  <2>2. CASE left = queued
    BY <1>1, <1>2, <2>2 DEF Queued
  <2> QED
    BY <1>3, <2>1, <2>2
<1>5. queued' = Append(left, next_buffer)
  BY <1>1, <1>3, <1>4
<1>6. /\ Len(queued') = Len(left) + 1 /\ queued'[Len(left) + 1] = next_buffer
      /\ \A i \in 1 .. Len(left) : queued'[i] = left[i]
  BY <1>4, <1>5
<1>7. next_buffer' = IF next_buffer = OPENSLES_BUFFERS - 1 THEN 0 ELSE next_buffer + 1
  BY NextBuffer DEF enqueue, TypeOK
<1>8. ASSUME NEW i \in 1 .. Len(left) + 1
      PROVE  queued'[i] = At(Len(left) + 1, next_buffer', i)
  <2>1. CASE i = Len(left) + 1
    BY <1>1, <1>4, <1>6, <1>7, <2>1
  <2>2. CASE i \in 1 .. Len(left)
    <3>1. queued'[i] = At(Len(left), next_buffer, i)
      BY <1>4, <1>6, <2>2
    <3>2. At(Len(left), next_buffer, i) = At(Len(left) + 1, next_buffer', i)
      <4>1. i \in Nat /\ i >= 1 /\ Len(left) \in Nat /\ Len(left) < OPENSLES_BUFFERS /\ next_buffer \in Nat
        BY <1>1, <1>4, <2>2
      <4>2. CASE next_buffer = OPENSLES_BUFFERS - 1
        <5>1. next_buffer' = 0
          BY <1>7, <4>2
        <5>2. i > Len(left) - next_buffer /\ ~(i > Len(left) + 1 - 0)
          BY <1>1, <2>2, <4>1, <4>2
        <5> QED
          BY <1>1, <4>1, <4>2, <5>1, <5>2
      <4>3. CASE next_buffer # OPENSLES_BUFFERS - 1
        <5>1. next_buffer' = next_buffer + 1
          BY <1>7, <4>3
        <5> QED
          BY <1>1, <4>1, <5>1
      <4> QED
        BY <4>2, <4>3
    <3> QED
      BY <3>1, <3>2
  <2> QED
    BY <1>4, <2>1, <2>2
<1>9. aout_at' = "loop"
  BY DEF enqueue, AoutTo
<1> QED
  BY <1>1, <1>4, <1>6, <1>8, <1>9 DEF RingFits, Queued

LEMMA PlaysIs ==
  ASSUME TypeOK, plays, RingFits
  PROVE  RingFits'
<1>1. /\ OPENSLES_BUFFERS \in Nat \ {0} /\ next_buffer \in 0 .. OPENSLES_BUFFERS - 1
      /\ queued \in Seq(Buffers) /\ queued # <<>>
  BY BuffersAssumption DEF TypeOK, Buffers, plays
<1>2. UNCHANGED <<opensles, aout_abort, aout_at, next_buffer>> /\ queued' = Tail(queued)
  BY DEF plays, aoutRest, playRest, optionVars, flagVars
<1>3. /\ Len(queued) \in Nat /\ Len(queued) > 0 /\ Len(queued') = Len(queued) - 1
      /\ \A i \in 1 .. Len(queued) - 1 : queued'[i] = queued[i + 1]
  BY <1>1, <1>2
<1>4. ASSUME opensles, ~aout_abort, Sounding
      PROVE  \A i \in 1 .. Len(queued') :
               queued'[i] = IF i > Len(queued') - next_buffer THEN next_buffer - (Len(queued') - i) - 1
                            ELSE next_buffer - (Len(queued') - i) - 1 + OPENSLES_BUFFERS
  <2> TAKE i \in 1 .. Len(queued')
  <2>1. i + 1 \in 1 .. Len(queued) /\ queued'[i] = queued[i + 1]
    BY <1>3
  <2>2. queued[i + 1] = IF i + 1 > Len(queued) - next_buffer THEN next_buffer - (Len(queued) - (i + 1)) - 1
                        ELSE next_buffer - (Len(queued) - (i + 1)) - 1 + OPENSLES_BUFFERS
    BY <1>4, <2>1 DEF RingFits, Queued
  <2> QED
    BY <1>1, <1>3, <2>1, <2>2
<1> QED
  BY <1>1, <1>2, <1>3, <1>4 DEF RingFits, Queued, Sounding

LEMMA NextRing ==
  ASSUME TypeOK, Course, SoundFits, RingFits, [Next]_vars
  PROVE  RingFits'
<1>1. CASE start_output
  <2>1. /\ next_buffer = 0 /\ next_buffer' = 0 /\ aout_at' = "loop" /\ opensles' = opensles
        /\ queued' = IF opensles THEN [i \in 1 .. OPENSLES_BUFFERS |-> i - 1] ELSE <<>>
    BY <1>1 DEF start_output, openRest, optionVars, SoundFits
  <2>2. OPENSLES_BUFFERS \in Nat \ {0}
    BY BuffersAssumption
  <2>3. opensles => Len(queued') = OPENSLES_BUFFERS /\ \A i \in 1 .. OPENSLES_BUFFERS : queued'[i] = i - 1
    BY <2>1, <2>2
  <2> QED
    BY <2>1, <2>2, <2>3 DEF RingFits, Queued
<1>2. CASE Output
  <2>1. UNCHANGED <<opensles, aout_abort>>
    BY <1>2, PlayRest DEF Playing, playRest, optionVars, flagVars
  <2>2. CASE enqueue
    BY <2>1, <2>2, EnqueueIs DEF RingFits, Sounding
  <2>3. CASE plays
    BY <2>3, PlaysIs
  <2>4. CASE aout_waits \/ aout_resumes
    <3>1. UNCHANGED <<queued, next_buffer>> /\ aout_at \in {"loop", "paused"}
          /\ (aout_at' = "paused" \/ (aout_at' = "callback" /\ (~Full \/ aout_abort)))
      BY <2>4 DEF aout_waits, aout_resumes, AoutTo, Waits
    <3>2. Sounding
      BY <3>1 DEF Sounding
    <3>3. CASE opensles /\ ~aout_abort /\ ~Full
      <4>1. Queued < OPENSLES_BUFFERS
        BY <3>3, BuffersAssumption DEF Full, Queued, TypeOK
      <4> QED
        BY <2>1, <3>1, <3>2, <4>1 DEF RingFits, Queued
    <3>4. CASE ~opensles \/ aout_abort \/ aout_at' = "paused"
      BY <2>1, <3>1, <3>2, <3>4 DEF RingFits, Queued
    <3> QED
      BY <3>1, <3>3, <3>4
  <2>5. CASE audio_decode_frame \/ frame_comes \/ sdl_audio_callback \/ held_until_start
    <3>1. UNCHANGED <<queued, next_buffer>> /\ aout_at \in {"callback", "no_frame", "held"}
          /\ aout_at' \in {"callback", "no_frame", "held", "write"}
      BY <2>5 DEF audio_decode_frame, frame_comes, sdl_audio_callback, held_until_start, AoutTo
    <3> QED
      BY <2>1, <3>1 DEF RingFits, Queued, Sounding
  <2>6. CASE write_track \/ aout_ends
    <3>1. ~opensles \/ aout_at' = "ended"
      BY <2>6 DEF write_track, aout_ends, AoutTo
    <3> QED
      BY <2>1, <3>1 DEF RingFits, Sounding
  <2> QED
    BY <1>2, <2>2, <2>3, <2>4, <2>5, <2>6 DEF Output
<1>3. CASE join_device
  BY <1>3 DEF join_device, RingFits, Sounding
<1>4. CASE decoder_abort
  <2>1. UNCHANGED <<opensles, aout_abort, queued, next_buffer>>
        /\ (aout_at' = aout_at \/ (aout_at = "no_frame" /\ aout_at' = "callback"))
    BY <1>4 DEF decoder_abort, appOnly, optionVars
  <2> QED
    BY <2>1 DEF RingFits, Queued, Sounding
<1>5. CASE no_buffer \/ aout_close_audio
  <2>1. UNCHANGED <<opensles, queued, next_buffer, aout_at>> /\ (aout_abort' => aout_abort \/ opensles \/ aout_abort')
        /\ (~aout_abort' => ~aout_abort)
    BY <1>5 DEF no_buffer, aout_close_audio, appOnly, openRest, optionVars, outVars
  <2> QED
    BY <2>1 DEF RingFits, Queued, Sounding
<1>6. CASE ~start_output /\ ~Output /\ ~join_device /\ ~decoder_abort /\ ~no_buffer /\ ~aout_close_audio
  <2>1. UNCHANGED <<opensles, aout_abort, queued, next_buffer, aout_at>>
    <3>1. CASE UNCHANGED vars
      BY <3>1 DEF vars, optionVars, threadVars, flagVars, outVars
    <3>2. CASE AppOpens \/ start \/ stop \/ (\E s \in Selected : deselect(s))
      BY <3>2 DEF AppOpens, open_audio_output, stream_open, start_read_thread, init_decoder, start, stop, deselect,
         appOnly, optionVars, threadVars, flagVars, outVars
    <3>3. CASE AppCloses
      BY <1>6, <3>3 DEF AppCloses, msg_queue_abort, stream_close, join_read_thread, not_opened, join_decoder,
         decoder_destroy, avformat_close_input, join_refresh_thread, ffp_destroy,
         appOnly, optionVars, threadVars, flagVars, outVars
    <3>4. CASE ReadThread
      BY <1>6, <3>4 DEF ReadThread, avformat_open_input, find_stream_info, interrupted, skip_stream, no_decoder,
         avcodec_open, new_device, await_decoder, config_video_decoder, open_video_decoder, decoder_start,
         opened_none, opened_some, wait_start, read_loop_ends, read_thread_ends, openRest, appRest, optionVars,
         flagVars, outVars
    <3>5. CASE Playing
      BY <1>6, <3>5 DEF Playing, decoder_waits, decoder_ends, feed, consume, refresh_ends, playRest, optionVars,
         flagVars, outVars
    <3> QED
      BY <3>1, <3>2, <3>3, <3>4, <3>5 DEF Next
  <2> QED
    BY <2>1 DEF RingFits, Queued, Sounding
<1> QED
  BY <1>1, <1>2, <1>3, <1>4, <1>5, <1>6

-----------------------------------------------------------------------------
(* What is told.                                                           *)

LEMMA NextTold ==
  ASSUME TypeOK, Course, Told, [Next]_vars
  PROVE  Told'
<1>1. CASE opened_some
  <2>1. read_at = "component" /\ prepared' /\ told' \subseteq told \cup {"prepared"}
    BY <1>1 DEF opened_some, notify
  <2> QED
    BY <2>1 DEF Told
<1>2. CASE read_thread_ends
  <2>1. /\ read_at = "fail" /\ read_at' = "ended" /\ prepared' = prepared
        /\ told' = told \/ (told' = told \cup {"error"} /\ (~prepared \/ ~abort_request))
    BY <1>2 DEF read_thread_ends, notify, ReadTo
  <2>2. prepared => abort_request
    BY <2>1 DEF Course
  <2> QED
    BY <2>1, <2>2 DEF Told
<1>3. CASE ~opened_some /\ ~read_thread_ends
  <2>1. UNCHANGED <<prepared, told>>
    <3>1. CASE UNCHANGED vars
      BY <3>1 DEF vars, flagVars, toldVars
    <3>2. CASE AppOpens \/ start \/ stop \/ (\E s \in Selected : deselect(s))
      BY <3>2 DEF AppOpens, open_audio_output, stream_open, start_read_thread, init_decoder, start, stop, deselect,
         flagVars, toldVars
    <3>3. CASE AppCloses
      BY <3>3 DEF AppCloses, msg_queue_abort, stream_close, join_read_thread, decoder_abort, not_opened,
         join_decoder, aout_close_audio, join_device, decoder_destroy, avformat_close_input, join_refresh_thread,
         ffp_destroy, flagVars, toldVars
    <3>4. CASE ReadThread
      BY <1>3, <3>4 DEF ReadThread, avformat_open_input, find_stream_info, interrupted, skip_stream, no_decoder,
         avcodec_open, new_device, start_output, no_buffer, await_decoder, config_video_decoder, open_video_decoder,
         decoder_start, opened_none, wait_start, read_loop_ends, flagVars, toldVars
    <3>5. CASE Playing
      BY <3>5, PlayRest DEF playRest, flagVars, toldVars
    <3> QED
      BY <3>1, <3>2, <3>3, <3>4, <3>5 DEF Next
  <2>2. read_at = "ended" => read_at' = "ended"
    <3>1. read_at = "ended" => ~start_read_thread
      BY DEF start_read_thread, Course
    <3>2. read_at = "ended" => ~ReadThread
      BY DEF ReadThread, avformat_open_input, find_stream_info, interrupted, skip_stream, no_decoder, avcodec_open,
         new_device, start_output, no_buffer, await_decoder, config_video_decoder, open_video_decoder, decoder_start,
         opened_none, opened_some, wait_start, read_loop_ends, read_thread_ends
    <3> QED
      BY <3>1, <3>2, ReadMoves
  <2> QED
    BY <2>1, <2>2 DEF Told
<1> QED
  BY <1>1, <1>2, <1>3

-----------------------------------------------------------------------------
(* The invariant, and what follows from it.                                *)

Invariant ==
  /\ TypeOK /\ Course /\ StreamsFit
  /\ PlayerFits /\ InputFits /\ SoundFits /\ NodeFits
  /\ RingFits /\ Told

LEMMA AtFirst == Init => Invariant
<1> SUFFICES ASSUME Init PROVE Invariant
  OBVIOUS
<1>1. TypeOK
  <2>1. 0 \in Buffers /\ <<>> \in Seq(Buffers) /\ Formats \in 0 .. Formats
    BY BuffersAssumption DEF Buffers
  <2>2. auto_start \in BOOLEAN
    BY DEF Init
  <2>3. async_init \in BOOLEAN /\ subtitle \in BOOLEAN /\ opensles \in BOOLEAN
    <3>1. ASSUME NEW kind PROVE {(kind \in file), FALSE} \subseteq BOOLEAN
      <4>1. (kind \in file) \in BOOLEAN
        BY SMT
      <4>2. FALSE \in BOOLEAN
        BY SMT
      <4> QED
        BY <4>1, <4>2, Zenon
    <3>2. /\ async_init \in {"video" \in file, FALSE}
          /\ subtitle \in {"subtitle" \in file, FALSE}
          /\ opensles \in {"audio" \in file, FALSE}
      BY Zenon DEF Init
    <3> QED
      BY <3>1, <3>2, Zenon
  <2>4. node_vdec \in BOOLEAN /\ abort_request \in BOOLEAN /\ pause_req \in BOOLEAN /\ paused \in BOOLEAN
    BY DEF Init
  <2>5. /\ pause_on \in BOOLEAN /\ aout_abort \in BOOLEAN /\ initialized_decoder \in BOOLEAN
        /\ prepared \in BOOLEAN /\ muted \in BOOLEAN
    BY DEF Init
  <2>6. /\ file \in Files /\ closing \in 1 .. 4 /\ opening \in 1 .. 4 /\ formats \in 0 .. Formats
        /\ app_at \in AppAt /\ read_at \in ReadAt /\ refresh_at \in {"none", "running", "ended"}
        /\ aout_at \in AoutAt /\ queued \in Seq(Buffers) /\ next_buffer \in Buffers
        /\ told \subseteq {"prepared", "error"}
    BY <2>1 DEF Init, AppAt, ReadAt, AoutAt
  <2>7. /\ dec_at \in [Streams -> DecAt] /\ life \in [Things -> Life] /\ context \in [Streams -> Life]
        /\ avctx \in [Streams -> BOOLEAN] /\ stream_index \in [Streams -> BOOLEAN]
        /\ aborted \in [Streams -> BOOLEAN]
    BY DEF Init, DecAt, Life
  <2> QED
    BY <2>2, <2>3, <2>4, <2>5, <2>6, <2>7 DEF TypeOK
<1>2. Course
  BY DEF Init, Course, ClosingAt, LateAt, EarlyAt
<1>3. \A s \in Streams : Ahead(s) /\ ~Busy(s) /\ ~Decoding(s)
  BY OrderIs DEF Init, Ahead, Busy, OpeningAt, Decoding
<1>4. StreamsFit
  BY <1>3 DEF Init, StreamsFit, StreamFits
<1>5. PlayerFits
  BY DEF Init, PlayerFits, Things, EarlyAt, Known
<1>6. InputFits
  BY DEF Init, InputFits, Things, LateAt, Known
<1>7. SoundFits
  BY DEF Init, SoundFits, Things, Known, Sounding, Streams
<1>8. NodeFits
  BY DEF Init, NodeFits, Things, Known, Streams
<1>9. RingFits /\ Told
  BY DEF Init, RingFits, Sounding, Told
<1> QED
  BY <1>1, <1>2, <1>4, <1>5, <1>6, <1>7, <1>8, <1>9 DEF Invariant

LEMMA AtEach == Invariant /\ [Next]_vars => Invariant'
BY NextTypes, NextCourse, NextStreams, NextPlayer, NextInput, NextSound, NextNode, NextRing, NextTold DEF Invariant

LEMMA Inductive == Spec => []Invariant
BY AtFirst, AtEach, PTL DEF Spec

\* While a stream is open the player is neither being made nor past the closing of its streams.
LEMMA OpenBetween ==
  ASSUME Invariant, NEW s \in Streams, stream_index[s]
  PROVE  app_at \notin EarlyAt \cup LateAt \cup {"refreshing", "gone"}
<1>1. app_at \notin EarlyAt \cup {"refreshing"}
  BY NothingOpened DEF Invariant, Course
<1>2. Place[s] < 4
  BY OrderIs
<1>3. app_at \notin LateAt
  BY <1>2 DEF Invariant, Course
<1> QED
  BY <1>1, <1>3 DEF Invariant, Course

LEMMA Held == Invariant => HeldWhileRunning
<1> SUFFICES ASSUME Invariant PROVE HeldWhileRunning
  OBVIOUS
<1> USE DEF Invariant
<1>1. refresh_at = "running" \/ read_at \notin {"none", "ended"} => life["state"] = "live"
  BY DEF Course, PlayerFits, EarlyAt, LateAt
<1>2. read_at \in {"component", "device", "node", "config", "open_node", "start", "loop"} => life["input"] = "live"
  BY DEF InputFits
<1>3. read_at = "loop" /\ stream_index["video"] => node_vdec /\ life["node"] = "live"
  BY DEF NodeFits
<1>4. \A s \in Streams : stream_index[s] => life["state"] = "live" /\ life["output"] = "live"
                                             /\ context[s] = "live"
  BY OpenBetween DEF PlayerFits, EarlyAt, LateAt, StreamsFit, StreamFits
<1>5. \A s \in Streams : Decoding(s) => stream_index[s]
  BY DEF StreamsFit, StreamFits
<1>6. Decoding("video") => life["node"] = "live"
  <2>1. Decoding("video") => ~Busy("video")
    BY DEF StreamsFit, StreamFits, Streams, Decoding
  <2>2. read_at \in {"node", "open_node"} => Busy("video")
    BY DEF Busy, OpeningAt, Course, Place, Streams
  <2> QED
    BY <1>5, <2>1, <2>2 DEF NodeFits, Streams
<1>7. Sounding => /\ life["output"] = "live" /\ life["device"] = "live" /\ life["buffer"] = "live"
                  /\ life["state"] = "live" /\ context["audio"] = "live"
  BY <1>4 DEF SoundFits, Streams
<1>8. InCallback /\ opensles /\ ~aout_abort => \A i \in DOMAIN queued : queued[i] # next_buffer
  <2> SUFFICES ASSUME InCallback, opensles, ~aout_abort, NEW i \in DOMAIN queued PROVE queued[i] # next_buffer
    OBVIOUS
  <2>1. i \in 1 .. Len(queued) /\ Len(queued) \in Nat /\ next_buffer \in Nat /\ OPENSLES_BUFFERS \in Nat
    BY BuffersAssumption DEF TypeOK, Buffers
  <2>2. /\ Len(queued) < OPENSLES_BUFFERS
        /\ queued[i] = IF i > Len(queued) - next_buffer THEN next_buffer - (Len(queued) - i) - 1
                       ELSE next_buffer - (Len(queued) - i) - 1 + OPENSLES_BUFFERS
    BY <2>1 DEF InCallback, RingFits, Queued, Sounding
  <2> QED
    BY <2>1, <2>2
<1>9. InCallback => Sounding
  BY DEF InCallback, Sounding
<1> QED
  BY <1>1, <1>2, <1>3, <1>4, <1>5, <1>6, <1>7, <1>8, <1>9 DEF HeldWhileRunning, Sounding

LEMMA Once == Invariant => ReleasedOnce
<1> SUFFICES ASSUME Invariant PROVE ReleasedOnce
  OBVIOUS
<1> USE DEF Invariant
<1>1. \A t \in Things : life[t] \notin {"twice", "lost"}
  BY DEF Things, PlayerFits, InputFits, SoundFits, NodeFits, Known
<1>2. \A s \in Streams : context[s] # "twice"
  BY DEF StreamsFit, StreamFits
<1>3. ASSUME app_at = "gone"
      PROVE  /\ \A t \in Things : life[t] # "live"
             /\ \A s \in Streams : dec_at[s] \in {"none", "ended"}
                                    /\ (context[s] = "live" => s = "subtitle" /\ ~subtitle)
             /\ {read_at, refresh_at, aout_at} \subseteq {"none", "ended"}
  <2>1. {read_at, refresh_at} \subseteq {"none", "ended"} /\ \A s \in Streams : ~stream_index[s] /\ ~Busy(s)
    BY <1>3 DEF Course, Busy, OpeningAt
  <2>2. \A s \in Streams : dec_at[s] \in DecAt /\ ~Decoding(s)
                            /\ (context[s] = "live" => s = "subtitle" /\ ~subtitle)
    BY <2>1 DEF StreamsFit, StreamFits, TypeOK
  <2>3. \A t \in Things : life[t] # "live"
    BY <1>3 DEF Things, PlayerFits, InputFits, SoundFits, NodeFits, LateAt
  <2>4. ~Sounding
    BY <2>1 DEF SoundFits, Streams
  <2> QED
    BY <2>1, <2>2, <2>3, <2>4 DEF Decoding, DecAt, Sounding
<1> QED
  BY <1>1, <1>2, <1>3 DEF ReleasedOnce

\* Every variable stays in its type.
THEOREM TypeCorrect == Spec => []TypeOK
BY Inductive, PTL DEF Invariant

\* No thread runs on what has been released, and the buffer the OpenSLES callback fills is
\* not one that is queued.
THEOREM ThreadsHold == Spec => []HeldWhileRunning
BY Inductive, Held, PTL

\* Nothing is released twice or lost, and nothing is left of a player that is gone but the
\* context of a subtitle stream that was not wanted.
THEOREM AllReleased == Spec => []ReleasedOnce
BY Inductive, Once, PTL

\* A preparation is told to have succeeded or to have failed, never both.
THEOREM OneAnswer == Spec => []ToldOnce
<1>1. Invariant => ToldOnce
  BY DEF Invariant, Told, ToldOnce
<1> QED
  BY <1>1, Inductive, PTL
=============================================================================
