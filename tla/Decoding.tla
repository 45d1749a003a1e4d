------------------------------ MODULE Decoding ------------------------------
(***************************************************************************)
(* The threads of a playing VideoState and the queues between them: the    *)
(* read thread feeds a packet queue for each stream and flushes them for a *)
(* seek, a decoder turns packets into the frames of a ring, the audio      *)
(* callback and the refresh thread take the frames out, and stream_close   *)
(* stops them all.  A thread that waits for a condition is asleep until a  *)
(* signal wakes it.                                                        *)
(***************************************************************************)
EXTENDS Queues

CONSTANTS
  Files,       \* the files: for each of its streams, the packets from one seek to the next
  MinFrames,   \* MIN_FRAMES: no reading while every queue is longer
  Delay,       \* how many packets a decoder holds back
  MaxRequests  \* a bound: how often a seek, a pause or a discontinuity comes

ASSUME FilesAssumption == \A f \in Files :
  DOMAIN f \subseteq {"audio", "video"} /\ DOMAIN f # {} /\ f \in [DOMAIN f -> Nat]
ASSUME BoundsAssumption == MinFrames \in Nat /\ Delay \in Nat /\ MaxRequests \in Nat

VARIABLES
  file,        \* the file that is open
  queue,       \* the packet queue of each stream
  ring,        \* its frame queue
  codec,       \* what the decoder library holds
  dec_at,      \* where the decoder thread of the stream is
  pkt_serial,  \* Decoder.pkt_serial
  finished,    \* Decoder.finished
  pkt,         \* the packet the decoder has taken
  got,         \* the frame it has received: the serial of its packet
  out_at,      \* where the audio callback or the refresh thread is
  used,        \* the slot it reads
  audio_left,  \* how much of the audio frame is still to be played, in callbacks
  read_at,     \* where the read thread is: reading, or flushing for a seek
  seek_req,
  eof,         \* the null packets were put
  completed,   \* FFP_MSG_COMPLETED was sent for what is played now
  unread,      \* packets of each stream the demuxer still has
  paused,
  close_at,    \* how far stream_close is
  requests,
  stale,       \* frames put out since the serial they had was given up
  fresh        \* was the frame in hand counted in stale already?

packetVars == <<queue, codec, pkt_serial, finished, pkt, got>>
outVars    == <<out_at, used, audio_left, stale, fresh>>
readVars   == <<read_at, seek_req, eof, completed, unread, paused, requests>>
vars == <<file, packetVars, ring, dec_at, outVars, readVars, close_at>>

Streams == DOMAIN file

DecoderAt == {"decode", "get_asleep", "send", "room", "room_asleep", "fill", "ended"}
OutAt == {"idle", "readable_asleep", "taken", "display", "closed"}
CloseAt == {"open", "abort", "join_reader", "audio", "join_audio", "aout", "video", "join_video",
            "refresh", "closed"}

TypeOK ==
  /\ file \in Files
  /\ queue \in [Streams -> PacketQueue] /\ ring \in [Streams -> FrameQueue]
  /\ codec \in [Streams -> [held : Seq(Nat), draining : BOOLEAN]]
  /\ dec_at \in [Streams -> DecoderAt] /\ pkt \in [Streams -> Packet]
  /\ pkt_serial \in [Streams -> Nat] /\ finished \in [Streams -> Nat] /\ got \in [Streams -> Nat]
  /\ out_at \in [Streams -> OutAt] /\ used \in [Streams -> Slot] /\ audio_left \in 0 .. 2
  /\ read_at \in [at : {"reading", "flush", "put", "ended"}, of : Streams]
  /\ seek_req \in BOOLEAN /\ eof \in BOOLEAN /\ completed \in BOOLEAN /\ paused \in BOOLEAN
  /\ unread \in [Streams -> Nat] /\ close_at \in CloseAt
  /\ requests \in 0 .. MaxRequests
  /\ stale \in [Streams -> Nat] /\ fresh \in [Streams -> BOOLEAN]

Emptied == [held |-> <<>>, draining |-> FALSE]

\* stream_component_open has started the decoders.
Init ==
  /\ file \in Files
  /\ queue = [s \in Streams |-> packet_queue_start(packet_queue_init)]
  /\ ring = [s \in Streams |-> frame_queue_init]
  /\ codec = [s \in Streams |-> Emptied]
  /\ dec_at = [s \in Streams |-> "decode"]
  /\ pkt_serial = [s \in Streams |-> 0] /\ finished = [s \in Streams |-> 0]
  /\ pkt = [s \in Streams |-> [what |-> "flush", serial |-> 0]] /\ got = [s \in Streams |-> 0]
  /\ out_at = [s \in Streams |-> "idle"] /\ used = [s \in Streams |-> 0] /\ audio_left = 0
  /\ read_at = [at |-> "reading", of |-> CHOOSE s \in Streams : TRUE]
  /\ seek_req = FALSE /\ eof = FALSE /\ completed = FALSE /\ paused = FALSE
  /\ unread = file /\ close_at = "open" /\ requests = 0
  /\ stale = [s \in Streams |-> 0] /\ fresh = [s \in Streams |-> TRUE]

Current(s) == queue[s].serial
Aborted(s) == queue[s].abort_request

\* The decoder goes on; a signal of the packet queue's condition wakes it.
DecoderTo(s, at) == dec_at' = [dec_at EXCEPT ![s] = at]
QueueSignal(s) == IF dec_at[s] = "get_asleep" THEN "decode" ELSE dec_at[s]

\* A signal of the ring's condition wakes one of the threads asleep on it.
RingSignal(s) ==
  \/ dec_at[s] = "room_asleep" /\ DecoderTo(s, "room") /\ UNCHANGED out_at
  \/ out_at[s] = "readable_asleep" /\ out_at' = [out_at EXCEPT ![s] = "idle"] /\ UNCHANGED dec_at
  \/ dec_at[s] # "room_asleep" /\ out_at[s] # "readable_asleep" /\ UNCHANGED <<dec_at, out_at>>
-----------------------------------------------------------------------------
(***************************************************************************)
(* The decoder threads: decoder_decode_frame and what puts its frames.     *)
(***************************************************************************)
Receiving(s) == dec_at[s] = "decode" /\ Current(s) = pkt_serial[s]

\* The library gives a frame back once it holds more packets than it keeps for reordering.
Ready(s) == Len(codec[s].held) > IF codec[s].draining THEN 0 ELSE Delay

\* A late picture is dropped while more packets wait.
get_video_frame(s) == s = "video" /\ queue[s].packets # <<>> /\ UNCHANGED dec_at

receive_frame(s) ==
  /\ Receiving(s) /\ ~Aborted(s) /\ Ready(s)
  /\ got' = [got EXCEPT ![s] = Head(codec[s].held)]
  /\ codec' = [codec EXCEPT ![s].held = Tail(@)]
  /\ DecoderTo(s, "room") \/ get_video_frame(s)
  /\ UNCHANGED <<queue, ring, pkt_serial, finished, pkt, outVars, readVars, close_at>>

receive_end(s) ==
  /\ Receiving(s) /\ ~Aborted(s) /\ ~Ready(s) /\ codec[s].draining
  /\ finished' = [finished EXCEPT ![s] = pkt_serial[s]]
  /\ codec' = [codec EXCEPT ![s] = Emptied]
  /\ UNCHANGED <<queue, ring, dec_at, pkt_serial, pkt, got, outVars, readVars, close_at>>

\* No frame yet, or a serial that is over: the decoder wants the next packet.
Wants(s) == dec_at[s] = "decode" /\ (Current(s) # pkt_serial[s] \/ ~(Ready(s) \/ codec[s].draining))

receive_aborted(s) ==
  /\ Receiving(s) /\ Aborted(s) /\ DecoderTo(s, "ended")
  /\ UNCHANGED <<packetVars, ring, outVars, readVars, close_at>>

\* What comes under a serial that was decoded to its end is dropped.
packet_queue_get(s) ==
  /\ Wants(s) /\ ~Aborted(s) /\ queue[s].packets # <<>>
  /\ LET p == Head(queue[s].packets)
     IN /\ pkt' = [pkt EXCEPT ![s] = p]
        /\ pkt_serial' = [pkt_serial EXCEPT ![s] = p.serial]
        /\ IF finished[s] = p.serial THEN DecoderTo(s, "decode") ELSE DecoderTo(s, "send")
  /\ queue' = [queue EXCEPT ![s].packets = Tail(@)]
  /\ UNCHANGED <<codec, finished, got, ring, outVars, readVars, close_at>>

get_waits(s) ==
  /\ Wants(s) /\ (Aborted(s) \/ queue[s].packets = <<>>)
  /\ DecoderTo(s, IF Aborted(s) THEN "ended" ELSE "get_asleep")
  /\ UNCHANGED <<packetVars, ring, outVars, readVars, close_at>>

\* Mutant: the library keeps its frames over a flush packet.
MutEntered(c, p) ==
  CASE p.what = "flush" -> [c EXCEPT !.draining = FALSE]
    [] p.what = "null" -> [c EXCEPT !.draining = TRUE]
    [] p.what = "data" /\ c.draining -> c
    [] OTHER -> [c EXCEPT !.held = Append(c.held, p.serial)]

\* What the library holds once a packet has entered it.
Entered(c, p) ==
  CASE p.what = "flush" -> Emptied
    [] p.what = "null" -> [c EXCEPT !.draining = TRUE]
    [] p.what = "data" /\ c.draining -> c
    [] OTHER -> [c EXCEPT !.held = Append(c.held, p.serial)]

\* The serial may have moved on since the packet was taken.
send_packet(s) ==
  /\ dec_at[s] = "send" /\ DecoderTo(s, "decode")
  /\ IF Current(s) # pkt_serial[s] THEN UNCHANGED <<codec, finished>>
     ELSE /\ codec' = [codec EXCEPT ![s] = Entered(@, pkt[s])]
          /\ finished' = IF pkt[s].what = "flush" THEN [finished EXCEPT ![s] = 0] ELSE finished
  /\ UNCHANGED <<queue, pkt_serial, pkt, got, ring, outVars, readVars, close_at>>

frame_queue_peek_writable(s) ==
  /\ dec_at[s] = "room"
  /\ DecoderTo(s, IF Aborted(s) THEN "ended"
                  ELSE IF ring[s].size = RingSize THEN "room_asleep" ELSE "fill")
  /\ UNCHANGED <<packetVars, ring, outVars, readVars, close_at>>

\* The frame is labelled with the serial the decoder has now.
fill_frame(s) ==
  /\ dec_at[s] = "fill"
  /\ ring' = [ring EXCEPT ![s] = frame_queue_push(@, [serial |-> pkt_serial[s], from |-> got[s]])]
  /\ dec_at' = [dec_at EXCEPT ![s] = "decode"]
  /\ out_at' = [out_at EXCEPT ![s] = IF @ = "readable_asleep" THEN "idle" ELSE @]
  /\ UNCHANGED <<packetVars, used, audio_left, stale, fresh, readVars, close_at>>

\* queue_picture gives up after it allocated a new picture for an aborted stream.
picture_aborted ==
  /\ "video" \in Streams /\ dec_at["video"] = "fill" /\ Aborted("video")
  /\ DecoderTo("video", "ended")
  /\ UNCHANGED <<packetVars, ring, outVars, readVars, close_at>>

decoder_decode_frame(s) ==
  receive_frame(s) \/ receive_end(s) \/ receive_aborted(s)
  \/ packet_queue_get(s) \/ get_waits(s) \/ send_packet(s)

audio_thread ==
  "audio" \in Streams /\ (decoder_decode_frame("audio") \/ frame_queue_peek_writable("audio") \/ fill_frame("audio"))

ffplay_video_thread ==
  \/ "video" \in Streams /\ (decoder_decode_frame("video") \/ frame_queue_peek_writable("video") \/ fill_frame("video"))
  \/ picture_aborted
-----------------------------------------------------------------------------
(***************************************************************************)
(* The two that take frames: the audio callback and the refresh thread.    *)
(***************************************************************************)
OutTo(s, at) == out_at' = [out_at EXCEPT ![s] = at]

\* A frame is stale when it is put out under a serial that is over.
PutOut(s) ==
  LET over == ring[s].slot[used[s]].serial # Current(s) /\ fresh[s]
  IN /\ stale' = IF over THEN [stale EXCEPT ![s] = @ + 1] ELSE stale
     /\ fresh' = IF over THEN [fresh EXCEPT ![s] = FALSE] ELSE fresh

\* SDL_AoutCloseAudio was called: no callback begins any more.
AoutAborted == close_at \notin {"open", "abort", "join_reader", "audio", "join_audio"}

\* audio_decode_frame: a new frame is taken when the last is played to its end.
Takes == "audio" \in Streams /\ out_at["audio"] = "idle" /\ ~AoutAborted /\ audio_left = 0 /\ ~paused

\* frame_queue_peek_readable, frame_queue_next: the frame is used after the ring moved on.
frame_queue_peek_readable ==
  /\ Takes /\ ~Aborted("audio") /\ frame_queue_nb_remaining(ring["audio"]) > 0
  /\ used' = [used EXCEPT !["audio"] = frame_queue_peek(ring["audio"])]
  /\ ring' = [ring EXCEPT !["audio"] = frame_queue_next(@)]
  /\ DecoderTo("audio", IF dec_at["audio"] = "room_asleep" THEN "room" ELSE dec_at["audio"])
  /\ OutTo("audio", "taken")
  /\ UNCHANGED <<packetVars, audio_left, stale, fresh, readVars, close_at>>

\* An aborted stream is silent.
readable_waits ==
  /\ Takes /\ ~Aborted("audio") /\ frame_queue_nb_remaining(ring["audio"]) = 0
  /\ OutTo("audio", "readable_asleep")
  /\ UNCHANGED <<packetVars, ring, dec_at, used, audio_left, stale, fresh, readVars, close_at>>

\* Mutant: a frame is played whatever its serial.
MutAudioDecodeFrame ==
  /\ "audio" \in Streams /\ out_at["audio"] = "taken" /\ OutTo("audio", "idle")
  /\ audio_left' \in 1 .. 2 /\ fresh' = [fresh EXCEPT !["audio"] = TRUE]
  /\ UNCHANGED <<packetVars, ring, dec_at, used, stale, readVars, close_at>>

\* Only a frame of the current serial is played.
audio_decode_frame ==
  /\ "audio" \in Streams /\ out_at["audio"] = "taken" /\ OutTo("audio", "idle")
  /\ IF ring["audio"].slot[used["audio"]].serial # Current("audio") THEN UNCHANGED <<audio_left, fresh>>
     ELSE audio_left' \in 1 .. 2 /\ fresh' = [fresh EXCEPT !["audio"] = TRUE]
  /\ UNCHANGED <<packetVars, ring, dec_at, used, stale, readVars, close_at>>

\* The callback looks at the decoder's serial, not at the frame's, before it plays what is left.
sdl_audio_callback ==
  /\ "audio" \in Streams /\ out_at["audio"] = "idle" /\ ~AoutAborted /\ audio_left > 0
  /\ IF pkt_serial["audio"] # Current("audio") THEN audio_left' = 0 /\ UNCHANGED <<stale, fresh>>
     ELSE audio_left' = audio_left - 1 /\ PutOut("audio")
  /\ UNCHANGED <<packetVars, ring, dec_at, out_at, used, readVars, close_at>>

Shows == "video" \in Streams /\ out_at["video"] = "idle" /\ close_at = "open"
         /\ ~paused /\ frame_queue_nb_remaining(ring["video"]) > 0
Upcoming == ring["video"].slot[frame_queue_peek(ring["video"])]

\* video_refresh passes over a frame whose serial is over, and over a late one when more follow.
refresh_skips ==
  /\ Shows
  /\ \/ Upcoming.serial # Current("video")
     \/ frame_queue_nb_remaining(ring["video"]) > 1
  /\ ring' = [ring EXCEPT !["video"] = frame_queue_next(@)]
  /\ DecoderTo("video", IF dec_at["video"] = "room_asleep" THEN "room" ELSE dec_at["video"])
  /\ UNCHANGED <<packetVars, outVars, readVars, close_at>>

\* Its time has come: it becomes the last one, which is displayed.
refresh_picks ==
  /\ Shows /\ Upcoming.serial = Current("video")
  /\ ring' = [ring EXCEPT !["video"] = frame_queue_next(@)]
  /\ used' = [used EXCEPT !["video"] = frame_queue_peek_last(ring'["video"])]
  /\ DecoderTo("video", IF dec_at["video"] = "room_asleep" THEN "room" ELSE dec_at["video"])
  /\ OutTo("video", "display") /\ fresh' = [fresh EXCEPT !["video"] = TRUE]
  /\ UNCHANGED <<packetVars, audio_left, stale, readVars, close_at>>

video_image_display ==
  /\ "video" \in Streams /\ out_at["video"] = "display"
  /\ PutOut("video") /\ OutTo("video", "idle")
  /\ UNCHANGED <<packetVars, ring, dec_at, used, audio_left, readVars, close_at>>

\* video_refresh_thread ends.
refresh_ends ==
  /\ "video" \in Streams /\ out_at["video"] = "idle" /\ close_at # "open"
  /\ OutTo("video", "closed")
  /\ UNCHANGED <<packetVars, ring, dec_at, used, audio_left, stale, fresh, readVars, close_at>>

AudioOut == frame_queue_peek_readable \/ readable_waits \/ audio_decode_frame \/ sdl_audio_callback
VideoOut == refresh_skips \/ refresh_picks \/ video_image_display \/ refresh_ends
-----------------------------------------------------------------------------
(***************************************************************************)
(* The read thread.                                                        *)
(***************************************************************************)
Reading == read_at.at = "reading" /\ close_at = "open"
First == IF "audio" \in Streams THEN "audio" ELSE "video"

Put(s, what) ==
  /\ queue' = [queue EXCEPT ![s] = packet_queue_put(@, what)]
  /\ dec_at' = [dec_at EXCEPT ![s] = QueueSignal(s)]

PutAll(what) ==
  /\ queue' = [s \in Streams |-> packet_queue_put(queue[s], what)]
  /\ dec_at' = [s \in Streams |-> QueueSignal(s)]

\* A new serial begins: nothing of it is stale yet.
Anew(s) == stale' = [stale EXCEPT ![s] = 0]

\* avformat_seek_file: a seek that fails leaves the queues as they are.
seek_fails ==
  /\ Reading /\ seek_req /\ seek_req' = FALSE /\ eof' = FALSE /\ completed' = FALSE
  /\ UNCHANGED <<packetVars, ring, dec_at, outVars, read_at, unread, paused, requests, close_at>>

seek_begins ==
  /\ Reading /\ seek_req /\ read_at' = [at |-> "flush", of |-> First]
  /\ UNCHANGED <<packetVars, ring, dec_at, outVars, seek_req, eof, completed, unread, paused, requests, close_at>>

flush_queue ==
  /\ read_at.at = "flush"
  /\ queue' = [queue EXCEPT ![read_at.of] = packet_queue_flush(@)]
  /\ read_at' = [read_at EXCEPT !.at = "put"]
  /\ UNCHANGED <<codec, pkt_serial, finished, pkt, got, ring, dec_at, outVars, seek_req, eof, completed,
                 unread, paused, requests, close_at>>

put_flush_packet ==
  /\ read_at.at = "put" /\ Put(read_at.of, "flush") /\ Anew(read_at.of)
  /\ IF read_at.of = "audio" /\ "video" \in Streams
     THEN read_at' = [at |-> "flush", of |-> "video"] /\ UNCHANGED <<seek_req, eof, completed, unread>>
     ELSE /\ read_at' = [read_at EXCEPT !.at = "reading"]
          /\ seek_req' = FALSE /\ eof' = FALSE /\ completed' = FALSE
          /\ unread' = file
  /\ UNCHANGED <<codec, pkt_serial, finished, pkt, got, ring, out_at, used, audio_left, fresh, paused,
                 requests, close_at>>

\* stream_has_enough_packets, of every stream: the thread waits a moment.
Enough == \A s \in Streams : Len(queue[s].packets) > MinFrames

\* Mutant: one stream is enough.
MutPlayedOut == \E s \in Streams :
  finished[s] = Current(s) /\ frame_queue_nb_remaining(ring[s]) = 0

PlayedOut == \A s \in Streams :
  finished[s] = Current(s) /\ frame_queue_nb_remaining(ring[s]) = 0

\* The end is told once, and pauses the player.
complete ==
  /\ Reading /\ ~seek_req /\ ~Enough /\ ~paused /\ ~completed /\ PlayedOut
  /\ completed' = TRUE /\ paused' = TRUE
  /\ UNCHANGED <<packetVars, ring, dec_at, outVars, read_at, seek_req, eof, unread, requests, close_at>>

\* av_read_frame.
read_packet(s) ==
  /\ Reading /\ ~seek_req /\ ~Enough /\ unread[s] > 0
  /\ Put(s, "data") /\ unread' = [unread EXCEPT ![s] = @ - 1] /\ eof' = FALSE
  /\ UNCHANGED <<codec, pkt_serial, finished, pkt, got, ring, outVars, read_at, seek_req, completed, paused,
                 requests, close_at>>

\* AV_PKT_FLAG_DISCONTINUITY: a flush packet before it, but nothing is flushed.
read_discontinuity(s) ==
  /\ Reading /\ ~seek_req /\ ~Enough /\ unread[s] > 0 /\ requests < MaxRequests
  /\ queue' = [t \in Streams |->
       LET q == packet_queue_put(queue[t], "flush") IN IF t = s THEN packet_queue_put(q, "data") ELSE q]
  /\ dec_at' = [t \in Streams |-> QueueSignal(t)]
  /\ unread' = [unread EXCEPT ![s] = @ - 1] /\ eof' = FALSE /\ requests' = requests + 1
  /\ stale' = [t \in Streams |-> 0]
  /\ UNCHANGED <<codec, pkt_serial, finished, pkt, got, ring, out_at, used, audio_left, fresh, read_at,
                 seek_req, completed, paused, close_at>>

\* The end of the file: a null packet has every decoder give back what it holds.
read_end ==
  /\ Reading /\ ~seek_req /\ ~Enough /\ ~eof /\ \A s \in Streams : unread[s] = 0
  /\ PutAll("null") /\ eof' = TRUE
  /\ UNCHANGED <<codec, pkt_serial, finished, pkt, got, ring, outVars, read_at, seek_req, completed, unread,
                 paused, requests, close_at>>

read_thread_ends ==
  /\ read_at.at = "reading" /\ close_at # "open" /\ read_at' = [read_at EXCEPT !.at = "ended"]
  /\ UNCHANGED <<packetVars, ring, dec_at, outVars, seek_req, eof, completed, unread, paused, requests, close_at>>

Reader ==
  \/ seek_begins \/ flush_queue \/ put_flush_packet \/ complete \/ read_end \/ read_thread_ends
  \/ \E s \in Streams : read_packet(s)
-----------------------------------------------------------------------------
(***************************************************************************)
(* The application: a seek, a pause or a start, and the end.               *)
(***************************************************************************)
stream_seek ==
  /\ close_at = "open" /\ ~seek_req /\ requests < MaxRequests
  /\ seek_req' = TRUE /\ requests' = requests + 1
  /\ UNCHANGED <<packetVars, ring, dec_at, outVars, read_at, eof, completed, unread, paused, close_at>>

toggle_pause ==
  /\ close_at = "open" /\ requests < MaxRequests
  /\ paused' = ~paused /\ requests' = requests + 1
  /\ UNCHANGED <<packetVars, ring, dec_at, outVars, read_at, seek_req, eof, completed, unread, close_at>>

\* is->abort_request, the step of ffp_stop_l before stream_close.
ffp_stop ==
  /\ close_at = "open" /\ close_at' = "abort"
  /\ UNCHANGED <<packetVars, ring, dec_at, outVars, readVars>>

\* stream_close aborts both queues and waits for the read thread.
close_queues ==
  /\ close_at = "abort" /\ close_at' = "join_reader"
  /\ queue' = [s \in Streams |-> packet_queue_abort(queue[s])]
  /\ dec_at' = [s \in Streams |-> QueueSignal(s)]
  /\ UNCHANGED <<codec, pkt_serial, finished, pkt, got, ring, outVars, readVars>>

AfterReader == IF "audio" \in Streams THEN "audio" ELSE "video"
AfterAudio == IF "video" \in Streams THEN "video" ELSE "refresh"

join_reader ==
  /\ close_at = "join_reader" /\ read_at.at = "ended" /\ close_at' = AfterReader
  /\ UNCHANGED <<packetVars, ring, dec_at, outVars, readVars>>

JoinOf(s) == IF s = "audio" THEN "join_audio" ELSE "join_video"

\* Mutant: decoder_abort wakes only who waits for packets.
MutDecoderAbort(s) ==
  /\ close_at = s /\ close_at' = JoinOf(s)
  /\ queue' = [queue EXCEPT ![s] = packet_queue_abort(@)]
  /\ UNCHANGED <<codec, pkt_serial, finished, pkt, got, ring, dec_at, used, audio_left, stale, fresh, out_at,
                 readVars>>

\* decoder_abort: it wakes one thread that waits for the ring, then waits for the decoder.
decoder_abort(s) ==
  /\ close_at = s /\ close_at' = JoinOf(s)
  /\ queue' = [queue EXCEPT ![s] = packet_queue_abort(@)]
  /\ IF dec_at[s] # "get_asleep" THEN RingSignal(s)
     ELSE /\ DecoderTo(s, "decode")
          /\ out_at' = [out_at EXCEPT ![s] = IF @ = "readable_asleep" THEN "idle" ELSE @]
  /\ UNCHANGED <<codec, pkt_serial, finished, pkt, got, ring, used, audio_left, stale, fresh, readVars>>

\* The decoder has ended; its packets go, and an audio stream closes its output.
decoder_joined(s) ==
  /\ close_at = JoinOf(s) /\ dec_at[s] = "ended"
  /\ close_at' = IF s = "audio" THEN "aout" ELSE "refresh"
  /\ queue' = [queue EXCEPT ![s] = packet_queue_flush(@)]
  /\ UNCHANGED <<codec, pkt_serial, finished, pkt, got, ring, dec_at, outVars, readVars>>

\* SDL_AoutCloseAudio waits until the callback has returned.
close_audio ==
  /\ close_at = "aout" /\ out_at["audio"] = "idle"
  /\ OutTo("audio", "closed") /\ close_at' = AfterAudio
  /\ UNCHANGED <<packetVars, ring, dec_at, used, audio_left, stale, fresh, readVars>>

\* It waits for the refresh thread and frees the queues.
stream_closed ==
  /\ close_at = "refresh" /\ ("video" \in Streams => out_at["video"] = "closed")
  /\ close_at' = "closed"
  /\ UNCHANGED <<packetVars, ring, dec_at, outVars, readVars>>

Closer ==
  \/ close_queues \/ join_reader \/ close_audio \/ stream_closed
  \/ \E s \in Streams : decoder_abort(s) \/ decoder_joined(s)

Done == close_at = "closed" /\ UNCHANGED vars

Next ==
  /\ file' = file
  /\ \/ audio_thread \/ ffplay_video_thread \/ \E s \in Streams : read_discontinuity(s)
     \/ AudioOut \/ VideoOut \/ Reader \/ seek_fails \/ stream_seek \/ toggle_pause
     \/ ffp_stop \/ Closer \/ Done

\* Each thread runs, and the library answers.
Fairness ==
  /\ WF_vars(audio_thread /\ file' = file) /\ WF_vars(ffplay_video_thread /\ file' = file)
  /\ WF_vars(AudioOut /\ file' = file) /\ WF_vars(VideoOut /\ file' = file)
  /\ WF_vars(Reader /\ file' = file) /\ WF_vars(Closer /\ file' = file)

Spec == Init /\ [][Next]_vars /\ Fairness
-----------------------------------------------------------------------------
(***************************************************************************)
(* Properties.                                                             *)
(***************************************************************************)
\* Every frame is labelled with the serial of the packet it was decoded from: the flush packet
\* passes through the decoder between two serials (ff_ffplay.c, decoder_decode_frame).
LabelHonest == \A s \in Streams, i \in Slot : ring[s].slot[i].serial = ring[s].slot[i].from

\* The slot the decoder fills is never the one the refresh thread shows or the callback plays from:
\* both go on reading it after frame_queue_next (ff_ffplay.c, audio_decode_frame and
\* video_image_display2), and only keep_last keeps it.
InUse(s) == out_at[s] \in {"taken", "display"} \/ (s = "audio" /\ audio_left > 0)
SlotNotShared == \A s \in Streams :
  dec_at[s] = "fill" /\ InUse(s) /\ close_at # "closed" => used[s] # ring[s].windex

\* At most one frame of each stream is put out under a serial that is over (ff_ffplay.c,
\* video_refresh and audio_decode_frame look at the serial before they use the frame).
AtMostOneStale == \A s \in Streams : stale[s] <= 1

\* When the end is told nothing of what was read is left on the way: no packet, nothing in the
\* library, no frame in a decoder's hands, none in a ring (ff_ffplay.c, read_thread).
OnTheWay(s) ==
  \/ \E i \in 1 .. Len(queue[s].packets) :
       queue[s].packets[i].what = "data" /\ queue[s].packets[i].serial = Current(s)
  \/ Current(s) = pkt_serial[s] /\ (codec[s].held # <<>> \/ dec_at[s] \in {"room", "room_asleep", "fill"})
  \/ frame_queue_nb_remaining(ring[s]) > 0
EndIsTheEnd == [][~completed /\ completed' => \A s \in Streams : unread[s] = 0 /\ ~OnTheWay(s)]_vars

\* stream_close comes to its end: none of the threads it waits for sleeps on
\* (ff_ffplay.c, stream_close and decoder_abort).
CloseEnds == close_at = "abort" ~> close_at = "closed"
=============================================================================
