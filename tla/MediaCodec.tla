----------------------------- MODULE MediaCodec -----------------------------
(***************************************************************************)
(* Video through the hardware decoder of Android.  The input thread feeds  *)
(* packets, the output thread takes decoded buffers and queues them as     *)
(* pictures, the refresh thread shows or drops them, and the application   *)
(* changes the surface at any time, which makes the input thread replace   *)
(* the codec.  A picture is no copy: it is a proxy for a buffer that stays *)
(* with the codec until somebody gives it back, so a flush, a new codec or *)
(* a new surface takes buffers away from whoever holds them.               *)
(***************************************************************************)
EXTENDS Naturals, Sequences, FiniteSets, Functions

CONSTANTS
  Surfaces,   \* the Java surfaces of the application
  NoSurface,  \* NULL
  Buffers,    \* the output buffers of a codec
  FakeCap,    \* FAKE_BUFFER_QUEUE_SIZE
  CodecFails, \* may MediaCodec throw at configure, start or dequeueInputBuffer?
  Options     \* the combinations of options to be considered

ASSUME SurfacesAssumption == NoSurface \notin Surfaces
ASSUME BuffersAssumption  == IsFiniteSet(Buffers) /\ Buffers # {} /\ "none" \notin Buffers
ASSUME SizesAssumption    == FakeCap \in Nat \ {0} /\ CodecFails \in BOOLEAN
(* pictq_size; mediacodec_sync; n_buf_out, which is 1 for a decoder known  *)
(* to give frames in the wrong order; mediacodec_handle_resolution_change; *)
(* async_init_decoder                                                      *)
ASSUME OptionsAssumption ==
  Options \subseteq [pictq_size : Nat \ {0}, sync : BOOLEAN, n_buf_out : {0, 1},
                     resolution : BOOLEAN, async : BOOLEAN]

VARIABLES
  in_at,        \* where the input thread (enqueue_thread_func) is
  out_at,       \* where the output thread (func_run_sync) is; with opt.sync
                \* one thread (func_run_sync_loop) does both things in turn
  app_at,       \* where the application's call of setSurface is
  acodec_mutex, \* who holds it
  codec,        \* the SDL_AMediaCodec objects
  acodec,       \* the node's codec
  vout_acodec,  \* the codec of the video output; 0: NULL
  fifo,         \* the fake frames in the node's codec
  jsurface,     \* the surface the node has configured its codec with
  surface,      \* the surface of the pipeline
  new_surface,  \* the surface the input thread is about to use
  window,       \* the native window of the video output
  need,         \* is_surface_need_reconfigure
  flush_request,
  first_request, \* acodec_first_dequeue_output_request
  fed,          \* input_packet_count > 0
  pending,      \* packet_pending
  flush_queued, \* a flush packet is in the packet queue
  seek_at,      \* where the read thread is in a seek
  aborted,      \* abort_request of the packet queue
  got,          \* the buffer just dequeued
  frame,        \* the proxy of the output thread's frame
  pictq,        \* the proxies of the queued pictures
  shown,        \* rindex_shown
  opt,          \* the options of this player
  recreate,     \* aformat_need_recreate
  early         \* amc_buf_out: the buffer held back, if any, and its serial

nodeVars  == <<acodec, jsurface, new_surface, fifo, fed, pending, first_request>>
voutVars  == <<vout_acodec, window>>
heldVars  == <<frame, pictq>>
surfVars  == <<surface, need>>
seekVars  == <<seek_at, flush_queued, flush_request>>
optVars   == <<opt, recreate, early>>
codecVars == <<in_at, out_at, app_at, acodec_mutex, codec, nodeVars, voutVars, surfVars,
               seekVars, heldVars, got, shown, aborted, optVars>>

Null    == NoSurface
Dummy(c) == codec[c].serial = 0

(* The node and the video output hold a codec each, which may differ while *)
(* the surface changes; the memory of a deleted codec is used again.       *)
Codecs  == 1 .. 2
Dead    == [serial |-> 0, refs |-> 0, started |-> FALSE, valid |-> FALSE, held |-> {}]
NoIndex == "none"
(* A proxy is a value: each is held by one frame or one picture, and       *)
(* overlay_pool only saves its memory.  One that has been invalidated or   *)
(* given back, or is for a fake frame, brings nothing back any more.       *)
Invalid == [serial |-> 0, index |-> NoIndex]

(* A codec just created; a dummy, which takes no surface, has serial 0.    *)
(* The buffers it has handed out are in held.                              *)
CreateInternal(serial) == [Dead EXCEPT !.serial = serial, !.refs = 1]

Configure(k) == [k EXCEPT !.valid = TRUE]
Start(k)     == [k EXCEPT !.started = TRUE]

(* Where the feeding thread is when feed_input_buffer has returned.        *)
FeedEnds == IF opt.sync THEN "rest" ELSE "pop"
Exited   == IF opt.sync THEN "rest" ELSE "done"

CodecInit ==
  /\ opt \in Options
  /\ surface = Null /\ window = Null /\ need = FALSE
  /\ jsurface = Null /\ new_surface = Null
  /\ codec = [c \in Codecs |-> Dead]
  /\ acodec = 0 /\ vout_acodec = 0
  /\ fifo = 0 /\ fed = FALSE /\ pending = FALSE /\ first_request = FALSE
  /\ in_at = "none" /\ out_at = "init" /\ acodec_mutex = "free"
  /\ app_at = "idle"
  /\ seek_at = "idle" /\ flush_queued = FALSE /\ flush_request = FALSE
  /\ aborted = FALSE
  /\ got = NoIndex /\ frame = Invalid
  /\ pictq = <<>> /\ shown = FALSE
  /\ recreate = FALSE /\ early = <<>>

-----------------------------------------------------------------------------
(* The video output.  Each of these runs under vout->mutex.                *)

Proxies == {frame} \cup {pictq[i] : i \in DOMAIN pictq}

(* SDL_AMediaCodec_create_object_serial counts: nobody has the next one.   *)
FreshSerial ==
  LET used == {codec[c].serial : c \in Codecs} \cup {p.serial : p \in Proxies \cup Range(early)}
  IN  CHOOSE n \in 1 .. Cardinality(used) + 1 : n \notin used

InvalidateAll ==
  /\ frame' = Invalid
  /\ pictq' = [i \in DOMAIN pictq |-> Invalid]

(* SDL_VoutAndroid_releaseBufferProxy: the buffer goes back to the codec   *)
(* of the video output if it is still the one the buffer came from.        *)
GoesBack(p) ==
  vout_acodec # 0 /\ codec[vout_acodec].serial = p.serial /\ p.index # NoIndex

GivenBack(c, b) == [codec EXCEPT ![c].held = @ \ {b}]

Release(p) ==
  codec' = IF GoesBack(p) THEN GivenBack(vout_acodec, p.index) ELSE codec

(* SDL_AMediaCodec_decreaseReference: the last reference deletes it.       *)
Drop(cs, c) == IF c = 0 THEN cs
               ELSE IF cs[c].refs = 1 THEN [cs EXCEPT ![c] = Dead]
               ELSE [cs EXCEPT ![c].refs = @ - 1]

Take(cs, c) == IF c = 0 THEN cs ELSE [cs EXCEPT ![c].refs = @ + 1]

(* SDL_VoutAndroid_setAMediaCodec                                          *)
SetAMediaCodec(c) ==
  IF vout_acodec = c THEN UNCHANGED <<vout_acodec, frame, pictq, codec>> ELSE
  /\ InvalidateAll
  /\ codec' = Take(Drop(codec, vout_acodec), c)
  /\ vout_acodec' = c

-----------------------------------------------------------------------------
(* The decoder is opened by the read thread, whose place out_at holds.     *)
(* With async_init_decoder the codec is made before the stream is known,   *)
(* with a surface or not, and only configured now; when that fails the     *)
(* decoder is opened like any other, and when that fails too the software  *)
(* decoder takes over.  The application may change the surface meanwhile.  *)

(* A dummy stands in for a codec as long as there is no surface.           *)
CreateDummy == CreateInternal(0)
CreateCodec == IF jsurface = Null THEN CreateDummy ELSE CreateInternal(FreshSerial)

Free == CHOOSE c \in Codecs : codec[c] = Dead

(* ffpipenode_free of a node: a codec it has left goes with it.            *)
Destroy == codec' = Drop(codec, acodec) /\ acodec' = 0

OpenInit ==
  /\ out_at = "init" /\ out_at' = "open"
  /\ \/ /\ opt.async
        /\ acodec' = Free /\ codec' = [codec EXCEPT ![acodec'] = CreateInternal(FreshSerial)]
     \/ UNCHANGED <<acodec, codec>>
  /\ UNCHANGED <<in_at, acodec_mutex, jsurface, new_surface, fifo, fed, pending,
                 first_request, voutVars, surfVars, app_at, seekVars, heldVars, got,
                 shown, aborted, optVars>>

OpenFails ==
  /\ Destroy
  /\ out_at' = IF acodec # 0 THEN "open" ELSE "software"

(* The format or the profile is not for MediaCodec, or its parameters      *)
(* cannot be converted, or no codec is selected for it.                    *)
OpenRefused ==
  /\ out_at = "open" /\ ~aborted
  /\ OpenFails
  /\ UNCHANGED <<in_at, acodec_mutex, jsurface, new_surface, fifo, fed, pending,
                 first_request, voutVars, surfVars, app_at, seekVars, heldVars, got,
                 shown, aborted, optVars>>

OpenSurface ==
  /\ out_at = "open" /\ ~aborted
  /\ out_at' = "configure" /\ jsurface' = surface
  /\ UNCHANGED <<in_at, acodec_mutex, codec, acodec, new_surface, fifo, fed, pending,
                 first_request, voutVars, surfVars, app_at, seekVars, heldVars, got,
                 shown, aborted, optVars>>

(* configure_codec_l with the codec made before, reconfigure_codec_l with  *)
(* none                                                                    *)
OpenConfigure ==
  /\ out_at = "configure"
  /\ \/ /\ acodec' = IF acodec # 0 THEN acodec ELSE Free
        /\ codec' = [codec EXCEPT ![acodec'] =
             Start(Configure(IF acodec # 0 THEN @ ELSE CreateCodec))]
        /\ first_request' = TRUE /\ out_at' = "publish"
     \/ /\ CodecFails /\ (acodec # 0 \/ jsurface # Null)
        /\ OpenFails /\ UNCHANGED first_request
  /\ UNCHANGED <<in_at, acodec_mutex, jsurface, new_surface, fifo, fed, pending,
                 voutVars, surfVars, app_at, seekVars, heldVars, got, shown, aborted,
                 optVars>>

(* The video output gets the codec and the two threads, or the one, start. *)
OpenPublish ==
  /\ out_at = "publish" /\ out_at' = "top" /\ in_at' = FeedEnds
  /\ SetAMediaCodec(acodec)
  /\ UNCHANGED <<acodec_mutex, nodeVars, window, surfVars, app_at, seekVars, got,
                 shown, aborted, optVars>>

(* The player is stopped before the stream is opened.                      *)
OpenNot ==
  /\ out_at = "open" /\ aborted /\ out_at' = "done"
  /\ UNCHANGED <<in_at, acodec_mutex, codec, nodeVars, voutVars, surfVars, app_at,
                 seekVars, heldVars, got, shown, aborted, optVars>>

Opening == out_at \in {"init", "open", "configure", "publish"}

-----------------------------------------------------------------------------
(* The input thread: feed_input_buffer, over and over.                     *)

(* A packet may carry new parameters of the stream, of another resolution. *)
Examine ==
  \/ UNCHANGED <<need, recreate>>
  \/ opt.resolution /\ need' = TRUE /\ recreate' = TRUE

(* The packet in hand is fed if no later flush has made it stale.          *)
NextPacket(inHand) ==
  LET fresh == inHand /\ ~flush_queued
  IN  /\ pending' = fresh
      /\ in_at' = IF fresh THEN "check" ELSE "pop"
      /\ IF fresh THEN Examine ELSE UNCHANGED <<need, recreate>>

(* Any packet is as good as the flush packet when a flush is requested.    *)
InPop ==
  /\ in_at = "pop"
  /\ \/ /\ aborted /\ in_at' = Exited
        /\ UNCHANGED <<pending, flush_queued, flush_request, need, recreate>>
     \/ /\ ~aborted /\ flush_queued
        /\ in_at' = "flush" /\ pending' = FALSE
        /\ flush_queued' = FALSE /\ flush_request' = TRUE
        /\ UNCHANGED <<need, recreate>>
     \/ /\ ~aborted /\ ~flush_queued /\ pending' = TRUE
        /\ IF pending THEN in_at' = "check" /\ UNCHANGED <<need, recreate>>
           ELSE IF flush_request THEN in_at' = "flush" /\ UNCHANGED <<need, recreate>>
           ELSE in_at' = "check" /\ Examine
        /\ UNCHANGED <<flush_queued, flush_request>>
  /\ UNCHANGED <<out_at, acodec_mutex, codec, acodec, jsurface, new_surface, fifo, fed,
                 first_request, voutVars, surface, app_at, seek_at, heldVars, got,
                 shown, aborted, opt, early>>

MutInFlushLock ==
  /\ in_at = "flush"
  /\ IF codec[acodec].started /\ fed
     THEN /\ InvalidateAll
          /\ acodec_mutex' = "in" /\ in_at' = "flushing"
          /\ UNCHANGED <<flush_request, pending, need, recreate>>
     ELSE /\ flush_request' = FALSE
          /\ NextPacket(pending)
          /\ UNCHANGED <<heldVars, acodec_mutex>>
  /\ UNCHANGED <<out_at, codec, acodec, jsurface, new_surface, fifo, fed,
                 first_request, voutVars, surface, app_at, seek_at, flush_queued, got,
                 shown, aborted, opt, early>>

InFlushLock ==
  /\ in_at = "flush" /\ acodec_mutex = "free"
  /\ IF codec[acodec].started /\ fed
     THEN /\ InvalidateAll
          /\ acodec_mutex' = "in" /\ in_at' = "flushing"
          /\ UNCHANGED <<flush_request, pending, need, recreate>>
     ELSE /\ flush_request' = FALSE
          /\ NextPacket(pending)
          /\ UNCHANGED <<heldVars, acodec_mutex>>
  /\ UNCHANGED <<out_at, codec, acodec, jsurface, new_surface, fifo, fed, first_request,
                 voutVars, surface, app_at, seek_at, flush_queued, got, shown,
                 aborted, opt, early>>

(* A flushed or stopped codec has all its buffers back and a new serial,   *)
(* so that nothing obtained before can be given back to it.                *)
Renewed(c, on) == IF Dummy(c) THEN [codec EXCEPT ![c].started = on]
                  ELSE [codec EXCEPT ![c].started = on, ![c].held = {},
                                     ![c].serial = FreshSerial]

InFlush ==
  /\ in_at = "flushing"
  /\ codec' = Renewed(acodec, TRUE)
  /\ fifo' = 0 /\ fed' = FALSE
  /\ flush_request' = FALSE /\ acodec_mutex' = "free"
  /\ NextPacket(pending)
  /\ UNCHANGED <<out_at, acodec, jsurface, new_surface, first_request, voutVars,
                 surface, app_at, seek_at, flush_queued, heldVars, got, shown,
                 aborted, opt, early>>

(* It fails when the new parameters cannot be converted, and the thread    *)
(* ends.                                                                   *)
RecreateFormat ==
  \/ in_at' = "reconfigure" /\ new_surface' = surface /\ recreate' = FALSE
  \/ recreate /\ in_at' = Exited /\ UNCHANGED <<new_surface, recreate>>

InCheck ==
  /\ in_at = "check"
  /\ IF ~need THEN in_at' = "feed" /\ UNCHANGED <<need, new_surface, recreate>> ELSE
     /\ need' = FALSE
     /\ IF jsurface = surface /\ ~recreate
        THEN in_at' = "feed" /\ UNCHANGED <<new_surface, recreate>>
        ELSE IF opt.sync /\ aborted
        THEN in_at' = Exited /\ UNCHANGED <<new_surface, recreate>>
        ELSE RecreateFormat
  /\ UNCHANGED <<out_at, acodec_mutex, codec, acodec, jsurface, fifo, fed, pending,
                 first_request, voutVars, surface, app_at, seekVars, heldVars, got,
                 shown, aborted, opt, early>>

(* reconfigure_codec_l, with a new codec each time: the quirk is always on *)
InReconfigure ==
  /\ in_at = "reconfigure" /\ acodec_mutex = "free"
  /\ acodec_mutex' = "in" /\ in_at' = "stop"
  /\ jsurface' = new_surface /\ new_surface' = Null
  /\ IF codec[acodec].started THEN InvalidateAll ELSE UNCHANGED heldVars
  /\ UNCHANGED <<out_at, codec, acodec, fifo, fed, pending, first_request, voutVars,
                 surfVars, app_at, seekVars, got, shown, aborted, optVars>>

StopNode ==
  /\ codec' = Drop(IF codec[acodec].started THEN Renewed(acodec, FALSE) ELSE codec, acodec)
  /\ acodec' = 0

InStop ==
  /\ in_at = "stop" /\ in_at' = "clear"
  /\ StopNode
  /\ UNCHANGED <<out_at, acodec_mutex, jsurface, new_surface, fifo, fed, pending,
                 first_request, voutVars, surfVars, app_at, seekVars, heldVars, got,
                 shown, aborted, optVars>>

InClear ==
  /\ in_at = "clear" /\ in_at' = "create"
  /\ SetAMediaCodec(0)
  /\ UNCHANGED <<out_at, acodec_mutex, nodeVars, window, surfVars, app_at, seekVars,
                 got, shown, aborted, optVars>>

(* MediaCodec.configure fails, or start does: the node keeps the codec,    *)
(* which is not started and whose every call throws from now on, and the   *)
(* video output is left without one.                                       *)
InCreate ==
  /\ in_at = "create"
  /\ acodec' = Free
  /\ fifo' = 0
  /\ \/ /\ codec' = [codec EXCEPT ![acodec'] = Start(Configure(CreateCodec))]
        /\ first_request' = TRUE /\ in_at' = "set"
        /\ UNCHANGED acodec_mutex
     \/ /\ CodecFails /\ jsurface # Null
        /\ codec' = [codec EXCEPT ![acodec'] = CreateCodec]
        /\ acodec_mutex' = "free" /\ in_at' = FeedEnds
        /\ UNCHANGED first_request
  /\ UNCHANGED <<out_at, jsurface, new_surface, fed, pending, voutVars, surfVars,
                 app_at, seekVars, heldVars, got, shown, aborted, optVars>>

InSet ==
  /\ in_at = "set"
  /\ in_at' = IF ~opt.sync THEN "first"
              ELSE IF aborted \/ flush_request THEN "rest" ELSE "feed"
  /\ SetAMediaCodec(acodec)
  /\ acodec_mutex' = "free"
  /\ UNCHANGED <<out_at, nodeVars, window, surfVars, app_at, seekVars, got, shown,
                 aborted, optVars>>

MutInFirst ==
  /\ in_at = "first"
  /\ ~first_request
  /\ in_at' = IF aborted \/ flush_request THEN "pop" ELSE "feed"
  /\ UNCHANGED <<out_at, acodec_mutex, codec, nodeVars, voutVars, surfVars, app_at,
                 seekVars, heldVars, got, shown, aborted, optVars>>

(* The input thread lets the output thread go first on a new codec.        *)
InFirst ==
  /\ in_at = "first"
  /\ aborted \/ flush_request \/ ~first_request
  /\ in_at' = IF aborted \/ flush_request THEN "pop" ELSE "feed"
  /\ UNCHANGED <<out_at, acodec_mutex, codec, nodeVars, voutVars, surfVars, app_at,
                 seekVars, heldVars, got, shown, aborted, optVars>>

(* A packet given to the codec is done with.                               *)
InputQueued == fed' = TRUE /\ pending' = FALSE /\ in_at' = FeedEnds

(* A codec that throws is fed fake frames; when they are FakeCap the       *)
(* thread gives up.                                                        *)
FakeRoom == fifo < FakeCap

QueueFake == fifo' = fifo + 1 /\ InputQueued

Fake(cs) ==
  /\ codec' = cs
  /\ IF FakeRoom THEN QueueFake
     ELSE in_at' = Exited /\ UNCHANGED <<fifo, fed, pending>>

Threw == [codec EXCEPT ![acodec].valid = FALSE]

(* A packet larger than the input buffer is fed in parts.                  *)
WriteInputData == pending' \in {FALSE, pending}

QueueInputBuffer ==
  \/ fed' = TRUE /\ in_at' = FeedEnds /\ WriteInputData
  \/ CodecFails /\ in_at' = Exited /\ UNCHANGED <<fed, pending>>

(* A dummy does as the fake frames do, but a full one only waits.          *)
FeedDummy == IF FakeRoom THEN QueueFake
             ELSE in_at' = FeedEnds /\ UNCHANGED <<fifo, fed, pending>>

InFeed ==
  /\ in_at = "feed"
  /\ \/ ~codec[acodec].started /\ Fake(codec)
     \/ codec[acodec].started /\ ~Dummy(acodec)
        /\ \/ fifo' = 0 /\ QueueInputBuffer /\ UNCHANGED codec
           \/ /\ codec[acodec].valid /\ in_at' = FeedEnds
              /\ UNCHANGED <<codec, fifo, fed, pending>>
           \/ ~codec[acodec].valid /\ Fake(codec)
           \/ CodecFails /\ Fake(Threw)
     \/ Dummy(acodec) /\ UNCHANGED codec /\ FeedDummy
  /\ UNCHANGED <<out_at, acodec_mutex, acodec, jsurface, new_surface, first_request,
                 voutVars, surfVars, app_at, seekVars, heldVars, got, shown, aborted, optVars>>

-----------------------------------------------------------------------------
(* The output thread: func_run_sync.  Its wait for the input thread at the *)
(* top of drain_output_buffer is timed and decides nothing.  With opt.sync *)
(* it is func_run_sync_loop, where draining and feeding take turns.        *)
Turn == IF opt.sync THEN out_at' = "feeding" /\ in_at' = "pop"
                    ELSE out_at' = "top" /\ UNCHANGED in_at

(* drain_output_buffer returns without a frame.                            *)
Drained == Turn /\ first_request' = (opt.sync /\ first_request)

DequeueFake ==
  fifo > 0 /\ fifo' = fifo - 1 /\ got' = NoIndex /\ UNCHANGED codec

DequeueBuffer ==
  /\ fifo = 0 /\ codec[acodec].started /\ ~Dummy(acodec) /\ fed
  /\ \E b \in Buffers \ codec[acodec].held :
       codec' = [codec EXCEPT ![acodec].held = @ \cup {b}] /\ got' = b
  /\ UNCHANGED fifo

OutDequeue ==
  /\ out_at = "top" /\ ~aborted /\ acodec_mutex = "free"
  /\ \/ /\ DequeueFake \/ DequeueBuffer
        /\ acodec_mutex' = "out" /\ out_at' = "obtain"
        /\ UNCHANGED <<in_at, first_request>>
     \/ /\ fifo = 0 /\ Drained
        /\ UNCHANGED <<codec, fifo, got, acodec_mutex>>
  /\ UNCHANGED <<acodec, jsurface, new_surface, fed, pending, voutVars, surfVars,
                 app_at, seekVars, heldVars, shown, aborted, optVars>>

(* amc_fill_frame makes a frame of a buffer.                               *)
Fill(p) ==
  /\ frame' = p
  /\ out_at' = IF aborted THEN "failed" ELSE IF opt.sync THEN "have" ELSE "obtained"
  /\ UNCHANGED <<in_at, first_request>>

NoFill ==
  /\ UNCHANGED frame
  /\ IF aborted THEN out_at' = "failed" /\ UNCHANGED <<in_at, first_request>>
     ELSE Drained

Proxy == IF got = NoIndex THEN Invalid
         ELSE [serial |-> codec[acodec].serial, index |-> got]

(* A decoder that gives frames in the wrong order has one held back: the   *)
(* first fills the place, of two the earlier one is sent, and of two of    *)
(* the same time the new one is given back.                                *)
Reorder ==
  \/ early = <<>> /\ early' = <<Proxy>> /\ NoFill /\ UNCHANGED codec
  \/ early # <<>> /\ Fill(Proxy) /\ UNCHANGED <<early, codec>>
  \/ early # <<>> /\ Fill(Head(early)) /\ early' = <<Proxy>> /\ UNCHANGED codec
  \/ early # <<>> /\ NoFill /\ UNCHANGED early
     /\ codec' = GivenBack(acodec, got)

OutObtain ==
  /\ out_at = "obtain"
  /\ IF opt.n_buf_out = 0 THEN Fill(Proxy) /\ UNCHANGED <<early, codec>> ELSE Reorder
  /\ got' = NoIndex /\ acodec_mutex' = "free"
  /\ UNCHANGED <<acodec, jsurface, new_surface, fifo, fed, pending, voutVars, surfVars,
                 app_at, seekVars, pictq, shown, aborted, opt, recreate>>

OutFirst ==
  /\ out_at = "obtained" /\ out_at' = "have"
  /\ first_request' = FALSE
  /\ UNCHANGED <<in_at, acodec_mutex, codec, acodec, jsurface, new_surface, fifo, fed,
                 pending, voutVars, surfVars, app_at, seekVars, heldVars, got, shown,
                 aborted, optVars>>

OutFailed ==
  /\ out_at = "failed" /\ out_at' = "join"
  /\ first_request' = (opt.sync /\ first_request)
  /\ Release(frame) /\ frame' = Invalid
  /\ UNCHANGED <<in_at, acodec_mutex, acodec, jsurface, new_surface, fifo, fed, pending,
                 voutVars, surfVars, app_at, seekVars, got, pictq, shown, aborted, optVars>>

MutOutDrop ==
  /\ out_at = "have" /\ Turn
  /\ frame' = Invalid
  /\ UNCHANGED <<acodec_mutex, codec, nodeVars, voutVars, surfVars, app_at,
                 seekVars, got, pictq, shown, aborted, optVars>>

(* Early, before the target of an accurate seek, or no slot any more.      *)
OutDrop ==
  /\ out_at = "have" /\ Turn
  /\ Release(frame) /\ frame' = Invalid
  /\ UNCHANGED <<acodec_mutex, nodeVars, voutVars, surfVars, app_at, seekVars,
                 got, pictq, shown, aborted, optVars>>

(* ffp_queue_picture and func_fill_frame                                   *)
OutPush ==
  /\ out_at = "have" /\ ~aborted /\ Len(pictq) < opt.pictq_size
  /\ pictq' = Append(pictq, frame) /\ frame' = Invalid
  /\ Turn
  /\ UNCHANGED <<acodec_mutex, codec, nodeVars, voutVars, surfVars, app_at,
                 seekVars, got, shown, aborted, optVars>>

FeedReturns ==
  /\ opt.sync /\ out_at = "feeding" /\ in_at = "rest" /\ out_at' = "top"
  /\ UNCHANGED <<in_at, acodec_mutex, codec, nodeVars, voutVars, surfVars, app_at,
                 seekVars, heldVars, got, shown, aborted, optVars>>

OutAbort ==
  /\ out_at = "top" /\ aborted /\ out_at' = "join"
  /\ UNCHANGED <<in_at, acodec_mutex, codec, nodeVars, voutVars, surfVars, app_at,
                 seekVars, heldVars, got, shown, aborted, optVars>>

OutJoin ==
  /\ out_at = "join" /\ in_at = Exited /\ out_at' = "stop"
  /\ InvalidateAll /\ early' = <<>>
  /\ UNCHANGED <<in_at, acodec_mutex, codec, nodeVars, voutVars, surfVars, app_at,
                 seekVars, got, shown, aborted, opt, recreate>>

OutStop ==
  /\ out_at = "stop" /\ acodec_mutex = "free" /\ out_at' = "done"
  /\ StopNode
  /\ UNCHANGED <<in_at, acodec_mutex, jsurface, new_surface, fifo, fed, pending,
                 first_request, voutVars, surfVars, app_at, seekVars, heldVars, got,
                 shown, aborted, optVars>>

-----------------------------------------------------------------------------
(* The refresh thread.  The picture shown stays in the queue until the     *)
(* next one takes its place.                                               *)
Refreshing == out_at \notin {"closed", "released", "freed"}

Show ==
  /\ Refreshing /\ shown /\ pictq # <<>> /\ window # Null
  /\ Release(Head(pictq)) /\ pictq' = [pictq EXCEPT ![1] = Invalid]
  /\ UNCHANGED <<in_at, out_at, acodec_mutex, nodeVars, voutVars, surfVars, app_at,
                 seekVars, frame, got, shown, aborted, optVars>>

NextPicture ==
  /\ Refreshing
  /\ IF shown
     THEN /\ Len(pictq) > 1
          /\ Release(Head(pictq)) /\ pictq' = Tail(pictq)
          /\ UNCHANGED shown
     ELSE /\ pictq # <<>> /\ shown' = TRUE
          /\ UNCHANGED <<pictq, codec>>
  /\ UNCHANGED <<in_at, out_at, acodec_mutex, nodeVars, voutVars, surfVars, app_at,
                 seekVars, frame, got, aborted, optVars>>

(* stream_close: the refresh thread is joined, the pictures go, and with   *)
(* the player the video output.                                            *)
CloseStream ==
  /\ \/ out_at = "done"
     \/ out_at = "software" /\ aborted
  /\ out_at' = "closed"
  /\ UNCHANGED <<in_at, acodec_mutex, codec, nodeVars, voutVars, surfVars, app_at,
                 seekVars, heldVars, got, shown, aborted, optVars>>

DestroyPicture ==
  /\ out_at = "closed" /\ pictq # <<>>
  /\ Release(Head(pictq)) /\ pictq' = Tail(pictq)
  /\ UNCHANGED <<in_at, out_at, acodec_mutex, nodeVars, voutVars, surfVars, app_at,
                 seekVars, frame, got, shown, aborted, optVars>>

(* The Java object forgets the player: no call finds it any more.          *)
Unpublish ==
  /\ out_at = "closed" /\ pictq = <<>> /\ out_at' = "released"
  /\ UNCHANGED <<in_at, acodec_mutex, codec, nodeVars, voutVars, surfVars, app_at,
                 seekVars, heldVars, got, shown, aborted, optVars>>

(* The last reference goes: a call of setSurface under way holds one.  The *)
(* video output is freed first, then the node.                             *)
FreeVout(cs) == Drop(cs, vout_acodec)

FreePlayer ==
  /\ out_at = "released" /\ app_at = "idle" /\ out_at' = "freed"
  /\ window' = Null /\ vout_acodec' = 0
  /\ codec' = Drop(FreeVout(codec), acodec) /\ acodec' = 0
  /\ UNCHANGED <<in_at, acodec_mutex, jsurface, new_surface, fifo, fed, pending,
                 first_request, surfVars, app_at, seekVars, heldVars, got, shown,
                 aborted, optVars>>

-----------------------------------------------------------------------------
(* The application and the read thread.                                    *)

SetWindow(s) ==
  /\ app_at = "idle" /\ out_at \notin {"released", "freed"}
  /\ app_at' = "pipeline" /\ window' = s
  /\ IF s # window \/ s = Null THEN InvalidateAll ELSE UNCHANGED heldVars
  /\ UNCHANGED <<in_at, out_at, acodec_mutex, codec, nodeVars, vout_acodec, surfVars,
                 seekVars, got, shown, aborted, optVars>>

SetPipeline ==
  /\ app_at = "pipeline" /\ app_at' = "idle"
  /\ IF window = surface THEN UNCHANGED <<vout_acodec, heldVars, codec, surface, need>> ELSE
     /\ SetAMediaCodec(0)
     /\ surface' = window /\ need' = TRUE
  /\ UNCHANGED <<in_at, out_at, acodec_mutex, nodeVars, window, seekVars, got, shown,
                 aborted, optVars>>

(* ffpipenode_flush first, then the flush packet                           *)
SeekHint ==
  /\ seek_at = "idle" /\ ~aborted /\ ~Opening /\ out_at # "software"
  /\ seek_at' = "put" /\ flush_request' = TRUE
  /\ UNCHANGED <<in_at, out_at, acodec_mutex, codec, nodeVars, voutVars, surfVars,
                 app_at, flush_queued, heldVars, got, shown, aborted, optVars>>

SeekPut ==
  /\ seek_at = "put" /\ seek_at' = "idle"
  /\ flush_queued' = (flush_queued \/ ~aborted)
  /\ UNCHANGED <<in_at, out_at, acodec_mutex, codec, nodeVars, voutVars, surfVars,
                 app_at, flush_request, heldVars, got, shown, aborted, optVars>>

(* A stream being opened is aborted when it has been.                      *)
Abort ==
  /\ ~Opening \/ out_at = "open"
  /\ ~aborted /\ aborted' = TRUE
  /\ UNCHANGED <<in_at, out_at, acodec_mutex, codec, nodeVars, voutVars, surfVars,
                 app_at, seekVars, heldVars, got, shown, optVars>>

Flush           == InFlushLock \/ InFlush
Reconfigure     == InReconfigure \/ InStop \/ InClear \/ InCreate \/ InSet
FeedInputBuffer == InPop \/ Flush \/ InCheck \/ Reconfigure \/ InFirst \/ InFeed

InputThread == FeedInputBuffer

DrainOutputBuffer == OutDequeue \/ OutObtain
OutputFrame       == OutFirst \/ OutFailed \/ OutDrop \/ OutPush
OutputEnds        == OutAbort \/ OutJoin \/ OutStop

OpenVideoDecoder ==
  OpenInit \/ OpenRefused \/ OpenSurface \/ OpenConfigure \/ OpenPublish \/ OpenNot

OutputThread == DrainOutputBuffer \/ OutputFrame \/ FeedReturns \/ OutputEnds

Closing == CloseStream \/ DestroyPicture \/ Unpublish \/ FreePlayer

CodecNext ==
  \/ OpenVideoDecoder \/ InputThread \/ OutputThread \/ Closing
  \/ Show \/ NextPicture
  \/ \E s \in Surfaces \cup {Null} : SetWindow(s)
  \/ SetPipeline \/ SeekHint \/ SeekPut \/ Abort

(* The waits of both threads are timed and the calls of MediaCodec have    *)
(* timeouts, so each thread goes on.                                       *)
CodecFairness ==
  /\ WF_codecVars(OpenVideoDecoder) /\ WF_codecVars(InputThread)
  /\ WF_codecVars(OutputThread) /\ WF_codecVars(Closing)
  /\ WF_codecVars(SetPipeline)

CodecSpec == CodecInit /\ [][CodecNext]_codecVars /\ CodecFairness

-----------------------------------------------------------------------------
(* Properties                                                              *)

InHand(i) == IF i = 0 THEN frame ELSE (pictq \o early)[i]

(* What would be given back to the codec of the video output is a buffer   *)
(* that this codec has handed out since its last flush and not got back,   *)
(* and no two proxies stand for the same one.                              *)
OwnBuffersOnly ==
  \A i \in 0 .. Len(pictq) + Len(early) : GoesBack(InHand(i)) =>
    /\ InHand(i).index \in codec[vout_acodec].held
    /\ \A j \in 0 .. Len(pictq) + Len(early) : InHand(i) = InHand(j) => i = j

Settled ==
  /\ ~Opening /\ out_at # "software" /\ ~aborted /\ ~need /\ app_at = "idle"
  /\ in_at \notin {"flushing", "reconfigure", "stop", "clear", "create", "set"}
  /\ out_at \notin {"stop", "done", "closed", "released", "freed"}

(* No buffer is forgotten: one that the codec of the video output has      *)
(* handed out is being made a frame or has a proxy that will bring it      *)
(* back.  A codec whose buffers are forgotten stops decoding.              *)
NothingForgotten ==
  Settled /\ vout_acodec # 0 =>
    \A b \in codec[vout_acodec].held :
      got = b \/ \E p \in Proxies \cup Range(early) : GoesBack(p) /\ p.index = b

(* It holds once the codec has a surface.  One that was made before the    *)
(* stream was known and configured without a surface decodes as well, and  *)
(* forgets its buffers when the application sets no surface once more.     *)
NoBufferLost == jsurface # Null => NothingForgotten

(* Once the packet queue is aborted both threads end, whichever of their   *)
(* waits they are in, and the pictures, the codecs and the output go.      *)
CloseEnds == aborted ~> (out_at = "freed" /\ \A c \in Codecs : codec[c] = Dead)

(* "same surface, reuse previous surface": when the application comes back *)
(* to the surface the codec draws on, the video goes on being drawn there. *)
SameSurfaceReused ==
  Settled /\ codec[acodec].started => vout_acodec = acodec
=============================================================================
