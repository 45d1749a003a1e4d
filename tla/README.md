# XiangXiang: a verification development

XiangXiang is an Android chat and short-video application: Java modules for the
messenger, the wallet and the screens, and a native media player (ijkplayer) with its own
threads. This directory holds TLA+ modules translated from its source, the TLC
configurations that model-check them and TLAPS proofs of their most important
invariants. `PROJECT.json` relates every definition to the lines it models, every run
to the properties it checks, every property to a change of the code that breaks it, and
lists the hazards of the code.

Contents: [1 The system](#1-the-system) · [2 Modules](#2-the-modules) ·
[3 Runs](#3-what-the-runs-show) · [4 Bounds](#4-bounds) · [5 Fairness](#5-fairness) ·
[6 Proofs](#6-what-is-proved) · [7 Divergences](#7-where-code-and-comments-disagree) ·
[8 Not modelled](#8-what-is-not-modelled) · [9 Plan](#9-plan)

Paths below are relative to `src/`; `im/`, `main/`, `library/` stand for the Java roots
of these modules, `ijkplayer/` for `library/src/main/jni/ijkmedia/ijkplayer/`.

## 1 The system

### Components, their state and operations

| Component | State | Operations | Hard because |
|---|---|---|---|
| **IM socket client** (`ImSocketClient`, `ImService`) | static fields `mSocket`, `mToken`, `mContext`, `isConnect`; the sockets and their listeners | `initSocket`, `newSocket`, `openSocket`, `release`, the listeners for connect, disconnect, connect_error and chat, the connectivity receiver | the main looper and socket.io's EventThread share the fields without a lock; the process may die; sessions follow each other |
| **Message delivery** (`SocketManager`, `ChatActivity`, the two wire listeners) | list of messages and their status, callback map, intents, broadcasts and EventBus posts on their way | `sendMsgSocket`, the acknowledgement, resend after an event, system messages, the "no network" hint | the wire loses what is under way; three queues reorder; resends duplicate |
| **Wallet and profile** (`RedEnvelopePresenter`, `ChatPresenter`, `UserInfoPresenter` and their screens) | the cached `LoginBean`, a screen's copy of it, the server's record, the loading dialog | send and claim a red envelope, save the profile | absolute values computed from a cache, replies in any order, each request may be refused or lost |
| **Player life cycle** (`ijkplayer.c`, `ijkplayer_jni.c`, `ff_ffmsg_queue.h`) | `mp_state`, message queue and abort flag, reference count, weak reference, data source, message loop and read thread | `setDataSource`, `prepareAsync`, `start`, `pause`, `seekTo`, `stop`, `release`, `reset`, questions and settings from other Java threads | three native threads and Java's, a count that decides who destroys the player, messages in flight |
| **Playback control** (`ff_ffplay.c`) | `pause_req`, `paused`, `buffering_on`, `step`, `auto_resume`, `seek_req`, `completed` | pause, resume, seek, restart, buffering, end of stream, frame stepping | five threads change the flags; some read them outside `play_mutex` |
| **Packet and frame queues, decoders** (`ff_ffplay.c`) | packet lists and frame rings with serials, what the decoders hold, flags of the end and of aborts | put, get, flush, start, abort; decode, push, peek, next; the audio callback, the refresh | bounded producers and consumers, a seek that makes obsolete what is on the way, an end seen from a third thread |
| **Life of a stream** (`ff_ffplay.c`, `ffpipenode_…_vdec.c`, `ijksdl_aout_android_*.c`) | input, codec contexts, node, audio device (AudioTrack or OpenSLES with its buffers), their threads | `stream_open`, `read_thread`, `stream_component_open`, `ffp_set_stream_selected`, `stream_close`, `ffp_destroy`, the audio thread or callback | some twenty calls may fail, a stop may come between any two of them |
| **MediaCodec back end** (`ffpipenode_android_mediacodec_vdec.c`, `ffpipeline_android.c`, `ijksdl_vout_android_nativewindow.c`, `ijksdl_codec_android_mediacodec*.c`) | the codec objects and their reference counts, output buffers and proxies, surface, requests between the threads | open or fall back to software, feed, flush, reconfigure, dequeue, reorder, drop, show, `set_surface`, close | pictures are borrowed buffers; three threads and Java change codec and surface |
| **Asynchronous reading** (`ijkasync.c`) | ring, logical position, seek request, errors | `async_read`, `async_seek`, `async_close`, the background task | the ring is filled without the mutex; two condition variables |
| **Caching reading** (`ijkiocache.c`, `ijkiomanager.c`, `ijkthreadpool.c`) | cache file and its descriptor, tree of entries, map file, the task that reads ahead | open, read, seek, pause, close, save and share the map, destroy; the task's fetches | one descriptor for two threads' reads and appends, files that outlive the process |
| **Hooks and Java sources** (`ijkurlhook.c`, `ijkiourlhook.c`, `ijklivehook.c`, `ijkmediadatasource.c`, `ijkioandroidio.c`) | the inner connection, its position, what the application was asked | open, read, seek, pause, reconnect, close | a connection that is made again in the middle, an application that may or may not handle a failure |
| Video page (`VideoPageFragment`, `ListVideoView`) | a player per page | create, pause, release on swipes | players that nobody releases (planned) |
| Chat history (`ChatPresenter`, `ChatActivity`) | page number, message list | load, refresh | overlapping requests (planned) |
| Native utilities (`ijkavutil/`) | thread pool, tree, fifo, dictionary | add task, insert, find | the pool only serves the cache's task |
| Login, registration, menu, attention, news, online pages, location, keyboard | forms and lists | one request each | sequential |
| Network layer, preferences, arithmetic, application shell | – | – | no protocol of their own |

### How they interact

```
 MainActivity, ChatActivity            RedEnvelope-/UserInfo-/ChatPresenter
   | intents          ^ callbacks          | HTTP request     ^ reply
   v                  | EventBus           v                  |
 SocketManager -> ImService            BaseObserverTC  <->  server
   ^  broadcasts      | (main looper)        |
   |                  v                      v onSuccess (finish with a result)
 ImSocketClient <- listeners  <- EventThread <-> chat server

 VideoPageFragment -> ListVideoView -> AndroidMediaPlayer JNI
     -> ijkplayer (mp->mutex, message queue) -> message loop -> Java events
                       |            ^
                       v            | messages
   read thread -> packet queues -> decoders -> frame rings -> audio callback, refresh thread
        |  (play_mutex, serials)      |                              |
        v                             v                              v
   async: / ijkio:cache: / hooks  MediaCodec  <- buffers given back - native window
        |                                                            ^
     network                                      Surface, from Java (set_surface)
```

A paid red envelope is where wallet and messenger meet: `RedEnvelopeActivity` finishes
with a result after the debit succeeded, and `ChatActivity.onActivityResult` hands the
envelope to the socket. Wallet models the debit and the hand-over (`gifts`);
ChatDelivery carries the message on (`Other`).

### What makes each component correct

- *Socket client*: one session has one socket, created with the session's token, with all
  its listeners; a released one is silent; a logged-in user with a network gets connected.
- *Delivery*: only what the server took is shown as delivered; nothing that costs money
  is sent twice; texts arrive in the end; the hint tells the truth.
- *Wallet*: no envelope without payment, no money made or lost, the cache follows the
  server, no screen stays covered by a dialog.
- *Player*: nobody touches a destroyed player, it is destroyed in the end, the
  application hears the result of its preparation and at most one event after a stop.
- *Playback*: a video stands still only for a reason, does what the player's state says
  once everything is carried out, and announces its buffering.
- *Queues and decoders*: a frame carries the serial of its packet, nobody fills a slot
  that is being shown, the end is told when all was played.
- *Life of a stream*: whatever failed and whenever it was stopped, everything is released
  once, after its threads.
- *MediaCodec*: a buffer goes back to the codec it came from, once; both threads end.
- *Asynchronous and caching reading, hooks*: whoever reads sees a plain seekable stream.

`PROJECT.json` ("hazards") lists at which line each of these is in danger.

## 2 The modules

| Module | Models | Built on |
|---|---|---|
| `Link` | what one session's connection promises: the socket and `isConnect` go round a cycle | – |
| `ImSocket` | the socket client over sessions, deaths and races | implements `Link` |
| `Delivery` | what the user is promised of a message | – |
| `ChatDelivery` | the way of a message and of its acknowledgement | extends `Link`, implements `Delivery` |
| `Wallet` | red envelopes and profile saves | – |
| `Player` | one native player's life | – |
| `Playback` | the flags of one playing stream | – |
| `Queues` | `PacketQueue` and `FrameQueue` as values | – |
| `Decoding` | the threads of a playing `VideoState` and the queues between them | extends `Queues` |
| `StreamLife` | opening, failing, stopping and closing of a `VideoState` | – |
| `MediaCodec` | the hardware decoder's two threads, its buffers and the surface | – |
| `ByteStream` | what a seekable input promises to its reader | – |
| `AsyncIO` | the `async:` protocol | implements `ByteStream` |
| `IoCache` | the `ijkio:cache:` protocol of one thread, and its manager's map | – |
| `IoCacheAhead` | the same with the background task that reads ahead | extends `IoCache`, implements `ByteStream` |
| `UrlHook` | the protocols that ask the application before they connect, and the two over a Java object | implements `ByteStream` |
| `ImSocketProofs`, `ChatProofs` (ChatDelivery and Wallet), `PlayerProofs`, `PlaybackProofs` (Playback and MediaCodec), `DecodingProofs` (Decoding and UrlHook), `StreamLifeProofs`, `AsyncIOProofs`, `IoCacheProofs` (IoCacheAhead) | theorems | the module they name |
| `MC…` | instances for TLC | the module they name |

### ImSocket

Every action is one uninterrupted stretch of one thread. The main looper takes the head
of `cmds` (an `INIT`, `SEND` or `RESET` intent of `ImService`, or a connectivity broadcast)
only when it is idle; a handler that writes a field the EventThread reads is split at
that write: `release` is `HandleReset` (hand `disconnect()` to the EventThread),
`ForgetToken`, `RemoveListener` four times in the source's order, `ClearSocket`;
`newSocket` is the handler, `CreateSocket`, `InitSocketListener`. The EventThread runs
`evq` in order or delivers a wire event, if a listener is attached at that moment; the
disconnect and error listeners are split where they read `mToken`, `mSocket` and
`mSocket` again. `mSocket = null` between the last two is an uncaught exception and ends the
process (`OpenNull`). A *token* is the reference of a string: the code compares with
`!=`, and each intent unparcels a string of its own, so the n-th login carries token n.
A socket object is its position in `sock`. `Die` clears the static fields and leaves the
UI "restored": Android recreates the top activity, which may send before `MainActivity`
has logged in again. socket.io itself (`Connect`, `Emit`, `WireUp`, `WireError`, `WireLost`,
the executor's queue) is external and modelled from how the code uses it.

### Link and ChatDelivery

`Link` abstracts one session to `up` and `isConnect`. ChatDelivery conjoins its four steps with
the events they post. `svc`, `bc`, `bus` are the three FIFO channels into the main
looper, whose order between each other is open; `out` and `in` are the wire, emptied
when the connection breaks. A message is a name; `Text` are those `socketError` sends
again, `Other` the rest. A system message's body reaches the same `String` subscriber as a
connection event does, so `SysReceived` runs `socketError` too.

### Wallet

`pending` is a set: the HTTP client orders nothing. A request carries what the source
computes *before* it is sent (the absolute balance and the bean the reply will write),
so a late reply writes what was true then. Server steps (`Serve`, `Refuse`) are
separate from replies; a timeout may come before, after or instead of the server's step.
`credits`, `debits` and `gifts` count money that has moved; `hasty` records whether the user
went on while a request was under way. The profile is a function from its fields: `changeUserInfo` sends those
that differ from the screen's bean and changes them there before the reply, so that one the server refused differs no
longer, is not sent by the next save, and is cached with its bean all the same. A chosen picture is cached when it is
uploaded (`PictureUploaded`) and sent with the next save. `unsent` is the history of these: fields of the cached profile that
were last written there without having been sent.

### Player

The application thread, a second Java thread that asks and configures, per preparation one message loop and
one read thread. Calls hold `mp->mutex`; `stop` and `release` are split where they wake other threads or wait for
them, and `handle` waits while `stop` holds the mutex. `release` gives up the weak reference, the Java field, the data
source and the last reference one after the other (`Release`); `reset` is a release that keeps the weak reference for
the next player. The second thread takes a reference, then looks at the player without a lock (`look`), configures it
under the mutex, or asks for the position, which reads what `ffp->is` points to in two steps (`ask`, `answer`). Putting
into the queue and aborting it signal *one* waiter, as `SDL_CondSignal` does. The default options are kept, as the application does. A second
preparation of a stopped player leaks the first `VideoState` and its threads (section 7); the application never
prepares a player twice and sets its data source once, so the runs keep `MaxPrepares = 1`, `CallAfterStop` and
`SetSourceAgain` FALSE, and the module's text covers more.

### Playback

Starts where `read_thread` has put `FFP_MSG_PREPARED`. One action per section under
`play_mutex`, so other threads run between `ffp_toggle_buffering` and `stream_seek`
of a restart, between the test of `auto_resume` and its reset, between the read of
`paused` in `video_refresh` and its own locked section. "silent" is the audio output's
pause, which a step to one frame leaves alone. `buffered` and `AtEnd` over-approximate what the
network and the decoders decide: buffering may end at any time in the read loop (the water marks of
`ffp_check_buffering_l` decide when), the stream may end whenever it is not paused. `Without` is `msg_queue_remove`.
Options: `start_on_prepared` 1,
`packet_buffering` 1, accurate seek and `autoexit` off. The checks of `start`, `pause` and
`seekTo` are shared with Player, which has the states Playback does not reach (stopped,
error).

### Queues and Decoding

`Queues` gives the two queues as records and their functions as operators; `Decoding` has one
action per uninterrupted stretch of a thread. `dec_at` follows a decoder thread through
`decoder_decode_frame` (take a packet, hand it to the library, receive) and
`frame_queue_peek_writable`; a thread in a `…_asleep` place moves only after the signal the
code sends. The library is external: it holds back up to `Delay` packets and drains on a
null packet. A packet is its kind and serial, a frame is the serial it is labelled with and,
as history, the serial of the packet it came from. `stream_close` is split at each join.
Left out: clocks and the choice of which frame to drop late, accurate seek, looping, the subtitle
stream; the two null packets of an end are put in one step.

### StreamLife

`life` and `context` say of each thing whether it was allocated, released, released twice or
overwritten; `avctx`, `node_vdec` and `stream_index` are the pointers the code tests. `Faults` names the calls
that may fail: the audio output's and the device's opening, its buffers, an OpenSLES `Enqueue`,
`avformat_open_input`, `avformat_find_stream_info`, the decoder's opening, the MediaCodec's configuration. A network
call ends when it likes, or fails once `decode_interrupt_cb` sees the abort. The video node is made ahead in
`ffp_prepare_async_l` with `async_init_decoder`, else with its stream. The audio output is an AudioTrack, written to by
a thread of its own, or an OpenSLES player with `OPENSLES_BUFFERS` buffers whose callback is woken by each buffer
played; the application may give up a stream in `Selected` while it plays.
Faults whose handling the code does not attempt (a thread or a mutex
that cannot be created) are not in `Faults`; section 7 lists what they would do.

### MediaCodec

`OpenVideoDecoder` creates the node, with or without `async_init_decoder`, or falls back to software. The input
thread is `enqueue_thread_func` with `feed_input_buffer`, the output thread `func_run_sync` with
`drain_output_buffer`; with `mediacodec_sync` one thread (`func_run_sync_loop`) does both in turn. A picture is
a *proxy*: the index of an output buffer
and the serial of the codec it came from; a flush or a stop gives the codec a new serial
(`FreshSerial`; a counter in the code) and takes all its buffers back. `Codecs` are two memory cells: the
node and the video output each hold a reference, which differ while the surface
changes. `set_surface` takes the codec from the video output and raises `need`; the input thread reconfigures.
A codec that throws (`CodecFails`) at configure, start or while it is fed is fed fake frames. `early` is the buffer that a
decoder giving frames in the wrong order holds back. A packet of a new resolution has the codec made anew; a
partial packet stays pending. `Options` is the set of combinations a run considers. A Java surface is
identified with its native window. Flush and stop of a started codec are taken to succeed.

### AsyncIO, IoCache, IoCacheAhead, UrlHook and ByteStream

A byte is its position in the stream. `ByteStream` lets an end be announced at the end or where the stream has been *cut short*
(`cut`), and each module says where that may be: nowhere (`AsyncIO`), or where the code takes an `AVERROR_EOF` of a
connection, an opening or a seek for the end, or a failure that was not told. In `AsyncIO` a critical section is one action; the fill of
the ring and the seek's look at the ring are actions of their own because they run without
the mutex. In `IoCache` one thread reads; the file is a sequence of bytes, `fd_pos` the offset the
kernel keeps and `cache_physical_pos` what the code believes it to be. Writes may fail or
be short, the network may fail at each call, also with an end of file that is none (`InnerFails`), the file may turn bad, the process may be killed,
the file may be lost while nobody has it open, and another player may be shown the map at any time.
After the file was made anew, the entry that bounds the next read has been freed: any bound is possible (`ReadBad`).
One stream is open at a time; `auto_save_map` and `parse_cache_map` are set.
`StaleMaps` FALSE leaves out the divergence of section 7.

`IoCacheAhead` adds the task of the thread pool that fetches into the file while the reader reads from it, for
the values of `cache_file_forwards_capacity` in `Forwards` (0: as `IoCache`). `file_mutex` is held from one wait to the
next, but the task looks at the shared fields without it, so those looks are steps of their own. A task that fails stores
`io_eof_reached` in one step (`TaskFails`) and `io_error` in the next (`TaskTells`), or never if it was a seek that failed; `broken` is
the history of such an end without its error. A reader whose lseek or read of the file fails (`ReadFileFails`) takes it for
a file that has nothing. `Faults` names three situations in which wrong bytes are read or stored (section 7); the run leaves
them out.

`UrlHook` has one thread that opens, reads, seeks and closes, in steps: ask the application, connect, use the inner
protocol; an interrupt, a pause or a wish to reconnect may come between any two. `Kinds` are the six protocols. The
live demuxer reads packets and marks the first after a gap. `AVERROR_EOF` is two numbers in the model: `EOF` at the end of the
stream, `CLOSED` where a connection, an inner read or a seek fails with it, which the loops over the application
treat as a case of its own (`Final`); a reader is told `EOF` for both. `Handles` is what the application answers a
failure, `AnyReconnect` whether it may ask for a reconnection where the code cannot carry it out.

## 3 What the runs show

All runs pass: TLC visits every reachable state of the instance.

| Run | Distinct states | Shows |
|---|---|---|
| `im_sessions` | 1.05 million | Two logins, a logout, sends, two drops, three connectivity changes, a death: `OnlyCurrentListens`, `SessionInstalled` (idle and logged in means a socket with this login's token and all listeners), `ImplementsLink` (in the first session `isConnect` follows the socket before the socket changes again), `Reconnects` |
| `chat_delivery` | 419 thousand | A text and an emoji over a link that breaks: `HintHonest`, `OthersAtMostOnce`, and `ImplementsDelivery` (safety and the texts' delivery in the end) |
| `wallet_one` | 313 thousand | Three sends, claims, uploads or saves of two fields, overlapping or not, any of them refused: `GiftsArePaid` always; `CacheAgrees` (but for the fields in `unsent`) and `Conserved` when nothing overlapped or was lost |
| `player_one` | 169 thousand | A preparation, a call, a stop, release or reset at any moment, a second Java thread: `HeldWhileUsed`, `AtMostOneLate`, `PrepareAnswered`, `ReleaseEnds` |
| `playback_calls` | 259 thousand | Three calls during play, buffering, end or repetition: `BufferingAnnounced`, `NeverStuck`, `StateObeyed`, `SeekSettles` |
| `decoding_streams` | 463 thousand | A stream longer than its ring, or two streams, with a seek, a pause or a discontinuity: `LabelHonest`, `SlotNotShared`, `AtMostOneStale`, `EndIsTheEnd`, and `CloseEnds` after a stop at any moment |
| `stream_life` | 424 thousand | Three kinds of files on an AudioTrack or OpenSLES, any call failing, a stop at any moment, the sound given up or not: `HeldWhileRunning`, `ReleasedOnce`, `ToldOnce`, `CloseEnds` |
| `codec_surface` | 4.2 million | Two buffers, two pictures or a reordering decoder on one thread, a codec that throws, seeks, surfaces that come and go: `OwnBuffersOnly`, `NoBufferLost` |
| `codec_close` | 819 thousand | The two threads' waits for each other, or one thread's, over flushes and reconfigurations: `CloseEnds` |
| `async_reads` | 306 thousand | Reads and seeks on a file longer than the ring, a failing or silent network, an interrupt: `RingHonest`, `NobodyStuck`, `ImplementsStream`, `CallsEnd` |
| `io_cache` | 2.5 million | With and without read ahead: reads, seeks, pauses and reopenings over a file that fills, fails, is shared, is lost, a network that tells its end before its error, a process that is killed: `EntriesHonest`, `MapHonest`, `ImplementsStream` |
| `url_hooks` | 5277 | Six protocols over connections that fail, with an end of file too, and are made again: `ImplementsStream`, `AnswersHonest` (a seek that does not fail has got there or remembers why not, a gap is told), `InterruptEnds` |

Each property has a mutant in `PROJECT.json`: a plausible change of one definition that makes it
fail under the same configuration.

How to read the conditional ones:

- `Reconnects` is stated for users who have not logged out. After a logout, a listener of the
  released session may call `openSocket` between the next session's `IO.socket` and
  `initSocketListener`; the socket then connects before its listeners are attached, its
  connect event is lost and `isConnect` stays false on a working socket until the next drop.
- `CacheAgrees` and `Conserved` need a user who waits for each reply, and replies that
  come. When two requests overlap (a claim, then back and a payment before its reply), each carries
  an absolute balance computed from the same cached bean, and the later one
  undoes the earlier: the server keeps money it should have taken or loses money it should
  have credited. After a timeout the server may have executed what the cache does not show.
  Without either, `CacheAgrees` still leaves out the fields in `unsent`: a picture that was uploaded and not yet saved, and a
  change that the server refused and a later save of another field cached (`UserInfoPresenter.java:46-62`, `:77`);
  `TypedAgrees` (section 7) shows the latter. Sending a field takes it out of `unsent`.
- `ImplementsDelivery` promises *at least once* for texts. `socketError` resends every
  unconfirmed text, also one that is still under way, so the server may store copies. Other messages are promised at
  most once (`OthersAtMostOnce`), not that they arrive.
- `StateObeyed` excuses an error that ended the stream: `FFP_MSG_ERROR` has no case in
  `ijkmp_get_msg`, so the state stays STARTED while the read thread has paused.
- `HeldWhileUsed` supposes an application that does not set a second data source where the state refuses one
  (`SetSourceAgain`): the JNI layer replaces the first before the state is tested.
- `AtMostOneStale` allows one frame: the audio callback compares `auddec.pkt_serial`, not the
  frame's, so the frame it has in hand when a seek flushes the queue is played.
- `EndIsTheEnd` leaves the frame that is being shown or played: `COMPLETED` is sent while
  the last of the audio is still in the callback ("TODO: 0 it's a bit early").
- `ReleasedOnce` excuses one thing: the codec context of a subtitle stream that was opened
  and is not wanted is never freed.
- `CallsEnd` says that every call ends once interrupted, and, if the network answers, that it ends
  in any case.
- `MapHonest` speaks of a map while the file has not been made anew by right, that is with nobody
  sharing it or because it could not be read; a full file that is shared must stay.
- `ImplementsStream` of `io_cache` lets an end be announced early in two cases: the inner protocol has just failed, or for the
  task has failed since the last seek, and the file could not be read. In each the code answers so: the task tells the
  end before the error or in its place (`ijkiocache.c:440`, `:463`), and a reader that finds the end told answers it for whatever
  the file did not give (`:1008`). Everything else must hold: the bytes, their order, the positions, and that no end is
  told early without such a failure. `EndsHonest` (section 7) shows the early end itself.
- `ImplementsStream` of `url_hooks` supposes an application that handles failures (`Handles` {TRUE}) and asks for a
  reconnection only where the length is known (`AnyReconnect` FALSE); section 7 says what happens otherwise. An end is announced
  early only to a reader whose connection broke off with `AVERROR_EOF` and may not be made again: of a stream without a length, or paused.
- `AnswersHonest` holds whatever the application answers. A seek that ends without an error has arrived, or answers zero, and
  then nothing has moved and `io_error` says why: an interrupt, an end of file (`ijkurlhook.c:387`, `ijkiourlhook.c:419`), or, if the
  application does not handle failures, any error. To the demuxer such a zero is a seek to the start that did not happen.
  `ByteStream` cannot tell it from the beginning of a call; this property does, and `SeekArrives` (section 7) shows it.

## 4 Bounds

| Bound | Value | Why it is enough |
|---|---|---|
| `Bound` (ImSocket): login 2, logout 1, send 2, drop 2, net 3, kill 1 | two sessions | the races are between the end of one session and the start of the next; within one, the fields have no memory beyond one round of drop and reconnection |
| Text 1, Other 1, `MaxFalls` 1, `MaxErrors` 1, `MaxSys` 1 | one message of each kind | the list's order is no property's subject; a break, an error and a system message already give several resends of one text |
| Envelope 1 (worth 2), `Start` 3, `Amounts` {1, 3}, two fields (the picture, a name) with two values | | an affordable amount, the whole balance, and a claim that makes more affordable; a field that is refused and one that is saved after it |
| `MaxClicks` 3, `MaxLost` 1 | three operations | two that overlap and one after them |
| `MaxPrepares` 1, `MaxCalls` 1 (Player) | | the application prepares once; a call is there to be in the queue or in a handler when the stop comes, and the theorems hold for any number |
| `MaxCalls` 3 (Playback) | | seek, pause, start in any order; the theorems hold for any number |
| `MaxQueue` 2 (Playback) | | guards `startOver` only: a repeating stream could fill the queue without end if the message loop never ran |
| `Files`: one stream of 3 packets, or 1 audio packet and a video without any; `RingSize` 2, `MinFrames` 2, `Delay` 0, `MaxRequests` 1 (Decoding) | | a ring that fills and wraps round, a reader that waits for both queues, a seek with frames of the old serial in each place, a stream that ends before the other; one seek leaves two serials, more repeat them |
| `Files`, `Faults`, `Selected` {audio}, `OPENSLES_BUFFERS` 2, `Formats` 1 (StreamLife) | three files of two streams, eight faults | each branch of `stream_component_open` fails or succeeds with each neighbour; one buffer plays while the other is filled; the theorems hold for all values |
| `Buffers` 2 (`codec_surface`), 1 (`codec_close`); `FakeCap` 1, one surface, two `Options` each | | one picture shown, one queued, one in hand compete for two buffers; a surface and none give every change; for the waits one of each is enough. The buffers of `codec_surface` are symmetric: no action or invariant tells one from another |
| `Size` 3, `Forwards` 1, `Backwards` 1, `Chunk` 2, `Short` 1, `MaxRead` 2 (AsyncIO) | | a fill larger than the room, seeks within and beyond the ring and the threshold; the theorems hold for all values |
| `Size` 3, `Capacity` 3, `MaxRead` 2, `SeekTo` {0}, `Forwards` {0, 1}, `Faults` {} (IoCache, IoCacheAhead) | | a file with up to two of the three bytes, and the third begins it again, from wherever the reader is: so the entries come out of order, with gaps before and after them, appends need an lseek and reads are cut by the next entry. With seeks to the last byte too (`SeekTo` {0, 2}) it has 6.0 million states, passes, and takes longer than a run should; `MaxRead` is also the task's chunk, so that it overtakes the reader |
| `Size` 3, `MaxRead` 2, `SeekTo` {0, 1, 3}, `Handles` {TRUE}, `AnyReconnect` FALSE (UrlHook) | | a read that is cut by the end, seeks back, forwards and to the end; a position is all the protocols remember |
| `OnlyReadFile` FALSE (IoCache) | | the option only takes storing away |

Smaller instances were run while the modules were written; the mutants show that the cases
the properties are about do occur within the bounds.

## 5 Fairness

- *ImSocket*: weak for the main looper and for listeners already begun; strong for calls
  handed to the EventThread, a FIFO executor on which wire events cannot overtake them for ever; strong for the current
  socket's `WireUp`, because socket.io retries without limit and a server asked again and again
  accepts in the end. None for users, drops and deaths.
- *ChatDelivery*: weak for each queue's consumer, for the link's rise and listeners
  (what `Reconnects` shows of ImSocket), and for the server's answer. None for
  errors, breaks and pushes.
- *Wallet*: some request is served and some reply delivered as long as there are any; the
  HTTP client has a time limit, so "reply" includes the timeout. Each set is finite and
  clicks are bounded, so no request can be passed over for ever.
- *Player*: the threads run, the demuxer ends an open, notices an abort and finishes a
  seek, and a call that has begun is carried through. Strong for the two that wait for `mp->mutex` (the message loop's
  handler and the release's `set_surface`): whoever holds it lets it go, and others may take it in between. The
  application need not call anything.
- *Playback*: the message loop and the read thread run, the latter also in the middle of a seek and of the end of the
  stream. Whether a stream buffers, starves or ends is open.
- *Decoding*: every thread runs, and the decoder library answers. Seeks, pauses and stops need not
  come.
- *StreamLife*: every thread runs; a network call ends only once the abort is set
  (`decode_interrupt_cb`), before that it may be silent for ever.
- *MediaCodec*: every wait of the threads has a time limit (100 ms, 1 s, the dequeue's), so each goes on;
  so do the opening, the closing thread and a `setSurface` that has begun.
- *AsyncIO*: both threads run; the inner protocol answers only once it is interrupted. The second half of
  `CallsEnd` adds that it answers, as its hypothesis.
- *IoCache, IoCacheAhead*: safety only.
- *UrlHook*: the application answers what it is asked, connections and the inner protocols answer once they are
  interrupted. The two sources over a Java object have no such promise, and `InterruptEnds` says nothing of them.

`CHECK_DEADLOCK FALSE` is set where the system may stop: budgets are spent and the queues are
empty, or the player is destroyed or freed, or the protocol is closed. Playback never stops and is checked for deadlock.

## 6 What is proved

Every theorem holds for every value of the constants under the assumptions the modules name (`BoundAssumption` and
its like: budgets are natural numbers, sizes positive). Each inductive invariant was checked by TLC on the instance of
section 3 before it was proved. It is a conjunction of named parts; each action has a lemma or a step of
its own, and under it a step for each part the action can disturb. Most proof modules have a theorem `TypeCorrect`
(Player's also says that the reference count is right); MediaCodec's is part of `NodeCorrect`, UrlHook's
of `HookCorrect`, the caching protocol's (`CacheTypes`) of its invariant.

| Property of a run | Theorem | Module |
|---|---|---|
| `OnlyCurrentListens` | `OnlyCurrentSocketListens` | ImSocketProofs |
| `SessionInstalled` | `LoginServed` | ImSocketProofs |
| `ImplementsLink` | `FirstSessionIsALink` | ImSocketProofs |
| `HintHonest` | `HintTellsTruth` | ChatProofs |
| `OthersAtMostOnce` | `NotSentTwice` | ChatProofs |
| the safety half of `ImplementsDelivery` | `DeliversAsPromised` | ChatProofs |
| `GiftsArePaid`, `CacheAgrees`, `Conserved` | `GiftsPaid`, `CacheIsServers`, `MoneyConserved` | ChatProofs |
| `HeldWhileUsed`, `AtMostOneLate` | `Held`, `OneLate` | PlayerProofs |
| – | `NotFreed` | PlayerProofs |
| `NeverStuck`, `BufferingAnnounced`, `StateObeyed` | `StandsStillForAReason`, `BufferingIsAnnounced`, `RequestsObeyed` | PlaybackProofs |
| `OwnBuffersOnly`, `NoBufferLost` | `OwnBuffers`, `BuffersAreKept` | PlaybackProofs |
| – | `NodeCorrect` | PlaybackProofs |
| `LabelHonest`, `SlotNotShared` | `LabelsHonest`, `SlotsApart` | DecodingProofs |
| `AtMostOneStale`, `EndIsTheEnd` | `OneStale`, `EndTold` | DecodingProofs |
| `HeldWhileRunning`, `ReleasedOnce`, `ToldOnce` | `ThreadsHold`, `AllReleased`, `OneAnswer` | StreamLifeProofs |
| `RingHonest`, `NobodyStuck`, `ImplementsStream` | `RingNeverSlips`, `NeverBothAsleep`, `IsAStream` | AsyncIOProofs |
| `EntriesHonest`, `MapHonest`, `ImplementsStream` | `FileIsHonest`, `MapIsHonest`, `CacheIsAStream` | IoCacheProofs |
| `ImplementsStream`, `AnswersHonest` (`url_hooks`) | `HooksAreStreams`, `HooksAnswerHonestly` | DecodingProofs |
| – | `HookCorrect` | DecodingProofs |

**ImSocket.** That only the current socket listens is not inductive: `newSocket` overwrites `mSocket`, which is sound
only when the old socket has no listener, and that depends on commands still in the queue. `IInv` says that the
queued commands form a *path* from the main thread's stage (no session, session, restored) to the user's: an `INIT`
is never taken within a session, a `RESET` only in one; and it says what the main thread may be doing in each stage
(`Doing`). `PathAppend` and `PathTail` carry the path over the queue's two operations. `LoginServed` needs no
more; `OnlyCurrentSocketListens` adds `Alone` and supposes that `MainActivity` is not created twice within a session
(`~Relogin`: with it the property is false, see `MCImSocket_reuse.cfg`). `FirstSessionIsALink` is a refinement with an
invariant of its own: in the first session the process is `Before` the login, `Waiting` for the main thread, `Making` the
socket, has `Made` it or is `Served`, and `Cycle` says which of `Link`'s four states the socket and `isConnect` are in.

**ChatDelivery.** `HintInv`: the hint is honest, or an event that will set it is on its way. `OnceInv`: a message that
is not a text is in one place of its way, counting the server's store. `DeliveryInv`: an acknowledgement, wherever it is,
is only of what the server has stored, and a message is never shown delivered without one; from it every step is
a step of `Delivery` or a stutter.

**Wallet.** `PaidInv`: a debit the screen still waits for is the only one (`DebitsAlone`) and is in `debits` once
the server has taken it, though it is not yet in `gifts`. `AgreeInv`: as long as nothing overlaps and no reply is lost,
at most one change is under way, and the bean it carries is what the server's record becomes, in the money and in
every field that the reply will not leave `unsent` (`UnsentAfter`). `AmountsRight` adds
what that change is worth: the record, with what it is about to gain or lose, balances `credits` and `debits`.

**Player.** `Counted`: the count is Java's field, plus the second thread's reference, plus the application thread's while
it creates or releases, plus one for each live message loop. `NotFreed` follows for every application. `Single` says
there is one preparation, and which thread works on `ffp->is`; with it come `Held` (for an application that neither prepares a
stopped player again nor sets a source twice) and, with `Late`, `OneLate` (the former alone). Without the hypotheses
the properties are false: `MCPlayer_source.cfg` shows it for the source, and a second preparation leaks the first
`VideoState` with its read thread.

**Playback.** A picture that stands still or an output that is silent has a reason (`Excused`), the last announcement is
true, and buffering is on while a seek is under way (`SeeksBuffering`): the read thread's silent change of
`buffering_on` would otherwise falsify the announcement. `StateObeyed` speaks of a quiet player only. Its invariant
`Asked` follows the requests through the queue: a started player plays, or a `COMPLETED` or an error explains why
not (`Fresh`, `Resumes`), a paused one is paused or restarting (`Stays`). `Without` and its lemmas say what removing a
request from the queue leaves.

**Decoding.** `RingInv` ties `rindex`, `windex`, `size` and `keep_last` to the slots. `SerialInv`: packets are queued in
the order of their serials, each change of serial brings a flush packet before the first packet of the new one, and what the library holds
is of the serial last handed in. `StaleInv` follows the one frame in hand. `EndInv`: once the file has ended, the null packet
is the last of its serial, and a decoder that has finished with a serial was drained, up to the queue the read thread
has already flushed while it has not yet come to the other (`FlushedAlready`).

**MediaCodec.** That a buffer goes back to its codec only is not inductive: a proxy is an index and a serial, and both are used
again. `NodeInv` says where the two threads may be and which of them has the mutex (`NodePlaces`); that a codec's count is the node's
reference plus the video output's, a serial belongs to one codec, and one without a reference has nothing out (`NodeCounted`); and
that the video output has the node's codec, or none, or the last one (`VoutHas`), so that of the two memory cells one is free whenever a
codec is made. For the *hands* (the output thread's frame, the picture queue, what is held back) it says that no two hold a proxy
for the same buffer, and that a proxy whose serial is a codec's own stands for a buffer which that codec has handed out
(`HandsInv`); a flush gives the codec a serial that no hand has (`FreshIsNew`). `BuffersKept` is the other direction: a buffer that is out is in a
hand. It holds while the video is `Drawn` on a surface, that is while the video output's codec is the node's; `SurfaceFollowed`
says that the surface the input thread works with is the pipeline's or the thread will be told. `BuffersAreKept` supposes that changes of the
resolution are not followed (`~opt.resolution`, as in the run): section 7 says what happens otherwise.

**StreamLife.** `Course` says where each thread may be while each other is where it is. `StreamsFit`, `PlayerFits`,
`InputFits`, `SoundFits`, `NodeFits` and `RingFits` give, for each thing that is allocated, its life as a function of
those places: this is the table the opening's failing paths and the close must agree on, for any files, faults and
number of OpenSLES buffers. `Told` adds the answer given to Java.

**AsyncIO.** That the ring holds the bytes around the reader's position is not inductive: `ReadFresh` and `FillFits` say
that a read and a fill under way fit what they were decided on, `EndHonest` that a remembered end is the end,
`SeekOwned` who may touch the seek's fields while the mutex is free, `RingJoins` that the ring ends where the inner
protocol stands. In `IsAStream` each answer of a read or a seek is a step of `ByteStream`, every other step a
stutter or its `Begin` or `Skip`.

**IoCacheAhead.** That the entries describe the file is not inductive: a byte is right because of where the descriptor
stood when it was written. `DescriptorInv` says where that is: without read ahead at
`cache_physical_pos`; with it `cache_physical_pos` is the end of the file, where the next append seeks to. `PlaceInv` says which of the fields are in use at each place
of the reader and of the task, `InnerInv` where the inner protocol stands, `FetchInv` that what was asked for is what an append
may store: it begins where no entry is (`Free`) and ends before the next one. `FileInv` then holds: entries do not overlap,
lie within the file and name its bytes, those of the saved map too. That the task finds an end of what is cached at all
(`Following`) is an argument over a finite chain of entries, by well-founded induction on what is left of the stream. `KeepsFile` excludes
stale maps and the two faults after which the file lies (`"recreate"`, `"seek"`), and keeps `"close"`, which does it no harm. In
`CacheIsAStream` three more invariants follow the reader: what it has copied is what precedes its
position (`CallerInv`), from there to the task's position every byte is in the file and an end that was told without an error is
the end unless it is `broken` (`CoverInv`), and `StreamInv` joins
both with `CacheInv`; so `NothingIs`: a reader to whom the file gives nothing is at the end, or the end is `broken`; each answer is a step of `ByteStream`, every other step a stutter or its `Begin` or `Skip`.

**UrlHook.** That a reader sees one stream over many connections is not inductive: a new connection is opened at an offset,
and it matters where the old one broke. `ConnectionInv` says that the connection in use stands where the reader is, and
that an end which a read remembers is the end, while one that a connection, an inner read or a seek failed with is `CLOSED` and
says nothing of the end (`ErrorInv`), and never has the application asked again for a seek (`NoRetry`); `CallInv` says which steps a call of
each kind goes through, and that it has answered nothing yet. `ReconnectInv` says whom the application may tell to
reconnect, `LiveInv` that bytes which a live stream missed are marked as a discontinuity until a packet has carried the mark. Every
step is then one of six things to the reader (`SeenIsAStep`): nothing, the beginning of a call, a failure, a refusal, a
seek that has arrived, or bytes taken. The first half of `AnswersHonest` follows from the invariant and the steps of a seek, the
second from `LiveInv`; `HooksAnswerHonestly` holds for any application. `HooksAreStreams` supposes one that handles failures
(`FALSE \notin Handles`) and tells none to reconnect where it cannot (`~AnyReconnect`). Section 7 says what happens
otherwise.

**Only model-checked.** All liveness, which is outside the prover's reach: `Reconnects`, the fairness half of `ImplementsDelivery`,
`PrepareAnswered`, `ReleaseEnds`, `SeekSettles`, the three `CloseEnds`, `CallsEnd`, `InterruptEnds`.

## 7 Where code and comments disagree

Configurations kept beside the runs, or a run's with the property or the constant named here; each ends with TLC's counterexample:

| Configuration | Property | What happens |
|---|---|---|
| `MCImSocket_reuse.cfg` | `SocketReused` | `initSocket` means to reuse the socket of the same token but compares references; a second `MainActivity` of a session leaves two connected sockets, both delivering |
| `MCImSocket_reset.cfg` | `ResetDisconnects` | `disconnect()` is only posted when `release` runs on: the disconnect or error listener of that moment may reopen the socket, which stays connected after a reset |
| `MCWallet_received.cfg` | `ReceivedIsCredited` | an envelope is shown as received, for good, although its money was refused |
| `MCWallet_one.cfg` with this invariant | `TypedAgrees` | a change of the name that is refused stays in the screen's bean (`UserInfoPresenter.java:46-62`); the next save sends only what differs from that bean, and caches all of it (`:77`): the user sees a name the server does not have, until it is changed again |
| `MCPlayer_stopped.cfg` | `StoppedStays` | `COMPLETED`, taken from the queue before a stop and handled after it, makes a stopped player completed |
| `MCPlayer_detached.cfg` | `NeverJoinsItself` | the message thread is not detached: if it drops the last reference it waits for itself |
| `MCPlayer_asked.cfg` | `AsksOpenVideo` | `getCurrentPosition` holds `mp->mutex` while it reads what `ffp->is` points to; `ijkmp_shutdown` (`ijkplayer.c:309`) frees it without that lock |
| `MCPlayer_posting.cfg` | `PostsToHeld` | the message loop keeps a copy of `weak_thiz` (`ijkplayer_jni.c:898`) and may post with it after the release has deleted the reference |
| `MCPlayer_source.cfg` | `HeldWhileUsed` | `setDataSource(IMediaDataSource)` on a player that plays one replaces the old object (`ijkplayer_jni.c:211`) before the state refuses the new one; the read thread still uses it |
| `MCPlayback_paused.cfg` | `PausedStays` | `toggle_pause_l` works out the pause before it forgets `step`; a pause that comes while a seek still owes a frame leaves the video running in state PAUSED |
| `MCMediaCodec_same.cfg` | `SameSurfaceReused` | `set_surface` takes the codec from the video output whenever the surface changes. If it is taken away and given back before the input thread looks, that thread finds the surface it last used, logs "same surface, reuse previous surface" and goes on; the video output has no codec any more, refuses every picture by its serial, and the video stands still |
| `MCMediaCodec_async.cfg` | `NothingForgotten` | with `async_init_decoder` the codec is configured before a surface need be there. It decodes, but what it decodes is forgotten until the application sets a surface once more, and so are its buffers |
| `MCIoCache_file.cfg` with `StaleMaps = TRUE` | `EntriesHonest` | the map is saved only when a player ends or shares it. If the cache file was begun again since and the process is killed, the next player reads the old map, whose entries name overwritten bytes; the file's length is the only test (`ijkiocache.c:609`), so wrong bytes reach the demuxer |
| `MCIoCache_file.cfg` with this property | `EndsHonest` | the end is announced before the end: a task that fails stores `io_eof_reached` first and `io_error` after it (`ijkiocache.c:463`), or not at all if a seek failed (`:440`), and the reader may come in between (`:1008`); or the file cannot be read while the task has reached the end (`:754`). The demuxer takes it for a complete file |
| `MCUrlHook_calls.cfg` with this property | `SeekArrives` | a seek of which the connection or the inner protocol fails with `AVERROR_EOF` ends its loop by the wrong way (`ijkurlhook.c:387`, `ijkiourlhook.c:419`): it answers zero, what asking the application returned, and has moved nothing. The demuxer goes on as if it read from the start |

Left out of a run by a constant, whose other value brings them back:

- `Handles = {TRUE, FALSE}` (UrlHook): if the application does not handle a read or a seek that failed, it answers zero,
  which is what asking returned (`ijkurlhook.c:316`): an end of file before the end, or a seek said to be at the start.
- `AnyReconnect = TRUE` (UrlHook): `ijkio_urlhook_read` skips the read when a reconnection is wished for, but does not
  reconnect when the length is unknown or the stream is paused (`ijkiourlhook.c:336`), and answers zero bytes, an end of
  file to the reader; a paused seek goes the same way (`:416`).
- `Faults` (IoCacheAhead): `"seek"`, when a seek of the inner protocol to the beginning fails in the task, `file_inner_pos` is set as
  if it had been made, because `file_logical_end` is 0 as well as long as it is not known (`ijkiocache.c:441`), and the bytes read
  next are stored at the wrong place; `"close"`, once the task has given a shared
  file up, reads go straight to the inner protocol, which stands where the task left it and not where the reader is
  (`ijkiocache.c:966`); `"recreate"`, after repeated failures of the task or of the reader, making the file anew sets
  `file_inner_pos` to 0 though the inner protocol has not moved (`ijkiocache.c:165`), under a task that may be fetching. The model makes the
  file anew any number of times; the code gives it up after the fourth (`:171`).

Met while modelling, in the model but not kept as runs:

- `release` does not clear `isConnect` and takes off the listener that would, so the next session's
  socket counts as usable before it is connected, and a message emitted on it leaves no trace of failure.
- A stopped player may be prepared again (`MayPrepare`, as `ijkplayer.h` lists), but
  `ffp->is` is not NULL then, the assertion is compiled out and the old `VideoState` is lost.
- After an open that fails, the state stays ASYNC_PREPARING: only the event tells.
- `sub.equals("0.00")` compares a `BigDecimal` with a `String`: the whole balance is refused as
  insufficient (`Affordable`).
- `changeUserInfo` changes the screen's bean before the request; after a failure the same input counts as
  unmodified and nothing is sent. A picture is written to the cache when it has been uploaded, before, or without, the server
  hearing of it with a save of the profile.
- A second MediaCodec surface change while the input thread reconfigures lets frames be drawn on the old
  surface until the next reconfiguration; a codec that throws once at configure or start is never tried again on
  the same surface, and after five fake frames the input thread ends for good
  (`ffpipenode_android_mediacodec_vdec.c:984`).
- With a resolution that changes, a surface may get lost: `feed_input_buffer` clears the pipeline's need to reconfigure, and if
  `recreate_format_l` then fails it leaves without the new surface (`ffpipenode_android_mediacodec_vdec.c:904`). The node keeps
  the surface the pipeline no longer has, nobody tells it again, and `NoBufferLost` is false; hence the hypothesis of `BuffersAreKept`.
- `aout_free_l` closes the audio device a second time with no thread left: `SDL_WaitThread`'s
  `assert(thread)` would fail in a build with assertions.
- `ring_drain`'s assertion (`ijkasync.c:153`) bounds a backward seek by the bytes ahead and would fail on
  every short one in a build with assertions.
- `SDL_AMediaCodec`s of a failing `create` in a reconfiguration leave `opaque->acodec` NULL, which both threads
  use without a test (`ffpipenode_android_mediacodec_vdec.c:312`); not in the model.
- A cache file that cannot be read is truncated even while its map is shared (`ijkiocache.c:904`); in the model the
  map then counts as made anew by right.
- With read ahead, the task looks whether it should end before it takes the mutex to sleep (`ijkiocache.c:510`), so it may
  miss the wake-up of a close (`:1086`) or of a pause (`:1127`), which then waits for it; and a seek waits for a task
  that may have ended (`:1062`). The model has these waits; no liveness is stated of it.
- `TimeUtil.getTimeExpend` drops whole hours before it compares minutes.

## 8 What is not modelled

`PROJECT.json` lists every part with the reason. In short: *clocks, A/V synchronisation, accurate seek and rendering* are
arithmetic on timestamps and driver calls; *keyboard, location, news and other pages* are views over one
request; *generated JNI bindings* look up methods; FFmpeg is not in the repository. Of the modelled parts these
are left out:

- received chat messages (they only append to the list), how a picture is chosen and uploaded (its result is `PictureUploaded`), a second chat and the
  sticky EventBus replay into it;
- the values of the player's properties, and messages that only inform Java;
- the subtitle stream's frames, buffering and step pauses within StreamLife,
  the selecting half of `ffp_set_stream_selected` (`ff_ffplay.c:4842-4860`), which opens a stream while another plays, `Selected` being
  the deselecting half (`:4862-4879`) only; and its unhandled faults: `stream_open` failing before `ffp->is` is set, threads, mutexes or a video node
  that cannot be created;
- within IoCacheAhead: on an interrupt the task stores the end and the error one after the other too (`ijkiocache.c:487-489`), in the
  model in one step: a read under way just then may be told the end instead of the error, of a player that is being stopped, and
  every later one is refused; and a reader's opening of the inner protocol is one step;
- below IoCacheAhead, an inner protocol that reads nothing before the end without failing, as a hook does whose application
  handles no failure: the task remembers that place as the end for good (`ijkiocache.c:460`, `:418`);
- AsyncIO's failing open, statistics, and targets that are refused at once;
- several streams in one manager of the cache, which share the descriptor while each remembers its own position, and
  a stream of unknown length, which ends at once (`ijkiocache.c:915`).

## 9 Plan

Done, in this order: the connection (Link, ImSocket), delivery on top of it, the wallet, the player's
life, playback control, the queues and decoders, the life of a stream, asynchronous reading, the MediaCodec back end,
caching reading; then the hooks and the sources over a Java object, the read ahead, the audio outputs, the ways the
hardware decoder is opened, the player's second Java thread; and the proofs of section 6.

Every safety and action property of the runs is proved; what is left to prove is liveness, which waits for a
prover that handles it.

To be modelled:

1. **VideoPage**: the players of the pages while the user swipes; `playVideo` overwrites a
   player that is preparing or paused. Composes with an abstract player.
2. **ChatHistory**: page numbers, overlapping requests, the messages of another chat.
3. Accurate seek: two decoders that wait for each other.
