------------------------------ MODULE UrlHook ------------------------------
(***************************************************************************)
(* The protocols that ask the application before they connect, and again   *)
(* when a connection fails: ijktcphook and ijkhttphook (ijkurlhook.c), the *)
(* httphook of the ijkio protocols (ijkiourlhook.c), and the demuxer of    *)
(* live streams (ijklivehook.c), which reads packets instead of bytes; and *)
(* the two whose bytes come from an object of the application's, called    *)
(* mds (ijkmediadatasource.c) and androidio (ijkioandroidio.c).            *)
(*                                                                         *)
(* One thread makes the calls, each in several steps: ask the application, *)
(* connect, use the inner protocol.  Meanwhile the player interrupts it,   *)
(* the manager of the ijkio protocols pauses it and the application wants  *)
(* it to reconnect.  A byte is its position in the stream.                 *)
(***************************************************************************)
EXTENDS Integers, Sequences

CONSTANTS
  Kinds,          \* the protocols to be considered
  Size,           \* bytes behind the inner protocol
  MaxRead,        \* bound: the largest buffer the demuxer reads into
  SeekTo,         \* bound: where the demuxer seeks to
  Handles,        \* what the application answers a read or a seek that failed: is_handled
  AnyReconnect    \* may one that is paused, or whose length is unknown, be told to reconnect?

ASSUME KindsAssumption == Kinds \subseteq {"tcp", "http", "io", "live", "mds", "androidio"}
ASSUME SizesAssumption ==
  Size \in Nat /\ MaxRead \in Nat \ {0} /\ SeekTo \subseteq 0 .. Size
ASSUME ApplicationAssumption == Handles \subseteq BOOLEAN /\ AnyReconnect \in BOOLEAN

VARIABLES
  kind, streamed,    \* the protocol, and whether its server can only be read in order
  at,                \* where the thread is
  call, target,      \* the call under way, and where a seek is to go
  inner,             \* the position of the inner protocol, or of the application's object
  logical_pos,
  io_error,          \* of a live demuxer: error
  interrupted,       \* the interrupt callback: the player is being stopped
  abort_request, active_reconnect,  \* of the ijkio protocol and of its manager
  discontinuity,     \* of a live demuxer
  flagged,           \* was the last packet marked as one after a gap?
  gap,               \* history: has the live stream been opened again since the last packet?
  dest, ret          \* the bytes and the answer of the last call

setup  == <<kind, streamed>>
stream == <<inner, logical_pos, io_error>>
io     == <<abort_request, active_reconnect>>
live   == <<discontinuity, flagged, gap>>
hookVars == <<setup, at, call, target, stream, interrupted, io, live, dest, ret>>

(* AVERROR_EOF is two numbers here: EOF at the end of the stream, CLOSED   *)
(* from a connection that could not be made, an inner read or a seek, for  *)
(* which it tells nothing of the end.  A reader is told EOF for both.      *)
EOF    == -1
EIO    == -2
EXIT   == -3
ENOSYS == -4
EAGAIN == -5
CLOSED == -6

logical_size == IF streamed THEN -1 ELSE Size

HookInit ==
  /\ kind \in Kinds
  /\ streamed \in (IF kind \in {"http", "io"} THEN BOOLEAN ELSE {TRUE})
  /\ at = "closed" /\ call = "none" /\ target = 0
  /\ inner = 0 /\ logical_pos = 0 /\ io_error = 0
  /\ interrupted = FALSE /\ abort_request = FALSE /\ active_reconnect = FALSE
  /\ discontinuity = FALSE /\ flagged = FALSE /\ gap = FALSE
  /\ dest = <<>> /\ ret = 0

-----------------------------------------------------------------------------
(* How a call begins and ends.                                             *)

Begins(c, where) ==
  /\ call' = c /\ at' = where
  /\ dest' = <<>> /\ ret' = 0

Goes(where) == at' = where /\ UNCHANGED <<call, dest, ret>>

Returns(n) ==
  /\ at' = (IF call = "open" /\ n < 0 THEN "closed" ELSE "idle")
  /\ call' = "none"
  /\ dest' = <<>> /\ ret' = (IF call = "read" /\ n = CLOSED THEN EOF ELSE n)

\* To FFmpeg a read of no bytes is the end of the file.
ReturnsZero == Returns(IF call = "read" THEN EOF ELSE 0)

\* The loops that ask the application again: a read must have something left to read.
RetriesHttp == kind = "http" /\ (call = "read" => logical_pos < logical_size)
RetriesIo   == kind = "io" /\ ~abort_request /\ (call = "read" => logical_pos < logical_size)
Retries     == RetriesHttp \/ RetriesIo

\* A mutant for AnswersHonest: the httphook answers a paused seek as if it had been made.
MutFails(e) ==
  /\ io_error' = e
  /\ IF Retries /\ e # EXIT THEN Goes("ask_again")
     ELSE IF call = "seek" THEN ReturnsZero ELSE Returns(e)

\* What ends the loops at once; for a seek an end of file does.
Final(e) == e = EXIT \/ (call = "seek" /\ e = CLOSED)

\* A step of the call fails.  A seek that ends at once answers what the application was
\* asked last, and that went well; one that is paused forgets the error it answers.
Fails(e) ==
  /\ io_error' = IF call = "seek" /\ ~Retries THEN 0 ELSE e
  /\ CASE Retries /\ ~Final(e) -> Goes("ask_again")
       [] Retries /\ Final(e)  -> IF call = "seek" THEN ReturnsZero ELSE Returns(e)
       [] ~Retries             -> Returns(e)

\* The loops of the live demuxer, to which no end of file is one: the error of a reading
\* that was interrupted is remembered.
FailsLive(e) ==
  IF e = EXIT
  THEN Returns(EXIT) /\ io_error' = IF call = "read" THEN EXIT ELSE io_error
  ELSE Goes("ask_again") /\ UNCHANGED io_error

\* What an inner protocol fails with.
Errors == IF interrupted THEN {EXIT} ELSE {EIO, CLOSED}

-----------------------------------------------------------------------------
(* The demuxer's calls.                                                    *)

OpenTcp  == kind = "tcp" /\ Begins("open", "connect")
OpenHttp == kind = "http" /\ Begins("open", "ask")
OpenIo   == kind = "io" /\ Begins("open", "ask")
OpenLive == kind = "live" /\ Begins("open", "ask")

Open ==
  /\ at = "closed"
  /\ OpenTcp \/ OpenHttp \/ OpenIo \/ OpenLive
  /\ UNCHANGED <<setup, target, stream, interrupted, io, live>>

ReadHttp == kind \in {"tcp", "http"} /\ Begins("read", "inner") /\ UNCHANGED io_error

\* One that is to reconnect does so before it reads, unless there is nothing left to read.
ReadIo ==
  /\ kind = "io"
  /\ CASE ~active_reconnect -> Begins("read", "inner") /\ UNCHANGED io_error
       [] active_reconnect /\ logical_pos < logical_size ->
            Begins("read", "ask_again") /\ UNCHANGED io_error
       [] OTHER -> dest' = <<>> /\ ret' = EOF /\ io_error' = 0 /\ UNCHANGED <<call, at>>

ReadLive ==
  /\ kind = "live" /\ UNCHANGED io_error
  /\ IF io_error < 0 THEN dest' = <<>> /\ ret' = io_error /\ UNCHANGED <<call, at>>
     ELSE Begins("read", "inner")

\* What the manager has paused it resumes.
Resumed == abort_request' = FALSE

Read ==
  /\ at = "idle"
  /\ ReadHttp \/ ReadIo \/ ReadLive
  /\ Resumed /\ flagged' = FALSE
  /\ UNCHANGED <<setup, target, inner, logical_pos, interrupted, active_reconnect,
                 discontinuity, gap>>

SeekNowhere(t) ==
  kind \in {"http", "io"} /\ t = logical_pos /\ ret' = t /\ UNCHANGED <<call, at, dest>>

SeekHttp(t) ==
  /\ kind = "http" /\ t # logical_pos
  /\ IF streamed THEN ret' = ENOSYS /\ UNCHANGED <<call, at, dest>> ELSE Begins("seek", "ask")

SeekIo(t) == kind = "io" /\ t # logical_pos /\ Begins("seek", "ask")

Seek(t) ==
  /\ at = "idle"
  /\ SeekNowhere(t) \/ SeekHttp(t) \/ SeekIo(t)
  /\ target' = t /\ Resumed
  /\ UNCHANGED <<setup, stream, interrupted, active_reconnect, live>>

\* ijkurlhook_close and ijkio_httphook_close
Close ==
  /\ at = "idle" /\ at' = "closed" /\ kind \notin {"mds", "androidio"}
  /\ inner' = 0 /\ logical_pos' = 0 /\ io_error' = 0
  /\ abort_request' = FALSE /\ discontinuity' = FALSE /\ gap' = FALSE /\ flagged' = FALSE
  /\ ret' = 0
  /\ UNCHANGED <<setup, call, target, interrupted, active_reconnect, dest>>

-----------------------------------------------------------------------------
(* Asking the application: ijkurlhook_call_inject.                         *)

\* A mutant for InterruptEnds: the loop goes on when the application was not asked.
MutRefused ==
  /\ IF at = "ask_again" THEN Goes("ask_again") ELSE Returns(EXIT)
  /\ io_error' = IF call = "read" /\ kind # "live" THEN EXIT ELSE io_error

\* It is not asked when the call is interrupted, or it wants no connection.
Refused ==
  /\ Returns(EXIT)
  /\ io_error' = IF call = "read" /\ kind # "live" THEN EXIT ELSE io_error

\* It has nothing to offer: an opening fails with its error.  A read or a seek answers
\* zero, which is what asking returned.
Unhandled ==
  /\ at = "ask_again"
  /\ IF call = "open" THEN Returns(io_error) ELSE FALSE \in Handles /\ ReturnsZero
  /\ io_error' = IF call = "read" THEN 0 ELSE io_error

\* A seek goes on over the connection there is, if the application kept the url.
Handled ==
  /\ call # "open" /\ at = "ask_again" => TRUE \in Handles
  /\ \E changed \in BOOLEAN :
       Goes(IF call = "seek" /\ ~changed THEN "inner" ELSE "connect")
  /\ UNCHANGED io_error

Asked == Unhandled \/ Handled

Ask ==
  /\ at \in {"ask", "ask_again"} /\ kind \in {"tcp", "http"}
  /\ Refused \/ (~interrupted /\ Asked)
  /\ UNCHANGED <<setup, target, inner, logical_pos, interrupted, io, live>>

\* (That an interrupted call sets abort_request too says nothing that interrupted does not.)
check_interrupt == abort_request \/ interrupted

AskIo ==
  /\ at \in {"ask", "ask_again"} /\ kind = "io"
  /\ Refused \/ (~check_interrupt /\ Asked)
  /\ active_reconnect' = (active_reconnect /\ call # "read")
  /\ UNCHANGED <<setup, target, inner, logical_pos, interrupted, abort_request, live>>

\* The live demuxer connects whatever the application answers; what follows an error is a gap.
AskLive ==
  /\ at \in {"ask", "ask_again"} /\ kind = "live"
  /\ \/ Refused /\ UNCHANGED discontinuity
     \/ /\ ~interrupted /\ Goes("connect")
        /\ discontinuity' = (discontinuity \/ at = "ask_again")
        /\ UNCHANGED io_error
  /\ UNCHANGED <<setup, target, inner, logical_pos, interrupted, io, flagged, gap>>

-----------------------------------------------------------------------------
(* The inner protocol.                                                     *)

\* A mutant for ImplementsStream: a read that failed begins again at the start.
MutOffset == IF call = "seek" THEN target ELSE 0

Offset ==
  CASE call = "open" -> 0
    [] call = "read" -> logical_pos
    [] call = "seek" -> target

\* The old connection is given up only for a new one.
Connected ==
  /\ streamed => Offset = 0
  /\ inner' = Offset /\ logical_pos' = Offset /\ io_error' = 0
  /\ CASE call = "open" -> Returns(0)
       [] call = "read" -> Goes("inner")
       [] call = "seek" -> Returns(Offset)

Refuses == \E e \in Errors : Fails(e) /\ UNCHANGED <<inner, logical_pos>>

Connect ==
  /\ at = "connect" /\ kind \in {"tcp", "http"}
  /\ Connected \/ Refuses
  /\ UNCHANGED <<setup, target, interrupted, io, live>>

ConnectIo ==
  /\ at = "connect" /\ kind = "io"
  /\ Connected \/ Refuses
  /\ UNCHANGED <<setup, target, interrupted, io, live>>

ConnectLive ==
  /\ at = "connect" /\ kind = "live"
  /\ \/ /\ IF call = "open" THEN Returns(0) ELSE Goes("inner")
        /\ gap' = (gap \/ call = "read") /\ UNCHANGED io_error
     \/ \E e \in Errors : FailsLive(e) /\ UNCHANGED gap
  /\ UNCHANGED <<setup, target, inner, logical_pos, interrupted, io, discontinuity, flagged>>

\* An error is remembered: a protocol that cannot connect again has failed for good.
Bytes ==
  IF io_error < 0 THEN Fails(io_error) /\ UNCHANGED <<inner, logical_pos>> ELSE
  \/ \E n \in 1 .. MaxRead :
       /\ n <= Size - inner
       /\ at' = "idle" /\ call' = "none"
       /\ dest' = [i \in 1 .. n |-> inner + i - 1] /\ ret' = n
       /\ inner' = inner + n /\ logical_pos' = logical_pos + n
       /\ UNCHANGED io_error
  \/ inner = Size /\ Fails(EOF) /\ UNCHANGED <<inner, logical_pos>>
  \/ Refuses

ReadInner ==
  /\ at = "inner" /\ call = "read" /\ kind \in {"tcp", "http"}
  /\ Bytes
  /\ UNCHANGED <<setup, target, interrupted, io, live>>

ReadInnerIo ==
  /\ at = "inner" /\ call = "read" /\ kind = "io"
  /\ Bytes
  /\ UNCHANGED <<setup, target, interrupted, io, live>>

\* A live stream has no end, and one that has nothing yet is read again at once.
ReadPacket ==
  /\ at = "inner" /\ kind = "live"
  /\ \/ /\ Returns(0) /\ flagged' = discontinuity /\ discontinuity' = FALSE
        /\ gap' = FALSE /\ UNCHANGED io_error
     \/ \E e \in Errors : FailsLive(e) /\ UNCHANGED live
  /\ UNCHANGED <<setup, target, inner, logical_pos, interrupted, io>>

Moved ==
  /\ ~streamed
  /\ inner' = target /\ logical_pos' = target /\ io_error' = 0
  /\ Returns(target)

SeekInner ==
  /\ at = "inner" /\ call = "seek" /\ kind = "http"
  /\ Moved \/ Refuses
  /\ UNCHANGED <<setup, target, interrupted, io, live>>

SeekInnerIo ==
  /\ at = "inner" /\ call = "seek" /\ kind = "io"
  /\ Moved \/ Refuses
  /\ UNCHANGED <<setup, target, interrupted, io, live>>

-----------------------------------------------------------------------------
(* The application's object is called without anything in between.  What   *)
(* throws, or cannot be allocated, is EIO.                                 *)

Asks(k, where) ==
  /\ kind = k /\ at = where
  /\ UNCHANGED <<setup, call, target, io_error, interrupted, io, live>>

\* The bytes that follow p; what has none at the moment answers with nothing.
Reads(p) ==
  \/ \E n \in 1 .. MaxRead :
       /\ n <= Size - p /\ p' = p + n
       /\ dest' = [i \in 1 .. n |-> p + i - 1] /\ ret' = n
  \/ /\ \/ p = Size /\ ret' = EOF
        \/ ret' \in {EIO, EAGAIN}
     /\ dest' = <<>> /\ UNCHANGED p

Seeks(p, t, errors) ==
  /\ \/ p' = t /\ ret' = t
     \/ ret' \in errors /\ UNCHANGED p
  /\ UNCHANGED dest

Opens ==
  /\ ret' \in {0, EIO} /\ at' = (IF ret' = 0 THEN "idle" ELSE "closed")
  /\ UNCHANGED <<inner, logical_pos, dest>>

Closes ==
  /\ at' = "closed" /\ inner' = 0 /\ logical_pos' = 0
  /\ ret' = 0 /\ UNCHANGED dest

OpenMds == Asks("mds", "closed") /\ Opens

ReadMds == Asks("mds", "idle") /\ Reads(logical_pos) /\ UNCHANGED <<at, inner>>

SeekMds(t) ==
  Asks("mds", "idle") /\ Seeks(logical_pos, t, {EIO, CLOSED}) /\ UNCHANGED <<at, inner>>

CloseMds == Asks("mds", "idle") /\ Closes

OpenAndroidio == Asks("androidio", "closed") /\ Opens

\* Only the object knows the position; what its seek returns is the answer.
ReadAndroidio ==
  Asks("androidio", "idle") /\ Reads(inner) /\ UNCHANGED <<at, logical_pos>>

SeekAndroidio(t) ==
  /\ Asks("androidio", "idle") /\ Seeks(inner, t, {EIO, EXIT, ENOSYS, EAGAIN, CLOSED})
  /\ UNCHANGED <<at, logical_pos>>

CloseAndroidio == Asks("androidio", "idle") /\ Closes

Objects ==
  \/ OpenMds \/ ReadMds \/ CloseMds \/ OpenAndroidio \/ ReadAndroidio \/ CloseAndroidio
  \/ \E t \in SeekTo : SeekMds(t) \/ SeekAndroidio(t)

-----------------------------------------------------------------------------
(* The other threads.                                                      *)

Interrupt ==
  /\ ~interrupted /\ interrupted' = TRUE
  /\ UNCHANGED <<setup, at, call, target, stream, io, live, dest, ret>>

\* ijkio_httphook_pause: another stream of the manager is opened, while a cache's task reads.
Pause ==
  /\ kind = "io" /\ at # "closed" /\ ~abort_request /\ abort_request' = TRUE
  /\ AnyReconnect \/ ~active_reconnect
  /\ UNCHANGED <<setup, at, call, target, stream, interrupted, active_reconnect, live, dest, ret>>

\* ijkio_manager_immediate_reconnect
Reconnect ==
  /\ kind = "io" /\ ~active_reconnect /\ active_reconnect' = TRUE
  /\ AnyReconnect \/ (~abort_request /\ ~streamed)
  /\ UNCHANGED <<setup, at, call, target, stream, interrupted, abort_request, live, dest, ret>>

HookNext ==
  \/ Open \/ Read \/ Close
  \/ Ask \/ Connect \/ ReadInner \/ SeekInner
  \/ AskIo \/ ConnectIo \/ ReadInnerIo \/ SeekInnerIo
  \/ AskLive \/ ConnectLive \/ ReadPacket
  \/ \E t \in SeekTo : Seek(t)
  \/ Objects
  \/ Interrupt \/ Pause \/ Reconnect

HookFairness ==
  /\ WF_hookVars(Ask) /\ WF_hookVars(Connect) /\ WF_hookVars(ReadInner) /\ WF_hookVars(SeekInner)
  /\ WF_hookVars(AskIo) /\ WF_hookVars(ConnectIo) /\ WF_hookVars(ReadInnerIo) /\ WF_hookVars(SeekInnerIo)
  /\ WF_hookVars(AskLive) /\ WF_hookVars(ConnectLive) /\ WF_hookVars(ReadPacket)

HookSpec == HookInit /\ [][HookNext]_hookVars /\ HookFairness

-----------------------------------------------------------------------------
(* Properties                                                              *)

\* A connection that broke off with an end of file has cut the stream short for a reader
\* that does not connect again: of one that can only be read in order, or is paused.
CutShort == io_error = CLOSED /\ (streamed \/ abort_request)

Stream == INSTANCE ByteStream WITH
            pos    <- IF kind = "androidio" THEN inner ELSE logical_pos,
            cut    <- CutShort,
            Eof    <- EOF,
            Errors <- {EIO, EXIT, ENOSYS, EAGAIN, CLOSED}

\* Over however many connections, whoever reads sees one stream: the bytes that follow one
\* another, no connection that falls back, and an end only at the end or where the last
\* connection broke off and no other may be made (ijkurlhook.c:305, ijkiourlhook.c:336).
ImplementsStream ==
  Stream!Spec /\ [][call = "read" => logical_pos' >= logical_pos]_hookVars

\* What may stop a seek that then answers zero, which is what asking the application
\* returned (ijkurlhook.c:384, ijkiourlhook.c:416).
Excused == {EXIT, CLOSED} \cup (IF FALSE \in Handles THEN {EIO} ELSE {})

\* A seek that does not answer with an error has got where it was to go, or answers zero,
\* has moved nothing and remembers one of these errors: a failure that can be mended is
\* mended, or told, also by one that is paused (ijkurlhook.c:384, ijkiourlhook.c:416).  And
\* the first packet of a live stream that was opened again says that there is a gap before
\* it, however often that failed before (ijklivehook.c:273).
AnswersHonest ==
  /\ [][call = "seek" /\ call' = "none" /\ ret' >= 0 =>
          \/ ret' = target /\ logical_pos' = target /\ inner' = target
          \/ ret' = 0 /\ io_error' \in Excused /\ UNCHANGED <<inner, logical_pos>>]_hookVars
  /\ [][kind = "live" /\ call = "read" /\ call' = "none" /\ ret' = 0 /\ gap => flagged']_hookVars

\* The same of seeks without the excuse, which an end of file falsifies (ijkurlhook.c:387,
\* ijkiourlhook.c:419).
SeekArrives ==
  [][call = "seek" /\ call' = "none" /\ ret' >= 0 =>
       interrupted \/ (ret' = target /\ logical_pos' = target /\ inner' = target)]_hookVars

\* Whatever the application keeps offering, a call comes back once the player is stopped
\* (ijkurlhook.c:58, ijkiourlhook.c:79, ijklivehook.c:51).
InterruptEnds == interrupted ~> call = "none"
=============================================================================
