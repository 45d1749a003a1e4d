------------------------------ MODULE AsyncIO -------------------------------
(***************************************************************************)
(* The "async:" protocol of ijkplayer (ijkavformat/ijkasync.c): a          *)
(* background thread reads an inner protocol ahead into a ring buffer, the *)
(* demuxer reads and seeks in the ring.  The two threads share one mutex   *)
(* and two condition variables; the ring is filled, and a seek decides     *)
(* which way to take, without the mutex.                                   *)
(*                                                                         *)
(* A critical section of one thread is one step, cut where it waits.  A    *)
(* byte is its position in the file, so that the ring can be compared with *)
(* the position the reader believes to be at.  decode_interrupt_cb, which  *)
(* `interrupt` stands for, goes up once and never comes down.              *)
(***************************************************************************)
EXTENDS Integers, Sequences

CONSTANTS Size,       \* bytes behind the inner protocol
          Forwards,   \* async-forwards-capacity
          Backwards,  \* async-backwards-capacity
          Chunk,      \* the 4096 bytes of one fill
          Short,      \* SHORT_SEEK_THRESHOLD
          MaxRead     \* bound: the largest buffer the demuxer reads into

ASSUME SizesAssumption ==
  /\ Size \in Nat /\ Backwards \in Nat /\ Short \in Nat
  /\ Forwards \in Nat \ {0} /\ Chunk \in Nat \ {0} /\ MaxRead \in Nat \ {0}

VARIABLES fifo, read_pos,             \* the ring: its bytes, how many are behind the reader
          inner_pos,                  \* the position of the inner protocol
          seek_request, seek_pos, seek_completed, seek_ret,
          inner_io_error, io_error, io_eof_reached,
          logical_pos, logical_size,
          abort_request, interrupt,
          main_at, reading, to_read,  \* the demuxer's thread and the call it is in
          dest, ret,                  \* the bytes and the answer of its last call
          bg_at, to_copy, wrote       \* the background thread and the fill it is in

ring == <<fifo, read_pos>>
seek == <<seek_request, seek_pos, seek_completed, seek_ret>>
io   == <<inner_io_error, io_error, io_eof_reached>>
call == <<reading, to_read, dest, ret>>
fill == <<to_copy, wrote>>
vars == <<ring, inner_pos, seek, io, logical_pos, logical_size, abort_request, interrupt,
          main_at, call, bg_at, fill>>

Capacity == Forwards + Backwards

\* The answers that are not a count or a position.
EOF    == -1
EXIT   == -2
EIO    == -3
EINVAL == -4
Errors == {EXIT, EIO, EINVAL}

RingType ==
  /\ fifo \in Seq(0 .. Size - 1) /\ Len(fifo) <= Capacity
  /\ read_pos \in 0 .. Backwards /\ read_pos <= Len(fifo)

SeekType ==
  /\ seek_request \in BOOLEAN /\ seek_completed \in BOOLEAN
  /\ seek_pos \in 0 .. Size /\ seek_ret \in (0 .. Size) \cup Errors

IoType ==
  /\ inner_io_error \in {0, EOF} \cup Errors /\ io_error \in {0, EOF} \cup Errors
  /\ io_eof_reached \in BOOLEAN

PlaceType ==
  /\ inner_pos \in 0 .. Size /\ logical_pos \in 0 .. Size /\ logical_size \in {0, Size}
  /\ abort_request \in BOOLEAN /\ interrupt \in BOOLEAN

CallType ==
  /\ main_at \in {"idle", "loop", "wait", "ask", "seeking", "seekwait", "join", "closed"}
  /\ reading \in {"read", "skip"} /\ to_read \in Nat
  /\ dest \in Seq(0 .. Size - 1) /\ ret \in {EOF} \cup Nat \cup Errors

BgType ==
  /\ bg_at \in {"look", "seek", "fill", "filled", "wait", "ended"}
  /\ to_copy \in 0 .. Chunk /\ wrote \in BOOLEAN

TypeOK == RingType /\ SeekType /\ IoType /\ PlaceType /\ CallType /\ BgType

\* async_open: everything is allocated, the inner protocol stands at its first byte, the
\* background thread runs.  A stream of unknown length has logical_size 0.
Init ==
  /\ fifo = <<>> /\ read_pos = 0 /\ inner_pos = 0
  /\ seek_request = FALSE /\ seek_pos = 0 /\ seek_completed = FALSE /\ seek_ret = 0
  /\ inner_io_error = 0 /\ io_error = 0 /\ io_eof_reached = FALSE
  /\ logical_pos = 0 /\ logical_size \in {0, Size}
  /\ abort_request = FALSE /\ interrupt = FALSE
  /\ main_at = "idle" /\ reading = "read" /\ to_read = 0 /\ dest = <<>> /\ ret = 0
  /\ bg_at = "look" /\ to_copy = 0 /\ wrote = FALSE

-----------------------------------------------------------------------------
(* The ring, the interrupt callback and the two condition variables. *)

ring_size  == Len(fifo) - read_pos
ring_space == Capacity - Len(fifo)
Smaller(a, b) == IF a < b THEN a ELSE b

\* async_check_interrupt; whoever finds it true leaves abort_request set.
Interrupted == abort_request \/ interrupt

\* Bytes behind the reader are kept, up to read_back_capacity.
ring_generic_read(n) ==
  LET drained == IF read_pos + n > Backwards THEN read_pos + n - Backwards ELSE 0
  IN  /\ fifo' = SubSeq(fifo, drained + 1, Len(fifo))
      /\ read_pos' = read_pos + n - drained

\* Mutant: the bytes before a seek stay in the ring.
MutRingReset == UNCHANGED ring

ring_reset == fifo' = <<>> /\ read_pos' = 0

\* Mutant: who waits for a seek is not woken.
MutMainWoken == IF main_at = "wait" THEN "loop" ELSE main_at

MainWoken ==
  CASE main_at = "wait"     -> "loop"
    [] main_at = "seekwait" -> "seeking"
    [] OTHER                -> main_at

\* Mutant: the background thread is never woken.
MutBgWoken == bg_at

BgWoken == IF bg_at = "wait" THEN "look" ELSE bg_at

\* The inner seek is made with the mutex held: nobody else gets it meanwhile.
MutexFree == bg_at # "seek"

-----------------------------------------------------------------------------
(* The background thread: async_buffer_task. *)

BgExit ==
  /\ bg_at = "look" /\ Interrupted
  /\ abort_request' = TRUE
  /\ io_eof_reached' = TRUE /\ io_error' = EXIT
  /\ main_at' = MainWoken
  /\ bg_at' = "ended"
  /\ UNCHANGED <<ring, inner_pos, seek, inner_io_error, logical_pos, logical_size, interrupt,
                 call, fill>>

BgSeekStart ==
  /\ bg_at = "look" /\ ~Interrupted /\ seek_request
  /\ bg_at' = "seek"
  /\ UNCHANGED <<ring, inner_pos, seek, io, logical_pos, logical_size, abort_request, interrupt,
                 main_at, call, fill>>

\* ffurl_seek has answered: with the position, or with an error that also ends the input.
BgSeekEnd ==
  /\ bg_at = "seek"
  /\ \/ /\ inner_pos' = seek_pos /\ seek_ret' = seek_pos
        /\ io_eof_reached' = FALSE /\ io_error' = 0
     \/ /\ seek_ret' \in {EIO} \cup (IF Interrupted THEN {EXIT} ELSE {})
        /\ io_eof_reached' = TRUE /\ io_error' = seek_ret'
        /\ UNCHANGED inner_pos
  /\ seek_completed' = TRUE /\ seek_request' = FALSE
  /\ ring_reset
  /\ main_at' = MainWoken
  /\ bg_at' = "look"
  /\ UNCHANGED <<seek_pos, inner_io_error, logical_pos, logical_size, abort_request, interrupt,
                 call, fill>>

BgWait ==
  /\ bg_at = "look" /\ ~Interrupted /\ ~seek_request
  /\ io_eof_reached \/ ring_space <= 0
  /\ main_at' = MainWoken
  /\ bg_at' = "wait"
  /\ UNCHANGED <<ring, inner_pos, seek, io, logical_pos, logical_size, abort_request, interrupt,
                 call, fill>>

BgFill ==
  /\ bg_at = "look" /\ ~Interrupted /\ ~seek_request
  /\ ~io_eof_reached /\ ring_space > 0
  /\ to_copy' = Smaller(Chunk, ring_space) /\ wrote' = FALSE
  /\ bg_at' = "fill"
  /\ UNCHANGED <<ring, inner_pos, seek, io, logical_pos, logical_size, abort_request, interrupt,
                 main_at, call>>

\* One turn of av_fifo_generic_write, without the mutex: the inner protocol gave n bytes.
FillPiece(n) ==
  /\ bg_at = "fill"
  /\ fifo' = fifo \o [i \in 1 .. n |-> inner_pos + i - 1]
  /\ inner_pos' = inner_pos + n
  /\ inner_io_error' = 0
  /\ to_copy' = to_copy - n /\ wrote' = TRUE
  /\ bg_at' = IF to_copy' = 0 THEN "filled" ELSE "fill"
  /\ UNCHANGED <<read_pos, seek, io_error, io_eof_reached, logical_pos, logical_size,
                 abort_request, interrupt, main_at, call>>

\* It gave none: the end of the file (0 or AVERROR_EOF), an error, or the interrupt.
FillStop ==
  /\ bg_at = "fill"
  /\ \/ inner_pos = Size /\ inner_io_error' \in {0, EOF} /\ UNCHANGED abort_request
     \/ inner_io_error' = EIO /\ UNCHANGED abort_request
     \/ Interrupted /\ inner_io_error' = EXIT /\ abort_request' = TRUE
  /\ bg_at' = "filled"
  /\ UNCHANGED <<ring, inner_pos, seek, io_error, io_eof_reached, logical_pos, logical_size,
                 interrupt, main_at, call, fill>>

FillEnd ==
  /\ bg_at = "filled"
  /\ io_eof_reached' = (io_eof_reached \/ ~wrote)
  /\ io_error' = IF ~wrote /\ inner_io_error < 0 THEN inner_io_error ELSE io_error
  /\ main_at' = MainWoken
  /\ bg_at' = "look" /\ to_copy' = 0 /\ wrote' = FALSE
  /\ UNCHANGED <<ring, inner_pos, seek, inner_io_error, logical_pos, logical_size, abort_request,
                 interrupt, call>>

FillAnswered == FillStop \/ \E n \in 1 .. Smaller(to_copy, Size - inner_pos) : FillPiece(n)

Bg == BgExit \/ BgSeekStart \/ BgWait \/ BgFill \/ FillEnd

-----------------------------------------------------------------------------
(* The demuxer's thread: async_read and the loop it shares with a short seek forwards. *)

StartRead(n) ==
  /\ main_at = "idle"
  /\ main_at' = "loop" /\ reading' = "read" /\ to_read' = n /\ dest' = <<>> /\ ret' = 0
  /\ UNCHANGED <<ring, inner_pos, seek, io, logical_pos, logical_size, abort_request, interrupt,
                 bg_at, fill>>

\* Mutant: a seek answers with the place it was asked for.
MutAnswer(r) == IF reading = "read" THEN r ELSE logical_pos + to_read

\* The answer of a call that leaves the loop: a seek answers with its position whatever happened.
Answer(r) == IF reading = "read" THEN r ELSE logical_pos

\* A call returns, what it kept on its stack is gone.
Return == main_at' = "idle" /\ reading' = "read" /\ to_read' = 0

LoopExit ==
  /\ main_at = "loop" /\ MutexFree /\ Interrupted
  /\ abort_request' = TRUE
  /\ ret' = Answer(EXIT)
  /\ Return /\ bg_at' = BgWoken
  /\ UNCHANGED <<ring, inner_pos, seek, io, logical_pos, logical_size, interrupt, dest, fill>>

\* A read is content with what there is, a seek skips until it has skipped it all.
LoopCopy ==
  LET n == Smaller(to_read, ring_size) IN
  /\ main_at = "loop" /\ MutexFree /\ ~Interrupted /\ ring_size > 0
  /\ ring_generic_read(n)
  /\ dest' = IF reading = "read" THEN SubSeq(fifo, read_pos + 1, read_pos + n) ELSE dest
  /\ logical_pos' = logical_pos + n
  /\ \/ /\ reading = "read" \/ to_read = n
        /\ Return
        /\ ret' = IF reading = "read" THEN n ELSE logical_pos'
     \/ /\ reading = "skip" /\ to_read > n
        /\ main_at' = "wait" /\ to_read' = to_read - n /\ UNCHANGED reading
        /\ UNCHANGED ret
  /\ bg_at' = BgWoken
  /\ UNCHANGED <<inner_pos, seek, io, logical_size, abort_request, interrupt, fill>>

LoopEnd ==
  /\ main_at = "loop" /\ MutexFree /\ ~Interrupted /\ ring_size <= 0 /\ io_eof_reached
  /\ ret' = Answer(IF io_error # 0 THEN io_error ELSE EOF)
  /\ Return /\ bg_at' = BgWoken
  /\ UNCHANGED <<ring, inner_pos, seek, io, logical_pos, logical_size, abort_request, interrupt,
                 dest, fill>>

LoopWait ==
  /\ main_at = "loop" /\ MutexFree /\ ~Interrupted /\ ring_size <= 0 /\ ~io_eof_reached
  /\ main_at' = "wait" /\ bg_at' = BgWoken
  /\ UNCHANGED <<ring, inner_pos, seek, io, logical_pos, logical_size, abort_request, interrupt,
                 call, fill>>

-----------------------------------------------------------------------------
(* async_seek; which way to go is decided without the mutex. *)

IsShort(target) ==
  /\ target >= logical_pos - read_pos
  /\ target < logical_pos + ring_size + Short

SeekForwards(target) ==
  /\ main_at = "idle" /\ target > logical_pos /\ IsShort(target)
  /\ main_at' = "loop" /\ reading' = "skip" /\ to_read' = target - logical_pos
  /\ dest' = <<>> /\ ret' = 0
  /\ UNCHANGED <<ring, inner_pos, seek, io, logical_pos, logical_size, abort_request, interrupt,
                 bg_at, fill>>

SeekBackwards(target) ==
  /\ main_at = "idle" /\ target < logical_pos /\ IsShort(target)
  /\ read_pos' = read_pos + (target - logical_pos)     \* ring_drain
  /\ logical_pos' = target
  /\ ret' = target
  /\ UNCHANGED <<fifo, inner_pos, seek, io, logical_size, abort_request, interrupt, main_at,
                 reading, to_read, dest, bg_at, fill>>

\* Nothing to do, or a place that cannot be reached.
SeekRefused(target) ==
  /\ main_at = "idle"
  /\ \/ target = logical_pos /\ ret' = logical_pos
     \/ /\ target # logical_pos /\ ~IsShort(target)
        /\ logical_size <= 0 \/ target > logical_size
        /\ ret' = EINVAL
  /\ UNCHANGED <<ring, inner_pos, seek, io, logical_pos, logical_size, abort_request, interrupt,
                 main_at, reading, to_read, dest, bg_at, fill>>

SeekFar(target) ==
  /\ main_at = "idle" /\ target # logical_pos /\ ~IsShort(target)
  /\ logical_size > 0 /\ target <= logical_size
  /\ main_at' = "ask" /\ to_read' = target
  /\ UNCHANGED <<ring, inner_pos, seek, io, logical_pos, logical_size, abort_request, interrupt,
                 reading, dest, ret, bg_at, fill>>

\* The request is put down and, in the same critical section, waited for.
SeekAsk ==
  /\ main_at = "ask" /\ MutexFree
  /\ seek_request' = TRUE /\ seek_pos' = to_read /\ seek_completed' = FALSE /\ seek_ret' = 0
  /\ \/ /\ Interrupted
        /\ abort_request' = TRUE /\ ret' = EXIT
        /\ Return /\ UNCHANGED bg_at
     \/ /\ ~Interrupted
        /\ main_at' = "seekwait" /\ to_read' = 0 /\ bg_at' = BgWoken
        /\ UNCHANGED <<abort_request, ret, reading>>
  /\ UNCHANGED <<ring, inner_pos, io, logical_pos, logical_size, interrupt, dest, fill>>

SeekLook ==
  /\ main_at = "seeking" /\ MutexFree
  /\ \/ /\ Interrupted
        /\ abort_request' = TRUE /\ ret' = EXIT
        /\ main_at' = "idle" /\ UNCHANGED <<logical_pos, bg_at>>
     \/ /\ ~Interrupted /\ seek_completed
        /\ logical_pos' = IF seek_ret >= 0 THEN seek_ret ELSE logical_pos
        /\ ret' = seek_ret
        /\ main_at' = "idle" /\ UNCHANGED <<abort_request, bg_at>>
     \/ /\ ~Interrupted /\ ~seek_completed
        /\ main_at' = "seekwait" /\ bg_at' = BgWoken
        /\ UNCHANGED <<abort_request, ret, logical_pos>>
  /\ UNCHANGED <<ring, inner_pos, seek, io, logical_size, interrupt, reading, to_read, dest, fill>>

-----------------------------------------------------------------------------
(* async_close, and the player that is told to stop. *)

CloseStart ==
  /\ main_at = "idle" /\ MutexFree
  /\ abort_request' = TRUE
  /\ main_at' = "join" /\ bg_at' = BgWoken
  /\ UNCHANGED <<ring, inner_pos, seek, io, logical_pos, logical_size, interrupt, call, fill>>

CloseJoin ==
  /\ main_at = "join" /\ bg_at = "ended"
  /\ main_at' = "closed"
  /\ UNCHANGED <<ring, inner_pos, seek, io, logical_pos, logical_size, abort_request, interrupt,
                 call, bg_at, fill>>

Interrupt ==
  /\ ~interrupt /\ main_at # "closed"
  /\ interrupt' = TRUE
  /\ UNCHANGED <<ring, inner_pos, seek, io, logical_pos, logical_size, abort_request, main_at, call,
                 bg_at, fill>>

Loop == LoopExit \/ LoopCopy \/ LoopEnd \/ LoopWait \/ SeekAsk \/ SeekLook \/ CloseJoin

Call ==
  \/ \E n \in 1 .. MaxRead : StartRead(n)
  \/ \E t \in 0 .. Size + 1 :
       SeekForwards(t) \/ SeekBackwards(t) \/ SeekRefused(t) \/ SeekFar(t)
  \/ CloseStart

Next == Bg \/ BgSeekEnd \/ FillAnswered \/ Loop \/ Call \/ Interrupt

\* The threads run; the inner protocol need not answer, but lets go once it is interrupted.
Fairness ==
  /\ WF_vars(Bg) /\ WF_vars(Loop)
  /\ WF_vars(Interrupted /\ (BgSeekEnd \/ FillAnswered))

Spec == Init /\ [][Next]_vars /\ Fairness

-----------------------------------------------------------------------------
(* Properties. *)

\* Where the reader will stand when the call it is in has returned from the background's seek.
At == IF main_at \in {"seekwait", "seeking"} /\ seek_completed /\ seek_ret >= 0
      THEN seek_ret ELSE logical_pos

\* The ring holds the bytes around the position the reader believes to be at, whatever fills,
\* skips, steps back and seeks, failed ones included, came before (ijkasync.c:250, :407, :487).
RingHonest == ~abort_request => \A i \in 1 .. Len(fifo) : fifo[i] = At - read_pos + i - 1

\* The two threads never both sleep waiting for the other (ijkasync.c:262, :426, :521).
NobodyStuck == main_at \in {"wait", "seekwait"} => bg_at \notin {"wait", "ended"}

\* A reader of the protocol sees a plain seekable stream: right bytes, answers that agree with
\* its position, and an end of file only at the end (ijkasync.c:388, :445).
Stream == INSTANCE ByteStream WITH pos <- logical_pos, cut <- FALSE, Eof <- EOF
ImplementsStream == Stream!Spec

\* A call ends once the player is told to stop even if the network never answers again, and
\* ends by itself if the network does (ijkasync.c:375, :398, :509).
Returned == main_at \in {"idle", "closed"}
CallsEnd ==
  /\ interrupt ~> Returned
  /\ WF_vars(BgSeekEnd \/ FillAnswered) => (~Returned ~> Returned)
=============================================================================
