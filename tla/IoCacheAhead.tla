---------------------------- MODULE IoCacheAhead ----------------------------
(***************************************************************************)
(* The "ijkio:cache:" protocol with read ahead: a task in the manager's    *)
(* thread pool fetches the stream into the cache file, until it is further *)
(* than cache_file_forwards_capacity before the reader, and the reader     *)
(* takes what it asks for from the file.  file_mutex is held from one wait *)
(* to the next; the task looks at the shared fields without it.  A thread  *)
(* that waits for a condition is asleep until a signal wakes it.           *)
(*                                                                         *)
(* The other openings of the manager, for which it pauses this one, are    *)
(* not followed.                                                           *)
(***************************************************************************)
EXTENDS IoCache

CONSTANTS Forwards,  \* the values of cache_file_forwards_capacity, 0 for no read ahead
          Faults     \* what the code does not get right, if it happens: "seek", "close" or
                     \* "recreate" (TaskFails, ReadInner and TaskGivesUp, MadeAnew)

ASSUME ForwardsAssumption == Forwards \subseteq Nat /\ (OnlyReadFile => Forwards = {0})
ASSUME FaultsAssumption   == Faults \subseteq {"seek", "close", "recreate"}

VARIABLES forwards,
          task,             \* where the task is, "none" if it is not running
          task_buf,         \* what it asks the network for, then what it got
          file_logical_pos, file_inner_pos,
          io_eof_reached, io_error,
          broken,           \* history: is that end that of a failure which is not told?
          seek_request,     \* seek_pos while there is a request; seek_completed if there is none
          abort_request,
          interrupted,      \* does the player's interrupt callback answer 1?
          caller_pos        \* history: where the demuxer is after the last answer

taskPos   == <<file_logical_pos, file_inner_pos>>
taskEnd   == <<io_eof_reached, io_error, broken>>
ahead     == <<forwards, task, task_buf, taskPos, taskEnd, seek_request, abort_request, interrupted,
               caller_pos>>
allVars   == <<vars, ahead>>

NoSeek == -1

AheadInit ==
  /\ Init
  /\ forwards = 0 /\ task = "none" /\ task_buf = <<>>
  /\ file_logical_pos = 0 /\ file_inner_pos = 0
  /\ io_eof_reached = FALSE /\ io_error = FALSE /\ broken = FALSE
  /\ seek_request = NoSeek /\ caller_pos = 0
  /\ abort_request = FALSE /\ interrupted = FALSE

\* priv_data is made anew for each opening.
Zeroed ==
  /\ task_buf' = <<>> /\ file_logical_pos' = 0 /\ file_inner_pos' = 0
  /\ io_eof_reached' = FALSE /\ io_error' = FALSE /\ broken' = FALSE
  /\ seek_request' = NoSeek /\ caller_pos' = 0
  /\ abort_request' = FALSE /\ interrupted' = FALSE

Ahead == forwards > 0 /\ ~cache_file_close

\* pthread_cond_signal of cond_wakeup_file_background and of cond_wakeup_main
WakeTask == task' = IF task = "asleep" THEN "top" ELSE task
Woken    == CASE at = "read_waits" -> "reads" [] at = "seek_waits" -> "seeks" [] OTHER -> at

-----------------------------------------------------------------------------
(* Opening and closing, pausing and resuming.                              *)

AheadOpenFile ==
  /\ OpenFile
  /\ forwards' \in Forwards /\ task' = "none"
  /\ Zeroed

\* ijk_threadpool_add: the task waits for one of the pool's threads, or the opening fails.
AheadOpenInner ==
  /\ OpenInner
  /\ task' = IF at' = "open" /\ Ahead THEN "queued" ELSE "none"
  /\ UNCHANGED <<forwards, task_buf, taskPos, taskEnd, seek_request, abort_request, interrupted,
                 caller_pos>>

NotQueued ==
  /\ at = "opening" /\ Ahead
  /\ at' = "closed" /\ async_open' = FALSE
  /\ UNCHANGED <<stored, cache, handle, shared, cache_file_close, read_logical_pos, inner, reading,
                 answer, ahead>>

\* The task is told to end, and waited for: by a close, and by the manager's pause.  What
\* the interrupt callback answers does not matter any more.
StopTask(next) ==
  /\ at = "open" /\ forwards > 0
  /\ abort_request' = TRUE /\ at' = next
  /\ WakeTask /\ NoAnswer
  /\ interrupted' = FALSE
  /\ UNCHANGED <<stored, cache, handle, shared, opening, read_logical_pos, inner, reading,
                 forwards, task_buf, taskPos, taskEnd, seek_request, caller_pos>>

BeginClose == StopTask("closing")
Pause      == ~interrupted /\ StopTask("pausing")

\* What is paused has no task any more.
ClosePaused ==
  /\ at = "paused" /\ at' = "closing"
  /\ UNCHANGED <<stored, cache, handle, shared, opening, read_logical_pos, inner, reading,
                 answer, ahead>>

EndClose ==
  /\ at = "closing" /\ task = "none"
  /\ Closed /\ forwards' = 0 /\ Zeroed
  /\ UNCHANGED <<stored, cache, handle, shared, task>>

EndPause ==
  /\ at = "pausing" /\ task = "none" /\ at' = "paused"
  /\ UNCHANGED <<stored, cache, handle, shared, opening, read_logical_pos, inner, reading,
                 answer, ahead>>

\* The descriptor is put where the next byte is appended.  An inner protocol that does not
\* resume fails the call that wanted to read, and so does the pool.
Resume ==
  /\ at = "paused" /\ ~interrupted
  /\ IF cache_file_close THEN UNCHANGED <<fd_pos, cache_physical_pos>>
     ELSE fd_pos' = last_physical_pos /\ cache_physical_pos' = last_physical_pos
  /\ \/ /\ at' = "open" /\ NoAnswer
        /\ abort_request' = FALSE /\ task' = IF cache_file_close THEN "none" ELSE "queued"
     \/ Fails /\ abort_request' \in BOOLEAN /\ UNCHANGED <<at, task>>
  /\ UNCHANGED <<stored, cache, fd, shared, opening, read_logical_pos, inner, reading,
                 forwards, task_buf, taskPos, taskEnd, seek_request, interrupted, caller_pos>>

\* The player's interrupt callback answers 1 from now on, and the next check of it, by
\* whichever thread, sets abort_request.  Nobody is woken.
Interrupt ==
  /\ at \in {"open", "reads", "read_waits", "seeks", "seek_waits"} /\ Ahead /\ ~interrupted
  /\ abort_request' = TRUE /\ interrupted' = TRUE
  /\ NoAnswer
  /\ UNCHANGED <<stored, cache, handle, shared, at, opening, read_logical_pos, inner, reading,
                 forwards, task, task_buf, taskPos, taskEnd, seek_request, caller_pos>>

-----------------------------------------------------------------------------
(* The reader: ijkio_cache_read and ijkio_cache_seek.                      *)

ReaderOnly == UNCHANGED <<stored, cache, fd, shared, opening, forwards, task_buf, taskPos, taskEnd,
                          interrupted>>

\* What is begun after an interrupt fails at once, and is left out.
BeginRead(n) ==
  /\ at = "open" /\ Ahead /\ ~interrupted
  /\ at' = "reads" /\ to_copy' = n /\ buf' = <<>> /\ NoAnswer
  /\ UNCHANGED <<fd_pos, cache_physical_pos, read_logical_pos, inner, task, seek_request,
                 abort_request, caller_pos>>
  /\ ReaderOnly

\* A read that ends wakes the task if it was not all read, or if there is room before the reader.
Returns(data, early) ==
  /\ at' = "open" /\ to_copy' = 0 /\ buf' = <<>>
  /\ CASE data # <<>>                          -> Answer(data)
       [] data = <<>> /\ io_error              -> Fails
       [] data = <<>> /\ ~io_error /\ early    -> EndsEarly
       [] data = <<>> /\ ~io_error /\ ~early   -> Answer(data)
  /\ caller_pos' = read_logical_pos'

ReadInterrupted ==
  /\ at = "reads" /\ abort_request
  /\ at' = "open" /\ to_copy' = 0 /\ buf' = <<>> /\ Fails
  /\ WakeTask
  /\ UNCHANGED <<fd_pos, cache_physical_pos, read_logical_pos, inner, seek_request,
                 abort_request, caller_pos>>
  /\ ReaderOnly

\* What the file has of the stream from the reader on, "to_copy" bytes at most.
FromFile(e) ==
  LET inBlock == read_logical_pos - e.logical
      target  == e.physical + inBlock
      from    == IF cache_physical_pos = target THEN fd_pos ELSE target
  IN  SubSeq(disk, from + 1, from + Smaller(to_copy, e.size - inBlock))

\* cache_physical_pos is left as it was.
ReadFile ==
  /\ at = "reads" /\ ~abort_request /\ ~cache_file_close
  /\ \E e \in Cached(read_logical_pos) :
       LET data == FromFile(e)
       IN  /\ data # <<>>
           /\ fd_pos' = e.physical + read_logical_pos - e.logical + Len(data)
           /\ read_logical_pos' = read_logical_pos + Len(data)
           /\ IF Len(data) = to_copy
              THEN /\ Returns(buf \o data, broken)
                   /\ IF io_eof_reached \/ file_logical_pos - read_logical_pos' > forwards
                      THEN UNCHANGED task ELSE WakeTask
              ELSE /\ buf' = buf \o data /\ to_copy' = to_copy - Len(data)
                   /\ at' = "read_waits" /\ WakeTask
                   /\ UNCHANGED <<answer, caller_pos>>
  /\ UNCHANGED <<cache_physical_pos, inner, seek_request, abort_request>>
  /\ ReaderOnly

\* The file gives nothing: what there was so far, or the end, or a wait.
NothingRead(early) ==
  /\ WakeTask
  /\ UNCHANGED <<read_logical_pos, inner, seek_request, abort_request>>
  /\ IF io_eof_reached THEN Returns(buf, early)
     ELSE at' = "read_waits" /\ UNCHANGED <<answer, reading, caller_pos>>

ReadNothing ==
  /\ at = "reads" /\ ~abort_request /\ ~cache_file_close
  /\ Cached(read_logical_pos) = {}
  /\ NothingRead(broken)
  /\ UNCHANGED <<fd_pos, cache_physical_pos>>
  /\ ReaderOnly

\* After a few failures the file is made anew, and with it goes what the task knows of the
\* inner protocol: ijkio_cache_file_error.
MadeAnew ==
  /\ "recreate" \in Faults /\ ~shared
  /\ disk' = <<>> /\ rewritten' = TRUE /\ tree' = {} /\ last_physical_pos' = 0
  /\ fd_pos' = 0 /\ cache_physical_pos' = 0
  /\ file_inner_pos' = 0 /\ file_logical_pos' = read_logical_pos
  /\ io_eof_reached' = FALSE /\ broken' = FALSE

\* The descriptor cannot be moved, or cannot be read where it is: to the reader the file
\* has nothing.
ReadFileFails ==
  /\ at = "reads" /\ ~abort_request /\ ~cache_file_close
  /\ Cached(read_logical_pos) # {}
  /\ \/ /\ \E e \in Cached(read_logical_pos) :
             fd_pos' \in {fd_pos, e.physical + read_logical_pos - e.logical}
        /\ NothingRead(TRUE)
        /\ UNCHANGED cache_physical_pos
        /\ ReaderOnly
     \/ /\ MadeAnew
        /\ at' = "read_waits" /\ WakeTask
        /\ UNCHANGED <<map_file, fd, shared, opening, read_logical_pos, inner, reading, answer,
                       forwards, task_buf, io_error, seek_request, abort_request, interrupted,
                       caller_pos>>

\* The task gave the file up while this read waited: the network is asked from here on.  If
\* it fails then, the error is added to what had been read.
ReadInner ==
  /\ at = "reads" /\ ~abort_request /\ cache_file_close
  /\ at' = "open" /\ to_copy' = 0 /\ buf' = <<>>
  /\ \/ \E k \in 0 .. Smaller(to_copy, Size - read_logical_pos) :
          /\ k = 0 => read_logical_pos = Size
          /\ Answer(buf \o Piece(read_logical_pos, k))
          /\ inner_pos' = read_logical_pos + k /\ caller_pos' = read_logical_pos + k
     \/ "close" \in Faults /\ InnerFails /\ UNCHANGED <<inner_pos, caller_pos>>
     \/ /\ "close" \in Faults
        /\ dest' = buf /\ ret' = Len(buf) + EIO /\ cut' = FALSE
        /\ inner_pos' = read_logical_pos /\ UNCHANGED caller_pos
  /\ UNCHANGED <<fd_pos, cache_physical_pos, read_logical_pos, read_inner_pos, task, seek_request,
                 abort_request>>
  /\ ReaderOnly

BeginSeek(t) ==
  /\ at = "open" /\ Ahead /\ ~interrupted
  /\ seek_request' = t
  /\ at' = "seeks" /\ NoAnswer
  /\ UNCHANGED <<fd_pos, cache_physical_pos, read_logical_pos, inner, reading, task,
                 abort_request, caller_pos>>
  /\ ReaderOnly

SeekLoop ==
  /\ at = "seeks"
  /\ IF abort_request THEN Fails /\ at' = "open" /\ UNCHANGED <<task, caller_pos>>
     ELSE /\ cut' = FALSE /\ UNCHANGED dest
          /\ IF seek_request = NoSeek
             THEN /\ at' = "open" /\ UNCHANGED task
                  /\ ret' = read_logical_pos /\ caller_pos' = read_logical_pos
             ELSE WakeTask /\ at' = "seek_waits" /\ UNCHANGED <<ret, caller_pos>>
  /\ UNCHANGED <<fd_pos, cache_physical_pos, read_logical_pos, inner, reading, seek_request,
                 abort_request>>
  /\ ReaderOnly

Reader ==
  \/ \E n \in 1 .. MaxRead : BeginRead(n)
  \/ \E t \in SeekTo : BeginSeek(t)
  \/ ReadInterrupted \/ ReadFile \/ ReadNothing \/ ReadFileFails \/ ReadInner \/ SeekLoop

-----------------------------------------------------------------------------
(* The task: ijkio_cache_task and ijkio_cache_write_file.                  *)

\* What a call of the reader answered before has been taken.
TaskOnly ==
  /\ NoAnswer
  /\ UNCHANGED <<map_file, fd, shared, read_inner_pos, reading, forwards, interrupted, caller_pos>>
LooksOnly == UNCHANGED <<disk, rewritten, cache, fd_pos, cache_physical_pos, opening,
                         read_logical_pos, inner_pos>>

TaskStarts ==
  /\ task = "queued" /\ task' = "top"
  /\ UNCHANGED <<at, task_buf, taskPos, taskEnd, seek_request, abort_request>>
  /\ TaskOnly /\ LooksOnly

TaskTop ==
  /\ task = "top"
  /\ IF ~cache_file_close /\ abort_request
     THEN io_eof_reached' = TRUE /\ io_error' = TRUE /\ broken' = FALSE
     ELSE UNCHANGED taskEnd
  /\ task' = IF cache_file_close \/ abort_request THEN "ending"
             ELSE IF seek_request # NoSeek THEN "seeks" ELSE "ahead"
  /\ UNCHANGED <<at, task_buf, taskPos, seek_request, abort_request>>
  /\ TaskOnly /\ LooksOnly

\* A mutant for ImplementsStream: what was read before stays the end of the stream.
MutAfresh == UNCHANGED taskEnd

Afresh == io_eof_reached' = FALSE /\ io_error' = FALSE /\ broken' = FALSE

TaskSeeks ==
  /\ task = "seeks" /\ task' = "ahead"
  /\ Afresh
  /\ read_logical_pos' = seek_request /\ file_logical_pos' = seek_request
  /\ seek_request' = NoSeek
  /\ at' = Woken
  /\ UNCHANGED <<disk, rewritten, cache, fd_pos, cache_physical_pos, opening, inner_pos, task_buf,
                 file_inner_pos, abort_request>>
  /\ TaskOnly

FarAhead == file_logical_pos - read_logical_pos > forwards

TaskAhead ==
  /\ task = "ahead" /\ task' = IF FarAhead \/ io_eof_reached THEN "sleeps" ELSE "finds"
  /\ UNCHANGED <<at, task_buf, taskPos, taskEnd, seek_request, abort_request>>
  /\ TaskOnly /\ LooksOnly

TaskSleeps ==
  /\ task = "sleeps" /\ task' = "asleep" /\ at' = Woken
  /\ UNCHANGED <<task_buf, taskPos, taskEnd, seek_request, abort_request>>
  /\ TaskOnly /\ LooksOnly

\* What the file has is skipped, one entry a time; what it has next is not fetched again.
TaskFinds ==
  LET past == {e.logical + e.size : e \in Cached(file_logical_pos)}
      next == IF past = {} THEN file_logical_pos ELSE CHOOSE p \in past : TRUE
      room == {0} \cup {k \in 1 .. MaxRead : \A p \in After(file_logical_pos) : k <= p - next}
      most == CHOOSE k \in room : \A j \in room : j <= k
  IN  /\ task = "finds"
      /\ file_logical_pos' = next
      /\ task' = IF most = 0 \/ next >= Size THEN "top" ELSE "fetches"
      /\ io_eof_reached' = (io_eof_reached \/ (most > 0 /\ next >= Size))
      /\ task_buf' = IF task' = "fetches" THEN Piece(next, most) ELSE <<>>
      /\ UNCHANGED <<at, file_inner_pos, io_error, broken, seek_request, abort_request>>
      /\ TaskOnly /\ LooksOnly

\* A mutant for EntriesHonest: the inner protocol is read where it happens to be.
MutSeeks == inner_pos

\* It is only sought if the task does not take it to be there already.
Seeks == IF file_logical_pos = file_inner_pos THEN inner_pos ELSE file_logical_pos

TaskFetches ==
  /\ task = "fetches" /\ task' = "stores"
  /\ \E k \in 1 .. Smaller(Len(task_buf), Size - Seeks) :
       /\ task_buf' = Piece(Seeks, k)
       /\ inner_pos' = Seeks + k /\ file_inner_pos' = file_logical_pos + k
  /\ async_open' = FALSE
  /\ UNCHANGED <<at, disk, rewritten, cache, fd_pos, cache_physical_pos, cache_file_close,
                 read_logical_pos, file_logical_pos, taskEnd, seek_request, abort_request>>
  /\ TaskOnly

\* The network cannot be opened, sought in or read.  The end is told first and the error
\* after it, or not at all: of a failed seek there is none, and that of a read may be an end
\* of file.  A failed seek to the beginning is taken for made: a fault.
TaskFails ==
  /\ task = "fetches" /\ task' \in {"fails", "top"} /\ task_buf' = <<>>
  /\ io_eof_reached' = TRUE /\ broken' = TRUE
  /\ \/ UNCHANGED <<async_open, inner_pos, file_inner_pos>>
     \/ /\ async_open' = FALSE
        /\ inner_pos' = file_logical_pos /\ file_inner_pos' = file_logical_pos
     \/ /\ "seek" \in Faults /\ file_logical_pos = 0 /\ file_inner_pos' = 0
        /\ async_open' = FALSE /\ UNCHANGED inner_pos
  /\ UNCHANGED <<at, disk, rewritten, cache, fd_pos, cache_physical_pos, cache_file_close,
                 read_logical_pos, file_logical_pos, io_error, seek_request, abort_request>>
  /\ TaskOnly

TaskTells ==
  /\ task = "fails" /\ task' = "top"
  /\ io_error' = TRUE /\ broken' = FALSE
  /\ UNCHANGED <<at, task_buf, taskPos, io_eof_reached, seek_request, abort_request>>
  /\ TaskOnly /\ LooksOnly

-----------------------------------------------------------------------------
(* Storing: add_entry, with file_mutex held.                               *)

Filled == last_physical_pos + Len(task_buf) >= Capacity

\* What was fetched goes to the end of the file; less than all of it may.
TaskStores ==
  /\ task = "stores" /\ ~Filled
  /\ task' = "signals" /\ task_buf' = <<>>
  /\ \E n \in 1 .. Len(task_buf) :
       /\ disk' = Overwrite(last_physical_pos, SubSeq(task_buf, 1, n))
       /\ fd_pos' = last_physical_pos + n /\ cache_physical_pos' = last_physical_pos + n
       /\ last_physical_pos' = last_physical_pos + n
       /\ tree' = Longer(tree, file_logical_pos, last_physical_pos, n)
       /\ file_logical_pos' = file_logical_pos + n
  /\ UNCHANGED <<at, rewritten, opening, read_logical_pos, inner_pos, file_inner_pos, taskEnd,
                 seek_request, abort_request>>
  /\ TaskOnly

\* A full file is begun again, from where the reader is, without what was fetched.
TaskBeginsAgain ==
  /\ task = "stores" /\ Filled /\ ~shared
  /\ task' = "top" /\ task_buf' = <<>>
  /\ tree' = {} /\ last_physical_pos' = 0 /\ cache_physical_pos' = 0 /\ fd_pos' = 0
  /\ rewritten' = TRUE
  /\ io_eof_reached' = FALSE /\ broken' = FALSE /\ file_logical_pos' = read_logical_pos
  /\ UNCHANGED <<at, disk, opening, read_logical_pos, inner_pos, file_inner_pos, io_error,
                 seek_request, abort_request>>
  /\ TaskOnly

\* While it is shared it is given up.  Without "close" that only happens under a read, which
\* then goes on to the network: a limit of the model.
TaskGivesUp ==
  /\ task = "stores" /\ Filled /\ shared
  /\ at \in {"reads", "read_waits"} \/ "close" \in Faults
  /\ task' = "ending" /\ task_buf' = <<>>
  /\ cache_file_close' = TRUE
  /\ fd_pos' = last_physical_pos /\ cache_physical_pos' = last_physical_pos
  /\ UNCHANGED <<at, disk, rewritten, cache, async_open, read_logical_pos, inner_pos,
                 taskPos, taskEnd, seek_request, abort_request>>
  /\ TaskOnly

\* A write that fails stores nothing and is made up for by the next fetch.
TaskCannotStore ==
  /\ task = "stores" /\ ~Filled
  /\ task' = "top" /\ task_buf' = <<>>
  /\ \/ /\ fd_pos' = last_physical_pos /\ cache_physical_pos' = last_physical_pos
        /\ UNCHANGED <<disk, rewritten, cache, taskPos, io_eof_reached, broken>>
     \/ MadeAnew
  /\ UNCHANGED <<at, opening, read_logical_pos, inner_pos, io_error, seek_request, abort_request>>
  /\ TaskOnly

TaskSignals ==
  /\ task = "signals" /\ task' = "top" /\ at' = Woken
  /\ UNCHANGED <<task_buf, taskPos, taskEnd, seek_request, abort_request>>
  /\ TaskOnly /\ LooksOnly

TaskEnds ==
  /\ task = "ending" /\ task' = "none" /\ at' = Woken
  /\ UNCHANGED <<task_buf, taskPos, taskEnd, seek_request, abort_request>>
  /\ TaskOnly /\ LooksOnly

Task ==
  \/ TaskStarts \/ TaskTop \/ TaskSeeks \/ TaskAhead \/ TaskSleeps \/ TaskFinds
  \/ TaskFetches \/ TaskFails \/ TaskTells
  \/ TaskStores \/ TaskBeginsAgain \/ TaskGivesUp \/ TaskCannotStore \/ TaskSignals \/ TaskEnds

-----------------------------------------------------------------------------
(* The calls of IoCache that stay what they are.                           *)

InTurn ==
  /\ forwards = 0 \/ cache_file_close
  /\ ~interrupted
  /\ Read \/ FetchOpens \/ Fetch \/ StoreNothing \/ StoreRefused \/ Store
     \/ \E t \in SeekTo : Seek(t)
  /\ caller_pos' = IF cache_file_close THEN inner_pos' ELSE read_logical_pos'
  /\ UNCHANGED <<forwards, task, task_buf, taskPos, taskEnd, seek_request, abort_request,
                 interrupted>>

CloseInTurn == forwards = 0 /\ Close /\ Zeroed /\ UNCHANGED <<forwards, task>>

Elsewhere == (Destroy \/ Share \/ DidShare \/ FileLost) /\ UNCHANGED ahead

KilledAhead == Killed /\ task' = "none" /\ forwards' = 0 /\ Zeroed

AheadNext ==
  \/ AheadOpenFile \/ AheadOpenInner \/ NotQueued
  \/ BeginClose \/ EndClose \/ Pause \/ EndPause \/ ClosePaused \/ Resume \/ Interrupt
  \/ Reader \/ Task
  \/ InTurn \/ CloseInTurn \/ Elsewhere \/ KilledAhead

AheadSpec == AheadInit /\ [][AheadNext]_allVars

-----------------------------------------------------------------------------
(* Properties                                                              *)

\* To the demuxer the cache is a plain seekable stream, whether a task fetches ahead of it or
\* not: every read gives the bytes that follow and every seek goes where it says, through
\* hits and misses, entries that do not touch, short and failed writes, a file begun again
\* under the reader, pauses, and a network that fails.  An end that is none is only told
\* where the inner protocol has just failed, for the task since the last seek, or the file
\* could not be read (ijkiocache.c:494, :884, :995, :1008).
Stream == INSTANCE ByteStream WITH
            pos    <- caller_pos,
            Eof    <- EOF,
            Errors <- {EIO}
ImplementsStream == Stream!Spec

\* Without such an end from what was read ahead, which a task that fails and a file that
\* cannot be read falsify (ijkiocache.c:440, :463, :754, :1008).
EndsHonest == [][at = "reads" /\ ret' = EOF => caller_pos' = Size]_allVars
=============================================================================
