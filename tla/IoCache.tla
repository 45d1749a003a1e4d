------------------------------ MODULE IoCache ------------------------------
(***************************************************************************)
(* The "ijkio:cache:" protocol (ijkavformat/ijkiocache.c) without read     *)
(* ahead, which IoCacheAhead adds: what is read from the network is        *)
(* appended to a cache file, and a tree of entries says which part of the  *)
(* file is which part of the stream.  The manager (ijkiomanager.c) keeps   *)
(* the tree from one opening to the next, and in a map file from one       *)
(* player to the next; the cache file outlives both.                       *)
(*                                                                         *)
(* A byte is its position in the stream, so the cache file can be compared *)
(* with what the entries say of it.  One thread reads; one stream is open  *)
(* at a time.                                                              *)
(***************************************************************************)
EXTENDS Integers, Sequences

CONSTANTS Size,          \* bytes behind the inner protocol
          Capacity,      \* cache_max_capacity
          MaxRead,       \* bound: the largest buffer the demuxer reads into
          OnlyReadFile,  \* the option only_read_file
          SeekTo,        \* bound: where the demuxer seeks to
          StaleMaps      \* may a map be read when the file was begun again since it was saved?

ASSUME SizesAssumption ==
  /\ Size \in Nat /\ Capacity \in Nat \ {0} /\ MaxRead \in 1 .. Capacity
  /\ SeekTo \subseteq 0 .. Size
  /\ OnlyReadFile \in BOOLEAN /\ StaleMaps \in BOOLEAN

VARIABLES disk,                \* the bytes of the cache file
          map_file,            \* the map that is saved
          rewritten,           \* history: was the file made anew since then, by right?
          tree,                \* the entries, NULL if the manager has none for the stream
          last_physical_pos,   \* where the next byte is appended
          fd,                  \* is the cache file open?
          fd_pos,              \* the file offset of the descriptor
          shared,
          at,                  \* where the reader is
          cache_file_close,    \* does the stream go without the cache file?
          async_open,          \* is the inner protocol still to be opened?
          cache_physical_pos, read_logical_pos, read_inner_pos,
          inner_pos,           \* the position of the inner protocol
          to_copy, buf,        \* what the read under way asks for and has got
          dest, ret,           \* the bytes and the answer of the last call
          cut                  \* history: was it an end of file that need not be one?

cache   == <<tree, last_physical_pos>>
stored  == <<disk, map_file, rewritten>>
handle  == <<fd, fd_pos, cache_physical_pos>>
opening == <<cache_file_close, async_open>>
inner   == <<read_inner_pos, inner_pos>>
reading == <<to_copy, buf>>
answer  == <<dest, ret, cut>>
vars == <<stored, cache, handle, shared, at, opening, read_logical_pos, inner, reading,
          answer>>

EOF    == -1
EIO    == -2
NULL   == {[logical |-> -1, physical |-> -1, size |-> 0]}
NoMap  == [tree |-> NULL, last |-> 0]

Smaller(a, b) == IF a < b THEN a ELSE b
Piece(first, n) == [i \in 1 .. n |-> first + i - 1]

Init ==
  /\ disk = <<>> /\ map_file = NoMap /\ rewritten = FALSE
  /\ tree = NULL /\ last_physical_pos = 0
  /\ fd = FALSE /\ fd_pos = 0 /\ cache_physical_pos = 0 /\ shared = FALSE
  /\ at = "closed" /\ cache_file_close = FALSE /\ async_open = FALSE
  /\ read_logical_pos = 0 /\ read_inner_pos = 0 /\ inner_pos = 0
  /\ to_copy = 0 /\ buf = <<>> /\ dest = <<>> /\ ret = 0 /\ cut = FALSE

\* An answer is kept until something else happens.  To FFmpeg a read of no bytes is the end of
\* the file.
Answer(data) ==
  dest' = data /\ ret' = (IF data = <<>> THEN EOF ELSE Len(data)) /\ cut' = FALSE
Fails        == dest' = <<>> /\ ret' = EIO /\ cut' = FALSE
NoAnswer     == dest' = <<>> /\ ret' = 0 /\ cut' = FALSE

\* An end of file wherever the reader is.
EndsEarly    == dest' = <<>> /\ ret' = EOF /\ cut' = TRUE

\* What the inner protocol fails with is handed on, and may be an end of file.
InnerFails   == Fails \/ EndsEarly

-----------------------------------------------------------------------------
(* Opening: ijkio_manager_io_open and ijkio_cache_open.                    *)

\* A manager without a map reads the map file.
Parsed == IF tree = NULL THEN map_file ELSE [tree |-> tree, last |-> last_physical_pos]

\* The cache file is there for what the map says, or made empty if it says nothing.  A map
\* that speaks of more than the file holds is thrown away.
OpenFile ==
  LET kept == Parsed.tree # NULL /\ Len(disk) >= Parsed.last
  IN  /\ at = "closed" /\ at' = "opening"
      \* Without StaleMaps nobody reads a map older than the file: a limit of the model.
      /\ StaleMaps \/ ~rewritten \/ tree # NULL \/ map_file = NoMap
      /\ \/ fd /\ UNCHANGED <<fd, disk, cache, rewritten, cache_file_close>>
         \/ /\ ~fd /\ fd' = TRUE
            /\ disk' = IF Parsed.tree = NULL THEN <<>> ELSE disk
            /\ tree' = IF kept THEN Parsed.tree ELSE {}
            /\ last_physical_pos' = IF kept THEN Parsed.last ELSE 0
            /\ rewritten' = (rewritten \/ ~kept)
            /\ UNCHANGED cache_file_close
         \/ /\ ~fd /\ UNCHANGED fd
            /\ tree' = NULL /\ last_physical_pos' = 0
            /\ cache_file_close' = TRUE
            /\ UNCHANGED <<disk, rewritten>>
      /\ fd_pos' = last_physical_pos' /\ cache_physical_pos' = last_physical_pos'
      /\ NoAnswer
      /\ UNCHANGED <<map_file, shared, async_open, read_logical_pos, inner, reading>>

\* The network is left alone at first if enough of the stream is in the file.
OpenInner ==
  /\ at = "opening"
  /\ \/ /\ fd /\ tree # {} /\ at' = "open" /\ async_open' = TRUE
        /\ UNCHANGED cache_file_close
     \/ at' = "open" /\ UNCHANGED opening
     \/ at' = "closed" /\ cache_file_close' = FALSE
        /\ UNCHANGED async_open
  /\ UNCHANGED <<stored, cache, handle, shared, read_logical_pos, inner, reading, answer>>

-----------------------------------------------------------------------------
(* Reading: ijkio_cache_sync_read.                                         *)

\* The entry found for a position is the last one that does not begin after it.
LastBefore(entries, p) ==
  LET begun == {e \in entries : e.logical <= p}
  IN  {e \in begun : \A f \in begun : f.logical <= e.logical}

Entries   == IF tree = NULL THEN {} ELSE tree
After(p)  == {e.logical : e \in {f \in Entries : f.logical > p}}
Cached(p) == {e \in LastBefore(Entries, p) : p < e.logical + e.size}

\* The descriptor is moved only when it is not known to be there already.
ReadHit(n) ==
  /\ at = "open" /\ ~cache_file_close
  /\ \E e \in Cached(read_logical_pos) :
       LET inBlock == read_logical_pos - e.logical
           target  == e.physical + inBlock
           from    == IF cache_physical_pos = target THEN fd_pos ELSE target
           data    == SubSeq(disk, from + 1, from + Smaller(n, e.size - inBlock))
       IN  /\ Answer(data)
           /\ fd_pos' = from + Len(data)
           /\ cache_physical_pos' = target + Len(data)
           /\ read_logical_pos' = read_logical_pos + Len(data)
  /\ UNCHANGED <<stored, cache, fd, shared, at, opening, inner, reading>>

\* A file that cannot be read is made anew.  What the read then asks the network for is
\* bounded by an entry that has been freed: by anything.
ReadBad(n) ==
  /\ at = "open" /\ ~cache_file_close
  /\ Cached(read_logical_pos) # {}
  /\ fd' \in BOOLEAN
  /\ disk' = IF fd' THEN <<>> ELSE disk
  /\ tree' = IF fd' THEN {} ELSE NULL
  /\ last_physical_pos' = 0 /\ cache_physical_pos' = 0 /\ fd_pos' = 0
  /\ rewritten' = TRUE
  /\ at' = "fetch" /\ to_copy' \in 1 .. n /\ NoAnswer
  /\ UNCHANGED <<map_file, shared, opening, read_logical_pos, inner, buf>>

ReadMiss(n) ==
  /\ at = "open" /\ ~cache_file_close
  /\ Cached(read_logical_pos) = {}
  /\ IF read_logical_pos >= Size
     THEN Answer(<<>>) /\ UNCHANGED <<at, to_copy>>
     ELSE /\ at' = "fetch" /\ NoAnswer
          /\ to_copy' = CHOOSE k \in 1 .. n :
               /\ \A p \in After(read_logical_pos) : k <= p - read_logical_pos
               /\ k = n \/ read_logical_pos + k \in After(read_logical_pos)
  /\ UNCHANGED <<stored, cache, handle, shared, opening, read_logical_pos, inner, buf>>

FetchOpens ==
  /\ at = "fetch" /\ async_open
  /\ \/ async_open' = FALSE /\ inner_pos' = 0 /\ UNCHANGED <<at, answer>>
     \/ at' = "open" /\ InnerFails /\ UNCHANGED <<async_open, inner_pos>>
  /\ UNCHANGED <<stored, cache, handle, shared, cache_file_close,
                 read_logical_pos, read_inner_pos, reading>>

Fetch ==
  /\ at = "fetch" /\ ~async_open
  /\ LET from == IF read_inner_pos = read_logical_pos THEN inner_pos ELSE read_logical_pos
     IN  \/ /\ \E k \in 1 .. Smaller(to_copy, Size - from) :
                 /\ buf' = Piece(from, k)
                 /\ inner_pos' = from + k /\ read_inner_pos' = read_logical_pos + k
            /\ at' = "store" /\ UNCHANGED answer
         \/ /\ inner_pos' = from /\ read_inner_pos' = read_logical_pos
            /\ at' = "open" /\ InnerFails /\ UNCHANGED buf
         \/ /\ at' = "open" /\ InnerFails /\ UNCHANGED <<inner, buf>>
  /\ UNCHANGED <<stored, cache, handle, shared, opening, read_logical_pos, to_copy>>

-----------------------------------------------------------------------------
(* Storing: sync_add_entry.                                                *)

\* n bytes of the stream from "first" on, at pos: the entry that ends there is made longer, or
\* there is a new one.
Longer(entries, first, pos, n) ==
  LET extended == {e \in LastBefore(entries, first) :
                     e.logical + e.size = first /\ e.physical + e.size = pos}
  IN  (entries \ extended) \cup
        IF extended = {} THEN {[logical |-> first, physical |-> pos, size |-> n]}
        ELSE {[e EXCEPT !.size = @ + n] : e \in extended}

Overwrite(from, data) ==
  SubSeq(disk, 1, from) \o data \o SubSeq(disk, from + Len(data) + 1, Len(disk))

Storing == fd /\ tree # NULL /\ ~OnlyReadFile
Full    == last_physical_pos + Len(buf) >= Capacity

\* A mutant for MapHonest: a full file is begun again under the readers it is shared with.
MutRefused == FALSE

Refused == Full /\ shared

Sought == IF last_physical_pos # cache_physical_pos THEN last_physical_pos ELSE fd_pos

Handed ==
  /\ at = "store" /\ at' = "open"
  /\ Answer(buf)
  /\ read_logical_pos' = read_logical_pos + Len(buf)
  /\ to_copy' = 0 /\ buf' = <<>>
  /\ UNCHANGED <<map_file, fd, shared, opening, inner>>

StoreNothing ==
  /\ ~Storing
  /\ Handed
  /\ UNCHANGED <<disk, rewritten, cache, fd_pos, cache_physical_pos>>

\* A file that is full is not begun again while it is shared.
StoreRefused ==
  /\ Storing /\ Refused
  /\ Handed
  /\ fd_pos' = Sought /\ cache_physical_pos' = last_physical_pos
  /\ UNCHANGED <<disk, rewritten, cache>>

\* A write that fails writes nothing; one that does not may write less than it should.
Store ==
  /\ Storing /\ ~Refused
  /\ LET pos     == IF Full THEN 0 ELSE last_physical_pos
         from    == IF Full THEN 0 ELSE Sought
         entries == IF Full THEN {} ELSE tree
     IN  \E n \in 0 .. Len(buf) :
           /\ disk' = Overwrite(from, SubSeq(buf, 1, n))
           /\ fd_pos' = from + n /\ cache_physical_pos' = pos + n
           /\ last_physical_pos' = pos + n
           /\ tree' = IF n = 0 THEN entries ELSE Longer(entries, read_logical_pos, pos, n)
  /\ rewritten' = (rewritten \/ (Full /\ ~shared))
  /\ Handed

-----------------------------------------------------------------------------
(* Without the cache file the calls go to the inner protocol.              *)

PassRead(n) ==
  /\ at = "open" /\ cache_file_close
  /\ \/ \E k \in 1 .. Smaller(n, Size - inner_pos) :
          Answer(Piece(inner_pos, k)) /\ inner_pos' = inner_pos + k
     \/ inner_pos = Size /\ Answer(<<>>) /\ UNCHANGED inner_pos
     \/ InnerFails /\ UNCHANGED inner_pos
  /\ UNCHANGED <<stored, cache, handle, shared, at, opening, read_logical_pos, read_inner_pos,
                 reading>>

Seek(t) ==
  /\ at = "open"
  /\ IF cache_file_close
     THEN /\ \/ inner_pos' = t /\ ret' = t
             \/ ret' = EIO /\ UNCHANGED inner_pos
          /\ UNCHANGED read_logical_pos
     ELSE read_logical_pos' = t /\ ret' = t /\ UNCHANGED inner_pos
  /\ cut' = FALSE
  /\ UNCHANGED <<stored, cache, handle, shared, at, opening, read_inner_pos, reading, dest>>

-----------------------------------------------------------------------------
(* Closing, the manager, and what happens to the files.                    *)

Closed ==
  /\ at' = "closed"
  /\ cache_file_close' = FALSE /\ async_open' = FALSE
  /\ read_logical_pos' = 0 /\ read_inner_pos' = 0 /\ inner_pos' = 0
  /\ to_copy' = 0 /\ buf' = <<>> /\ ret' = 0 /\ cut' = FALSE
  /\ UNCHANGED dest

Close ==
  /\ at = "open" /\ Closed
  /\ UNCHANGED <<stored, cache, handle, shared>>

Map == IF tree = NULL THEN NoMap ELSE [tree |-> tree, last |-> last_physical_pos]

Forgotten ==
  /\ tree' = NULL /\ last_physical_pos' = 0
  /\ fd' = FALSE /\ fd_pos' = 0 /\ cache_physical_pos' = 0 /\ shared' = FALSE

\* ijkio_manager_destroy with auto_save_map
Destroy ==
  /\ at = "closed"
  /\ map_file' = Map /\ rewritten' = FALSE
  /\ Forgotten
  /\ UNCHANGED <<disk, at, opening, read_logical_pos, inner, reading, answer>>

\* The process is killed; what was written stays.
Killed ==
  /\ Closed /\ Forgotten
  /\ UNCHANGED stored

\* ijkio_manager_will_share_cache_map, from another thread
Share ==
  /\ ~shared /\ shared' = TRUE
  /\ map_file' = Map /\ rewritten' = FALSE
  /\ NoAnswer
  /\ UNCHANGED <<disk, cache, handle, at, opening, read_logical_pos, inner, reading>>

DidShare ==
  /\ shared /\ shared' = FALSE
  /\ NoAnswer
  /\ UNCHANGED <<stored, cache, handle, at, opening, read_logical_pos, inner, reading>>

\* Somebody clears the application's cache.
FileLost ==
  /\ at = "closed" /\ ~fd /\ disk # <<>> /\ disk' = <<>>
  /\ UNCHANGED <<map_file, rewritten, cache, handle, shared, at, opening, read_logical_pos,
                 inner, reading, answer>>

Read == \E n \in 1 .. MaxRead : ReadHit(n) \/ ReadBad(n) \/ ReadMiss(n) \/ PassRead(n)

Next ==
  \/ OpenFile \/ OpenInner \/ Read \/ FetchOpens \/ Fetch
  \/ StoreNothing \/ StoreRefused \/ Store
  \/ \E t \in SeekTo : Seek(t)
  \/ Close \/ Destroy \/ Killed \/ Share \/ DidShare \/ FileLost

Spec == Init /\ [][Next]_vars

-----------------------------------------------------------------------------
(* Properties                                                              *)

Honest(entries) ==
  \A e \in entries : \A i \in 0 .. e.size - 1 :
    e.physical + i < Len(disk) /\ disk[e.physical + i + 1] = e.logical + i

\* The cache file holds what the tree says, whatever reads, seeks, short writes, failed
\* writes and new beginnings of the file came before (ijkiocache.c:788, :809, :880).
EntriesHonest == Honest(Entries)

\* So does a map that was saved, for the player that comes after, as long as the file has
\* not been begun again since (ijkiomanager.c:138, ijkiocache.c:609).
MapHonest ==
  ~rewritten /\ map_file # NoMap /\ Len(disk) >= map_file.last => Honest(map_file.tree)
=============================================================================
