--------------------------- MODULE AsyncIOProofs ----------------------------
(***************************************************************************)
(* What AsyncIO's run shows for a file of three bytes holds for every file *)
(* and ring: the ring never slips against the position of its reader, the  *)
(* two threads never wait for each other, and a reader sees a ByteStream.  *)
(***************************************************************************)
EXTENDS AsyncIO, SequenceTheorems, TLAPS

Bytes == 0 .. Size - 1

\* What the background thread gets from the inner protocol.
Piece(p, n) == [i \in 1 .. n |-> p + i - 1]

LEMMA PieceBytes ==
  ASSUME NEW p \in 0 .. Size, NEW n \in 1 .. Size - p
  PROVE  /\ Piece(p, n) \in Seq(Bytes)
         /\ Len(Piece(p, n)) = n
         /\ \A i \in 1 .. n : Piece(p, n)[i] = p + i - 1
<1>1. p \in Nat /\ n \in Nat /\ Size \in Nat
  BY SizesAssumption
<1>2. \A i \in 1 .. n : p + i - 1 \in Bytes
  BY <1>1 DEF Bytes
<1>3. Piece(p, n) \in [1 .. n -> Bytes]
  BY <1>2 DEF Piece
<1>4. Piece(p, n) \in Seq(Bytes)
  BY <1>1, <1>3, SeqDef
<1>5. Len(Piece(p, n)) = n
  BY <1>1, <1>3, <1>4, LenProperties
<1> QED
  BY <1>4, <1>5 DEF Piece
-----------------------------------------------------------------------------
(* The inductive invariant. *)

Reading == main_at \in {"loop", "wait"}
Seeking == main_at \in {"seekwait", "seeking"}

\* A call that reads has something left to read, and has handed over nothing yet.
ReadFresh ==
  /\ Reading => to_read > 0
  /\ Reading /\ reading = "read" => ret = 0 /\ dest = <<>>
  /\ main_at = "ask" => to_read <= Size

\* A fill only goes on while there is room and the end has not been seen.
FillFits ==
  /\ bg_at = "fill" => to_copy > 0 /\ to_copy <= ring_space
  /\ bg_at \in {"fill", "filled"} => ~io_eof_reached
  /\ bg_at = "filled" /\ ~wrote /\ inner_io_error \in {0, EOF} => inner_pos = Size

\* The end of the input without an error is the end of the file.
Ended == io_eof_reached /\ io_error \notin {0, EOF}
EndHonest ==
  /\ ~io_eof_reached => io_error = 0
  /\ io_eof_reached /\ ~Ended => inner_pos = Size

\* The background thread only seeks for a reader that waits for it, and only ends when told to.
SeekOwned ==
  /\ ~abort_request /\ (seek_request \/ bg_at = "seek") => Seeking /\ ~seek_completed
  /\ bg_at = "ended" => abort_request

\* The ring ends where the inner protocol goes on.
RingJoins == ~abort_request /\ ~Ended => At + ring_size = inner_pos

IInv == /\ TypeOK /\ ReadFresh /\ FillFits /\ EndHonest /\ SeekOwned
        /\ RingHonest /\ RingJoins /\ NobodyStuck

USE SizesAssumption DEF EOF, EXIT, EIO, EINVAL, Errors

LEMMA InitIInv == ASSUME Init PROVE IInv
<1>1. Len(fifo) = 0 /\ fifo \in Seq(0 .. Size - 1) /\ dest \in Seq(0 .. Size - 1)
  BY EmptySeq DEF Init
<1>a. 0 \in 0 .. Size /\ 0 \in 0 .. Chunk /\ 0 \in 0 .. Backwards
  OBVIOUS
<1>2. TypeOK
  <2>1. RingType
    BY <1>1, <1>a DEF Init, RingType, Capacity
  <2>2. SeekType
    BY <1>a DEF Init, SeekType
  <2>3. IoType
    BY DEF Init, IoType
  <2>4. PlaceType
    BY <1>a DEF Init, PlaceType
  <2>5. CallType
    BY <1>1 DEF Init, CallType
  <2>6. BgType
    BY <1>a DEF Init, BgType
  <2> QED
    BY <2>1, <2>2, <2>3, <2>4, <2>5, <2>6 DEF TypeOK
<1> QED
  BY <1>1, <1>2 DEF Init, IInv, ReadFresh, FillFits, EndHonest, SeekOwned,
     RingHonest, RingJoins, NobodyStuck, Reading, Ended, At, ring_size

\* A step that leaves the ring and the place it is compared with alone keeps the ring's promise.
LEMMA RingKept ==
  ASSUME IInv, UNCHANGED <<fifo, read_pos>>, At' = At, ~abort_request' => ~abort_request
  PROVE  RingHonest'
  BY DEF IInv, RingHonest

LEMMA BgExitKeeps == ASSUME IInv, BgExit PROVE IInv'
<1> USE DEF BgExit, MainWoken, ring, seek, call, fill
<1>1. TypeOK'
  <2>1. RingType'
    BY DEF IInv, TypeOK, RingType, Capacity
  <2>2. SeekType'
    BY DEF IInv, TypeOK, SeekType
  <2>3. IoType'
    BY DEF IInv, TypeOK, IoType
  <2>4. PlaceType'
    BY DEF IInv, TypeOK, PlaceType
  <2>5. CallType'
    BY DEF IInv, TypeOK, CallType
  <2>6. BgType'
    BY DEF IInv, TypeOK, BgType
  <2> QED
    BY <2>1, <2>2, <2>3, <2>4, <2>5, <2>6 DEF TypeOK
<1>2. abort_request'
  OBVIOUS
<1>3. RingHonest'
  BY <1>2 DEF RingHonest
<1>4. ReadFresh' /\ FillFits'
  BY DEF IInv, TypeOK, RingType, SeekType, IoType, PlaceType, CallType, BgType, ReadFresh,
     FillFits, Reading, ring_space, Capacity
<1>5. EndHonest' /\ RingJoins'
  BY <1>2 DEF IInv, TypeOK, RingType, SeekType, IoType, PlaceType, CallType, BgType, EndHonest,
     RingJoins, Ended
<1>6. SeekOwned' /\ NobodyStuck'
  BY DEF IInv, TypeOK, RingType, SeekType, IoType, PlaceType, CallType, BgType, SeekOwned,
     Seeking, NobodyStuck
<1> QED
  BY <1>1, <1>3, <1>4, <1>5, <1>6 DEF IInv

LEMMA BgSeekStartKeeps == ASSUME IInv, BgSeekStart PROVE IInv'
<1> USE DEF BgSeekStart, ring, seek, io, call, fill
<1>1. TypeOK'
  <2>1. RingType'
    BY DEF IInv, TypeOK, RingType, Capacity
  <2>2. SeekType'
    BY DEF IInv, TypeOK, SeekType
  <2>3. IoType'
    BY DEF IInv, TypeOK, IoType
  <2>4. PlaceType'
    BY DEF IInv, TypeOK, PlaceType
  <2>5. CallType'
    BY DEF IInv, TypeOK, CallType
  <2>6. BgType'
    BY DEF IInv, TypeOK, BgType
  <2> QED
    BY <2>1, <2>2, <2>3, <2>4, <2>5, <2>6 DEF TypeOK
<1>2. At' = At /\ ring_size' = ring_size
  BY DEF At, ring_size
<1>3. RingHonest'
  BY <1>2, RingKept
<1>4. ReadFresh' /\ FillFits'
  BY DEF IInv, TypeOK, RingType, SeekType, IoType, PlaceType, CallType, BgType, ReadFresh,
     FillFits, Reading, ring_space, Capacity
<1>5. EndHonest' /\ RingJoins'
  BY <1>2 DEF IInv, TypeOK, RingType, SeekType, IoType, PlaceType, CallType, BgType, EndHonest,
     RingJoins, Ended
<1>6. SeekOwned' /\ NobodyStuck'
  BY DEF IInv, TypeOK, RingType, SeekType, IoType, PlaceType, CallType, BgType, SeekOwned,
     Seeking, NobodyStuck
<1> QED
  BY <1>1, <1>3, <1>4, <1>5, <1>6 DEF IInv

LEMMA BgSeekEndKeeps == ASSUME IInv, BgSeekEnd PROVE IInv'
<1> USE DEF BgSeekEnd, MainWoken, ring_reset, call, fill
<1>a. fifo' \in Seq(0 .. Size - 1) /\ Len(fifo') = 0
  BY EmptySeq DEF ring_reset
<1>1. TypeOK'
  <2>1. RingType'
    BY <1>a DEF IInv, TypeOK, RingType, Capacity
  <2>2. SeekType'
    BY DEF IInv, TypeOK, SeekType
  <2>3. IoType'
    BY DEF IInv, TypeOK, IoType
  <2>4. PlaceType'
    BY DEF IInv, TypeOK, SeekType, PlaceType
  <2>5. CallType'
    BY DEF IInv, TypeOK, CallType
  <2>6. BgType'
    BY DEF IInv, TypeOK, BgType
  <2> QED
    BY <2>1, <2>2, <2>3, <2>4, <2>5, <2>6 DEF TypeOK
<1>2. ring_size' = 0
  BY <1>a DEF ring_size
<1>3. RingHonest'
  BY <1>a DEF RingHonest
<1>4. ReadFresh' /\ FillFits'
  BY <1>a DEF IInv, TypeOK, RingType, SeekType, IoType, PlaceType, CallType, BgType, ReadFresh,
     FillFits, Reading
<1>5. EndHonest' /\ RingJoins'
  <2>1. EndHonest'
    BY DEF IInv, TypeOK, SeekType, EndHonest, Ended
  <2>2. CASE seek_ret' = seek_pos
    <3>1. inner_pos' = seek_pos \/ Ended'
      BY DEF Ended
    <3>2. ~abort_request => At' = seek_pos
      BY <2>2 DEF IInv, TypeOK, SeekType, SeekOwned, Seeking, At
    <3> QED
      BY <1>2, <2>1, <3>1, <3>2 DEF IInv, TypeOK, SeekType, RingJoins
  <2>3. CASE seek_ret' # seek_pos
    BY <2>1, <2>3 DEF RingJoins, Ended
  <2> QED
    BY <2>2, <2>3
<1>6. SeekOwned' /\ NobodyStuck'
  BY DEF IInv, TypeOK, RingType, SeekType, IoType, PlaceType, CallType, BgType, SeekOwned,
     Seeking, NobodyStuck
<1> QED
  BY <1>1, <1>3, <1>4, <1>5, <1>6 DEF IInv

LEMMA BgWaitKeeps == ASSUME IInv, BgWait PROVE IInv'
<1> USE DEF BgWait, MainWoken, ring, seek, io, call, fill
<1>1. TypeOK'
  <2>1. RingType'
    BY DEF IInv, TypeOK, RingType, Capacity
  <2>2. SeekType'
    BY DEF IInv, TypeOK, SeekType
  <2>3. IoType'
    BY DEF IInv, TypeOK, IoType
  <2>4. PlaceType'
    BY DEF IInv, TypeOK, PlaceType
  <2>5. CallType'
    BY DEF IInv, TypeOK, CallType
  <2>6. BgType'
    BY DEF IInv, TypeOK, BgType
  <2> QED
    BY <2>1, <2>2, <2>3, <2>4, <2>5, <2>6 DEF TypeOK
<1>2. At' = At /\ ring_size' = ring_size
  BY DEF At, ring_size
<1>3. RingHonest'
  BY <1>2, RingKept
<1>4. ReadFresh' /\ FillFits'
  BY DEF IInv, TypeOK, RingType, SeekType, IoType, PlaceType, CallType, BgType, ReadFresh,
     FillFits, Reading, ring_space, Capacity
<1>5. EndHonest' /\ RingJoins'
  BY <1>2 DEF IInv, TypeOK, RingType, SeekType, IoType, PlaceType, CallType, BgType, EndHonest,
     RingJoins, Ended
<1>6. SeekOwned' /\ NobodyStuck'
  BY DEF IInv, TypeOK, RingType, SeekType, IoType, PlaceType, CallType, BgType, SeekOwned,
     Seeking, NobodyStuck
<1> QED
  BY <1>1, <1>3, <1>4, <1>5, <1>6 DEF IInv

LEMMA BgFillKeeps == ASSUME IInv, BgFill PROVE IInv'
<1> USE DEF BgFill, ring, seek, io, call
<1>a. to_copy' \in 1 .. Chunk /\ to_copy' <= ring_space'
  BY LenProperties DEF Smaller, ring_space, Capacity, IInv, TypeOK, RingType
<1>b. to_copy' \in 0 .. Chunk
  BY <1>a
<1>1. TypeOK'
  <2>1. RingType'
    BY DEF IInv, TypeOK, RingType, Capacity
  <2>2. SeekType'
    BY DEF IInv, TypeOK, SeekType
  <2>3. IoType'
    BY DEF IInv, TypeOK, IoType
  <2>4. PlaceType'
    BY DEF IInv, TypeOK, PlaceType
  <2>5. CallType'
    BY DEF IInv, TypeOK, CallType
  <2>6. BgType'
    BY <1>b DEF IInv, TypeOK, BgType
  <2> QED
    BY <2>1, <2>2, <2>3, <2>4, <2>5, <2>6 DEF TypeOK
<1>2. At' = At /\ ring_size' = ring_size
  BY DEF At, ring_size
<1>3. RingHonest'
  BY <1>2, RingKept
<1>4. ReadFresh' /\ FillFits'
  BY <1>a DEF IInv, TypeOK, RingType, SeekType, IoType, PlaceType, CallType, BgType, ReadFresh,
     FillFits, Reading
<1>5. EndHonest' /\ RingJoins'
  BY <1>2 DEF IInv, TypeOK, RingType, SeekType, IoType, PlaceType, CallType, BgType, EndHonest,
     RingJoins, Ended
<1>6. SeekOwned' /\ NobodyStuck'
  BY DEF IInv, TypeOK, RingType, SeekType, IoType, PlaceType, CallType, BgType, SeekOwned,
     Seeking, NobodyStuck
<1> QED
  BY <1>1, <1>3, <1>4, <1>5, <1>6 DEF IInv

\* The ring after a piece is written: the old bytes, then those of the piece.
LEMMA PieceWritten ==
  ASSUME IInv, NEW n \in 1 .. Smaller(to_copy, Size - inner_pos), FillPiece(n)
  PROVE  /\ n <= to_copy /\ n <= Size - inner_pos /\ n \in Nat \ {0}
         /\ fifo' \in Seq(Bytes) /\ Len(fifo') = Len(fifo) + n
         /\ \A i \in 1 .. Len(fifo) + n :
              fifo'[i] = IF i <= Len(fifo) THEN fifo[i] ELSE inner_pos + i - Len(fifo) - 1
<1>1. inner_pos \in 0 .. Size /\ to_copy \in Nat /\ fifo \in Seq(Bytes) /\ Len(fifo) \in Nat
  BY LenProperties DEF IInv, TypeOK, RingType, PlaceType, BgType, Bytes
<1>2. n <= to_copy /\ n <= Size - inner_pos /\ n \in 1 .. Size - inner_pos
  BY <1>1 DEF Smaller
<1>3. fifo' = fifo \o Piece(inner_pos, n)
  BY DEF FillPiece, Piece
<1> DEFINE p == Piece(inner_pos, n)
<1>4. p \in Seq(Bytes) /\ Len(p) = n /\ \A i \in 1 .. n : p[i] = inner_pos + i - 1
  BY <1>1, <1>2, PieceBytes
<1> HIDE DEF p
<1>5. /\ fifo \o p \in Seq(Bytes) /\ Len(fifo \o p) = Len(fifo) + n
      /\ \A i \in 1 .. Len(fifo) + n :
           (fifo \o p)[i] = IF i <= Len(fifo) THEN fifo[i] ELSE p[i - Len(fifo)]
  BY <1>1, <1>4, ConcatProperties
<1>6. ASSUME NEW i \in 1 .. Len(fifo) + n, i > Len(fifo)
      PROVE  p[i - Len(fifo)] = inner_pos + i - Len(fifo) - 1
  BY <1>1, <1>2, <1>4, <1>6
<1> QED
  BY <1>1, <1>2, <1>3, <1>5, <1>6 DEF p

LEMMA FillPieceKeeps == ASSUME IInv, NEW n \in 1 .. Smaller(to_copy, Size - inner_pos),
                                FillPiece(n) PROVE IInv'
<1> USE DEF FillPiece, seek, call
<1>a. /\ n <= to_copy /\ n <= Size - inner_pos /\ n \in Nat \ {0}
      /\ fifo' \in Seq(0 .. Size - 1) /\ Len(fifo') = Len(fifo) + n
      /\ \A i \in 1 .. Len(fifo) + n :
           fifo'[i] = IF i <= Len(fifo) THEN fifo[i] ELSE inner_pos + i - Len(fifo) - 1
  BY PieceWritten DEF Bytes
<1>b. Len(fifo) \in Nat /\ to_copy <= ring_space /\ ~io_eof_reached
  BY LenProperties DEF IInv, TypeOK, RingType, FillFits
<1>1. TypeOK'
  <2>1. RingType'
    BY <1>a, <1>b DEF IInv, TypeOK, RingType, BgType, ring_space, Capacity
  <2>2. SeekType'
    BY DEF IInv, TypeOK, SeekType
  <2>3. IoType'
    BY DEF IInv, TypeOK, IoType
  <2>4. PlaceType'
    BY <1>a DEF IInv, TypeOK, PlaceType
  <2>5. CallType'
    BY DEF IInv, TypeOK, CallType
  <2>6. BgType'
    BY <1>a DEF IInv, TypeOK, BgType
  <2> QED
    BY <2>1, <2>2, <2>3, <2>4, <2>5, <2>6 DEF TypeOK
<1>2. At' = At /\ ring_size' = ring_size + n
  BY <1>a, <1>b DEF At, ring_size, IInv, TypeOK, RingType
<1>3. RingHonest'
  <2>1. ~abort_request => At + ring_size = inner_pos
    BY <1>b DEF IInv, RingJoins, Ended
  <2>2. ASSUME ~abort_request', NEW i \in 1 .. Len(fifo')
        PROVE  fifo'[i] = At' - read_pos' + i - 1
    <3>1. At \in Int /\ inner_pos \in Int /\ read_pos \in Int
      BY DEF At, IInv, TypeOK, PlaceType, SeekType, RingType
    <3>2. CASE i <= Len(fifo)
      BY <1>a, <1>b, <1>2, <2>2, <3>2 DEF IInv, RingHonest
    <3>3. CASE i > Len(fifo)
      BY <1>a, <1>b, <1>2, <2>1, <2>2, <3>1, <3>3 DEF ring_size
    <3> QED
      BY <1>b, <1>a, <3>2, <3>3
  <2> QED
    BY <2>2 DEF RingHonest
<1>4. ReadFresh' /\ FillFits'
  BY <1>a, <1>b DEF IInv, TypeOK, RingType, BgType, CallType, ReadFresh, FillFits, Reading,
     ring_space,
     Capacity
<1>5. EndHonest' /\ RingJoins'
  <2>1. EndHonest'
    BY <1>b DEF IInv, EndHonest, Ended
  <2>2. ~abort_request => At + ring_size = inner_pos
    BY <1>b DEF IInv, RingJoins, Ended
  <2>3. At \in Int /\ ring_size \in Int /\ inner_pos \in Int
    BY <1>b DEF At, ring_size, IInv, TypeOK, PlaceType, SeekType, RingType
  <2>4. RingJoins'
    BY <1>a, <1>2, <2>2, <2>3 DEF RingJoins
  <2> QED
    BY <2>1, <2>4
<1>6. SeekOwned' /\ NobodyStuck'
  BY DEF IInv, TypeOK, RingType, SeekType, IoType, PlaceType, CallType, BgType, SeekOwned,
     Seeking, NobodyStuck
<1> QED
  BY <1>1, <1>3, <1>4, <1>5, <1>6 DEF IInv

LEMMA FillStopKeeps == ASSUME IInv, FillStop PROVE IInv'
<1> USE DEF FillStop, ring, seek, io, call, fill
<1>1. TypeOK'
  <2>1. RingType'
    BY DEF IInv, TypeOK, RingType, Capacity
  <2>2. SeekType'
    BY DEF IInv, TypeOK, SeekType
  <2>3. IoType'
    BY DEF IInv, TypeOK, IoType
  <2>4. PlaceType'
    BY DEF IInv, TypeOK, PlaceType
  <2>5. CallType'
    BY DEF IInv, TypeOK, CallType
  <2>6. BgType'
    BY DEF IInv, TypeOK, BgType
  <2> QED
    BY <2>1, <2>2, <2>3, <2>4, <2>5, <2>6 DEF TypeOK
<1>2. At' = At /\ ring_size' = ring_size
  BY DEF At, ring_size
<1>3. RingHonest'
  BY <1>2, RingKept
<1>4. ReadFresh' /\ FillFits'
  BY DEF IInv, TypeOK, RingType, SeekType, IoType, PlaceType, CallType, BgType, ReadFresh,
     FillFits, Reading, ring_space, Capacity
<1>5. EndHonest' /\ RingJoins'
  BY <1>2 DEF IInv, TypeOK, RingType, SeekType, IoType, PlaceType, CallType, BgType, EndHonest,
     RingJoins, Ended
<1>6. SeekOwned' /\ NobodyStuck'
  BY DEF IInv, TypeOK, RingType, SeekType, IoType, PlaceType, CallType, BgType, SeekOwned,
     Seeking, NobodyStuck
<1> QED
  BY <1>1, <1>3, <1>4, <1>5, <1>6 DEF IInv

LEMMA FillEndKeeps == ASSUME IInv, FillEnd PROVE IInv'
<1> USE DEF FillEnd, MainWoken, ring, seek, call
<1>a. ~io_eof_reached /\ io_error = 0
  BY DEF IInv, FillFits, EndHonest
<1>b. io_error' \in {0, EOF} \cup Errors /\ (io_error' # 0 => ~wrote)
  BY <1>a DEF IInv, TypeOK, IoType
<1>c. io_eof_reached' \in BOOLEAN /\ (io_eof_reached' <=> ~wrote)
  BY <1>a DEF IInv, TypeOK, BgType
<1>d. to_copy' \in 0 .. Chunk
  OBVIOUS
<1>1. TypeOK'
  <2>1. RingType'
    BY DEF IInv, TypeOK, RingType, Capacity
  <2>2. SeekType'
    BY DEF IInv, TypeOK, SeekType
  <2>3. IoType'
    BY <1>b, <1>c DEF IInv, TypeOK, IoType
  <2>4. PlaceType'
    BY DEF IInv, TypeOK, PlaceType
  <2>5. CallType'
    BY DEF IInv, TypeOK, CallType
  <2>6. BgType'
    BY <1>d DEF IInv, TypeOK, BgType
  <2> QED
    BY <2>1, <2>2, <2>3, <2>4, <2>5, <2>6 DEF TypeOK
<1>2. At' = At /\ ring_size' = ring_size
  BY DEF At, ring_size
<1>3. RingHonest'
  BY <1>2, RingKept
<1>4. ReadFresh' /\ FillFits'
  BY DEF IInv, TypeOK, RingType, SeekType, IoType, PlaceType, CallType, BgType, ReadFresh,
     FillFits, Reading, ring_space, Capacity
<1>5. EndHonest' /\ RingJoins'
  <2>1. io_error' \in {0, EOF} /\ ~wrote => inner_pos = Size
    BY <1>a DEF IInv, TypeOK, IoType, FillFits
  <2>2. EndHonest'
    BY <1>b, <1>c, <2>1 DEF EndHonest, Ended
  <2>3. RingJoins'
    BY <1>a, <1>2 DEF IInv, RingJoins, Ended
  <2> QED
    BY <2>2, <2>3
<1>6. SeekOwned' /\ NobodyStuck'
  BY DEF IInv, TypeOK, RingType, SeekType, IoType, PlaceType, CallType, BgType, SeekOwned,
     Seeking, NobodyStuck
<1> QED
  BY <1>1, <1>3, <1>4, <1>5, <1>6 DEF IInv

\* The ring after a read of n bytes: d bytes have gone at its tail.
LEMMA BytesTaken ==
  ASSUME IInv, NEW n \in 1 .. ring_size, ring_generic_read(n)
  PROVE  \E d \in 0 .. Len(fifo) :
           /\ fifo' \in Seq(Bytes) /\ Len(fifo') = Len(fifo) - d
           /\ read_pos' = read_pos + n - d
           /\ read_pos' \in 0 .. Backwards /\ read_pos' <= Len(fifo')
           /\ \A i \in 1 .. Len(fifo') : fifo'[i] = fifo[i + d]
<1>1. /\ fifo \in Seq(Bytes) /\ Len(fifo) \in Nat
      /\ read_pos \in 0 .. Backwards /\ read_pos <= Len(fifo)
  BY LenProperties DEF IInv, TypeOK, RingType, Bytes
<1>2. n \in Nat /\ read_pos + n <= Len(fifo)
  BY <1>1 DEF ring_size
<1> DEFINE d == IF read_pos + n > Backwards THEN read_pos + n - Backwards ELSE 0
           rest == SubSeq(fifo, d + 1, Len(fifo))
<1>3. d \in 0 .. Len(fifo) /\ read_pos + n - d \in 0 .. Backwards
  BY <1>1, <1>2
<1>4. fifo' = rest /\ read_pos' = read_pos + n - d
  BY DEF ring_generic_read
<1> HIDE DEF d
<1>5. \A i \in d + 1 .. Len(fifo) : fifo[i] \in Bytes
  BY <1>1, <1>3, ElementOfSeq
<1>6. /\ rest \in Seq(Bytes)
      /\ Len(rest) = IF d + 1 <= Len(fifo) THEN Len(fifo) - (d + 1) + 1 ELSE 0
      /\ \A i \in 1 .. Len(fifo) - (d + 1) + 1 : rest[i] = fifo[(d + 1) + i - 1]
  BY <1>1, <1>3, <1>5, SubSeqProperties
<1> HIDE DEF rest
<1>7. Len(rest) = Len(fifo) - d
  BY <1>1, <1>3, <1>6
<1>8. \A i \in 1 .. Len(rest) : rest[i] = fifo[i + d]
  <2>1. d \in Int /\ Len(fifo) \in Int
    BY <1>1, <1>3
  <2>2. ASSUME NEW i \in 1 .. Len(rest) PROVE rest[i] = fifo[i + d]
    <3>1. i \in 1 .. Len(fifo) - (d + 1) + 1
      BY <2>1, <1>7
    <3>2. (d + 1) + i - 1 = i + d
      BY <2>1, <3>1
    <3> QED
      BY <3>1, <3>2, <1>6
  <2> QED
    BY <2>2
<1> QED
  BY <1>1, <1>2, <1>3, <1>4, <1>6, <1>7, <1>8

\* What a read hands over are the bytes from the reader's position on.
LEMMA BytesRead ==
  ASSUME IInv, main_at = "loop", ~abort_request, NEW n \in 1 .. ring_size
  PROVE  /\ SubSeq(fifo, read_pos + 1, read_pos + n) = [i \in 1 .. n |-> logical_pos + i - 1]
         /\ SubSeq(fifo, read_pos + 1, read_pos + n) \in Seq(Bytes)
         /\ logical_pos + n <= Size
<1>1. /\ fifo \in Seq(Bytes) /\ Len(fifo) \in Nat /\ read_pos \in Nat
      /\ logical_pos \in Nat /\ read_pos + n <= Len(fifo) /\ n \in Nat /\ n >= 1
  BY LenProperties DEF IInv, TypeOK, RingType, PlaceType, Bytes, ring_size
<1>2. \A i \in 1 .. Len(fifo) : fifo[i] = logical_pos - read_pos + i - 1
  BY DEF IInv, RingHonest, At
<1> DEFINE s == SubSeq(fifo, read_pos + 1, read_pos + n)
<1>3. \A i \in read_pos + 1 .. read_pos + n : fifo[i] \in Bytes
  BY <1>1, ElementOfSeq
<1>4. /\ s \in Seq(Bytes)
      /\ Len(s) = IF read_pos + 1 <= read_pos + n THEN read_pos + n - (read_pos + 1) + 1 ELSE 0
      /\ \A i \in 1 .. read_pos + n - (read_pos + 1) + 1 : s[i] = fifo[(read_pos + 1) + i - 1]
  BY <1>1, <1>3, SubSeqProperties
<1> HIDE DEF s
<1>5. Len(s) = n /\ \A i \in 1 .. n : s[i] = logical_pos + i - 1
  <2>1. Len(s) = n
    BY <1>1, <1>4
  <2>2. ASSUME NEW i \in 1 .. n PROVE s[i] = logical_pos + i - 1
    <3>1. s[i] = fifo[read_pos + i]
      BY <1>1, <1>4
    <3>2. read_pos + i \in 1 .. Len(fifo)
      BY <1>1
    <3> QED
      BY <1>1, <1>2, <3>1, <3>2
  <2> QED
    BY <2>1, <2>2
<1>6. s = [i \in 1 .. n |-> logical_pos + i - 1]
  <2>1. s \in [1 .. n -> Bytes]
    BY <1>4, <1>5, LenProperties
  <2> QED
    BY <1>5, <2>1
<1>7. logical_pos + n <= Size
  <2>1. s[n] \in Bytes
    BY <1>1, <1>4, <1>5, ElementOfSeq
  <2> QED
    BY <1>1, <1>5, <2>1 DEF Bytes
<1> QED
  BY <1>4, <1>6, <1>7 DEF s

LEMMA StartReadKeeps == ASSUME IInv, NEW n \in 1 .. MaxRead, StartRead(n) PROVE IInv'
<1> USE DEF StartRead, ring, seek, io, fill
<1>1. TypeOK'
  <2>1. RingType'
    BY DEF IInv, TypeOK, RingType, Capacity
  <2>2. SeekType'
    BY DEF IInv, TypeOK, SeekType
  <2>3. IoType'
    BY DEF IInv, TypeOK, IoType
  <2>4. PlaceType'
    BY DEF IInv, TypeOK, PlaceType
  <2>5. CallType'
    BY EmptySeq DEF IInv, TypeOK, CallType
  <2>6. BgType'
    BY DEF IInv, TypeOK, BgType
  <2> QED
    BY <2>1, <2>2, <2>3, <2>4, <2>5, <2>6 DEF TypeOK
<1>2. At' = At /\ ring_size' = ring_size
  BY DEF At, ring_size
<1>3. RingHonest'
  BY <1>2, RingKept
<1>4. ReadFresh' /\ FillFits'
  BY DEF IInv, TypeOK, RingType, SeekType, IoType, PlaceType, CallType, BgType, ReadFresh,
     FillFits, Reading, ring_space, Capacity
<1>5. EndHonest' /\ RingJoins'
  BY <1>2 DEF IInv, TypeOK, RingType, SeekType, IoType, PlaceType, CallType, BgType, EndHonest,
     RingJoins, Ended
<1>6. SeekOwned' /\ NobodyStuck'
  BY DEF IInv, TypeOK, RingType, SeekType, IoType, PlaceType, CallType, BgType, SeekOwned,
     Seeking, NobodyStuck
<1> QED
  BY <1>1, <1>3, <1>4, <1>5, <1>6 DEF IInv

LEMMA LoopExitKeeps == ASSUME IInv, LoopExit PROVE IInv'
<1> USE DEF LoopExit, BgWoken, Answer, Return, ring, seek, io, fill
<1>a. ret' \in {EOF} \cup Nat \cup Errors
  <2>1. logical_pos \in Nat
    BY DEF IInv, TypeOK, PlaceType
  <2> QED
    BY <2>1 DEF IInv, TypeOK, IoType, CallType
<1>1. TypeOK'
  <2>1. RingType'
    BY DEF IInv, TypeOK, RingType, Capacity
  <2>2. SeekType'
    BY DEF IInv, TypeOK, SeekType
  <2>3. IoType'
    BY DEF IInv, TypeOK, IoType
  <2>4. PlaceType'
    BY DEF IInv, TypeOK, PlaceType
  <2>5. CallType'
    BY <1>a DEF IInv, TypeOK, CallType
  <2>6. BgType'
    BY DEF IInv, TypeOK, BgType
  <2> QED
    BY <2>1, <2>2, <2>3, <2>4, <2>5, <2>6 DEF TypeOK
<1>2. abort_request'
  OBVIOUS
<1>3. RingHonest'
  BY <1>2 DEF RingHonest
<1>4. ReadFresh' /\ FillFits'
  BY DEF IInv, TypeOK, RingType, SeekType, IoType, PlaceType, CallType, BgType, ReadFresh,
     FillFits, Reading, ring_space, Capacity
<1>5. EndHonest' /\ RingJoins'
  BY <1>2 DEF IInv, TypeOK, RingType, SeekType, IoType, PlaceType, CallType, BgType, EndHonest,
     RingJoins, Ended
<1>6. SeekOwned' /\ NobodyStuck'
  BY DEF IInv, TypeOK, RingType, SeekType, IoType, PlaceType, CallType, BgType, SeekOwned,
     Seeking, NobodyStuck
<1> QED
  BY <1>1, <1>3, <1>4, <1>5, <1>6 DEF IInv

LEMMA LoopEndKeeps == ASSUME IInv, LoopEnd PROVE IInv'
<1> USE DEF LoopEnd, BgWoken, Answer, Return, ring, seek, io, fill
<1>a. ret' \in {EOF} \cup Nat \cup Errors
  <2>1. logical_pos \in Nat
    BY DEF IInv, TypeOK, PlaceType
  <2> QED
    BY <2>1 DEF IInv, TypeOK, IoType, CallType
<1>1. TypeOK'
  <2>1. RingType'
    BY DEF IInv, TypeOK, RingType, Capacity
  <2>2. SeekType'
    BY DEF IInv, TypeOK, SeekType
  <2>3. IoType'
    BY DEF IInv, TypeOK, IoType
  <2>4. PlaceType'
    BY DEF IInv, TypeOK, PlaceType
  <2>5. CallType'
    BY <1>a DEF IInv, TypeOK, CallType
  <2>6. BgType'
    BY DEF IInv, TypeOK, BgType
  <2> QED
    BY <2>1, <2>2, <2>3, <2>4, <2>5, <2>6 DEF TypeOK
<1>2. At' = At /\ ring_size' = ring_size
  BY DEF At, ring_size
<1>3. RingHonest'
  BY <1>2, RingKept
<1>4. ReadFresh' /\ FillFits'
  BY DEF IInv, TypeOK, RingType, SeekType, IoType, PlaceType, CallType, BgType, ReadFresh,
     FillFits, Reading, ring_space, Capacity
<1>5. EndHonest' /\ RingJoins'
  BY <1>2 DEF IInv, TypeOK, RingType, SeekType, IoType, PlaceType, CallType, BgType, EndHonest,
     RingJoins, Ended
<1>6. SeekOwned' /\ NobodyStuck'
  BY DEF IInv, TypeOK, RingType, SeekType, IoType, PlaceType, CallType, BgType, SeekOwned,
     Seeking, NobodyStuck
<1> QED
  BY <1>1, <1>3, <1>4, <1>5, <1>6 DEF IInv

LEMMA LoopWaitKeeps == ASSUME IInv, LoopWait PROVE IInv'
<1> USE DEF LoopWait, Interrupted, BgWoken, ring, seek, io, call, fill
<1>1. TypeOK'
  <2>1. RingType'
    BY DEF IInv, TypeOK, RingType, Capacity
  <2>2. SeekType'
    BY DEF IInv, TypeOK, SeekType
  <2>3. IoType'
    BY DEF IInv, TypeOK, IoType
  <2>4. PlaceType'
    BY DEF IInv, TypeOK, PlaceType
  <2>5. CallType'
    BY DEF IInv, TypeOK, CallType
  <2>6. BgType'
    BY DEF IInv, TypeOK, BgType
  <2> QED
    BY <2>1, <2>2, <2>3, <2>4, <2>5, <2>6 DEF TypeOK
<1>2. At' = At /\ ring_size' = ring_size
  BY DEF At, ring_size
<1>3. RingHonest'
  BY <1>2, RingKept
<1>4. ReadFresh' /\ FillFits'
  BY DEF IInv, TypeOK, RingType, SeekType, IoType, PlaceType, CallType, BgType, ReadFresh,
     FillFits, Reading, ring_space, Capacity
<1>5. EndHonest' /\ RingJoins'
  BY <1>2 DEF IInv, TypeOK, RingType, SeekType, IoType, PlaceType, CallType, BgType, EndHonest,
     RingJoins, Ended
<1>6. SeekOwned' /\ NobodyStuck'
  BY DEF IInv, TypeOK, RingType, SeekType, IoType, PlaceType, CallType, BgType, SeekOwned,
     Seeking, NobodyStuck
<1> QED
  BY <1>1, <1>3, <1>4, <1>5, <1>6 DEF IInv

LEMMA LoopCopyKeeps == ASSUME IInv, LoopCopy PROVE IInv'
<1> USE DEF LoopCopy, Interrupted, BgWoken, Return, seek, io, fill
<1> DEFINE n == Smaller(to_read, ring_size)
<1>a. /\ n \in 1 .. ring_size /\ n <= to_read /\ n \in Nat /\ to_read \in Nat
      /\ ring_size \in Nat /\ read_pos \in Nat /\ Len(fifo) \in Nat
  BY LenProperties DEF Smaller, IInv, TypeOK, RingType, CallType, ReadFresh, Reading, ring_size
<1>b. ring_generic_read(n)
  OBVIOUS
<1>c. PICK d \in 0 .. Len(fifo) :
        /\ fifo' \in Seq(Bytes) /\ Len(fifo') = Len(fifo) - d
        /\ read_pos' = read_pos + n - d
        /\ read_pos' \in 0 .. Backwards /\ read_pos' <= Len(fifo')
        /\ \A i \in 1 .. Len(fifo') : fifo'[i] = fifo[i + d]
  BY <1>a, <1>b, BytesTaken
<1>d. /\ SubSeq(fifo, read_pos + 1, read_pos + n) \in Seq(Bytes)
      /\ logical_pos + n <= Size /\ logical_pos \in Nat
  BY <1>a, BytesRead DEF IInv, TypeOK, PlaceType
<1>e. logical_pos' = logical_pos + n /\ logical_pos' \in 0 .. Size
  BY SMTT(20), <1>a, <1>d
<1>f. /\ to_read' \in Nat /\ (main_at' = "wait" => to_read' > 0 /\ reading' = "skip")
      /\ main_at' \in {"idle", "wait"} /\ reading' \in {"read", "skip"}
  BY <1>a DEF IInv, TypeOK, CallType
<1>g. ret' \in {EOF} \cup Nat \cup Errors
  <2>1. main_at' = "wait" => ret' = ret /\ reading = "skip"
    OBVIOUS
  <2>2. main_at' = "idle" => ret' \in Nat
    BY <1>a, <1>e
  <2>3. CASE main_at' = "wait"
    BY <1>a, <2>1, <2>3 DEF IInv, TypeOK, CallType
  <2> QED
    BY <1>f, <2>2, <2>3
<1>h. dest' \in Seq(0 .. Size - 1)
  BY <1>d DEF Bytes, IInv, TypeOK, CallType
<1>1. TypeOK'
  <2>1. RingType'
    BY <1>a, <1>c DEF Bytes, IInv, TypeOK, RingType, Capacity
  <2>2. SeekType'
    BY DEF IInv, TypeOK, SeekType
  <2>3. IoType'
    BY DEF IInv, TypeOK, IoType
  <2>4. PlaceType'
    BY <1>e DEF IInv, TypeOK, PlaceType
  <2>5. CallType'
    BY <1>f, <1>g, <1>h DEF CallType
  <2>6. BgType'
    BY DEF IInv, TypeOK, BgType
  <2> QED
    BY <2>1, <2>2, <2>3, <2>4, <2>5, <2>6 DEF TypeOK
<1>i. main_at = "loop" /\ ~abort_request
  OBVIOUS
<1>2. At = logical_pos /\ At' = logical_pos + n /\ ring_size' = ring_size - n
  <2> HIDE DEF LoopCopy, n
  <2>1. ring_size' = ring_size - n
    BY <1>a, <1>c DEF ring_size
  <2> QED
    BY <1>e, <1>f, <1>i, <2>1 DEF At
<1>3. RingHonest'
  <2> HIDE DEF LoopCopy, n
  <2>1. ASSUME NEW i \in 1 .. Len(fifo')
        PROVE  fifo'[i] = At' - read_pos' + i - 1
    <3>1. i + d \in 1 .. Len(fifo) /\ fifo'[i] = fifo[i + d]
      BY SMTT(20), <1>a, <1>c
    <3>2. fifo[i + d] = logical_pos - read_pos + (i + d) - 1
      BY <1>2, <1>i, <3>1 DEF IInv, RingHonest
    <3> QED
      BY <1>a, <1>c, <1>d, <1>2, <3>1, <3>2
  <2> QED
    BY <2>1 DEF RingHonest
<1>4. ReadFresh' /\ FillFits'
  BY SMTT(20), <1>a, <1>c, <1>f DEF IInv, TypeOK, BgType, ReadFresh, FillFits, Reading, ring_space, Capacity
<1>5. EndHonest' /\ RingJoins'
  <2>1. EndHonest'
    BY DEF IInv, EndHonest, Ended
  <2>2. RingJoins'
    <3>1. UNCHANGED <<inner_pos, io_eof_reached, io_error, abort_request>>
      OBVIOUS
    <3> HIDE DEF LoopCopy, n
    <3> QED
      BY <1>a, <1>d, <1>i, <1>2, <3>1 DEF IInv, TypeOK, PlaceType, RingJoins, Ended
  <2> QED
    BY <2>1, <2>2
<1>6. SeekOwned' /\ NobodyStuck'
  BY <1>f DEF IInv, TypeOK, CallType, SeekOwned, Seeking, NobodyStuck
<1> QED
  BY <1>1, <1>3, <1>4, <1>5, <1>6 DEF IInv

LEMMA SeekForwardsKeeps == ASSUME IInv, NEW target \in 0 .. Size + 1,
SeekForwards(target) PROVE IInv'
<1> USE DEF SeekForwards, ring, seek, io, fill
<1>1. TypeOK'
  <2>1. RingType'
    BY DEF IInv, TypeOK, RingType, Capacity
  <2>2. SeekType'
    BY DEF IInv, TypeOK, SeekType
  <2>3. IoType'
    BY DEF IInv, TypeOK, IoType
  <2>4. PlaceType'
    BY DEF IInv, TypeOK, PlaceType
  <2>5. CallType'
    BY EmptySeq DEF IInv, TypeOK, PlaceType, CallType
  <2>6. BgType'
    BY DEF IInv, TypeOK, BgType
  <2> QED
    BY <2>1, <2>2, <2>3, <2>4, <2>5, <2>6 DEF TypeOK
<1>2. At' = At /\ ring_size' = ring_size
  BY DEF At, ring_size
<1>3. RingHonest'
  BY <1>2, RingKept
<1>4. ReadFresh' /\ FillFits'
  BY DEF IInv, TypeOK, RingType, SeekType, IoType, PlaceType, CallType, BgType, ReadFresh,
     FillFits, Reading, ring_space, Capacity
<1>5. EndHonest' /\ RingJoins'
  BY <1>2 DEF IInv, TypeOK, RingType, SeekType, IoType, PlaceType, CallType, BgType, EndHonest,
     RingJoins, Ended
<1>6. SeekOwned' /\ NobodyStuck'
  BY DEF IInv, TypeOK, RingType, SeekType, IoType, PlaceType, CallType, BgType, SeekOwned,
     Seeking, NobodyStuck
<1> QED
  BY <1>1, <1>3, <1>4, <1>5, <1>6 DEF IInv

LEMMA SeekBackwardsKeeps == ASSUME IInv, NEW target \in 0 .. Size + 1,
SeekBackwards(target) PROVE IInv'
<1> USE DEF SeekBackwards, seek, io, fill
<1>a. /\ logical_pos \in 0 .. Size /\ read_pos \in 0 .. Backwards /\ Len(fifo) \in Nat
      /\ read_pos <= Len(fifo)
  BY LenProperties DEF IInv, TypeOK, PlaceType, RingType
<1>b. target \in 0 .. Size /\ read_pos' \in 0 .. Backwards /\ read_pos' <= Len(fifo)
  BY <1>a DEF IsShort
<1>1. TypeOK'
  <2>1. RingType'
    BY <1>b DEF IInv, TypeOK, RingType, Capacity
  <2>2. SeekType'
    BY DEF IInv, TypeOK, SeekType
  <2>3. IoType'
    BY DEF IInv, TypeOK, IoType
  <2>4. PlaceType'
    BY <1>b DEF IInv, TypeOK, PlaceType
  <2>5. CallType'
    BY <1>b DEF IInv, TypeOK, CallType
  <2>6. BgType'
    BY DEF IInv, TypeOK, BgType
  <2> QED
    BY <2>1, <2>2, <2>3, <2>4, <2>5, <2>6 DEF TypeOK
<1>2. /\ At = logical_pos /\ At' = target
      /\ At' - read_pos' = At - read_pos /\ At' + ring_size' = At + ring_size
  BY <1>a, <1>b DEF At, ring_size
<1>3. RingHonest'
  <2>1. ASSUME ~abort_request, NEW i \in 1 .. Len(fifo)
        PROVE  fifo[i] = At' - read_pos' + i - 1
    BY <1>2, <2>1 DEF IInv, RingHonest
  <2> QED
    BY <2>1 DEF RingHonest
<1>4. ReadFresh' /\ FillFits'
  BY DEF IInv, TypeOK, RingType, SeekType, IoType, PlaceType, CallType, BgType, ReadFresh,
     FillFits, Reading, ring_space, Capacity
<1>5. EndHonest' /\ RingJoins'
  BY <1>2 DEF IInv, TypeOK, RingType, SeekType, IoType, PlaceType, CallType, BgType, EndHonest,
     RingJoins, Ended
<1>6. SeekOwned' /\ NobodyStuck'
  BY DEF IInv, TypeOK, RingType, SeekType, IoType, PlaceType, CallType, BgType, SeekOwned,
     Seeking, NobodyStuck
<1> QED
  BY <1>1, <1>3, <1>4, <1>5, <1>6 DEF IInv

LEMMA SeekRefusedKeeps == ASSUME IInv, NEW target \in 0 .. Size + 1,
SeekRefused(target) PROVE IInv'
<1> USE DEF SeekRefused, ring, seek, io, fill
<1>1. TypeOK'
  <2>1. RingType'
    BY DEF IInv, TypeOK, RingType, Capacity
  <2>2. SeekType'
    BY DEF IInv, TypeOK, SeekType
  <2>3. IoType'
    BY DEF IInv, TypeOK, IoType
  <2>4. PlaceType'
    BY DEF IInv, TypeOK, PlaceType
  <2>5. CallType'
    BY DEF IInv, TypeOK, PlaceType, CallType
  <2>6. BgType'
    BY DEF IInv, TypeOK, BgType
  <2> QED
    BY <2>1, <2>2, <2>3, <2>4, <2>5, <2>6 DEF TypeOK
<1>2. At' = At /\ ring_size' = ring_size
  BY DEF At, ring_size
<1>3. RingHonest'
  BY <1>2, RingKept
<1>4. ReadFresh' /\ FillFits'
  BY DEF IInv, TypeOK, RingType, SeekType, IoType, PlaceType, CallType, BgType, ReadFresh,
     FillFits, Reading, ring_space, Capacity
<1>5. EndHonest' /\ RingJoins'
  BY <1>2 DEF IInv, TypeOK, RingType, SeekType, IoType, PlaceType, CallType, BgType, EndHonest,
     RingJoins, Ended
<1>6. SeekOwned' /\ NobodyStuck'
  BY DEF IInv, TypeOK, RingType, SeekType, IoType, PlaceType, CallType, BgType, SeekOwned,
     Seeking, NobodyStuck
<1> QED
  BY <1>1, <1>3, <1>4, <1>5, <1>6 DEF IInv

LEMMA SeekFarKeeps == ASSUME IInv, NEW target \in 0 .. Size + 1, SeekFar(target) PROVE IInv'
<1> USE DEF SeekFar, ring, seek, io, fill
<1>a. target <= Size
  BY DEF IInv, TypeOK, PlaceType
<1>1. TypeOK'
  <2>1. RingType'
    BY DEF IInv, TypeOK, RingType, Capacity
  <2>2. SeekType'
    BY DEF IInv, TypeOK, SeekType
  <2>3. IoType'
    BY DEF IInv, TypeOK, IoType
  <2>4. PlaceType'
    BY DEF IInv, TypeOK, PlaceType
  <2>5. CallType'
    BY DEF IInv, TypeOK, CallType
  <2>6. BgType'
    BY DEF IInv, TypeOK, BgType
  <2> QED
    BY <2>1, <2>2, <2>3, <2>4, <2>5, <2>6 DEF TypeOK
<1>2. At' = At /\ ring_size' = ring_size
  BY DEF At, ring_size
<1>3. RingHonest'
  BY <1>2, RingKept
<1>4. ReadFresh' /\ FillFits'
  BY <1>a DEF IInv, TypeOK, RingType, SeekType, IoType, PlaceType, CallType, BgType, ReadFresh,
     FillFits, Reading, ring_space, Capacity
<1>5. EndHonest' /\ RingJoins'
  BY <1>2 DEF IInv, TypeOK, RingType, SeekType, IoType, PlaceType, CallType, BgType, EndHonest,
     RingJoins, Ended
<1>6. SeekOwned' /\ NobodyStuck'
  BY DEF IInv, TypeOK, RingType, SeekType, IoType, PlaceType, CallType, BgType, SeekOwned,
     Seeking, NobodyStuck
<1> QED
  BY <1>1, <1>3, <1>4, <1>5, <1>6 DEF IInv

LEMMA SeekAskKeeps == ASSUME IInv, SeekAsk PROVE IInv'
<1> USE DEF SeekAsk, Interrupted, BgWoken, Return, ring, io, fill
<1>a. to_read \in 0 .. Size /\ 0 \in 0 .. Size
  BY DEF IInv, TypeOK, CallType, ReadFresh
<1>1. TypeOK'
  <2>1. RingType'
    BY DEF IInv, TypeOK, RingType, Capacity
  <2>2. SeekType'
    BY <1>a DEF IInv, TypeOK, SeekType
  <2>3. IoType'
    BY DEF IInv, TypeOK, IoType
  <2>4. PlaceType'
    BY DEF IInv, TypeOK, PlaceType
  <2>5. CallType'
    BY DEF IInv, TypeOK, CallType
  <2>6. BgType'
    BY DEF IInv, TypeOK, BgType
  <2> QED
    BY <2>1, <2>2, <2>3, <2>4, <2>5, <2>6 DEF TypeOK
<1>2. At' = At /\ ring_size' = ring_size
  BY DEF At, ring_size
<1>3. RingHonest'
  BY <1>2, RingKept
<1>4. ReadFresh' /\ FillFits'
  BY DEF IInv, TypeOK, RingType, SeekType, IoType, PlaceType, CallType, BgType, ReadFresh,
     FillFits, Reading, ring_space, Capacity
<1>5. EndHonest' /\ RingJoins'
  BY <1>2 DEF IInv, TypeOK, RingType, SeekType, IoType, PlaceType, CallType, BgType, EndHonest,
     RingJoins, Ended
<1>6. SeekOwned' /\ NobodyStuck'
  BY DEF IInv, TypeOK, RingType, SeekType, IoType, PlaceType, CallType, BgType, SeekOwned,
     Seeking, NobodyStuck
<1> QED
  BY <1>1, <1>3, <1>4, <1>5, <1>6 DEF IInv

LEMMA SeekLookKeeps == ASSUME IInv, SeekLook PROVE IInv'
<1> USE DEF SeekLook, Interrupted, BgWoken, ring, seek, io, fill
<1>a. ret' \in {EOF} \cup Nat \cup Errors /\ logical_pos' \in 0 .. Size
  BY DEF IInv, TypeOK, SeekType, PlaceType, CallType
<1>1. TypeOK'
  <2>1. RingType'
    BY DEF IInv, TypeOK, RingType, Capacity
  <2>2. SeekType'
    BY DEF IInv, TypeOK, SeekType
  <2>3. IoType'
    BY DEF IInv, TypeOK, IoType
  <2>4. PlaceType'
    BY <1>a DEF IInv, TypeOK, PlaceType
  <2>5. CallType'
    BY <1>a DEF IInv, TypeOK, CallType
  <2>6. BgType'
    BY DEF IInv, TypeOK, BgType
  <2> QED
    BY <2>1, <2>2, <2>3, <2>4, <2>5, <2>6 DEF TypeOK
<1>2. ring_size' = ring_size /\ (~abort_request' => At' = At)
  BY DEF At, ring_size
<1>3. RingHonest'
  BY <1>2, RingKept DEF RingHonest
<1>4. ReadFresh' /\ FillFits'
  BY DEF IInv, TypeOK, RingType, SeekType, IoType, PlaceType, CallType, BgType, ReadFresh,
     FillFits, Reading, ring_space, Capacity
<1>5. EndHonest' /\ RingJoins'
  BY <1>2 DEF IInv, TypeOK, RingType, SeekType, IoType, PlaceType, CallType, BgType, EndHonest,
     RingJoins, Ended
<1>6. SeekOwned' /\ NobodyStuck'
  BY DEF IInv, TypeOK, RingType, SeekType, IoType, PlaceType, CallType, BgType, SeekOwned,
     Seeking, NobodyStuck
<1> QED
  BY <1>1, <1>3, <1>4, <1>5, <1>6 DEF IInv

LEMMA CloseStartKeeps == ASSUME IInv, CloseStart PROVE IInv'
<1> USE DEF CloseStart, BgWoken, ring, seek, io, call, fill
<1>1. TypeOK'
  <2>1. RingType'
    BY DEF IInv, TypeOK, RingType, Capacity
  <2>2. SeekType'
    BY DEF IInv, TypeOK, SeekType
  <2>3. IoType'
    BY DEF IInv, TypeOK, IoType
  <2>4. PlaceType'
    BY DEF IInv, TypeOK, PlaceType
  <2>5. CallType'
    BY DEF IInv, TypeOK, CallType
  <2>6. BgType'
    BY DEF IInv, TypeOK, BgType
  <2> QED
    BY <2>1, <2>2, <2>3, <2>4, <2>5, <2>6 DEF TypeOK
<1>2. abort_request'
  OBVIOUS
<1>3. RingHonest'
  BY <1>2 DEF RingHonest
<1>4. ReadFresh' /\ FillFits'
  BY DEF IInv, TypeOK, RingType, SeekType, IoType, PlaceType, CallType, BgType, ReadFresh,
     FillFits, Reading, ring_space, Capacity
<1>5. EndHonest' /\ RingJoins'
  BY <1>2 DEF IInv, TypeOK, RingType, SeekType, IoType, PlaceType, CallType, BgType, EndHonest,
     RingJoins, Ended
<1>6. SeekOwned' /\ NobodyStuck'
  BY DEF IInv, TypeOK, RingType, SeekType, IoType, PlaceType, CallType, BgType, SeekOwned,
     Seeking, NobodyStuck
<1> QED
  BY <1>1, <1>3, <1>4, <1>5, <1>6 DEF IInv

LEMMA CloseJoinKeeps == ASSUME IInv, CloseJoin PROVE IInv'
<1> USE DEF CloseJoin, ring, seek, io, call, fill
<1>1. TypeOK'
  <2>1. RingType'
    BY DEF IInv, TypeOK, RingType, Capacity
  <2>2. SeekType'
    BY DEF IInv, TypeOK, SeekType
  <2>3. IoType'
    BY DEF IInv, TypeOK, IoType
  <2>4. PlaceType'
    BY DEF IInv, TypeOK, PlaceType
  <2>5. CallType'
    BY DEF IInv, TypeOK, CallType
  <2>6. BgType'
    BY DEF IInv, TypeOK, BgType
  <2> QED
    BY <2>1, <2>2, <2>3, <2>4, <2>5, <2>6 DEF TypeOK
<1>2. At' = At /\ ring_size' = ring_size
  BY DEF At, ring_size
<1>3. RingHonest'
  BY <1>2, RingKept
<1>4. ReadFresh' /\ FillFits'
  BY DEF IInv, TypeOK, RingType, SeekType, IoType, PlaceType, CallType, BgType, ReadFresh,
     FillFits, Reading, ring_space, Capacity
<1>5. EndHonest' /\ RingJoins'
  BY <1>2 DEF IInv, TypeOK, RingType, SeekType, IoType, PlaceType, CallType, BgType, EndHonest,
     RingJoins, Ended
<1>6. SeekOwned' /\ NobodyStuck'
  BY DEF IInv, TypeOK, RingType, SeekType, IoType, PlaceType, CallType, BgType, SeekOwned,
     Seeking, NobodyStuck
<1> QED
  BY <1>1, <1>3, <1>4, <1>5, <1>6 DEF IInv

LEMMA InterruptKeeps == ASSUME IInv, Interrupt PROVE IInv'
<1> USE DEF Interrupt, ring, seek, io, call, fill
<1>1. TypeOK'
  <2>1. RingType'
    BY DEF IInv, TypeOK, RingType, Capacity
  <2>2. SeekType'
    BY DEF IInv, TypeOK, SeekType
  <2>3. IoType'
    BY DEF IInv, TypeOK, IoType
  <2>4. PlaceType'
    BY DEF IInv, TypeOK, PlaceType
  <2>5. CallType'
    BY DEF IInv, TypeOK, CallType
  <2>6. BgType'
    BY DEF IInv, TypeOK, BgType
  <2> QED
    BY <2>1, <2>2, <2>3, <2>4, <2>5, <2>6 DEF TypeOK
<1>2. At' = At /\ ring_size' = ring_size
  BY DEF At, ring_size
<1>3. RingHonest'
  BY <1>2, RingKept
<1>4. ReadFresh' /\ FillFits'
  BY DEF IInv, TypeOK, RingType, SeekType, IoType, PlaceType, CallType, BgType, ReadFresh,
     FillFits, Reading, ring_space, Capacity
<1>5. EndHonest' /\ RingJoins'
  BY <1>2 DEF IInv, TypeOK, RingType, SeekType, IoType, PlaceType, CallType, BgType, EndHonest,
     RingJoins, Ended
<1>6. SeekOwned' /\ NobodyStuck'
  BY DEF IInv, TypeOK, RingType, SeekType, IoType, PlaceType, CallType, BgType, SeekOwned,
     Seeking, NobodyStuck
<1> QED
  BY <1>1, <1>3, <1>4, <1>5, <1>6 DEF IInv

LEMMA NextKeeps == ASSUME IInv, [Next]_vars PROVE IInv'
<1>1. CASE UNCHANGED vars
  BY <1>1 DEF vars, ring, seek, io, call, fill, IInv, TypeOK, RingType, SeekType, IoType,
     PlaceType,
     CallType, BgType, ReadFresh, FillFits, EndHonest, SeekOwned, RingHonest, RingJoins,
     NobodyStuck, Reading, Seeking, Ended, At, ring_size, ring_space
<1>2. CASE Bg
  BY <1>2, BgExitKeeps, BgSeekStartKeeps, BgWaitKeeps, BgFillKeeps, FillEndKeeps DEF Bg
<1>3. CASE BgSeekEnd
  BY <1>3, BgSeekEndKeeps
<1>4. CASE FillAnswered
  BY <1>4, FillStopKeeps, FillPieceKeeps DEF FillAnswered
<1>5. CASE Loop
  BY <1>5, LoopExitKeeps, LoopCopyKeeps, LoopEndKeeps, LoopWaitKeeps, SeekAskKeeps, SeekLookKeeps,
     CloseJoinKeeps DEF Loop
<1>6. CASE Call
  BY <1>6, StartReadKeeps, SeekForwardsKeeps, SeekBackwardsKeeps, SeekRefusedKeeps, SeekFarKeeps,
     CloseStartKeeps DEF Call
<1>7. CASE Interrupt
  BY <1>7, InterruptKeeps
<1> QED
  BY <1>1, <1>2, <1>3, <1>4, <1>5, <1>6, <1>7 DEF Next

\* The ring holds the bytes around the reader's position, also while a read, a fill or a
\* seek is half done (async_read_internal, async_buffer_task).
THEOREM AlwaysIInv == Spec => []IInv
<1>1. Init => IInv
  BY InitIInv
<1>2. IInv /\ [Next]_vars => IInv'
  BY NextKeeps
<1> QED
  BY <1>1, <1>2, PTL DEF Spec

\* Every variable keeps its type, and the ring its capacity (ijkasync.c:91).
THEOREM TypeCorrect == Spec => []TypeOK
<1>1. IInv => TypeOK
  BY DEF IInv
<1> QED
  BY <1>1, AlwaysIInv, PTL

\* The byte a reader gets next is the byte at its position, for every file, ring and order of
\* calls, fills and failures (ijkasync.c:250, :407, :487).
THEOREM RingNeverSlips == Spec => []RingHonest
<1>1. IInv => RingHonest
  BY DEF IInv
<1> QED
  BY <1>1, AlwaysIInv, PTL

\* Reader and background thread never sleep waiting for each other (ijkasync.c:262, :426, :521).
THEOREM NeverBothAsleep == Spec => []NobodyStuck
<1>1. IInv => NobodyStuck
  BY DEF IInv
<1> QED
  BY <1>1, AlwaysIInv, PTL
-----------------------------------------------------------------------------
(* The protocol implements a plain seekable stream. *)

LEMMA InitImplements == Init => Stream!Init
  BY DEF Init, Stream!Init

\* A read hands over what follows the position.
LEMMA CopyImplements == ASSUME IInv, LoopCopy PROVE Stream!Next
<1> DEFINE n == Smaller(to_read, ring_size)
<1>1. /\ n \in 1 .. ring_size /\ ring_size \in Nat /\ n \in Nat /\ logical_pos \in Nat
  BY LenProperties DEF LoopCopy, Smaller, IInv, TypeOK, RingType, CallType, PlaceType, ReadFresh,
     Reading, ring_size
<1>2. /\ SubSeq(fifo, read_pos + 1, read_pos + n) = [i \in 1 .. n |-> logical_pos + i - 1]
      /\ logical_pos + n <= Size
  BY <1>1, BytesRead DEF LoopCopy, Interrupted
<1>3. logical_pos' = logical_pos + n /\ reading \in {"read", "skip"}
  BY DEF LoopCopy, IInv, TypeOK, CallType
<1>4. CASE reading = "read"
  <2>1. dest' = [i \in 1 .. n |-> logical_pos + i - 1] /\ ret' = n
    BY <1>2, <1>4 DEF LoopCopy, Return
  <2>2. n \in 1 .. Size - logical_pos
    BY <1>1, <1>2
  <2> HIDE DEF n
  <2>3. Stream!Read
    BY <1>3, <2>1, <2>2 DEF Stream!Read
  <2> QED
    BY <2>3 DEF Stream!Next
<1>5. CASE reading = "skip"
  <2>1. dest' = dest
    BY <1>5 DEF LoopCopy
  <2>2. ret' = logical_pos' \/ UNCHANGED ret
    BY <1>5 DEF LoopCopy
  <2> HIDE DEF n
  <2>4. logical_pos' \in logical_pos + 1 .. Size /\ logical_pos' \in 0 .. Size
    BY <1>1, <1>2, <1>3
  <2> QED
    BY <2>1, <2>2, <2>4 DEF Stream!Skip, Stream!Seek, Stream!Next
<1> QED
  BY <1>3, <1>4, <1>5

\* A call that cannot copy fails, or ends a skip where it got; "end of file" is true.
LEMMA EndImplements == ASSUME IInv, LoopExit \/ LoopEnd PROVE Stream!Next
<1>1. /\ UNCHANGED <<logical_pos, dest>> /\ logical_pos \in 0 .. Size
      /\ reading = "read" => ret = 0 /\ dest = <<>>
  BY DEF LoopExit, LoopEnd, IInv, TypeOK, PlaceType, ReadFresh, Reading
<1>2. CASE reading # "read"
  <2>1. ret' = logical_pos
    BY <1>2 DEF LoopExit, LoopEnd, Answer
  <2> QED
    BY <1>1, <2>1 DEF Stream!Seek, Stream!Next
<1>3. CASE reading = "read" /\ LoopExit
  BY <1>1, <1>3 DEF LoopExit, Answer, Stream!ReadFails, Stream!Next
<1>4. CASE reading = "read" /\ LoopEnd
  <2>1. ret' = IF io_error # 0 THEN io_error ELSE EOF
    BY <1>1, <1>4 DEF LoopEnd, Answer
  <2>a. UNCHANGED logical_pos /\ dest' = <<>>
    BY <1>1, <1>4
  <2>2. CASE io_error \in Errors
    <3>1. ret' \in Errors
      BY <2>1, <2>2
    <3> QED
      BY <2>a, <3>1 DEF Stream!ReadFails, Stream!Next
  <2>3. CASE io_error \in {0, EOF}
    <3>1. io_eof_reached /\ ~abort_request /\ main_at = "loop" /\ ring_size <= 0
      BY <1>4 DEF LoopEnd, Interrupted
    <3>2. ~Ended
      BY <2>3 DEF Ended
    <3>3. inner_pos = Size /\ At + ring_size = inner_pos
      BY <3>1, <3>2 DEF IInv, EndHonest, RingJoins
    <3>4. ring_size \in Nat
      BY LenProperties DEF ring_size, IInv, TypeOK, RingType
    <3>5. logical_pos = Size
      BY <1>1, <3>1, <3>3, <3>4 DEF At
    <3>6. ret' = EOF
      BY <2>1, <2>3
    <3> QED
      BY <2>a, <3>5, <3>6 DEF Stream!ReadFails, Stream!Next
  <2> QED
    BY <2>2, <2>3 DEF IInv, TypeOK, IoType
<1> QED
  BY <1>2, <1>3, <1>4

LEMMA SeekImplements ==
  ASSUME IInv, SeekAsk \/ SeekLook, ~UNCHANGED <<logical_pos, dest, ret>>
  PROVE  Stream!Next
<1>1. UNCHANGED dest
  BY DEF SeekAsk, SeekLook
<1>2. CASE SeekAsk
  BY <1>1, <1>2 DEF SeekAsk, Stream!SeekFails, Stream!Next
<1>3. CASE SeekLook
  <2>1. \/ ret' = EXIT /\ UNCHANGED logical_pos
        \/ ret' = seek_ret /\ logical_pos' = IF seek_ret >= 0 THEN seek_ret ELSE logical_pos
    BY <1>1, <1>3 DEF SeekLook
  <2>2. seek_ret \in (0 .. Size) \cup Errors
    BY DEF IInv, TypeOK, SeekType
  <2> QED
    BY <1>1, <2>1, <2>2 DEF Stream!SeekFails, Stream!Seek, Stream!Next
<1> QED
  BY <1>2, <1>3

LEMMA CallImplements ==
  ASSUME IInv, Call, ~UNCHANGED <<logical_pos, dest, ret>>
  PROVE  Stream!Next
<1>1. logical_pos \in 0 .. Size
  BY DEF IInv, TypeOK, PlaceType
<1>2. CASE \E n \in 1 .. MaxRead : StartRead(n)
  BY <1>2 DEF StartRead, Stream!Begin, Stream!Next
<1>3. ASSUME NEW t \in 0 .. Size + 1,
             SeekForwards(t) \/ SeekBackwards(t) \/ SeekRefused(t) \/ SeekFar(t)
      PROVE  Stream!Next
  <2>1. CASE SeekForwards(t)
    BY <2>1 DEF SeekForwards, Stream!Begin, Stream!Next
  <2>2. CASE SeekBackwards(t)
    <3>1. logical_pos' = t /\ ret' = t /\ UNCHANGED dest /\ t < logical_pos
      BY <2>2 DEF SeekBackwards
    <3>2. t \in 0 .. Size
      BY <1>1, <3>1
    <3> QED
      BY <3>1, <3>2 DEF Stream!Seek, Stream!Next
  <2>3. CASE SeekRefused(t)
    BY <1>1, <2>3 DEF SeekRefused, call, Stream!Seek, Stream!SeekFails, Stream!Next
  <2>4. CASE SeekFar(t)
    BY <2>4 DEF SeekFar
  <2> QED
    BY <1>3, <2>1, <2>2, <2>3, <2>4
<1>4. CASE CloseStart
  BY <1>4 DEF CloseStart, call
<1> QED
  BY <1>2, <1>3, <1>4 DEF Call

LEMMA NextImplements == ASSUME IInv, [Next]_vars PROVE [Stream!Next]_(Stream!streamVars)
<1>1. CASE UNCHANGED vars
  BY <1>1 DEF vars, call, Stream!streamVars
<1>2. CASE Bg \/ BgSeekEnd \/ FillAnswered \/ LoopWait \/ CloseJoin \/ Interrupt
  BY <1>2 DEF Bg, BgExit, BgSeekStart, BgWait, BgFill, FillEnd, BgSeekEnd, FillAnswered, FillStop,
     FillPiece, LoopWait, CloseJoin, Interrupt, call, Stream!streamVars
<1>3. CASE LoopCopy \/ LoopExit \/ LoopEnd
  BY <1>3, CopyImplements, EndImplements
<1>4. CASE SeekAsk \/ SeekLook
  BY <1>4, SeekImplements DEF Stream!streamVars
<1>5. CASE Call
  BY <1>5, CallImplements DEF Stream!streamVars
<1> QED
  BY <1>1, <1>2, <1>3, <1>4, <1>5 DEF Next, Loop

\* Whatever the threads, the network and the player do, a reader sees a ByteStream: right bytes,
\* honest positions, and no end of file before the end (ijkasync.c:388, :445).
THEOREM IsAStream == Spec => ImplementsStream
<1>1. Init => Stream!Init
  BY InitImplements
<1>2. IInv /\ [Next]_vars => [Stream!Next]_(Stream!streamVars)
  BY NextImplements
<1> QED
  BY <1>1, <1>2, AlwaysIInv, PTL DEF Spec, ImplementsStream, Stream!Spec
=============================================================================
