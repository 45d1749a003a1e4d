--------------------------- MODULE DecodingProofs ---------------------------
(***************************************************************************)
(* Theorems about Decoding (first part), for rings of any size, decoders   *)
(* that hold back any number of packets, files of any length and any       *)
(* number of seeks, pauses and discontinuities; and about UrlHook (second  *)
(* part), whose protocols the packets come from, for streams of any length *)
(* and any connections, interrupts and pauses.                             *)
(***************************************************************************)
EXTENDS Decoding, UrlHook, TLAPS


-----------------------------------------------------------------------------
(* The ring: the frame in use is the one shown last, which stays in the    *)
(* ring until the next is taken.                                           *)

\* The slots from rindex to windex are the ring's frames.
RingShape(f) ==
  /\ f.rindex_shown <= f.size
  /\ f.windex = IF f.rindex + f.size < RingSize THEN f.rindex + f.size
                ELSE f.rindex + f.size - RingSize

RingInv(s) ==
  /\ RingShape(ring[s])
  /\ dec_at[s] = "fill" => ring[s].size < RingSize
  /\ InUse(s) => used[s] = ring[s].rindex /\ ring[s].rindex_shown = 1

-----------------------------------------------------------------------------
(* The serials: a packet queue holds the packets of one serial after those *)
(* of the one before, and what comes first under a new serial is a flush   *)
(* packet, which empties the library before anything else enters it.       *)

\* p is the serial of the packet taken last.
Ordered(q, p) ==
  /\ p <= q.serial
  /\ \A i \in 1 .. Len(q.packets) : p <= q.packets[i].serial /\ q.packets[i].serial <= q.serial
  /\ \A i, j \in 1 .. Len(q.packets) : i < j => q.packets[i].serial <= q.packets[j].serial
  /\ p # q.serial =>
       \A i \in 1 .. Len(q.packets) :
         q.packets[i].serial = q.serial /\ (i = 1 \/ q.packets[i - 1].serial # q.serial)
           => q.packets[i].what = "flush"

\* Packets of the current serial are under way when none was taken.
Supplied(q, p) ==
  \/ p = q.serial \/ q.abort_request
  \/ Len(q.packets) > 0 /\ q.packets[Len(q.packets)].serial = q.serial

FlushInHand(s) == dec_at[s] = "send" /\ pkt[s].what = "flush"

HeldHonest(s) ==
  pkt_serial[s] = Current(s) /\ ~FlushInHand(s) =>
    \A i \in 1 .. Len(codec[s].held) : codec[s].held[i] = Current(s)

GotHonest(s) == dec_at[s] \in {"room", "room_asleep", "fill"} => got[s] = pkt_serial[s]

SlotsHonest(s) == \A i \in Slot : ring[s].slot[i].serial = ring[s].slot[i].from

SerialInv(s) ==
  /\ Ordered(queue[s], pkt_serial[s])
  /\ read_at # [at |-> "put", of |-> s] => Supplied(queue[s], pkt_serial[s])
  /\ finished[s] <= pkt_serial[s]
  /\ dec_at[s] = "send" => pkt[s].serial = pkt_serial[s]
  /\ HeldHonest(s) /\ GotHonest(s) /\ SlotsHonest(s)

-----------------------------------------------------------------------------
(* Stale frames: once one was put out, the frame in hand is counted or is  *)
(* of the current serial.                                                  *)

ToBePutOut(s) == IF s = "audio" THEN audio_left > 0 ELSE out_at[s] = "display"

StaleInv(s) ==
  /\ stale[s] <= 1
  /\ stale[s] = 1 /\ ToBePutOut(s) /\ fresh[s] => ring[s].slot[used[s]].serial = Current(s)

-----------------------------------------------------------------------------
(* The end: a null packet of the current serial is put when nothing is     *)
(* left to read, and no packet of that serial follows it.                  *)

Carries(q, i, what) == q.packets[i].what = what /\ q.packets[i].serial = q.serial
NullWaits(q) == \E i \in 1 .. Len(q.packets) : Carries(q, i, "null")
NoData(q) == \A i \in 1 .. Len(q.packets) : ~Carries(q, i, "data")
NullIsLast(q) == \A i, j \in 1 .. Len(q.packets) :
  i < j /\ Carries(q, i, "null") => ~Carries(q, j, "data")

\* The null packet has reached the decoder.
Drained(s) ==
  /\ pkt_serial[s] = Current(s)
  /\ \/ finished[s] = Current(s)
     \/ dec_at[s] = "send" /\ pkt[s].what = "null"
     \/ codec[s].draining /\ ~FlushInHand(s)

\* A seek has given the stream its new serial already, and another stream not yet.
FlushedAlready(s) == s = "audio" /\ read_at.at \in {"flush", "put"} /\ read_at.of = "video"

EndInv(s) ==
  /\ Current(s) > 0
  /\ ~Aborted(s) =>
       /\ NullWaits(queue[s]) \/ Drained(s) => ~FlushedAlready(s) /\ \A t \in Streams : unread[t] = 0
       /\ NullIsLast(queue[s])
       /\ Drained(s) => NoData(queue[s])
  /\ finished[s] = Current(s) =>
       codec[s].held = <<>> /\ dec_at[s] \in {"decode", "get_asleep", "ended"}

\* The queues are aborted once stream_close has begun.
QueuesOpen == \A s \in Streams : Aborted(s) <=> close_at \notin {"open", "abort"}

RingsInv == \A s \in Streams : RingInv(s)
SerialsInv == \A s \in Streams : SerialInv(s)
StalesInv == \A s \in Streams : StaleInv(s)
EndsInv == \A s \in Streams : EndInv(s)

-----------------------------------------------------------------------------
(* What the operators on queues do.                                        *)

LEMMA TheStreams ==
  ASSUME TypeOK
  PROVE  Streams \subseteq {"audio", "video"} /\ First \in Streams /\ file \in [Streams -> Nat]
<1>1. file \in Files
  BY DEF TypeOK
<1>2. Streams = DOMAIN file
  BY DEF Streams
<1> QED
  BY <1>1, <1>2, FilesAssumption DEF First

LEMMA AppendIs ==
  ASSUME NEW S, NEW q \in Seq(S), NEW p \in S
  PROVE  /\ Append(q, p) \in Seq(S) /\ Len(Append(q, p)) = Len(q) + 1 /\ Len(q) \in Nat
         /\ Append(q, p)[Len(q) + 1] = p
         /\ \A i \in 1 .. Len(q) : Append(q, p)[i] = q[i]
  OBVIOUS

LEMMA AppendAll ==
  ASSUME NEW S, NEW q \in Seq(S), NEW p \in S, \A i \in 1 .. Len(q) : q[i] = p
  PROVE  \A i \in 1 .. Len(Append(q, p)) : Append(q, p)[i] = p
<1> DEFINE n == Len(q)
           a == Append(q, p)
<1>1. n \in Nat /\ Len(a) = n + 1 /\ a[n + 1] = p /\ \A i \in 1 .. n : a[i] = q[i]
  BY AppendIs
<1>2. \A i \in 1 .. n : q[i] = p
  OBVIOUS
<1> HIDE DEF n, a
<1>3. \A i \in 1 .. Len(a) : a[i] = p
  BY <1>1, <1>2
<1> QED
  BY <1>3 DEF a

LEMMA TailIs ==
  ASSUME NEW S, NEW q \in Seq(S), q # <<>>
  PROVE  /\ Tail(q) \in Seq(S) /\ Len(Tail(q)) = Len(q) - 1 /\ Len(q) \in Nat /\ Len(q) > 0
         /\ Head(q) = q[1] /\ Head(q) \in S
         /\ \A i \in 1 .. Len(q) - 1 : Tail(q)[i] = q[i + 1]
  OBVIOUS

\* A put counts the serial up when it is a flush packet's, and stamps it.
LEMMA PutIs ==
  ASSUME NEW q \in PacketQueue, NEW what \in {"flush", "data", "null"},
         NEW serial, serial = IF what = "flush" THEN q.serial + 1 ELSE q.serial
  PROVE  /\ packet_queue_put(q, what) \in PacketQueue
         /\ packet_queue_put(q, what).abort_request = q.abort_request
         /\ q.abort_request => packet_queue_put(q, what) = q
         /\ ~q.abort_request =>
              /\ packet_queue_put(q, what).serial = serial
              /\ packet_queue_put(q, what).packets = Append(q.packets, [what |-> what, serial |-> serial])
<1>1. serial \in Nat /\ [what |-> what, serial |-> serial] \in Packet
  BY DEF PacketQueue, Packet
<1>2. Append(q.packets, [what |-> what, serial |-> serial]) \in Seq(Packet)
  BY <1>1, AppendIs DEF PacketQueue
<1>3. CASE q.abort_request
  BY <1>3 DEF packet_queue_put
<1>4. CASE ~q.abort_request
  <2> DEFINE ps == Append(q.packets, [what |-> what, serial |-> serial])
  <2>1. packet_queue_put(q, what) = [q EXCEPT !.serial = serial, !.packets = ps]
    BY <1>4 DEF packet_queue_put
  <2>2. ps \in Seq(Packet)
    BY <1>2
  <2> HIDE DEF ps
  <2>5. packet_queue_put(q, what) \in PacketQueue
    BY <1>1, <2>1, <2>2 DEF PacketQueue
  <2>6. /\ packet_queue_put(q, what).abort_request = q.abort_request
        /\ packet_queue_put(q, what).serial = serial
        /\ packet_queue_put(q, what).packets = ps
    BY <1>1, <2>1, <2>2 DEF PacketQueue
  <2> QED
    BY <1>4, <2>5, <2>6 DEF ps
<1> QED
  BY <1>3, <1>4

LEMMA FlushIs ==
  ASSUME NEW q \in PacketQueue
  PROVE  /\ packet_queue_flush(q) \in PacketQueue /\ packet_queue_flush(q).packets = <<>>
         /\ packet_queue_flush(q).serial = q.serial
         /\ packet_queue_flush(q).abort_request = q.abort_request
<1>1. <<>> \in Seq(Packet)
  OBVIOUS
<1> QED
  BY <1>1 DEF packet_queue_flush, PacketQueue

LEMMA AbortIs ==
  ASSUME NEW q \in PacketQueue
  PROVE  /\ packet_queue_abort(q) \in PacketQueue /\ packet_queue_abort(q).packets = q.packets
         /\ packet_queue_abort(q).serial = q.serial
         /\ packet_queue_abort(q).abort_request
  BY DEF packet_queue_abort, PacketQueue

LEMMA StartIs ==
  ASSUME NEW q, q = packet_queue_start(packet_queue_init)
  PROVE  /\ q \in PacketQueue /\ q.serial = 1 /\ ~q.abort_request
         /\ q.packets = <<[what |-> "flush", serial |-> 1]>>
<1> DEFINE p == [packet_queue_init EXCEPT !.abort_request = FALSE]
<1>1. p \in PacketQueue /\ p.serial = 0 /\ ~p.abort_request /\ p.packets = <<>>
  <2>1. <<>> \in Seq(Packet)
    OBVIOUS
  <2>2. packet_queue_init \in PacketQueue /\ packet_queue_init.serial = 0
        /\ packet_queue_init.packets = <<>>
    BY <2>1 DEF packet_queue_init, PacketQueue
  <2> QED
    BY <2>2 DEF PacketQueue
<1>2. q = packet_queue_put(p, "flush")
  BY DEF packet_queue_start
<1> HIDE DEF p
<1>3. Append(<<>>, [what |-> "flush", serial |-> 1]) = <<[what |-> "flush", serial |-> 1]>>
  OBVIOUS
<1> QED
  BY <1>1, <1>2, <1>3, PutIs

\* keep_last: the frame that was next is now the one shown last.
LEMMA NextIs ==
  ASSUME NEW f \in FrameQueue, RingShape(f), frame_queue_nb_remaining(f) > 0
  PROVE  /\ frame_queue_next(f) \in FrameQueue /\ RingShape(frame_queue_next(f))
         /\ frame_queue_next(f).rindex_shown = 1
         /\ frame_queue_next(f).rindex = frame_queue_peek(f)
         /\ frame_queue_next(f).size <= f.size
         /\ frame_queue_next(f).slot = f.slot
         /\ frame_queue_peek(f) \in Slot
<1> USE RingAssumption
<1>1. CASE f.rindex_shown = 0
  BY <1>1 DEF FrameQueue, Slot, RingShape, frame_queue_nb_remaining, frame_queue_next, frame_queue_peek
<1>2. CASE f.rindex_shown = 1
  <2>1. frame_queue_next(f) = [f EXCEPT !.rindex = Following(f.rindex), !.size = @ - 1]
    BY <1>2 DEF frame_queue_next
  <2>2. Following(f.rindex) \in Slot /\ f.size - 1 \in 0 .. RingSize
    BY <1>2 DEF FrameQueue, Slot, Following, frame_queue_nb_remaining
  <2>3. frame_queue_peek(f) = Following(f.rindex)
    BY <1>2 DEF frame_queue_peek
  <2>4. /\ frame_queue_next(f).rindex = Following(f.rindex)
        /\ frame_queue_next(f).size = f.size - 1
        /\ frame_queue_next(f).rindex_shown = 1
        /\ frame_queue_next(f).windex = f.windex /\ frame_queue_next(f).slot = f.slot
    BY <1>2, <2>1 DEF FrameQueue
  <2>5. frame_queue_next(f) \in FrameQueue
    <3>1. frame_queue_next(f) = [f EXCEPT !.rindex = Following(f.rindex), !.size = f.size - 1]
      BY <2>1 DEF FrameQueue
    <3> QED
      BY <2>2, <3>1 DEF FrameQueue
  <2>6. RingShape(frame_queue_next(f))
    <3>1. f.rindex \in 0 .. RingSize - 1 /\ f.size \in 2 .. RingSize
      BY <1>2 DEF FrameQueue, Slot, frame_queue_nb_remaining
    <3> QED
      BY <1>2, <2>4, <3>1 DEF RingShape, Following
  <2>7. frame_queue_next(f).size <= f.size
    BY <2>4 DEF FrameQueue
  <2> QED
    BY <2>2, <2>3, <2>4, <2>5, <2>6, <2>7
<1> QED
  BY <1>1, <1>2 DEF FrameQueue

\* A push fills the slot behind the ring's frames.
LEMMA PushIs ==
  ASSUME NEW f \in FrameQueue, RingShape(f), f.size < RingSize, NEW frame \in Frame
  PROVE  /\ frame_queue_push(f, frame) \in FrameQueue /\ RingShape(frame_queue_push(f, frame))
         /\ frame_queue_push(f, frame).rindex_shown = f.rindex_shown
         /\ frame_queue_push(f, frame).rindex = f.rindex
         /\ frame_queue_push(f, frame).slot = [f.slot EXCEPT ![f.windex] = frame]
<1> USE RingAssumption
<1>1. Following(f.windex) \in Slot /\ f.size + 1 \in 0 .. RingSize
  BY DEF FrameQueue, Slot, Following
<1>2. [f.slot EXCEPT ![f.windex] = frame] \in [Slot -> Frame]
  BY DEF FrameQueue
<1> DEFINE slots == [f.slot EXCEPT ![f.windex] = frame]
<1>3. frame_queue_push(f, frame)
        = [f EXCEPT !.slot = slots, !.windex = Following(f.windex), !.size = f.size + 1]
  BY DEF frame_queue_push, FrameQueue
<1>4. slots \in [Slot -> Frame]
  BY <1>2
<1> HIDE DEF slots
<1>5. frame_queue_push(f, frame) \in FrameQueue
  BY <1>1, <1>3, <1>4 DEF FrameQueue
<1>6. /\ frame_queue_push(f, frame).slot = slots
      /\ frame_queue_push(f, frame).rindex = f.rindex
      /\ frame_queue_push(f, frame).windex = Following(f.windex)
      /\ frame_queue_push(f, frame).size = f.size + 1
      /\ frame_queue_push(f, frame).rindex_shown = f.rindex_shown
  BY <1>3 DEF FrameQueue
<1>7. f.rindex \in 0 .. RingSize - 1 /\ f.size \in 0 .. RingSize - 1 /\ f.rindex_shown \in 0 .. 1
  BY DEF FrameQueue, Slot
<1>8. RingShape(frame_queue_push(f, frame))
  BY <1>6, <1>7 DEF RingShape, Following
<1> QED
  BY <1>5, <1>6, <1>8 DEF slots

LEMMA InitIs ==
  frame_queue_init \in FrameQueue /\ RingShape(frame_queue_init)
  BY RingAssumption DEF frame_queue_init, FrameQueue, RingShape, NoFrame, Frame, Slot

-----------------------------------------------------------------------------
(* Types and rings.                                                        *)

TypedRings == TypeOK /\ RingsInv

LEMMA StreamsStay == ASSUME file' = file PROVE Streams' = Streams
  BY DEF Streams

LEMMA InitTypes == ASSUME Init PROVE TypedRings
<1>1. Streams \subseteq {"audio", "video"} /\ file \in [Streams -> Nat] /\ Streams # {}
  BY FilesAssumption DEF Init, Streams
<1>2. queue \in [Streams -> PacketQueue] /\ ring \in [Streams -> FrameQueue]
  BY StartIs, InitIs DEF Init
<1>3. codec \in [Streams -> [held : Seq(Nat), draining : BOOLEAN]]
  <2>1. <<>> \in Seq(Nat)
    OBVIOUS
  <2>2. Emptied \in [held : Seq(Nat), draining : BOOLEAN]
    BY <2>1 DEF Emptied
  <2> QED
    BY <2>2 DEF Init
<1>4. pkt \in [Streams -> Packet]
  BY DEF Init, Packet
<1>5. used \in [Streams -> Slot]
  BY RingAssumption DEF Init, Slot
<1>6. read_at \in [at : {"reading", "flush", "put", "ended"}, of : Streams]
  BY <1>1 DEF Init
<1>7. TypeOK
  <2>1. dec_at \in [Streams -> DecoderAt] /\ out_at \in [Streams -> OutAt] /\ close_at \in CloseAt
    BY DEF Init, DecoderAt, OutAt, CloseAt
  <2>2. /\ pkt_serial \in [Streams -> Nat] /\ finished \in [Streams -> Nat] /\ got \in [Streams -> Nat]
        /\ stale \in [Streams -> Nat] /\ fresh \in [Streams -> BOOLEAN] /\ unread \in [Streams -> Nat]
    BY <1>1 DEF Init
  <2>3. audio_left \in 0 .. 2 /\ requests \in 0 .. MaxRequests /\ file \in Files
    BY BoundsAssumption DEF Init
  <2>4. seek_req \in BOOLEAN /\ eof \in BOOLEAN /\ completed \in BOOLEAN /\ paused \in BOOLEAN
    BY DEF Init
  <2> QED
    BY <1>2, <1>3, <1>4, <1>5, <1>6, <2>1, <2>2, <2>3, <2>4 DEF TypeOK
<1>8. RingsInv
  BY InitIs DEF Init, RingsInv, RingInv, InUse
<1> QED
  BY <1>7, <1>8 DEF TypedRings

\* What the library holds stays a sequence of serials.
LEMMA HeldTypes ==
  ASSUME NEW c \in [held : Seq(Nat), draining : BOOLEAN]
  PROVE  /\ Emptied \in [held : Seq(Nat), draining : BOOLEAN]
         /\ [c EXCEPT !.draining = TRUE] \in [held : Seq(Nat), draining : BOOLEAN]
         /\ \A n \in Nat : [c EXCEPT !.held = Append(@, n)] \in [held : Seq(Nat), draining : BOOLEAN]
         /\ c.held # <<>> => [c EXCEPT !.held = Tail(@)] \in [held : Seq(Nat), draining : BOOLEAN]
<1>1. <<>> \in Seq(Nat)
  OBVIOUS
<1>2. c.held \in Seq(Nat)
  OBVIOUS
<1>3. (\A n \in Nat : Append(c.held, n) \in Seq(Nat)) /\ (c.held # <<>> => Tail(c.held) \in Seq(Nat))
  BY <1>2, AppendIs, TailIs
<1>4. Emptied \in [held : Seq(Nat), draining : BOOLEAN]
  BY <1>1 DEF Emptied
<1>5. ASSUME NEW n \in Nat
      PROVE  [c EXCEPT !.held = Append(@, n)] \in [held : Seq(Nat), draining : BOOLEAN]
  BY <1>3
<1>6. c.held # <<>> => [c EXCEPT !.held = Tail(@)] \in [held : Seq(Nat), draining : BOOLEAN]
  BY <1>3
<1>7. [c EXCEPT !.draining = TRUE] \in [held : Seq(Nat), draining : BOOLEAN]
  OBVIOUS
<1> QED
  BY <1>4, <1>5, <1>6, <1>7

LEMMA ReceiveTypes ==
  ASSUME TypeOK, file' = file, NEW s \in Streams, receive_frame(s) \/ receive_end(s) \/ receive_aborted(s)
  PROVE  TypeOK'
<1>1. CASE receive_frame(s)
  <2>1. codec[s].held \in Seq(Nat) /\ codec[s].held # <<>>
    BY <1>1, BoundsAssumption DEF receive_frame, Ready, TypeOK
  <2>2. codec' \in [Streams -> [held : Seq(Nat), draining : BOOLEAN]]
    <3> DEFINE c == codec[s]
    <3>1. c \in [held : Seq(Nat), draining : BOOLEAN] /\ c.held # <<>>
      BY <2>1 DEF TypeOK
    <3>2. [c EXCEPT !.held = Tail(@)] \in [held : Seq(Nat), draining : BOOLEAN]
      <4> HIDE DEF c
      <4> QED
        BY <3>1, HeldTypes
    <3>3. codec' = [codec EXCEPT ![s] = [c EXCEPT !.held = Tail(@)]]
      BY <1>1 DEF receive_frame
    <3> QED
      BY <3>2, <3>3 DEF TypeOK
  <2>3. got' \in [Streams -> Nat]
    BY <1>1, <2>1, TailIs DEF receive_frame, TypeOK
  <2>4. dec_at' \in [Streams -> DecoderAt]
    BY <1>1 DEF receive_frame, get_video_frame, DecoderTo, DecoderAt, TypeOK
  <2> QED
    BY <1>1, <2>2, <2>3, <2>4, StreamsStay DEF receive_frame, outVars, readVars, TypeOK
<1>2. CASE receive_end(s)
  <2>1. Emptied \in [held : Seq(Nat), draining : BOOLEAN]
    BY HeldTypes DEF TypeOK
  <2>2. codec' \in [Streams -> [held : Seq(Nat), draining : BOOLEAN]] /\ finished' \in [Streams -> Nat]
    BY <1>2, <2>1 DEF receive_end, TypeOK
  <2> QED
    BY <1>2, <2>2, StreamsStay DEF receive_end, outVars, readVars, TypeOK
<1>3. CASE receive_aborted(s)
  BY <1>3, StreamsStay DEF receive_aborted, DecoderTo, DecoderAt, packetVars, outVars, readVars, TypeOK
<1> QED
  BY <1>1, <1>2, <1>3

\* A packet queue changed at one stream, or at all of them.
LEMMA QueueTypes ==
  ASSUME TypeOK, NEW s \in Streams, NEW q \in PacketQueue
  PROVE  [queue EXCEPT ![s] = q] \in [Streams -> PacketQueue]
  BY DEF TypeOK

LEMMA PacketTypes ==
  ASSUME TypeOK, file' = file, NEW s \in Streams,
         packet_queue_get(s) \/ get_waits(s) \/ send_packet(s)
  PROVE  TypeOK'
<1>1. CASE packet_queue_get(s)
  <2>1. queue[s] \in PacketQueue /\ queue[s].packets \in Seq(Packet) /\ queue[s].packets # <<>>
    BY <1>1 DEF packet_queue_get, TypeOK, PacketQueue
  <2>2. Head(queue[s].packets) \in Packet /\ Tail(queue[s].packets) \in Seq(Packet)
    BY <2>1, TailIs
  <2>3. [queue[s] EXCEPT !.packets = Tail(@)] \in PacketQueue
    BY <2>1, <2>2 DEF PacketQueue
  <2>4. queue' \in [Streams -> PacketQueue]
    BY <1>1, <2>3, QueueTypes DEF packet_queue_get
  <2>5. pkt' \in [Streams -> Packet] /\ pkt_serial' \in [Streams -> Nat]
    BY <1>1, <2>2 DEF packet_queue_get, TypeOK, Packet
  <2>6. dec_at' \in [Streams -> DecoderAt]
    BY <1>1 DEF packet_queue_get, DecoderTo, DecoderAt, TypeOK
  <2> QED
    BY <1>1, <2>4, <2>5, <2>6, StreamsStay DEF packet_queue_get, outVars, readVars, TypeOK
<1>2. CASE get_waits(s)
  <2>1. dec_at' \in [Streams -> DecoderAt]
    BY <1>2 DEF get_waits, DecoderTo, DecoderAt, TypeOK
  <2> QED
    BY <1>2, <2>1, StreamsStay DEF get_waits, packetVars, outVars, readVars, TypeOK
<1>3. CASE send_packet(s)
  <2> DEFINE C == [held : Seq(Nat), draining : BOOLEAN]
  <2>1. codec[s] \in C /\ pkt[s].serial \in Nat
    BY DEF TypeOK, Packet
  <2>2. Entered(codec[s], pkt[s]) \in C
    BY <2>1, HeldTypes DEF Entered
  <2>3. codec' \in [Streams -> C]
    <3>1. codec' = codec \/ codec' = [codec EXCEPT ![s] = Entered(codec[s], pkt[s])]
      BY <1>3 DEF send_packet
    <3> QED
      BY <2>2, <3>1 DEF TypeOK
  <2>4. finished' \in [Streams -> Nat] /\ dec_at' \in [Streams -> DecoderAt]
    <3>1. finished' = finished \/ finished' = [finished EXCEPT ![s] = 0]
      BY <1>3 DEF send_packet
    <3>2. dec_at' = [dec_at EXCEPT ![s] = "decode"]
      BY <1>3 DEF send_packet, DecoderTo
    <3>3. finished' \in [Streams -> Nat]
      <4>1. finished \in [Streams -> Nat]
        BY DEF TypeOK
      <4> QED
        BY <3>1, <4>1
    <3> QED
      BY <3>2, <3>3 DEF DecoderAt, TypeOK
  <2> QED
    BY <1>3, <2>3, <2>4, StreamsStay DEF send_packet, outVars, readVars, TypeOK
<1> QED
  BY <1>1, <1>2, <1>3

LEMMA PutFrameTypes ==
  ASSUME TypedRings, file' = file, NEW s \in Streams,
         frame_queue_peek_writable(s) \/ fill_frame(s) \/ (s = "video" /\ picture_aborted)
  PROVE  TypeOK'
<1> USE DEF TypedRings
<1>1. CASE frame_queue_peek_writable(s)
  <2>1. dec_at' \in [Streams -> DecoderAt]
    BY <1>1 DEF frame_queue_peek_writable, DecoderTo, DecoderAt, TypeOK
  <2> QED
    BY <1>1, <2>1, StreamsStay DEF frame_queue_peek_writable, packetVars, outVars, readVars, TypeOK
<1>2. CASE fill_frame(s)
  <2> DEFINE f == frame_queue_push(ring[s], [serial |-> pkt_serial[s], from |-> got[s]])
  <2>1. f \in FrameQueue
    BY <1>2, PushIs DEF fill_frame, RingsInv, RingInv, TypeOK, Frame
  <2>2. ring' = [ring EXCEPT ![s] = f]
    BY <1>2 DEF fill_frame
  <2>3. ring' \in [Streams -> FrameQueue]
    BY <2>1, <2>2 DEF TypeOK
  <2>4. dec_at' \in [Streams -> DecoderAt] /\ out_at' \in [Streams -> OutAt]
    BY <1>2 DEF fill_frame, DecoderAt, OutAt, TypeOK
  <2> QED
    BY <1>2, <2>3, <2>4, StreamsStay DEF fill_frame, packetVars, readVars, TypeOK
<1>3. CASE s = "video" /\ picture_aborted
  <2>1. dec_at' \in [Streams -> DecoderAt]
    BY <1>3 DEF picture_aborted, DecoderTo, DecoderAt, TypeOK
  <2> QED
    BY <1>3, <2>1, StreamsStay DEF picture_aborted, packetVars, outVars, readVars, TypeOK
<1> QED
  BY <1>1, <1>2, <1>3

LEMMA PutOutTypes ==
  ASSUME TypeOK, NEW s \in Streams, PutOut(s)
  PROVE  stale' \in [Streams -> Nat] /\ fresh' \in [Streams -> BOOLEAN]
<1>1. stale' = stale \/ stale' = [stale EXCEPT ![s] = @ + 1]
  BY DEF PutOut
<1>2. fresh' = fresh \/ fresh' = [fresh EXCEPT ![s] = FALSE]
  BY DEF PutOut
<1>3. stale' \in [Streams -> Nat]
  <2>1. stale \in [Streams -> Nat] /\ stale[s] + 1 \in Nat
    BY DEF TypeOK
  <2> QED
    BY <1>1, <2>1
<1> QED
  BY <1>2, <1>3 DEF TypeOK

LEMMA AudioOutTypes == ASSUME TypedRings, file' = file, AudioOut PROVE TypeOK'
<1> USE DEF TypedRings
<1>1. CASE frame_queue_peek_readable
  <2>1. "audio" \in Streams /\ ring["audio"] \in FrameQueue /\ RingShape(ring["audio"])
    BY <1>1 DEF frame_queue_peek_readable, Takes, TypeOK, RingsInv, RingInv
  <2>2. frame_queue_next(ring["audio"]) \in FrameQueue /\ frame_queue_peek(ring["audio"]) \in Slot
    BY <1>1, <2>1, NextIs DEF frame_queue_peek_readable
  <2>3. ring' \in [Streams -> FrameQueue] /\ used' \in [Streams -> Slot]
    BY <1>1, <2>1, <2>2 DEF frame_queue_peek_readable, TypeOK
  <2>4. dec_at' \in [Streams -> DecoderAt] /\ out_at' \in [Streams -> OutAt]
    BY <1>1, <2>1 DEF frame_queue_peek_readable, DecoderTo, OutTo, DecoderAt, OutAt, TypeOK
  <2> QED
    BY <1>1, <2>3, <2>4, StreamsStay DEF frame_queue_peek_readable, packetVars, readVars, TypeOK
<1>2. CASE readable_waits
  <2>1. out_at' \in [Streams -> OutAt]
    BY <1>2 DEF readable_waits, Takes, OutTo, OutAt, TypeOK
  <2> QED
    BY <1>2, <2>1, StreamsStay DEF readable_waits, packetVars, readVars, TypeOK
<1>3. CASE audio_decode_frame
  <2>1. out_at' \in [Streams -> OutAt] /\ audio_left' \in 0 .. 2 /\ fresh' \in [Streams -> BOOLEAN]
    <3>1. fresh' = fresh \/ fresh' = [fresh EXCEPT !["audio"] = TRUE]
      BY <1>3 DEF audio_decode_frame
    <3>2. audio_left' = audio_left \/ audio_left' \in 1 .. 2
      BY <1>3 DEF audio_decode_frame
    <3>3. out_at' = [out_at EXCEPT !["audio"] = "idle"]
      BY <1>3 DEF audio_decode_frame, OutTo
    <3>4. fresh' \in [Streams -> BOOLEAN]
      BY <3>1 DEF TypeOK
    <3>5. out_at' \in [Streams -> OutAt]
      BY <3>3 DEF OutAt, TypeOK
    <3> QED
      BY <3>2, <3>4, <3>5 DEF TypeOK
  <2> QED
    BY <1>3, <2>1, StreamsStay DEF audio_decode_frame, packetVars, readVars, TypeOK
<1>4. CASE sdl_audio_callback
  <2>1. audio_left' \in 0 .. 2
    BY SMTT(20), <1>4 DEF sdl_audio_callback, TypeOK
  <2>2. stale' \in [Streams -> Nat] /\ fresh' \in [Streams -> BOOLEAN]
    <3>1. UNCHANGED <<stale, fresh>> \/ PutOut("audio")
      BY <1>4 DEF sdl_audio_callback
    <3> QED
      BY <1>4, <3>1, PutOutTypes DEF TypeOK, sdl_audio_callback
  <2> QED
    BY <1>4, <2>1, <2>2, StreamsStay DEF sdl_audio_callback, packetVars, readVars, TypeOK
<1> QED
  BY <1>1, <1>2, <1>3, <1>4 DEF AudioOut

LEMMA VideoOutTypes == ASSUME TypedRings, file' = file, VideoOut PROVE TypeOK'
<1> USE DEF TypedRings
<1>1. CASE refresh_skips \/ refresh_picks
  <2>1. "video" \in Streams /\ ring["video"] \in FrameQueue /\ RingShape(ring["video"])
    BY <1>1 DEF refresh_skips, refresh_picks, Shows, TypeOK, RingsInv, RingInv
  <2>2. frame_queue_next(ring["video"]) \in FrameQueue
    BY <1>1, <2>1, NextIs DEF refresh_skips, refresh_picks, Shows
  <2>3. ring' = [ring EXCEPT !["video"] = frame_queue_next(@)]
    BY <1>1 DEF refresh_skips, refresh_picks
  <2>4. ring' \in [Streams -> FrameQueue] /\ frame_queue_peek_last(ring'["video"]) \in Slot
    BY <2>1, <2>2, <2>3 DEF TypeOK, frame_queue_peek_last, FrameQueue
  <2>5. used' \in [Streams -> Slot] /\ fresh' \in [Streams -> BOOLEAN]
    <3>1. used' = used \/ used' = [used EXCEPT !["video"] = frame_queue_peek_last(ring'["video"])]
      BY <1>1 DEF refresh_skips, refresh_picks, outVars
    <3>2. fresh' = fresh \/ fresh' = [fresh EXCEPT !["video"] = TRUE]
      BY <1>1 DEF refresh_skips, refresh_picks, outVars
    <3>3. fresh' \in [Streams -> BOOLEAN]
      BY <3>2 DEF TypeOK
    <3>4. used \in [Streams -> Slot]
      BY DEF TypeOK
    <3> QED
      BY <2>4, <3>1, <3>3, <3>4
  <2>6. dec_at' \in [Streams -> DecoderAt] /\ out_at' \in [Streams -> OutAt]
    <3>1. dec_at' = [dec_at EXCEPT !["video"] = IF @ = "room_asleep" THEN "room" ELSE @]
      BY <1>1 DEF refresh_skips, refresh_picks, DecoderTo
    <3>2. out_at' = out_at \/ out_at' = [out_at EXCEPT !["video"] = "display"]
      BY <1>1 DEF refresh_skips, refresh_picks, outVars, OutTo
    <3> QED
      BY <2>1, <3>1, <3>2 DEF DecoderAt, OutAt, TypeOK
  <2> QED
    BY <1>1, <2>4, <2>5, <2>6, StreamsStay
       DEF refresh_skips, refresh_picks, outVars, packetVars, readVars, TypeOK
<1>2. CASE video_image_display \/ refresh_ends
  <2>1. stale' \in [Streams -> Nat] /\ fresh' \in [Streams -> BOOLEAN] /\ out_at' \in [Streams -> OutAt]
    <3>1. UNCHANGED <<stale, fresh>> \/ PutOut("video")
      BY <1>2 DEF video_image_display, refresh_ends
    <3>2. PICK place \in OutAt : out_at' = [out_at EXCEPT !["video"] = place]
      BY <1>2 DEF video_image_display, refresh_ends, OutTo, OutAt
    <3>3. "video" \in Streams
      BY <1>2 DEF video_image_display, refresh_ends
    <3> QED
      BY <3>1, <3>2, <3>3, PutOutTypes DEF TypeOK
  <2> QED
    BY <1>2, <2>1, StreamsStay DEF video_image_display, refresh_ends, packetVars, readVars, TypeOK
<1> QED
  BY <1>1, <1>2 DEF VideoOut

\* A put to one queue, or to all of them.
LEMMA PutTypes ==
  ASSUME TypeOK, file' = file, NEW what \in {"flush", "data", "null"},
         (\E s \in Streams : Put(s, what)) \/ PutAll(what)
  PROVE  queue' \in [Streams -> PacketQueue] /\ dec_at' \in [Streams -> DecoderAt]
<1>1. \A s \in Streams : packet_queue_put(queue[s], what) \in PacketQueue /\ QueueSignal(s) \in DecoderAt
  <2> SUFFICES ASSUME NEW s \in Streams
               PROVE  packet_queue_put(queue[s], what) \in PacketQueue /\ QueueSignal(s) \in DecoderAt
    OBVIOUS
  <2> DEFINE serial == IF what = "flush" THEN queue[s].serial + 1 ELSE queue[s].serial
  <2>1. queue[s] \in PacketQueue /\ serial = IF what = "flush" THEN queue[s].serial + 1 ELSE queue[s].serial
    BY DEF TypeOK
  <2> HIDE DEF serial
  <2>2. packet_queue_put(queue[s], what) \in PacketQueue
    BY <2>1, PutIs
  <2> QED
    BY <2>2 DEF TypeOK, QueueSignal, DecoderAt
<1>2. ASSUME NEW s \in Streams, Put(s, what)
      PROVE  queue' \in [Streams -> PacketQueue] /\ dec_at' \in [Streams -> DecoderAt]
  BY <1>1, <1>2 DEF Put, TypeOK
<1>3. CASE PutAll(what)
  BY <1>1, <1>3 DEF PutAll, TypeOK
<1> QED
  BY <1>2, <1>3

LEMMA SeekTypes ==
  ASSUME TypeOK, file' = file, seek_fails \/ seek_begins \/ flush_queue \/ put_flush_packet
  PROVE  TypeOK'
<1>1. CASE seek_fails
  BY <1>1, StreamsStay DEF seek_fails, packetVars, outVars, TypeOK
<1>2. CASE seek_begins
  <2>1. read_at' \in [at : {"reading", "flush", "put", "ended"}, of : Streams]
    BY <1>2, TheStreams DEF seek_begins
  <2> QED
    BY <1>2, <2>1, StreamsStay DEF seek_begins, packetVars, outVars, TypeOK
<1>3. CASE flush_queue
  <2>1. read_at' \in [at : {"reading", "flush", "put", "ended"}, of : Streams] /\ read_at.of \in Streams
    BY <1>3 DEF flush_queue, TypeOK
  <2>2. packet_queue_flush(queue[read_at.of]) \in PacketQueue
    BY <2>1, FlushIs DEF TypeOK
  <2>3. queue' \in [Streams -> PacketQueue]
    BY <1>3, <2>1, <2>2, QueueTypes DEF flush_queue
  <2> QED
    BY <1>3, <2>1, <2>3, StreamsStay DEF flush_queue, outVars, TypeOK
<1>4. CASE put_flush_packet
  <2>1. read_at.of \in Streams
    BY DEF TypeOK
  <2>2. queue' \in [Streams -> PacketQueue] /\ dec_at' \in [Streams -> DecoderAt]
    BY <1>4, <2>1, PutTypes DEF put_flush_packet
  <2>3. stale' \in [Streams -> Nat]
    BY <1>4, <2>1 DEF put_flush_packet, Anew, TypeOK
  <2>4. CASE read_at.of = "audio" /\ "video" \in Streams
    <3>1. read_at' \in [at : {"reading", "flush", "put", "ended"}, of : Streams]
      BY <1>4, <2>4 DEF put_flush_packet
    <3>2. UNCHANGED <<seek_req, eof, completed, unread>>
      BY <1>4, <2>4 DEF put_flush_packet
    <3> QED
      BY <1>4, <2>2, <2>3, <3>1, <3>2, StreamsStay DEF put_flush_packet, TypeOK
  <2>5. CASE ~(read_at.of = "audio" /\ "video" \in Streams)
    <3>1. read_at' = [read_at EXCEPT !.at = "reading"]
      BY <1>4, <2>5 DEF put_flush_packet
    <3>2. seek_req' = FALSE /\ eof' = FALSE /\ completed' = FALSE /\ unread' = file
      BY <1>4, <2>5 DEF put_flush_packet
    <3>3. read_at' \in [at : {"reading", "flush", "put", "ended"}, of : Streams]
      BY <3>1 DEF TypeOK
    <3> QED
      BY <1>4, <2>2, <2>3, <3>2, <3>3, TheStreams, StreamsStay DEF put_flush_packet, TypeOK
  <2> QED
    BY <2>4, <2>5
<1> QED
  BY <1>1, <1>2, <1>3, <1>4

LEMMA ReadTypes ==
  ASSUME TypeOK, file' = file,
         complete \/ read_end \/ read_thread_ends
           \/ (\E s \in Streams : read_packet(s) \/ read_discontinuity(s))
  PROVE  TypeOK'
<1>1. CASE complete
  BY <1>1, StreamsStay DEF complete, packetVars, outVars, TypeOK
<1>2. CASE read_end
  <2>1. queue' \in [Streams -> PacketQueue] /\ dec_at' \in [Streams -> DecoderAt]
    BY <1>2, PutTypes DEF read_end
  <2> QED
    BY <1>2, <2>1, StreamsStay DEF read_end, outVars, TypeOK
<1>3. CASE read_thread_ends
  <2>1. read_at' \in [at : {"reading", "flush", "put", "ended"}, of : Streams]
    BY <1>3 DEF read_thread_ends, TypeOK
  <2> QED
    BY <1>3, <2>1, StreamsStay DEF read_thread_ends, packetVars, outVars, TypeOK
<1>4. ASSUME NEW s \in Streams, read_packet(s) PROVE TypeOK'
  <2>1. queue' \in [Streams -> PacketQueue] /\ dec_at' \in [Streams -> DecoderAt]
    <3>1. Put(s, "data") /\ file' = file
      BY <1>4 DEF read_packet, readVars
    <3> QED
      BY <3>1, PutTypes
  <2>2. unread \in [Streams -> Nat] /\ unread[s] - 1 \in Nat
    BY <1>4 DEF read_packet, TypeOK
  <2>3. unread' \in [Streams -> Nat]
    BY <1>4, <2>2 DEF read_packet
  <2> QED
    BY <1>4, <2>1, <2>3, StreamsStay DEF read_packet, outVars, TypeOK
<1>5. ASSUME NEW s \in Streams, read_discontinuity(s) PROVE TypeOK'
  <2>1. \A t \in Streams :
          /\ packet_queue_put(queue[t], "flush") \in PacketQueue
          /\ packet_queue_put(packet_queue_put(queue[t], "flush"), "data") \in PacketQueue
          /\ QueueSignal(t) \in DecoderAt
    <3> SUFFICES ASSUME NEW t \in Streams
                 PROVE  /\ packet_queue_put(queue[t], "flush") \in PacketQueue
                        /\ packet_queue_put(packet_queue_put(queue[t], "flush"), "data") \in PacketQueue
                        /\ QueueSignal(t) \in DecoderAt
      OBVIOUS
    <3> DEFINE flushed == packet_queue_put(queue[t], "flush")
    <3>1. queue[t] \in PacketQueue /\ dec_at[t] \in DecoderAt
      BY DEF TypeOK
    <3>2. flushed \in PacketQueue
      BY <3>1, PutIs
    <3> HIDE DEF flushed
    <3>3. packet_queue_put(flushed, "data") \in PacketQueue
      BY <3>2, PutIs
    <3>4. QueueSignal(t) \in DecoderAt
      BY <3>1 DEF QueueSignal, DecoderAt
    <3> QED
      BY <3>2, <3>3, <3>4 DEF flushed
  <2>2. queue' \in [Streams -> PacketQueue] /\ dec_at' \in [Streams -> DecoderAt]
    BY <1>5, <2>1 DEF read_discontinuity
  <2>3. unread \in [Streams -> Nat] /\ unread[s] - 1 \in Nat /\ requests' \in 0 .. MaxRequests
    BY <1>5, BoundsAssumption DEF read_discontinuity, TypeOK
  <2>4. unread' \in [Streams -> Nat] /\ stale' \in [Streams -> Nat]
    BY <1>5, <2>3 DEF read_discontinuity
  <2> QED
    BY <1>5, <2>2, <2>3, <2>4, StreamsStay DEF read_discontinuity, TypeOK
<1> QED
  BY <1>1, <1>2, <1>3, <1>4, <1>5

LEMMA ApplicationTypes ==
  ASSUME TypeOK, file' = file, stream_seek \/ toggle_pause \/ ffp_stop \/ Done
  PROVE  TypeOK'
<1>1. requests' \in 0 .. MaxRequests
  BY BoundsAssumption DEF stream_seek, toggle_pause, ffp_stop, Done, vars, readVars, TypeOK
<1>2. paused' \in BOOLEAN /\ seek_req' \in BOOLEAN
  BY DEF stream_seek, toggle_pause, ffp_stop, Done, vars, readVars, TypeOK
<1>3. close_at' \in CloseAt
  BY DEF stream_seek, toggle_pause, ffp_stop, Done, vars, CloseAt, TypeOK
<1>4. UNCHANGED <<packetVars, ring, dec_at, outVars, read_at, eof, completed, unread>>
  BY DEF stream_seek, toggle_pause, ffp_stop, Done, vars, readVars
<1> QED
  BY <1>1, <1>2, <1>3, <1>4, StreamsStay DEF packetVars, outVars, TypeOK

LEMMA SignalTypes ==
  ASSUME TypeOK, NEW s \in Streams, RingSignal(s)
  PROVE  dec_at' \in [Streams -> DecoderAt] /\ out_at' \in [Streams -> OutAt]
  BY DEF RingSignal, DecoderTo, DecoderAt, OutAt, TypeOK

LEMMA CloserTypes == ASSUME TypeOK, file' = file, Closer PROVE TypeOK'
<1>1. CASE close_queues
  <2>1. \A s \in Streams : packet_queue_abort(queue[s]) \in PacketQueue /\ QueueSignal(s) \in DecoderAt
    BY AbortIs DEF TypeOK, QueueSignal, DecoderAt
  <2>2. queue' \in [Streams -> PacketQueue] /\ dec_at' \in [Streams -> DecoderAt]
    BY <1>1, <2>1 DEF close_queues
  <2> QED
    BY <1>1, <2>2, StreamsStay DEF close_queues, outVars, readVars, TypeOK, CloseAt
<1>2. CASE join_reader \/ stream_closed
  <2>1. close_at' \in CloseAt
    BY <1>2 DEF join_reader, stream_closed, AfterReader, CloseAt
  <2> QED
    BY <1>2, <2>1, StreamsStay DEF join_reader, stream_closed, packetVars, outVars, readVars, TypeOK
<1>3. CASE close_audio
  <2>1. close_at' \in CloseAt /\ out_at' \in [Streams -> OutAt]
    BY <1>3 DEF close_audio, AfterAudio, OutTo, OutAt, CloseAt, TypeOK
  <2> QED
    BY <1>3, <2>1, StreamsStay DEF close_audio, packetVars, readVars, TypeOK
<1>4. ASSUME NEW s \in Streams, decoder_abort(s) PROVE TypeOK'
  <2>1. close_at' \in CloseAt
    BY <1>4 DEF decoder_abort, JoinOf, CloseAt
  <2>2. packet_queue_abort(queue[s]) \in PacketQueue
    BY AbortIs DEF TypeOK
  <2>3. queue' \in [Streams -> PacketQueue]
    BY <1>4, <2>2, QueueTypes DEF decoder_abort
  <2>4. dec_at' \in [Streams -> DecoderAt] /\ out_at' \in [Streams -> OutAt]
    <3>1. CASE dec_at[s] # "get_asleep"
      BY <1>4, <3>1, SignalTypes DEF decoder_abort
    <3>2. CASE dec_at[s] = "get_asleep"
      BY <1>4, <3>2 DEF decoder_abort, DecoderTo, DecoderAt, OutAt, TypeOK
    <3> QED
      BY <3>1, <3>2
  <2> QED
    BY <1>4, <2>1, <2>3, <2>4, StreamsStay DEF decoder_abort, readVars, TypeOK
<1>5. ASSUME NEW s \in Streams, decoder_joined(s) PROVE TypeOK'
  <2>1. close_at' \in CloseAt
    BY <1>5 DEF decoder_joined, CloseAt
  <2>2. packet_queue_flush(queue[s]) \in PacketQueue
    BY FlushIs DEF TypeOK
  <2>3. queue' \in [Streams -> PacketQueue]
    BY <1>5, <2>2, QueueTypes DEF decoder_joined
  <2> QED
    BY <1>5, <2>1, <2>3, StreamsStay DEF decoder_joined, outVars, readVars, TypeOK
<1> QED
  BY <1>1, <1>2, <1>3, <1>4, <1>5 DEF Closer

LEMMA NextTypes == ASSUME TypedRings, Next PROVE TypeOK'
<1> USE DEF TypedRings
<1>1. file' = file
  BY DEF Next
<1>2. CASE audio_thread \/ ffplay_video_thread
  BY <1>1, <1>2, ReceiveTypes, PacketTypes, PutFrameTypes
     DEF audio_thread, ffplay_video_thread, decoder_decode_frame, picture_aborted
<1>3. CASE AudioOut \/ VideoOut
  BY <1>1, <1>3, AudioOutTypes, VideoOutTypes
<1>4. CASE Reader \/ seek_fails \/ (\E s \in Streams : read_discontinuity(s))
  BY <1>1, <1>4, SeekTypes, ReadTypes DEF Reader
<1>5. CASE stream_seek \/ toggle_pause \/ ffp_stop \/ Closer \/ Done
  BY <1>1, <1>5, ApplicationTypes, CloserTypes
<1> QED
  BY <1>2, <1>3, <1>4, <1>5 DEF Next

-----------------------------------------------------------------------------
(* The rings.                                                              *)

\* A ring whose stream's decoder and taker do not move.
SameRing(s) ==
  /\ ring'[s] = ring[s] /\ used'[s] = used[s]
  /\ dec_at'[s] = "fill" => dec_at[s] = "fill"
  /\ InUse(s)' => InUse(s)

LEMMA SameRingKeeps == ASSUME NEW s \in Streams, RingInv(s), SameRing(s) PROVE RingInv(s)'
  BY DEF RingInv, SameRing

LEMMA DecoderRings ==
  ASSUME TypedRings, file' = file, audio_thread \/ ffplay_video_thread
  PROVE  RingsInv'
<1> USE DEF TypedRings
<1> SUFFICES ASSUME NEW t \in Streams PROVE RingInv(t)'
  BY StreamsStay DEF RingsInv
<1>1. RingInv(t) /\ ring[t] \in FrameQueue
  BY DEF RingsInv, TypeOK
<1>2. PICK s \in Streams :
        decoder_decode_frame(s) \/ frame_queue_peek_writable(s) \/ fill_frame(s)
          \/ (s = "video" /\ picture_aborted)
  BY DEF audio_thread, ffplay_video_thread, picture_aborted
<1>3. CASE fill_frame(s)
  <2> DEFINE f == frame_queue_push(ring[s], [serial |-> pkt_serial[s], from |-> got[s]])
  <2>1. ring[s] \in FrameQueue /\ RingShape(ring[s]) /\ ring[s].size < RingSize
    BY <1>3 DEF RingsInv, RingInv, fill_frame, TypeOK
  <2>2. RingShape(f) /\ f.rindex_shown = ring[s].rindex_shown /\ f.rindex = ring[s].rindex
    BY <2>1, PushIs DEF TypeOK, Frame
  <2>3. /\ ring' = [ring EXCEPT ![s] = f] /\ dec_at' = [dec_at EXCEPT ![s] = "decode"]
        /\ out_at' = [out_at EXCEPT ![s] = IF @ = "readable_asleep" THEN "idle" ELSE @]
        /\ UNCHANGED <<used, audio_left>>
    BY <1>3 DEF fill_frame
  <2>4. InUse(t)' => InUse(t)
    BY <2>3 DEF InUse, TypeOK
  <2> HIDE DEF f
  <2>5. CASE t = s
    BY <1>1, <2>2, <2>3, <2>4, <2>5 DEF RingInv, TypeOK
  <2>6. CASE t # s
    BY <1>1, <2>3, <2>4, <2>6, SameRingKeeps DEF SameRing, TypeOK
  <2> QED
    BY <2>5, <2>6
<1>4. CASE frame_queue_peek_writable(s)
  <2>1. UNCHANGED <<ring, used, out_at, audio_left>>
    BY <1>4 DEF frame_queue_peek_writable, outVars
  <2>2. CASE dec_at'[t] = "fill" /\ t = s
    BY <1>1, <1>4, <2>1, <2>2, RingAssumption
       DEF frame_queue_peek_writable, DecoderTo, RingInv, InUse, TypeOK, FrameQueue
  <2>3. CASE ~(dec_at'[t] = "fill" /\ t = s)
    BY <1>1, <1>4, <2>1, <2>3, SameRingKeeps
       DEF frame_queue_peek_writable, DecoderTo, SameRing, InUse, TypeOK
  <2> QED
    BY <2>2, <2>3
<1>5. CASE decoder_decode_frame(s) \/ (s = "video" /\ picture_aborted)
  <2>1. UNCHANGED <<ring, used, out_at, audio_left>>
    BY <1>5 DEF decoder_decode_frame, receive_frame, receive_end, receive_aborted, packet_queue_get,
                get_waits, send_packet, picture_aborted, outVars
  <2>2. dec_at'[t] = "fill" => dec_at[t] = "fill"
    <3>1. \/ UNCHANGED dec_at
          \/ \E to \in {"room", "decode", "send", "get_asleep", "ended"} : dec_at' = [dec_at EXCEPT ![s] = to]
      BY <1>5 DEF decoder_decode_frame, receive_frame, get_video_frame, receive_end, receive_aborted,
                  packet_queue_get, get_waits, send_packet, picture_aborted, DecoderTo
    <3> QED
      BY <3>1 DEF TypeOK
  <2> QED
    BY <1>1, <2>1, <2>2, SameRingKeeps DEF SameRing, InUse
<1> QED
  BY <1>2, <1>3, <1>4, <1>5

LEMMA AudioOutRings == ASSUME TypedRings, file' = file, AudioOut PROVE RingsInv'
<1> USE DEF TypedRings
<1> SUFFICES ASSUME NEW t \in Streams PROVE RingInv(t)'
  BY StreamsStay DEF RingsInv
<1>1. RingInv(t) /\ ring[t] \in FrameQueue
  BY DEF RingsInv, TypeOK
<1>2. CASE frame_queue_peek_readable
  <2> DEFINE f == frame_queue_next(ring["audio"])
  <2>1. /\ ring' = [ring EXCEPT !["audio"] = f]
        /\ used' = [used EXCEPT !["audio"] = frame_queue_peek(ring["audio"])]
        /\ dec_at' = [dec_at EXCEPT !["audio"] = IF @ = "room_asleep" THEN "room" ELSE @]
        /\ out_at' = [out_at EXCEPT !["audio"] = "taken"]
        /\ UNCHANGED audio_left /\ "audio" \in Streams
        /\ frame_queue_nb_remaining(ring["audio"]) > 0
    BY <1>2 DEF frame_queue_peek_readable, Takes, DecoderTo, OutTo
  <2>2. ring["audio"] \in FrameQueue /\ RingShape(ring["audio"])
    BY <2>1 DEF RingsInv, RingInv, TypeOK
  <2>3. /\ RingShape(f) /\ f.rindex_shown = 1 /\ f.rindex = frame_queue_peek(ring["audio"])
        /\ f.size <= ring["audio"].size /\ f \in FrameQueue
    BY <2>1, <2>2, NextIs
  <2> HIDE DEF f
  <2>4. CASE t = "audio"
    <3>1. f.size \in Nat /\ ring["audio"].size \in Nat
      BY <2>2, <2>3 DEF FrameQueue
    <3> QED
      BY <1>1, <2>1, <2>3, <2>4, <3>1, RingAssumption DEF RingInv, TypeOK
  <2>5. CASE t # "audio"
    BY <1>1, <2>1, <2>5, SameRingKeeps DEF SameRing, InUse, TypeOK
  <2> QED
    BY <2>4, <2>5
<1>3. CASE readable_waits \/ audio_decode_frame \/ sdl_audio_callback
  <2>1. UNCHANGED <<ring, used, dec_at>>
    BY <1>3 DEF readable_waits, audio_decode_frame, sdl_audio_callback
  <2>2. InUse(t)' => InUse(t)
    BY <1>3 DEF readable_waits, Takes, audio_decode_frame, sdl_audio_callback, OutTo, InUse, TypeOK
  <2> QED
    BY <1>1, <2>1, <2>2, SameRingKeeps DEF SameRing
<1> QED
  BY <1>2, <1>3 DEF AudioOut

LEMMA VideoOutRings == ASSUME TypedRings, file' = file, VideoOut PROVE RingsInv'
<1> USE DEF TypedRings
<1> SUFFICES ASSUME NEW t \in Streams PROVE RingInv(t)'
  BY StreamsStay DEF RingsInv
<1>1. RingInv(t) /\ ring[t] \in FrameQueue
  BY DEF RingsInv, TypeOK
<1>2. CASE refresh_skips \/ refresh_picks
  <2> DEFINE f == frame_queue_next(ring["video"])
  <2>1. /\ ring' = [ring EXCEPT !["video"] = f]
        /\ dec_at' = [dec_at EXCEPT !["video"] = IF @ = "room_asleep" THEN "room" ELSE @]
        /\ UNCHANGED audio_left /\ "video" \in Streams /\ out_at["video"] = "idle"
        /\ frame_queue_nb_remaining(ring["video"]) > 0
    BY <1>2 DEF refresh_skips, refresh_picks, Shows, outVars, DecoderTo
  <2>2. \/ UNCHANGED <<used, out_at>>
        \/ /\ used' = [used EXCEPT !["video"] = f.rindex]
           /\ out_at' = [out_at EXCEPT !["video"] = "display"]
    BY <1>2, <2>1 DEF refresh_skips, refresh_picks, outVars, OutTo, frame_queue_peek_last, TypeOK
  <2>3. ring["video"] \in FrameQueue /\ RingShape(ring["video"])
    BY <2>1 DEF RingsInv, RingInv, TypeOK
  <2>4. RingShape(f) /\ f.rindex_shown = 1 /\ f.size <= ring["video"].size /\ f \in FrameQueue
    BY <2>1, <2>3, NextIs
  <2> HIDE DEF f
  <2>5. CASE t = "video"
    <3>1. f.size \in Nat /\ ring["video"].size \in Nat
      BY <2>3, <2>4 DEF FrameQueue
    <3>2. InUse("video")' => used'["video"] = f.rindex
      BY <2>1, <2>2 DEF InUse, TypeOK
    <3> QED
      BY <1>1, <2>1, <2>4, <2>5, <3>1, <3>2, RingAssumption DEF RingInv, TypeOK
  <2>6. CASE t # "video"
    BY <1>1, <2>1, <2>2, <2>6, SameRingKeeps DEF SameRing, InUse, TypeOK
  <2> QED
    BY <2>5, <2>6
<1>3. CASE video_image_display \/ refresh_ends
  <2>1. UNCHANGED <<ring, used, dec_at>>
    BY <1>3 DEF video_image_display, refresh_ends
  <2>2. InUse(t)' => InUse(t)
    BY <1>3 DEF video_image_display, refresh_ends, OutTo, InUse, TypeOK
  <2> QED
    BY <1>1, <2>1, <2>2, SameRingKeeps DEF SameRing
<1> QED
  BY <1>2, <1>3 DEF VideoOut

\* Nothing else touches a ring, or begins to fill or to use a frame.
LEMMA OtherRings ==
  ASSUME TypedRings, file' = file,
         \/ Reader \/ seek_fails \/ (\E s \in Streams : read_discontinuity(s))
         \/ stream_seek \/ toggle_pause \/ ffp_stop \/ Closer \/ Done
  PROVE  RingsInv'
<1> USE DEF TypedRings
<1> SUFFICES ASSUME NEW t \in Streams PROVE RingInv(t)'
  BY StreamsStay DEF RingsInv
<1>1. RingInv(t)
  BY DEF RingsInv
<1>2. CASE Reader \/ seek_fails \/ (\E s \in Streams : read_discontinuity(s))
  <2>1. UNCHANGED <<ring, used, out_at, audio_left>>
    BY <1>2 DEF Reader, seek_begins, flush_queue, put_flush_packet, complete, read_end, read_thread_ends,
                read_packet, seek_fails, read_discontinuity, outVars
  <2>2. dec_at'[t] = "fill" => dec_at[t] = "fill"
    <3>1. \/ UNCHANGED dec_at
          \/ \E s \in Streams : dec_at' = [dec_at EXCEPT ![s] = QueueSignal(s)]
          \/ dec_at' = [s \in Streams |-> QueueSignal(s)]
      BY <1>2 DEF Reader, seek_begins, flush_queue, put_flush_packet, complete, read_end, read_thread_ends,
                  read_packet, seek_fails, read_discontinuity, Put, PutAll, TypeOK
    <3>2. QueueSignal(t) = "fill" => dec_at[t] = "fill"
      BY DEF QueueSignal
    <3> QED
      BY <3>1, <3>2 DEF TypeOK
  <2> QED
    BY <1>1, <2>1, <2>2, SameRingKeeps DEF SameRing, InUse
<1>3. CASE stream_seek \/ toggle_pause \/ ffp_stop \/ Done
  <2>1. UNCHANGED <<ring, dec_at, outVars>>
    BY <1>3 DEF stream_seek, toggle_pause, ffp_stop, Done, vars
  <2> QED
    BY <1>1, <2>1, SameRingKeeps DEF SameRing, InUse, outVars
<1>4. CASE Closer
  <2>1. UNCHANGED <<ring, used, audio_left>>
    BY <1>4 DEF Closer, close_queues, join_reader, close_audio, stream_closed, decoder_abort,
                decoder_joined, outVars
  <2>2. dec_at'[t] = "fill" => dec_at[t] = "fill"
    <3>1. \/ UNCHANGED dec_at
          \/ dec_at' = [s \in Streams |-> QueueSignal(s)]
          \/ \E s \in Streams, to \in {"room", "decode"} : dec_at' = [dec_at EXCEPT ![s] = to]
      BY <1>4 DEF Closer, close_queues, join_reader, close_audio, stream_closed, decoder_abort,
                  decoder_joined, RingSignal, DecoderTo
    <3>2. QueueSignal(t) = "fill" => dec_at[t] = "fill"
      BY DEF QueueSignal
    <3> QED
      BY <3>1, <3>2 DEF TypeOK
  <2>3. out_at'[t] \in {"taken", "display"} => out_at'[t] = out_at[t]
    <3>1. \/ UNCHANGED out_at
          \/ \E s \in Streams : out_at' = [out_at EXCEPT ![s] = "idle"]
          \/ out_at' = [out_at EXCEPT !["audio"] = "closed"]
          \/ \E s \in Streams :
               out_at' = [out_at EXCEPT ![s] = IF @ = "readable_asleep" THEN "idle" ELSE @]
      BY <1>4 DEF Closer, close_queues, join_reader, close_audio, stream_closed, decoder_abort,
                  decoder_joined, outVars, RingSignal, OutTo
    <3> QED
      BY <3>1 DEF TypeOK
  <2> QED
    BY <1>1, <2>1, <2>2, <2>3, SameRingKeeps DEF SameRing, InUse
<1> QED
  BY <1>2, <1>3, <1>4

LEMMA NextRings == ASSUME TypedRings, Next PROVE TypedRings'
<1>1. file' = file
  BY DEF Next
<1>2. RingsInv'
  BY <1>1, DecoderRings, AudioOutRings, VideoOutRings, OtherRings DEF Next
<1> QED
  BY <1>2, NextTypes DEF TypedRings

LEMMA SameRings == ASSUME TypedRings, UNCHANGED vars PROVE TypedRings'
  BY DEF TypedRings, TypeOK, RingsInv, RingInv, InUse, Streams, vars, packetVars, outVars, readVars

\* Every variable keeps its type.
THEOREM TypeCorrect == Spec => []TypeOK
  BY InitTypes, NextRings, SameRings, PTL DEF Spec, TypedRings

\* The decoder never fills the slot that is being shown or played, whose frame
\* stays in the ring with keep_last (frame_queue_next), for any size of the ring.
THEOREM SlotsApart == Spec => []SlotNotShared
<1>1. TypedRings => SlotNotShared
  <2> SUFFICES ASSUME TypedRings, NEW s \in Streams, dec_at[s] = "fill", InUse(s)
               PROVE  used[s] # ring[s].windex
    BY DEF SlotNotShared
  <2>1. ring[s] \in FrameQueue /\ RingInv(s)
    BY DEF TypedRings, TypeOK, RingsInv
  <2>2. ring[s].size \in 1 .. RingSize - 1 /\ ring[s].rindex \in 0 .. RingSize - 1
    BY <2>1, RingAssumption DEF RingInv, RingShape, FrameQueue, Slot
  <2> QED
    BY <2>1, <2>2, RingAssumption DEF RingInv, RingShape
<1> QED
  BY <1>1, InitTypes, NextRings, SameRings, PTL DEF Spec

-----------------------------------------------------------------------------
(* The serials.                                                            *)

LEMMA PutKeepsOrder ==
  ASSUME NEW q \in PacketQueue, NEW p \in Nat, Ordered(q, p),
         NEW what \in {"flush", "data", "null"}, what = "flush" \/ Supplied(q, p),
         NEW r, r = packet_queue_put(q, what)
  PROVE  Ordered(r, p) /\ Supplied(r, p) /\ r \in PacketQueue
<1> DEFINE serial == IF what = "flush" THEN q.serial + 1 ELSE q.serial
           x == [what |-> what, serial |-> serial]
           n == Len(q.packets)
<1>1. CASE q.abort_request
  <2>1. r = q
    BY <1>1 DEF packet_queue_put
  <2> QED
    BY <1>1, <2>1 DEF Supplied
<1>2. CASE ~q.abort_request
  <2>1. /\ r \in PacketQueue /\ ~r.abort_request
        /\ r.serial = serial /\ r.packets = Append(q.packets, x)
    BY <1>2, PutIs
  <2>2. serial \in Nat /\ q.serial \in Nat /\ q.packets \in Seq(Packet) /\ x \in Packet
    BY DEF PacketQueue, Packet
  <2>3. x.what = what /\ x.serial = serial
    OBVIOUS
  <2>4. /\ n \in Nat /\ Len(r.packets) = n + 1 /\ r.packets[n + 1] = x
        /\ \A i \in 1 .. n : r.packets[i] = q.packets[i]
    BY <2>1, <2>2, AppendIs
  <2>5. \A i \in 1 .. n : q.packets[i].serial \in Nat
    <3>1. \A i \in 1 .. n : q.packets[i] \in Packet
      BY <2>2
    <3> QED
      BY <3>1 DEF Packet
  <2>6. q.serial <= serial /\ (what = "flush" => serial = q.serial + 1) /\ (what # "flush" => serial = q.serial)
    BY <2>2
  <2> HIDE DEF x, n, serial
  <2>7. Supplied(r, p)
    BY <2>1, <2>3, <2>4 DEF Supplied
  <2>8. p <= r.serial
    BY <2>1, <2>2, <2>6 DEF Ordered
  <2>9. \A i \in 1 .. Len(r.packets) : p <= r.packets[i].serial /\ r.packets[i].serial <= r.serial
    <3> SUFFICES ASSUME NEW i \in 1 .. n + 1
                 PROVE  p <= r.packets[i].serial /\ r.packets[i].serial <= r.serial
      BY <2>4
    <3>1. CASE i = n + 1
      BY <2>1, <2>2, <2>3, <2>4, <2>8, <3>1
    <3>2. CASE i \in 1 .. n
      BY <2>1, <2>2, <2>4, <2>5, <2>6, <3>2 DEF Ordered, n
    <3> QED
      BY <2>4, <3>1, <3>2
  <2>10. \A i, j \in 1 .. Len(r.packets) : i < j => r.packets[i].serial <= r.packets[j].serial
    <3> SUFFICES ASSUME NEW i \in 1 .. n + 1, NEW j \in 1 .. n + 1, i < j
                 PROVE  r.packets[i].serial <= r.packets[j].serial
      BY <2>4
    <3>1. i \in 1 .. n
      BY <2>4
    <3>2. CASE j = n + 1
      <4>1. r.packets[i].serial \in Nat /\ r.packets[i].serial <= q.serial
        BY <2>4, <2>5, <3>1 DEF Ordered, n
      <4>2. r.packets[j].serial = serial
        BY <2>3, <2>4, <3>2
      <4> QED
        BY <2>2, <2>6, <4>1, <4>2
    <3>3. CASE j \in 1 .. n
      BY <2>4, <3>1, <3>3 DEF Ordered, n
    <3> QED
      BY <2>4, <3>2, <3>3
  <2>11. ASSUME p # r.serial, NEW i \in 1 .. Len(r.packets),
                r.packets[i].serial = r.serial, i = 1 \/ r.packets[i - 1].serial # r.serial
         PROVE  r.packets[i].what = "flush"
    <3>1. CASE what = "flush"
      <4>1. i \notin 1 .. n
        BY <2>1, <2>2, <2>4, <2>5, <2>6, <2>11, <3>1 DEF Ordered, n
      <4> QED
        BY <2>3, <2>4, <2>11, <3>1, <4>1
    <3>2. CASE what # "flush"
      <4>1. r.serial = q.serial /\ p # q.serial
        BY <2>1, <2>6, <2>11, <3>2
      <4>2. n > 0 /\ q.packets[n].serial = q.serial
        BY <1>2, <3>2, <4>1 DEF Supplied, n
      <4>3. i \in 1 .. n
        <5>1. CASE i = n + 1
          <6>1. i # 1 /\ i - 1 = n /\ n \in 1 .. n
            BY <2>4, <4>2, <5>1
          <6> QED
            BY <2>4, <2>11, <4>1, <4>2, <6>1
        <5> QED
          BY <2>4, <2>11, <5>1
      <4>4. i = 1 \/ (i - 1 \in 1 .. n /\ q.packets[i - 1].serial # q.serial)
        BY <2>4, <2>11, <4>1, <4>3
      <4> QED
        BY <2>4, <2>11, <4>1, <4>3, <4>4 DEF Ordered, n
    <3> QED
      BY <3>1, <3>2
  <2> QED
    BY <2>1, <2>7, <2>8, <2>9, <2>10, <2>11 DEF Ordered
<1> QED
  BY <1>1, <1>2

\* The packet taken is of the serial of the one before, or of a later one; the
\* first of the current serial is a flush packet.
LEMMA TakeKeepsOrder ==
  ASSUME NEW q \in PacketQueue, NEW p \in Nat, Ordered(q, p), q.packets # <<>>,
         NEW r \in PacketQueue, r.packets = Tail(q.packets), r.serial = q.serial,
         r.abort_request = q.abort_request,
         NEW h, h = Head(q.packets)
  PROVE  /\ h \in Packet /\ p <= h.serial /\ Ordered(r, h.serial)
         /\ Supplied(q, p) => Supplied(r, h.serial)
         /\ h.serial = q.serial /\ p # q.serial => h.what = "flush"
         /\ p = q.serial => h.serial = q.serial
<1> DEFINE n == Len(q.packets)
<1>1. q.serial \in Nat /\ q.packets \in Seq(Packet)
  BY DEF PacketQueue
<1>2. /\ h = q.packets[1] /\ h \in Packet /\ n \in Nat /\ n > 0 /\ Len(r.packets) = n - 1
      /\ \A i \in 1 .. n - 1 : r.packets[i] = q.packets[i + 1]
  BY <1>1, TailIs
<1>3. \A i \in 1 .. n : q.packets[i].serial \in Nat
  <2>1. \A i \in 1 .. n : q.packets[i] \in Packet
    BY <1>1
  <2> QED
    BY <2>1 DEF Packet
<1>4. 1 \in 1 .. n /\ h.serial \in Nat
  BY <1>2, <1>3
<1> HIDE DEF n
<1>5. p <= h.serial /\ h.serial <= q.serial
  BY <1>2, <1>4 DEF Ordered, n
<1>6. h.serial = q.serial /\ p # q.serial => h.what = "flush"
  BY <1>2, <1>4 DEF Ordered, n
<1>7. \A i \in 1 .. n - 1 :
        /\ i + 1 \in 1 .. n /\ 1 < i + 1 /\ r.packets[i] = q.packets[i + 1]
        /\ h.serial <= r.packets[i].serial /\ r.packets[i].serial <= r.serial
  BY <1>2, <1>4 DEF Ordered, n
<1>8. \A i, j \in 1 .. n - 1 : i < j => r.packets[i].serial <= r.packets[j].serial
  BY <1>2, <1>7 DEF Ordered, n
<1>9. ASSUME h.serial # r.serial, NEW i \in 1 .. n - 1,
             r.packets[i].serial = r.serial, i = 1 \/ r.packets[i - 1].serial # r.serial
      PROVE  r.packets[i].what = "flush"
  <2>1. p # q.serial
    BY <1>1, <1>4, <1>5, <1>9
  <2>2. i + 1 \in 1 .. n /\ q.packets[i + 1] = r.packets[i] /\ (i + 1) - 1 = i
    BY <1>2, <1>7
  <2>3. q.packets[i].serial # q.serial
    <3>1. CASE i = 1
      BY <1>2, <1>9, <3>1
    <3>2. CASE i # 1
      <4>1. i - 1 \in 1 .. n - 1 /\ (i - 1) + 1 = i
        BY <1>2, <3>2
      <4> QED
        BY <1>2, <1>9, <3>2, <4>1
    <3> QED
      BY <3>1, <3>2
  <2> QED
    BY <1>9, <2>1, <2>2, <2>3 DEF Ordered, n
<1>10. Ordered(r, h.serial)
  BY <1>2, <1>5, <1>7, <1>8, <1>9 DEF Ordered
<1>11. Supplied(q, p) => Supplied(r, h.serial)
  <2> SUFFICES ASSUME Supplied(q, p), h.serial # q.serial, ~q.abort_request
               PROVE  Len(r.packets) > 0 /\ r.packets[Len(r.packets)].serial = r.serial
    BY DEF Supplied
  <2>1. q.packets[n].serial = q.serial
    BY <1>1, <1>4, <1>5 DEF Supplied, n
  <2>2. n # 1
    BY <1>2, <2>1
  <2>3. n - 1 \in 1 .. n - 1 /\ (n - 1) + 1 = n
    BY <1>2, <2>2
  <2> QED
    BY <1>2, <2>1, <2>3
<1>12. p = q.serial => h.serial = q.serial
  BY <1>1, <1>4, <1>5
<1> QED
  BY <1>2, <1>5, <1>6, <1>10, <1>11, <1>12

LEMMA FlushKeepsOrder ==
  ASSUME NEW q \in PacketQueue, NEW p, Ordered(q, p)
  PROVE  Ordered(packet_queue_flush(q), p)
  BY FlushIs DEF Ordered

LEMMA AbortKeepsOrder ==
  ASSUME NEW q \in PacketQueue, NEW p, Ordered(q, p)
  PROVE  Ordered(packet_queue_abort(q), p) /\ Supplied(packet_queue_abort(q), p)
  BY AbortIs DEF Ordered, Supplied

\* The decoder thread of a stream does not move, or is woken.
Woken(s) ==
  \/ dec_at'[s] = dec_at[s]
  \/ dec_at[s] = "get_asleep" /\ dec_at'[s] = "decode"
  \/ dec_at[s] = "room_asleep" /\ dec_at'[s] = "room"

\* Nothing of what the decoder has changes.
DecoderStays(s) ==
  /\ codec'[s] = codec[s] /\ pkt'[s] = pkt[s] /\ pkt_serial'[s] = pkt_serial[s]
  /\ finished'[s] = finished[s] /\ got'[s] = got[s]
  /\ ring'[s].slot = ring[s].slot

LEMMA SerialTypes ==
  ASSUME TypeOK, NEW s \in Streams
  PROVE  /\ queue[s] \in PacketQueue /\ queue[s].serial \in Nat /\ pkt_serial[s] \in Nat
         /\ finished[s] \in Nat /\ got[s] \in Nat /\ codec[s].held \in Seq(Nat)
         /\ ring[s] \in FrameQueue /\ pkt[s] \in Packet
  BY DEF TypeOK, PacketQueue

\* The decoder stays, and its queue keeps its serial or gets a new one.
LEMMA SerialKept ==
  ASSUME TypeOK, TypeOK', NEW s \in Streams, s \in Streams', SerialInv(s), Woken(s), DecoderStays(s),
         Ordered(queue'[s], pkt_serial[s]),
         read_at' # [at |-> "put", of |-> s] => Supplied(queue'[s], pkt_serial[s]),
         queue[s].serial <= queue'[s].serial
  PROVE  SerialInv(s)'
<1>1. pkt_serial[s] <= queue[s].serial
  BY DEF SerialInv, Ordered
<1>2. pkt_serial'[s] = Current(s)' => pkt_serial[s] = Current(s)
  <2>1. pkt_serial'[s] = pkt_serial[s] /\ pkt_serial[s] \in Nat /\ queue[s].serial \in Nat
    BY SerialTypes DEF DecoderStays
  <2> QED
    BY <1>1, <2>1 DEF Current
<1>3. /\ FlushInHand(s) => FlushInHand(s)'
      /\ dec_at'[s] = "send" => dec_at[s] = "send"
      /\ dec_at'[s] \in {"room", "room_asleep", "fill"} => dec_at[s] \in {"room", "room_asleep", "fill"}
  BY DEF FlushInHand, Woken, DecoderStays
<1>4. HeldHonest(s)'
  BY <1>2, <1>3 DEF SerialInv, HeldHonest, DecoderStays
<1>5. GotHonest(s)' /\ SlotsHonest(s)'
  BY <1>3 DEF SerialInv, GotHonest, SlotsHonest, DecoderStays
<1> QED
  BY <1>3, <1>4, <1>5 DEF SerialInv, DecoderStays

LEMMA SerialSame ==
  ASSUME TypeOK, TypeOK', NEW s \in Streams, s \in Streams', SerialInv(s), Woken(s), DecoderStays(s),
         queue'[s] = queue[s],
         read_at' # [at |-> "put", of |-> s] => read_at # [at |-> "put", of |-> s]
  PROVE  SerialInv(s)'
<1>1. queue[s].serial <= queue'[s].serial
  BY SerialTypes
<1> QED
  BY <1>1, SerialKept DEF SerialInv

\* One decoder's step leaves the other stream alone.
LEMMA OtherStays ==
  ASSUME TypeOK, NEW s \in Streams, NEW t \in Streams, t # s,
         decoder_decode_frame(s) \/ frame_queue_peek_writable(s) \/ fill_frame(s)
           \/ (s = "video" /\ picture_aborted)
  PROVE  Woken(t) /\ DecoderStays(t) /\ queue'[t] = queue[t]
<1>1. Woken(t)
  <2>1. UNCHANGED dec_at \/ \E place : dec_at' = [dec_at EXCEPT ![s] = place]
    BY DEF decoder_decode_frame, receive_frame, get_video_frame, receive_end, receive_aborted,
            packet_queue_get, get_waits, send_packet, picture_aborted, frame_queue_peek_writable,
            fill_frame, DecoderTo
  <2> QED
    BY <2>1 DEF Woken, TypeOK
<1>2. DecoderStays(t) /\ queue'[t] = queue[t]
  BY DEF decoder_decode_frame, receive_frame, receive_end, receive_aborted, packet_queue_get, get_waits,
         send_packet, picture_aborted, frame_queue_peek_writable, fill_frame, packetVars, DecoderStays, TypeOK
<1> QED
  BY <1>1, <1>2

LEMMA DecoderSerials ==
  ASSUME TypedRings, TypeOK', file' = file, SerialsInv, audio_thread \/ ffplay_video_thread
  PROVE  SerialsInv'
<1> USE DEF TypedRings
<1> SUFFICES ASSUME NEW t \in Streams, t \in Streams' PROVE SerialInv(t)'
  BY StreamsStay DEF SerialsInv
<1>1. SerialInv(t)
  BY DEF SerialsInv
<1>2. PICK s \in Streams :
        decoder_decode_frame(s) \/ frame_queue_peek_writable(s) \/ fill_frame(s)
          \/ (s = "video" /\ picture_aborted)
  BY DEF audio_thread, ffplay_video_thread, picture_aborted
<1>3. read_at' = read_at
  BY <1>2 DEF decoder_decode_frame, receive_frame, receive_end, receive_aborted, packet_queue_get,
              get_waits, send_packet, picture_aborted, frame_queue_peek_writable, fill_frame, readVars
<1>4. CASE t # s
  BY <1>1, <1>2, <1>3, <1>4, SerialSame, OtherStays
<1>5. CASE t = s /\ receive_frame(s)
  <2> DEFINE h == codec[s].held
  <2>1. h \in Seq(Nat) /\ h # <<>>
    BY <1>5, BoundsAssumption, SerialTypes DEF receive_frame, Ready
  <2>2. /\ codec'[s].held = Tail(h) /\ got'[s] = Head(h)
        /\ UNCHANGED <<queue, pkt_serial, finished, pkt, ring>>
        /\ dec_at'[s] \in {"room", "decode"}
    BY <1>5, SerialTypes DEF receive_frame, get_video_frame, Receiving, DecoderTo, TypeOK
  <2>3. pkt_serial[s] = Current(s) /\ ~FlushInHand(s)
    BY <1>5 DEF receive_frame, Receiving, FlushInHand
  <2>4. \A i \in 1 .. Len(h) : h[i] = Current(s)
    BY <1>1, <1>5, <2>3 DEF SerialInv, HeldHonest
  <2> HIDE DEF h
  <2>5. Head(h) = Current(s) /\ \A i \in 1 .. Len(Tail(h)) : Tail(h)[i] = Current(s)
    <3>1. 1 \in 1 .. Len(h) /\ \A i \in 1 .. Len(h) - 1 : i + 1 \in 1 .. Len(h)
      BY <2>1, TailIs
    <3> QED
      BY <2>1, <2>4, <3>1, TailIs
  <2>6. HeldHonest(s)' /\ GotHonest(s)'
    BY <2>2, <2>3, <2>5 DEF HeldHonest, GotHonest, Current
  <2> QED
    BY <1>1, <1>3, <1>5, <2>2, <2>6 DEF SerialInv, SlotsHonest
<1>6. CASE t = s /\ receive_end(s)
  <2>1. /\ codec'[s].held = <<>> /\ finished'[s] = pkt_serial[s]
        /\ UNCHANGED <<queue, pkt_serial, got, pkt, ring, dec_at>>
    BY <1>6 DEF receive_end, Emptied, TypeOK
  <2>2. HeldHonest(s)'
    BY <2>1 DEF HeldHonest
  <2> QED
    BY <1>1, <1>3, <1>6, <2>1, <2>2, SerialTypes DEF SerialInv, GotHonest, SlotsHonest
<1>7. CASE t = s /\ (receive_aborted(s) \/ get_waits(s))
  <2>1. UNCHANGED <<queue, codec, finished, pkt_serial, got, pkt, ring>> /\ dec_at[s] = "decode"
    BY <1>7 DEF receive_aborted, get_waits, Wants, Receiving, packetVars
  <2>2. dec_at'[s] \in {"ended", "get_asleep"}
    BY <1>7 DEF receive_aborted, get_waits, DecoderTo, TypeOK
  <2>3. HeldHonest(s)' /\ GotHonest(s)'
    BY <1>1, <1>7, <2>1, <2>2 DEF SerialInv, HeldHonest, GotHonest, FlushInHand, Current
  <2> QED
    BY <1>1, <1>3, <1>7, <2>1, <2>2, <2>3 DEF SerialInv, SlotsHonest
<1>8. CASE t = s /\ packet_queue_get(s)
  <2> DEFINE p == Head(queue[s].packets)
  <2>1. /\ pkt'[s] = p /\ pkt_serial'[s] = p.serial /\ UNCHANGED <<codec, finished, got, ring>>
        /\ queue'[s].packets = Tail(queue[s].packets) /\ queue'[s].serial = queue[s].serial
        /\ queue'[s].abort_request = queue[s].abort_request /\ queue[s].packets # <<>>
        /\ dec_at'[s] = "send" \/ (dec_at'[s] = "decode" /\ finished[s] = p.serial)
    BY <1>8 DEF packet_queue_get, DecoderTo, TypeOK, PacketQueue
  <2>2. queue'[s] \in PacketQueue
    BY <1>8 DEF TypeOK
  <2>3. /\ p \in Packet /\ pkt_serial[s] <= p.serial /\ Ordered(queue'[s], p.serial)
        /\ Supplied(queue[s], pkt_serial[s]) => Supplied(queue'[s], p.serial)
        /\ p.serial = queue[s].serial /\ pkt_serial[s] # queue[s].serial => p.what = "flush"
        /\ pkt_serial[s] = queue[s].serial => p.serial = queue[s].serial
    BY SMTT(20), <1>1, <1>8, <2>1, <2>2, SerialTypes, TakeKeepsOrder DEF SerialInv
  <2> HIDE DEF p
  <2>4. p.serial \in Nat /\ finished[s] <= p.serial
    BY <1>1, <1>8, <2>3, SerialTypes DEF SerialInv, Packet
  <2>5. HeldHonest(s)'
    <3> SUFFICES ASSUME p.serial = queue[s].serial, ~FlushInHand(s)'
                 PROVE  \A i \in 1 .. Len(codec[s].held) : codec[s].held[i] = queue[s].serial
      BY <2>1 DEF HeldHonest, Current
    <3>1. pkt_serial[s] = queue[s].serial
      <4> SUFFICES ASSUME pkt_serial[s] # queue[s].serial PROVE FALSE
        OBVIOUS
      <4>1. p.what = "flush" /\ finished[s] = p.serial
        BY <2>1, <2>3 DEF FlushInHand
      <4> QED
        BY <1>1, <1>8, <2>3, <2>4, <4>1, SerialTypes DEF SerialInv, Ordered
    <3>2. ~FlushInHand(s)
      BY <1>8 DEF packet_queue_get, Wants, FlushInHand
    <3> QED
      BY <1>1, <1>8, <3>1, <3>2 DEF SerialInv, HeldHonest, Current
  <2>6. GotHonest(s)'
    BY <2>1 DEF GotHonest
  <2> QED
    BY <1>1, <1>3, <1>8, <2>1, <2>3, <2>4, <2>5, <2>6 DEF SerialInv, SlotsHonest
<1>9. CASE t = s /\ send_packet(s)
  <2>1. /\ dec_at[s] = "send" /\ dec_at'[s] = "decode" /\ UNCHANGED <<queue, pkt_serial, pkt, got, ring>>
        /\ finished'[s] = finished[s] \/ finished'[s] = 0
    BY ZenonT(30), <1>9 DEF send_packet, DecoderTo, TypeOK
  <2>2. finished'[s] <= pkt_serial[s]
    BY <1>1, <1>9, <2>1, SerialTypes DEF SerialInv
  <2>3. GotHonest(s)'
    BY <2>1 DEF GotHonest
  <2>4. HeldHonest(s)'
    <3> SUFFICES ASSUME pkt_serial[s] = Current(s)
                 PROVE  \A i \in 1 .. Len(codec'[s].held) : codec'[s].held[i] = Current(s)
      BY <2>1 DEF HeldHonest, Current
    <3>1. codec'[s] = Entered(codec[s], pkt[s])
      BY <1>9 DEF send_packet, TypeOK
    <3>2. pkt[s].serial = Current(s) /\ codec[s].held \in Seq(Nat) /\ Current(s) \in Nat
      BY <1>1, <1>9, <2>1, SerialTypes DEF SerialInv, Current
    <3>3. CASE pkt[s].what = "flush"
      BY <3>1, <3>3 DEF Entered, Emptied
    <3>4. CASE pkt[s].what # "flush"
      <4>1. \A i \in 1 .. Len(codec[s].held) : codec[s].held[i] = Current(s)
        BY <1>1, <1>9, <3>4 DEF SerialInv, HeldHonest, FlushInHand
      <4>2. \/ codec'[s].held = codec[s].held
            \/ codec'[s].held = Append(codec[s].held, Current(s))
        <5>1. codec[s] \in [held : Seq(Nat), draining : BOOLEAN]
          BY DEF TypeOK
        <5>2. [codec[s] EXCEPT !.draining = TRUE].held = codec[s].held
          BY <5>1
        <5>3. [codec[s] EXCEPT !.held = Append(codec[s].held, pkt[s].serial)].held
              = Append(codec[s].held, Current(s))
          BY <3>2, <5>1
        <5> QED
          BY <3>1, <3>4, <5>2, <5>3 DEF Entered
      <4>3. CASE codec'[s].held = Append(codec[s].held, Current(s))
        BY <3>2, <4>1, <4>3, AppendAll
      <4>4. CASE codec'[s].held = codec[s].held
        BY <4>1, <4>4
      <4> QED
        BY <4>2, <4>3, <4>4
    <3> QED
      BY <3>3, <3>4
  <2> QED
    BY <1>1, <1>3, <1>9, <2>1, <2>2, <2>3, <2>4 DEF SerialInv, SlotsHonest
<1>10. CASE t = s /\ (frame_queue_peek_writable(s) \/ (s = "video" /\ picture_aborted))
  <2>1. /\ UNCHANGED <<queue, codec, finished, pkt_serial, got, pkt, ring>>
        /\ dec_at[s] \in {"room", "fill"}
    BY <1>10 DEF frame_queue_peek_writable, picture_aborted, packetVars
  <2>2. dec_at'[s] \in {"ended", "room_asleep", "fill"}
    BY <1>10 DEF frame_queue_peek_writable, picture_aborted, DecoderTo, TypeOK
  <2>3. HeldHonest(s)' /\ GotHonest(s)'
    BY <1>1, <1>10, <2>1, <2>2 DEF SerialInv, HeldHonest, GotHonest, FlushInHand, Current
  <2> QED
    BY <1>1, <1>3, <1>10, <2>1, <2>2, <2>3 DEF SerialInv, SlotsHonest
<1>11. CASE t = s /\ fill_frame(s)
  <2> DEFINE x == [serial |-> pkt_serial[s], from |-> got[s]]
  <2>1. /\ UNCHANGED <<queue, codec, finished, pkt_serial, got, pkt>>
        /\ dec_at[s] = "fill" /\ dec_at'[s] = "decode"
        /\ ring'[s] = frame_queue_push(ring[s], x)
    BY <1>11 DEF fill_frame, packetVars, TypeOK
  <2>2. HeldHonest(s)' /\ GotHonest(s)'
    BY <1>1, <1>11, <2>1 DEF SerialInv, HeldHonest, GotHonest, FlushInHand, Current
  <2>3. x \in Frame /\ x.serial = x.from
    BY <1>1, <1>11, <2>1, SerialTypes DEF SerialInv, GotHonest, Frame
  <2>4. ring[s].size < RingSize /\ RingShape(ring[s])
    BY <2>1 DEF RingsInv, RingInv
  <2> HIDE DEF x
  <2>5. ring'[s].slot = [ring[s].slot EXCEPT ![ring[s].windex] = x]
    BY <2>1, <2>3, <2>4, PushIs, SerialTypes
  <2>6. ring[s].slot \in [Slot -> Frame]
    BY SerialTypes DEF FrameQueue
  <2>7. SlotsHonest(s)'
    BY <1>1, <1>11, <2>3, <2>5, <2>6 DEF SerialInv, SlotsHonest
  <2> QED
    BY <1>1, <1>3, <1>11, <2>1, <2>2, <2>7 DEF SerialInv
<1> QED
  BY <1>2, <1>4, <1>5, <1>6, <1>7, <1>8, <1>9, <1>10, <1>11 DEF decoder_decode_frame

\* Who takes the frames leaves the decoders alone.
LEMMA OutStays ==
  ASSUME TypedRings, AudioOut \/ VideoOut, NEW t \in Streams
  PROVE  Woken(t) /\ DecoderStays(t) /\ UNCHANGED <<packetVars, read_at, unread>>
<1> USE DEF TypedRings
<1>1. ring[t] \in FrameQueue /\ RingShape(ring[t])
  BY DEF TypeOK, RingsInv, RingInv
<1>2. UNCHANGED <<packetVars, read_at, unread>>
  BY DEF AudioOut, frame_queue_peek_readable, readable_waits, audio_decode_frame, sdl_audio_callback,
         VideoOut, refresh_skips, refresh_picks, video_image_display, refresh_ends, readVars
<1>3. CASE \E s \in Streams :
             /\ DecoderTo(s, IF dec_at[s] = "room_asleep" THEN "room" ELSE dec_at[s])
             /\ frame_queue_nb_remaining(ring[s]) > 0
             /\ ring' = [ring EXCEPT ![s] = frame_queue_next(@)]
  <2>1. Woken(t)
    BY <1>3 DEF DecoderTo, Woken, TypeOK
  <2>2. \/ ring'[t] = ring[t]
        \/ frame_queue_nb_remaining(ring[t]) > 0 /\ ring'[t] = frame_queue_next(ring[t])
    BY <1>3 DEF TypeOK
  <2>3. ring'[t].slot = ring[t].slot
    BY <1>1, <2>2, NextIs
  <2> QED
    BY <1>2, <2>1, <2>3 DEF DecoderStays, packetVars
<1>4. CASE UNCHANGED <<dec_at, ring>>
  BY <1>2, <1>4 DEF DecoderStays, packetVars, Woken
<1>5. CASE readable_waits \/ audio_decode_frame \/ sdl_audio_callback \/ video_image_display \/ refresh_ends
  BY <1>4, <1>5 DEF readable_waits, audio_decode_frame, sdl_audio_callback, video_image_display, refresh_ends
<1>6. CASE frame_queue_peek_readable
  BY <1>3, <1>6 DEF frame_queue_peek_readable, Takes
<1>7. CASE refresh_skips \/ refresh_picks
  BY <1>3, <1>7 DEF refresh_skips, refresh_picks, Shows
<1> QED
  BY <1>5, <1>6, <1>7 DEF AudioOut, VideoOut

LEMMA OutSerials ==
  ASSUME TypedRings, TypeOK', file' = file, SerialsInv, AudioOut \/ VideoOut PROVE SerialsInv'
<1> SUFFICES ASSUME NEW t \in Streams, t \in Streams' PROVE SerialInv(t)'
  BY StreamsStay DEF SerialsInv
<1> QED
  BY OutStays, SerialSame DEF SerialsInv, TypedRings, packetVars

\* What a put does to the serials of one stream.
LEMMA PutSerials ==
  ASSUME TypeOK, TypeOK', NEW s \in Streams, s \in Streams', SerialInv(s), Woken(s), DecoderStays(s),
         NEW what \in {"flush", "data", "null"}, queue'[s] = packet_queue_put(queue[s], what),
         what = "flush" \/ read_at # [at |-> "put", of |-> s]
  PROVE  SerialInv(s)'
<1> DEFINE q == queue[s]
           serial == IF what = "flush" THEN q.serial + 1 ELSE q.serial
<1>1. q \in PacketQueue /\ q.serial \in Nat /\ pkt_serial[s] \in Nat
  BY SerialTypes
<1>2. Ordered(q, pkt_serial[s]) /\ (what = "flush" \/ Supplied(q, pkt_serial[s]))
  BY DEF SerialInv
<1>3. Ordered(queue'[s], pkt_serial[s]) /\ Supplied(queue'[s], pkt_serial[s])
  BY <1>1, <1>2, PutKeepsOrder
<1>4. q.serial <= queue'[s].serial
  <2>1. queue'[s].serial = q.serial \/ queue'[s].serial = q.serial + 1
    BY <1>1 DEF packet_queue_put, PacketQueue
  <2> QED
    BY <1>1, <2>1
<1> QED
  BY <1>3, <1>4, SerialKept

\* The read thread leaves the decoders alone, but for waking them.
LEMMA ReaderStays ==
  ASSUME TypeOK, NEW t \in Streams,
         Reader \/ seek_fails \/ (\E s \in Streams : read_discontinuity(s))
  PROVE  Woken(t) /\ DecoderStays(t)
<1>1. DecoderStays(t)
  BY DEF Reader, seek_begins, flush_queue, put_flush_packet, complete, read_end, read_thread_ends,
         read_packet, seek_fails, read_discontinuity, packetVars, DecoderStays
<1>2. \/ dec_at' = dec_at
      \/ \E s \in Streams : dec_at' = [dec_at EXCEPT ![s] = QueueSignal(s)]
      \/ dec_at' = [s \in Streams |-> QueueSignal(s)]
  BY DEF Reader, seek_begins, flush_queue, put_flush_packet, complete, read_end, read_thread_ends,
         read_packet, seek_fails, read_discontinuity, Put, PutAll, TypeOK
<1> QED
  BY <1>1, <1>2 DEF QueueSignal, Woken, TypeOK

LEMMA ReaderSerials ==
  ASSUME TypedRings, TypeOK', file' = file, SerialsInv,
         Reader \/ seek_fails \/ (\E s \in Streams : read_discontinuity(s))
  PROVE  SerialsInv'
<1> USE DEF TypedRings
<1> SUFFICES ASSUME NEW t \in Streams, t \in Streams' PROVE SerialInv(t)'
  BY StreamsStay DEF SerialsInv
<1>1. SerialInv(t) /\ queue[t] \in PacketQueue /\ pkt_serial[t] \in Nat
  BY SerialTypes DEF SerialsInv
<1>2. DecoderStays(t)
  BY ReaderStays
<1>3. Woken(t)
  BY ReaderStays
<1>4. CASE seek_begins \/ complete \/ read_thread_ends \/ seek_fails
  <2>1. queue' = queue /\ (read_at' = read_at \/ read_at.at = "reading")
    BY <1>4 DEF seek_begins, complete, read_thread_ends, seek_fails, Reading, packetVars
  <2> QED
    BY <1>1, <1>2, <1>3, <2>1, SerialSame
<1>5. CASE flush_queue
  <2>1. read_at.at = "flush" /\ read_at'= [at |-> "put", of |-> read_at.of]
    BY <1>5 DEF flush_queue, TypeOK
  <2>2. CASE t = read_at.of
    <3>1. queue'[t] = packet_queue_flush(queue[t])
      BY <1>5, <2>2 DEF flush_queue, TypeOK
    <3>2. Ordered(queue'[t], pkt_serial[t]) /\ queue[t].serial <= queue'[t].serial
      BY <1>1, <3>1, FlushKeepsOrder, FlushIs, SerialTypes DEF SerialInv
    <3> QED
      BY <1>1, <1>2, <1>3, <2>1, <2>2, <3>2, SerialKept
  <2>3. CASE t # read_at.of
    <3>1. queue'[t] = queue[t]
      BY <1>5, <2>3 DEF flush_queue, TypeOK
    <3>2. read_at.of # t /\ read_at # [at |-> "put", of |-> t]
      BY <2>3
    <3> QED
      BY <1>1, <1>2, <1>3, <3>1, <3>2, SerialSame
  <2> QED
    BY <2>2, <2>3
<1>6. CASE put_flush_packet
  <2>1. read_at.at = "put"
    BY <1>6 DEF put_flush_packet
  <2>2. CASE t = read_at.of
    <3>1. queue'[t] = packet_queue_put(queue[t], "flush")
      BY <1>6, <2>2 DEF put_flush_packet, Put, TypeOK
    <3> QED
      BY <1>1, <1>2, <1>3, <3>1, PutSerials
  <2>3. CASE t # read_at.of
    <3>1. queue'[t] = queue[t]
      BY <1>6, <2>3 DEF put_flush_packet, Put, TypeOK
    <3> QED
      BY <1>1, <1>2, <1>3, <2>3, <3>1, SerialSame
  <2> QED
    BY <2>2, <2>3
<1>7. ASSUME NEW s \in Streams, read_packet(s) PROVE SerialInv(t)'
  <2>1. read_at.at = "reading" /\ read_at' = read_at
    BY <1>7 DEF read_packet, Reading
  <2>2. queue'[t] = queue[t] \/ queue'[t] = packet_queue_put(queue[t], "data")
    BY <1>7 DEF read_packet, Put, TypeOK
  <2> QED
    BY <1>1, <1>2, <1>3, <2>1, <2>2, SerialSame, PutSerials
<1>8. CASE read_end
  <2>1. read_at.at = "reading" /\ queue'[t] = packet_queue_put(queue[t], "null")
    BY <1>8 DEF read_end, Reading, PutAll
  <2> QED
    BY <1>1, <1>2, <1>3, <2>1, PutSerials
<1>9. ASSUME NEW s \in Streams, read_discontinuity(s) PROVE SerialInv(t)'
  <2> DEFINE q == packet_queue_put(queue[t], "flush")
  <2>1. queue'[t] = IF t = s THEN packet_queue_put(q, "data") ELSE q
    BY <1>9 DEF read_discontinuity
  <2>2. CASE t # s
    BY <1>1, <1>2, <1>3, <2>1, <2>2, PutSerials
  <2>3. CASE t = s
    <3>1. Ordered(q, pkt_serial[t]) /\ Supplied(q, pkt_serial[t]) /\ q \in PacketQueue
      BY <1>1, PutKeepsOrder DEF SerialInv
    <3>2. queue[t].serial \in Nat /\ (q.serial = queue[t].serial \/ q.serial = queue[t].serial + 1)
      BY <1>1 DEF packet_queue_put, PacketQueue
    <3> HIDE DEF q
    <3>3. Ordered(queue'[t], pkt_serial[t]) /\ Supplied(queue'[t], pkt_serial[t])
      BY <1>1, <2>1, <2>3, <3>1, PutKeepsOrder
    <3>4. queue'[t].serial = q.serial
      BY <2>1, <2>3, <3>1 DEF packet_queue_put, PacketQueue
    <3>5. queue[t].serial <= queue'[t].serial
      BY <3>2, <3>4
    <3> QED
      BY <1>1, <1>2, <1>3, <3>3, <3>5, SerialKept
  <2> QED
    BY <2>2, <2>3
<1> QED
  BY <1>4, <1>5, <1>6, <1>7, <1>8, <1>9 DEF Reader

\* The application leaves the decoders alone, but for waking them.
LEMMA CloserStays ==
  ASSUME TypeOK, NEW t \in Streams, stream_seek \/ toggle_pause \/ ffp_stop \/ Closer \/ Done
  PROVE  Woken(t) /\ DecoderStays(t) /\ UNCHANGED <<read_at, unread>>
<1>1. DecoderStays(t) /\ UNCHANGED <<read_at, unread>>
  BY DEF stream_seek, toggle_pause, ffp_stop, Done, vars, Closer, close_queues, join_reader, close_audio,
         stream_closed, decoder_abort, decoder_joined, packetVars, readVars, DecoderStays
<1>2. Woken(t)
  <2>1. CASE stream_seek \/ toggle_pause \/ ffp_stop \/ Done \/ join_reader \/ close_audio \/ stream_closed
             \/ \E s \in Streams : decoder_joined(s)
    BY <2>1 DEF stream_seek, toggle_pause, ffp_stop, Done, vars, join_reader, close_audio,
                stream_closed, decoder_joined, Woken
  <2>2. CASE close_queues
    BY <2>2 DEF close_queues, QueueSignal, Woken
  <2>3. ASSUME NEW s \in Streams, decoder_abort(s) PROVE Woken(t)
    <3>1. CASE dec_at[s] = "get_asleep"
      BY <2>3, <3>1 DEF decoder_abort, DecoderTo, Woken, TypeOK
    <3>2. CASE dec_at[s] # "get_asleep"
      <4>1. UNCHANGED dec_at \/ (dec_at[s] = "room_asleep" /\ dec_at' = [dec_at EXCEPT ![s] = "room"])
        BY <2>3, <3>2 DEF decoder_abort, RingSignal, DecoderTo
      <4> QED
        BY <4>1 DEF Woken, TypeOK
    <3> QED
      BY <3>1, <3>2
  <2> QED
    BY <2>1, <2>2, <2>3 DEF Closer
<1> QED
  BY <1>1, <1>2

LEMMA CloserSerials ==
  ASSUME TypedRings, TypeOK', file' = file, SerialsInv, QueuesOpen,
         stream_seek \/ toggle_pause \/ ffp_stop \/ Closer \/ Done
  PROVE  SerialsInv'
<1> USE DEF TypedRings
<1> SUFFICES ASSUME NEW t \in Streams, t \in Streams' PROVE SerialInv(t)'
  BY StreamsStay DEF SerialsInv
<1>1. SerialInv(t) /\ queue[t] \in PacketQueue /\ pkt_serial[t] \in Nat /\ queue[t].serial \in Nat
  BY SerialTypes DEF SerialsInv
<1>2. DecoderStays(t) /\ read_at' = read_at
  BY CloserStays
<1>3. Woken(t)
  BY CloserStays
<1>4. CASE queue'[t] = queue[t]
  BY <1>1, <1>2, <1>3, <1>4, SerialSame
<1>5. CASE queue'[t] = packet_queue_abort(queue[t])
  <2>1. Ordered(queue'[t], pkt_serial[t]) /\ Supplied(queue'[t], pkt_serial[t])
    BY <1>1, <1>5, AbortKeepsOrder DEF SerialInv
  <2>2. queue[t].serial <= queue'[t].serial
    BY <1>1, <1>5, AbortIs
  <2> QED
    BY <1>1, <1>2, <1>3, <2>1, <2>2, SerialKept
<1>6. CASE queue'[t] = packet_queue_flush(queue[t]) /\ Aborted(t)
  <2>1. Ordered(queue'[t], pkt_serial[t]) /\ Supplied(queue'[t], pkt_serial[t])
    BY <1>1, <1>6, FlushKeepsOrder, FlushIs DEF SerialInv, Supplied, Aborted
  <2>2. queue[t].serial <= queue'[t].serial
    BY <1>1, <1>6, FlushIs
  <2> QED
    BY <1>1, <1>2, <1>3, <2>1, <2>2, SerialKept
<1>7. CASE stream_seek \/ toggle_pause \/ ffp_stop \/ Done \/ join_reader \/ close_audio \/ stream_closed
  BY <1>4, <1>7 DEF stream_seek, toggle_pause, ffp_stop, Done, vars, join_reader, close_audio,
         stream_closed, packetVars
<1>8. CASE close_queues
  BY <1>5, <1>8 DEF close_queues
<1>9. ASSUME NEW s \in Streams, decoder_abort(s) PROVE SerialInv(t)'
  BY <1>4, <1>5, <1>9 DEF decoder_abort, TypeOK
<1>10. ASSUME NEW s \in Streams, decoder_joined(s) PROVE SerialInv(t)'
  <2>1. Aborted(t)
    BY <1>10 DEF decoder_joined, JoinOf, QueuesOpen
  <2> QED
    BY <1>4, <1>6, <1>10, <2>1 DEF decoder_joined, TypeOK
<1> QED
  BY <1>7, <1>8, <1>9, <1>10 DEF Closer

\* Only stream_close aborts a queue, and it aborts them all.
LEMMA NextOpen == ASSUME TypeOK, TypeOK', QueuesOpen, Next PROVE QueuesOpen'
<1>1. file' = file
  BY DEF Next
<1> SUFFICES ASSUME NEW t \in Streams PROVE (Aborted(t) <=> close_at \notin {"open", "abort"})'
  BY <1>1, StreamsStay DEF QueuesOpen
<1>2. (Aborted(t) <=> close_at \notin {"open", "abort"}) /\ queue[t] \in PacketQueue
  BY SerialTypes DEF QueuesOpen
<1>3. ASSUME UNCHANGED <<queue, close_at>> PROVE (Aborted(t) <=> close_at \notin {"open", "abort"})'
  BY <1>2, <1>3 DEF Aborted
<1>4. CASE audio_thread \/ ffplay_video_thread
  <2>1. PICK s \in Streams :
          decoder_decode_frame(s) \/ frame_queue_peek_writable(s) \/ fill_frame(s) \/ picture_aborted
    BY <1>4 DEF audio_thread, ffplay_video_thread, picture_aborted
  <2>2. CASE packet_queue_get(s)
    <3>1. close_at' = close_at /\ queue' = [queue EXCEPT ![s].packets = Tail(@)]
      BY <2>2 DEF packet_queue_get
    <3> QED
      BY <1>2, <3>1 DEF TypeOK, PacketQueue, Aborted
  <2>3. CASE ~packet_queue_get(s)
    <3>1. UNCHANGED <<queue, close_at>>
      BY <2>1, <2>3 DEF decoder_decode_frame, receive_frame, receive_end, receive_aborted, get_waits,
                send_packet, picture_aborted, frame_queue_peek_writable, fill_frame, packetVars
    <3> QED
      BY <1>3, <3>1
  <2> QED
    BY <2>2, <2>3
<1>5. CASE AudioOut \/ VideoOut
  <2>1. UNCHANGED <<queue, close_at>>
    BY <1>5 DEF AudioOut, frame_queue_peek_readable, readable_waits, audio_decode_frame,
         sdl_audio_callback, VideoOut, refresh_skips, refresh_picks, video_image_display, refresh_ends,
         packetVars
  <2> QED
    BY <1>3, <2>1
<1>6. CASE Reader \/ seek_fails \/ (\E s \in Streams : read_discontinuity(s))
  <2>1. close_at' = close_at
    BY <1>6 DEF Reader, seek_begins, flush_queue, put_flush_packet, complete, read_end, read_thread_ends,
         read_packet, seek_fails, read_discontinuity
  <2>2. ASSUME NEW q \in PacketQueue, NEW what
        PROVE  packet_queue_put(q, what).abort_request = q.abort_request
    BY DEF packet_queue_put, PacketQueue
  <2>3. queue'[t].abort_request = queue[t].abort_request
    <3>1. CASE seek_begins \/ complete \/ read_thread_ends \/ seek_fails
      BY <3>1 DEF seek_begins, complete, read_thread_ends, seek_fails, packetVars
    <3>2. CASE flush_queue
      BY <1>2, <3>2, FlushIs DEF flush_queue, TypeOK
    <3>3. CASE put_flush_packet \/ read_end \/ \E s \in Streams : read_packet(s)
      <4>1. queue'[t] = queue[t] \/ \E what \in {"flush", "data", "null"} :
                                     queue'[t] = packet_queue_put(queue[t], what)
        <5>1. CASE put_flush_packet
          BY <5>1 DEF put_flush_packet, Put, TypeOK
        <5>2. CASE read_end
          BY <5>2 DEF read_end, PutAll
        <5>3. ASSUME NEW s \in Streams, read_packet(s)
              PROVE  queue'[t] = queue[t] \/ queue'[t] = packet_queue_put(queue[t], "data")
          BY <5>3 DEF read_packet, Put, TypeOK
        <5> QED
          BY <3>3, <5>1, <5>2, <5>3
      <4> QED
        BY <1>2, <2>2, <4>1
    <3>4. ASSUME NEW s \in Streams, read_discontinuity(s)
          PROVE  queue'[t].abort_request = queue[t].abort_request
      <4> DEFINE q == packet_queue_put(queue[t], "flush")
      <4>1. q \in PacketQueue /\ q.abort_request = queue[t].abort_request
        BY <1>2, <2>2, PutIs
      <4>2. queue'[t] = q \/ queue'[t] = packet_queue_put(q, "data")
        BY <3>4 DEF read_discontinuity
      <4> HIDE DEF q
      <4> QED
        BY <2>2, <4>1, <4>2
    <3> QED
      BY <1>6, <3>1, <3>2, <3>3, <3>4 DEF Reader
  <2> QED
    BY <1>2, <2>1, <2>3 DEF Aborted
<1>7. CASE stream_seek \/ toggle_pause \/ Done
  <2>1. UNCHANGED <<queue, close_at>>
    BY <1>7 DEF stream_seek, toggle_pause, Done, vars, packetVars
  <2> QED
    BY <1>3, <2>1
<1>8. CASE ffp_stop
  BY <1>2, <1>8 DEF ffp_stop, packetVars, Aborted
<1>9. CASE join_reader \/ close_audio \/ stream_closed
  <2>1. UNCHANGED queue /\ close_at' \notin {"open", "abort"} /\ close_at \notin {"open", "abort"}
    BY <1>9 DEF join_reader, close_audio, stream_closed, AfterReader, AfterAudio, packetVars
  <2> QED
    BY <1>2, <2>1 DEF Aborted
<1>10. CASE close_queues
  BY <1>2, <1>10, AbortIs DEF close_queues, Aborted
<1>11. ASSUME NEW s \in Streams, decoder_abort(s) \/ decoder_joined(s)
       PROVE  (Aborted(t) <=> close_at \notin {"open", "abort"})'
  <2>1. s \in {"audio", "video"}
    BY TheStreams
  <2>2. close_at' \notin {"open", "abort"} /\ close_at \notin {"open", "abort"}
    BY <1>11, <2>1 DEF decoder_abort, decoder_joined, JoinOf
  <2>3. /\ queue[t].abort_request
        /\ \/ queue'[t] = queue[t]
           \/ queue'[t] = packet_queue_abort(queue[t])
           \/ queue'[t] = packet_queue_flush(queue[t])
    <3>1. queue[t].abort_request
      BY <1>2, <2>2 DEF Aborted
    <3>2. CASE decoder_abort(s)
      <4>1. queue' = [queue EXCEPT ![s] = packet_queue_abort(@)]
        BY <3>2 DEF decoder_abort
      <4> QED
        BY <3>1, <4>1 DEF TypeOK
    <3>3. CASE decoder_joined(s)
      <4>1. queue' = [queue EXCEPT ![s] = packet_queue_flush(@)]
        BY <3>3 DEF decoder_joined
      <4> QED
        BY <3>1, <4>1 DEF TypeOK
    <3> QED
      BY <1>11, <3>2, <3>3
  <2>4. queue'[t].abort_request
    BY <1>2, <2>3, AbortIs, FlushIs
  <2> QED
    BY <2>2, <2>4 DEF Aborted
<1> QED
  BY <1>4, <1>5, <1>6, <1>7, <1>8, <1>9, <1>10, <1>11 DEF Next, Closer

SerialsAll == TypedRings /\ QueuesOpen /\ SerialsInv

LEMMA InitSerials == ASSUME Init PROVE SerialsAll
<1>1. TypedRings
  BY InitTypes
<1> SUFFICES ASSUME NEW s \in Streams
             PROVE  SerialInv(s) /\ (Aborted(s) <=> close_at \notin {"open", "abort"})
  BY <1>1 DEF SerialsAll, SerialsInv, QueuesOpen
<1>2. /\ queue[s].serial = 1 /\ ~queue[s].abort_request
      /\ queue[s].packets = <<[what |-> "flush", serial |-> 1]>>
  BY StartIs DEF Init
<1>3. /\ pkt_serial[s] = 0 /\ finished[s] = 0 /\ dec_at[s] = "decode" /\ codec[s].held = <<>>
      /\ ring[s].slot = [i \in Slot |-> NoFrame] /\ close_at = "open"
  BY DEF Init, Emptied, frame_queue_init
<1>4. Len(queue[s].packets) = 1 /\ queue[s].packets[1].serial = 1 /\ queue[s].packets[1].what = "flush"
  BY <1>2
<1>5. Ordered(queue[s], pkt_serial[s]) /\ Supplied(queue[s], pkt_serial[s])
  BY <1>2, <1>3, <1>4 DEF Ordered, Supplied
<1>6. SlotsHonest(s)
  BY <1>3 DEF SlotsHonest, NoFrame
<1> QED
  BY <1>2, <1>3, <1>5, <1>6 DEF SerialInv, HeldHonest, GotHonest, Aborted

LEMMA NextSerials == ASSUME SerialsAll, [Next]_vars PROVE SerialsAll'
<1> USE DEF SerialsAll
<1>1. CASE Next
  <2>1. file' = file /\ TypedRings' /\ TypeOK /\ TypeOK'
    BY <1>1, NextRings DEF Next, TypedRings
  <2>2. QueuesOpen'
    BY <1>1, <2>1, NextOpen
  <2>3. SerialsInv'
    BY <1>1, <2>1, DecoderSerials, OutSerials, ReaderSerials, CloserSerials DEF Next
  <2> QED
    BY <2>1, <2>2, <2>3
<1>2. CASE UNCHANGED vars
  <2>1. TypedRings'
    BY <1>2, SameRings
  <2>2. QueuesOpen'
    BY <1>2 DEF vars, packetVars, QueuesOpen, Aborted, Streams
  <2>3. SerialsInv'
    BY <1>2 DEF vars, packetVars, readVars, SerialsInv, SerialInv, HeldHonest, GotHonest, SlotsHonest,
                FlushInHand, Current, Streams
  <2> QED
    BY <2>1, <2>2, <2>3
<1> QED
  BY <1>1, <1>2

\* A frame never bears the serial of a seek it does not belong to: between the packets of
\* two serials the library is emptied, however the seeks and discontinuities overlap with
\* the decoder (decoder_decode_frame).
THEOREM LabelsHonest == Spec => []LabelHonest
<1>1. SerialsAll => LabelHonest
  BY DEF SerialsAll, SerialsInv, SerialInv, SlotsHonest, LabelHonest
<1> QED
  BY <1>1, InitSerials, NextSerials, PTL DEF Spec

-----------------------------------------------------------------------------
(* Stale frames.                                                           *)

\* Nothing that StaleInv looks at changes for the worse.
StaleSame(s) ==
  /\ queue'[s].serial = queue[s].serial /\ stale'[s] = stale[s] /\ fresh'[s] = fresh[s]
  /\ ToBePutOut(s)' => ToBePutOut(s) /\ used'[s] = used[s] /\ ring'[s].slot[used[s]] = ring[s].slot[used[s]]

LEMMA StaleSameKeeps == ASSUME NEW s \in Streams, StaleInv(s), StaleSame(s) PROVE StaleInv(s)'
  BY DEF StaleInv, StaleSame, Current

\* The decoder never overwrites the slot in use.
LEMMA DecoderStales ==
  ASSUME TypedRings, file' = file, StalesInv, audio_thread \/ ffplay_video_thread
  PROVE  StalesInv'
<1> USE DEF TypedRings
<1> SUFFICES ASSUME NEW t \in Streams PROVE StaleInv(t)'
  BY StreamsStay DEF StalesInv
<1>1. StaleInv(t) /\ RingInv(t) /\ ring[t] \in FrameQueue /\ queue[t] \in PacketQueue
  BY DEF StalesInv, RingsInv, TypeOK
<1>2. PICK s \in Streams :
        decoder_decode_frame(s) \/ frame_queue_peek_writable(s) \/ fill_frame(s) \/ picture_aborted
  BY DEF audio_thread, ffplay_video_thread, picture_aborted
<1>3. CASE fill_frame(s)
  <2> DEFINE x == [serial |-> pkt_serial[s], from |-> got[s]]
  <2>1. /\ ring' = [ring EXCEPT ![s] = frame_queue_push(ring[s], x)]
        /\ out_at' = [out_at EXCEPT ![s] = IF @ = "readable_asleep" THEN "idle" ELSE @]
        /\ UNCHANGED <<queue, used, audio_left, stale, fresh>> /\ dec_at[s] = "fill"
    BY <1>3 DEF fill_frame, packetVars
  <2>2. ToBePutOut(t)' => ToBePutOut(t)
    BY <2>1 DEF ToBePutOut, TypeOK
  <2>3. ToBePutOut(t) => ring'[t].slot[used[t]] = ring[t].slot[used[t]]
    <3>1. CASE t # s
      BY <2>1, <3>1 DEF TypeOK
    <3>2. CASE t = s
      <4> SUFFICES ASSUME ToBePutOut(t) PROVE ring'[t].slot[used[t]] = ring[t].slot[used[t]]
        OBVIOUS
      <4>1. used[t] = ring[t].rindex /\ RingShape(ring[t]) /\ ring[t].rindex_shown = 1
            /\ ring[t].size < RingSize
        BY <1>1, <2>1, <3>2 DEF ToBePutOut, InUse, RingInv
      <4>2. used[t] # ring[t].windex
        <5>1. ring[t].size \in 1 .. RingSize - 1 /\ ring[t].rindex \in 0 .. RingSize - 1
          BY <1>1, <4>1, RingAssumption DEF RingShape, FrameQueue, Slot
        <5> QED
          BY <4>1, <5>1, RingAssumption DEF RingShape
      <4>3. x \in Frame
        BY SerialTypes DEF Frame
      <4> HIDE DEF x
      <4>4. ring'[t].slot = [ring[t].slot EXCEPT ![ring[t].windex] = x]
        BY <1>1, <2>1, <3>2, <4>1, <4>3, PushIs DEF TypeOK
      <4> QED
        BY <1>1, <4>2, <4>4 DEF FrameQueue
    <3> QED
      BY <3>1, <3>2
  <2> QED
    BY <1>1, <2>1, <2>2, <2>3, StaleSameKeeps DEF StaleSame
<1>4. CASE ~fill_frame(s)
  <2>1. UNCHANGED <<ring, outVars>>
    BY <1>2, <1>4 DEF decoder_decode_frame, receive_frame, receive_end, receive_aborted, packet_queue_get,
              get_waits, send_packet, picture_aborted, frame_queue_peek_writable
  <2>2. queue' = queue \/ queue' = [queue EXCEPT ![s].packets = Tail(@)]
    BY <1>2, <1>4 DEF decoder_decode_frame, receive_frame, receive_end, receive_aborted, packet_queue_get,
              get_waits, send_packet, picture_aborted, frame_queue_peek_writable, packetVars
  <2>3. queue'[t].serial = queue[t].serial
    <3>1. CASE queue' = [queue EXCEPT ![s].packets = Tail(@)]
      BY <1>1, <3>1 DEF TypeOK, PacketQueue
    <3> QED
      BY <2>2, <3>1
  <2> QED
    BY <1>1, <2>1, <2>3, StaleSameKeeps DEF StaleSame, ToBePutOut, outVars
<1> QED
  BY <1>3, <1>4

\* A frame is counted once: it was of the current serial when it was taken.
LEMMA PutOutStales ==
  ASSUME TypeOK, NEW s \in Streams, StaleInv(s), ToBePutOut(s), PutOut(s),
         queue' = queue, ring' = ring, used' = used
  PROVE  StaleInv(s)' /\ \A t \in Streams \ {s} : stale'[t] = stale[t] /\ fresh'[t] = fresh[t]
<1> DEFINE over == ring[s].slot[used[s]].serial # Current(s) /\ fresh[s]
<1>1. stale[s] \in Nat /\ stale[s] <= 1
  BY DEF StaleInv, TypeOK
<1>2. CASE over
  <2>1. stale' = [stale EXCEPT ![s] = @ + 1] /\ fresh' = [fresh EXCEPT ![s] = FALSE]
    BY <1>2 DEF PutOut
  <2>2. stale[s] = 0
    BY <1>1, <1>2 DEF StaleInv
  <2>3. stale'[s] = 1 /\ ~fresh'[s]
    BY <2>1, <2>2 DEF TypeOK
  <2> QED
    BY <2>1, <2>3 DEF StaleInv, TypeOK
<1>3. CASE ~over
  <2>1. UNCHANGED <<stale, fresh>>
    BY <1>3 DEF PutOut
  <2> QED
    BY <1>3, <2>1 DEF StaleInv, Current, ToBePutOut
<1> QED
  BY <1>2, <1>3

LEMMA AudioOutStales ==
  ASSUME TypedRings, file' = file, StalesInv, AudioOut
  PROVE  StalesInv'
<1> USE DEF TypedRings
<1> SUFFICES ASSUME NEW t \in Streams PROVE StaleInv(t)'
  BY StreamsStay DEF StalesInv
<1>1. StaleInv(t)
  BY DEF StalesInv
<1>2. CASE frame_queue_peek_readable
  <2>1. /\ "audio" \in Streams /\ audio_left = 0
        /\ UNCHANGED <<queue, audio_left, stale, fresh>>
        /\ ring' = [ring EXCEPT !["audio"] = frame_queue_next(@)]
        /\ used' = [used EXCEPT !["audio"] = frame_queue_peek(ring["audio"])]
        /\ out_at' = [out_at EXCEPT !["audio"] = "taken"]
    BY <1>2 DEF frame_queue_peek_readable, Takes, OutTo, packetVars
  <2> QED
    BY <1>1, <2>1, StaleSameKeeps DEF StaleSame, ToBePutOut, TypeOK
<1>3. CASE readable_waits
  BY <1>1, <1>3, StaleSameKeeps DEF readable_waits, Takes, OutTo, packetVars, StaleSame, ToBePutOut, TypeOK
<1>4. CASE audio_decode_frame
  <2>1. /\ "audio" \in Streams /\ UNCHANGED <<queue, ring, used, stale>>
        /\ out_at' = [out_at EXCEPT !["audio"] = "idle"]
    BY <1>4 DEF audio_decode_frame, OutTo, packetVars
  <2>2. CASE ring["audio"].slot[used["audio"]].serial # Current("audio") \/ t # "audio"
    <3>1. fresh'[t] = fresh[t] /\ (t = "audio" => audio_left' = audio_left)
      BY <1>4, <2>2 DEF audio_decode_frame, TypeOK
    <3> QED
      BY <1>1, <2>1, <3>1, StaleSameKeeps DEF StaleSame, ToBePutOut, TypeOK
  <2>3. CASE ring["audio"].slot[used["audio"]].serial = Current("audio") /\ t = "audio"
    BY <1>1, <2>1, <2>3 DEF StaleInv, Current
  <2> QED
    BY <2>2, <2>3
<1>5. CASE sdl_audio_callback
  <2>1. /\ "audio" \in Streams /\ UNCHANGED <<queue, ring, used, out_at>> /\ audio_left > 0
    BY <1>5 DEF sdl_audio_callback, packetVars
  <2>2. CASE pkt_serial["audio"] # Current("audio")
    <3>1. UNCHANGED <<stale, fresh>> /\ ~(audio_left' > 0)
      BY <1>5, <2>2 DEF sdl_audio_callback
    <3> QED
      BY <1>1, <2>1, <3>1, StaleSameKeeps DEF StaleSame, ToBePutOut
  <2>3. CASE pkt_serial["audio"] = Current("audio")
    <3>1. PutOut("audio")
      BY <1>5, <2>3 DEF sdl_audio_callback
    <3>2. StaleInv("audio")' /\ \A s \in Streams \ {"audio"} : stale'[s] = stale[s] /\ fresh'[s] = fresh[s]
      <4>1. StaleInv("audio") /\ ToBePutOut("audio")
        BY <2>1 DEF StalesInv, ToBePutOut
      <4> QED
        BY <2>1, <3>1, <4>1, PutOutStales
    <3> QED
      BY <1>1, <2>1, <3>2, StaleSameKeeps DEF StaleSame, ToBePutOut
  <2> QED
    BY <2>2, <2>3
<1> QED
  BY <1>2, <1>3, <1>4, <1>5 DEF AudioOut

LEMMA VideoOutStales ==
  ASSUME TypedRings, file' = file, StalesInv, VideoOut
  PROVE  StalesInv'
<1> USE DEF TypedRings
<1> SUFFICES ASSUME NEW t \in Streams PROVE StaleInv(t)'
  BY StreamsStay DEF StalesInv
<1>1. StaleInv(t)
  BY DEF StalesInv
<1>2. CASE refresh_skips
  <2>1. /\ "video" \in Streams /\ out_at["video"] = "idle" /\ UNCHANGED <<queue, outVars>>
        /\ ring' = [ring EXCEPT !["video"] = frame_queue_next(@)]
    BY <1>2 DEF refresh_skips, Shows, packetVars
  <2> QED
    BY <1>1, <2>1, StaleSameKeeps DEF StaleSame, ToBePutOut, outVars, TypeOK
<1>3. CASE refresh_picks
  <2> DEFINE f == frame_queue_next(ring["video"])
  <2>1. /\ "video" \in Streams /\ UNCHANGED <<queue, audio_left, stale>>
        /\ ring' = [ring EXCEPT !["video"] = f]
        /\ used' = [used EXCEPT !["video"] = frame_queue_peek_last(ring'["video"])]
        /\ fresh' = [fresh EXCEPT !["video"] = TRUE]
        /\ out_at' = [out_at EXCEPT !["video"] = "display"]
        /\ ring["video"].slot[frame_queue_peek(ring["video"])].serial = Current("video")
        /\ frame_queue_nb_remaining(ring["video"]) > 0
    BY <1>3 DEF refresh_picks, Shows, OutTo, Upcoming, packetVars
  <2>2. f.rindex = frame_queue_peek(ring["video"]) /\ f.slot = ring["video"].slot
    <3>1. ring["video"] \in FrameQueue /\ RingShape(ring["video"])
      BY <2>1 DEF RingsInv, RingInv, TypeOK
    <3> QED
      BY <2>1, <3>1, NextIs
  <2> HIDE DEF f
  <2>3. CASE t = "video"
    <3>1. ring'["video"] = f /\ used'["video"] = f.rindex
      BY <2>1 DEF frame_queue_peek_last, TypeOK
    <3> QED
      BY <1>1, <2>1, <2>2, <2>3, <3>1 DEF StaleInv, Current
  <2>4. CASE t # "video"
    BY <1>1, <2>1, <2>4, StaleSameKeeps DEF StaleSame, ToBePutOut, TypeOK
  <2> QED
    BY <2>3, <2>4
<1>4. CASE video_image_display
  <2>1. /\ "video" \in Streams /\ UNCHANGED <<queue, ring, used, audio_left>> /\ out_at["video"] = "display"
        /\ PutOut("video") /\ out_at' = [out_at EXCEPT !["video"] = "idle"]
    BY <1>4 DEF video_image_display, OutTo, packetVars
  <2>2. StaleInv("video")' /\ \A s \in Streams \ {"video"} : stale'[s] = stale[s] /\ fresh'[s] = fresh[s]
    <3>1. StaleInv("video") /\ ToBePutOut("video")
      BY <2>1 DEF StalesInv, ToBePutOut
    <3> QED
      BY <2>1, <3>1, PutOutStales
  <2> QED
    BY <1>1, <2>1, <2>2, StaleSameKeeps DEF StaleSame, ToBePutOut, TypeOK
<1>5. CASE refresh_ends
  <2>1. /\ "video" \in Streams /\ UNCHANGED <<queue, ring, used, audio_left, stale, fresh>>
        /\ out_at' = [out_at EXCEPT !["video"] = "closed"]
    BY <1>5 DEF refresh_ends, OutTo, packetVars
  <2> QED
    BY <1>1, <2>1, StaleSameKeeps DEF StaleSame, ToBePutOut, TypeOK
<1> QED
  BY <1>2, <1>3, <1>4, <1>5 DEF VideoOut

\* What the read thread puts keeps the serial, or begins a new one with no frame stale.
LEMMA ReaderStales ==
  ASSUME TypedRings, file' = file, StalesInv,
         Reader \/ seek_fails \/ (\E s \in Streams : read_discontinuity(s))
  PROVE  StalesInv'
<1> USE DEF TypedRings
<1> SUFFICES ASSUME NEW t \in Streams PROVE StaleInv(t)'
  BY StreamsStay DEF StalesInv
<1>1. StaleInv(t) /\ queue[t] \in PacketQueue
  BY DEF StalesInv, TypeOK
<1>2. UNCHANGED <<ring, used, out_at, audio_left, fresh>>
  BY DEF Reader, seek_begins, flush_queue, put_flush_packet, complete, read_end, read_thread_ends,
         read_packet, seek_fails, read_discontinuity, outVars
<1>3. CASE stale'[t] = 0
  BY <1>3 DEF StaleInv
<1>4. CASE stale'[t] = stale[t] /\ queue'[t].serial = queue[t].serial
  BY <1>1, <1>2, <1>4, StaleSameKeeps DEF StaleSame, ToBePutOut
<1>5. CASE seek_begins \/ complete \/ read_thread_ends \/ seek_fails
  BY <1>4, <1>5 DEF seek_begins, complete, read_thread_ends, seek_fails, packetVars, outVars
<1>6. CASE flush_queue
  <2>1. queue' = [queue EXCEPT ![read_at.of] = packet_queue_flush(@)] /\ stale' = stale
    BY <1>6 DEF flush_queue, outVars
  <2>2. queue'[t] = queue[t] \/ queue'[t] = packet_queue_flush(queue[t])
    BY <2>1 DEF TypeOK
  <2> QED
    BY <1>1, <1>4, <2>1, <2>2, FlushIs
<1>7. CASE put_flush_packet
  <2>1. /\ queue' = [queue EXCEPT ![read_at.of] = packet_queue_put(@, "flush")]
        /\ stale' = [stale EXCEPT ![read_at.of] = 0]
    BY <1>7 DEF put_flush_packet, Put, Anew
  <2> QED
    BY <1>3, <1>4, <2>1 DEF TypeOK
<1>8. CASE read_end \/ \E s \in Streams : read_packet(s)
  <2>1. stale' = stale
    BY <1>8 DEF read_end, read_packet, outVars
  <2>2. queue'[t] = queue[t] \/ \E what \in {"data", "null"} : queue'[t] = packet_queue_put(queue[t], what)
    <3>1. CASE read_end
      BY <3>1 DEF read_end, PutAll
    <3>2. ASSUME NEW s \in Streams, read_packet(s)
          PROVE  queue'[t] = queue[t] \/ queue'[t] = packet_queue_put(queue[t], "data")
      BY <3>2 DEF read_packet, Put, TypeOK
    <3> QED
      BY <1>8, <3>1, <3>2
  <2>3. ASSUME NEW what \in {"data", "null"}
        PROVE  packet_queue_put(queue[t], what).serial = queue[t].serial
    BY <1>1 DEF packet_queue_put, PacketQueue
  <2> QED
    BY <1>4, <2>1, <2>2, <2>3
<1>9. CASE \E s \in Streams : read_discontinuity(s)
  <2>1. stale'[t] = 0
    BY <1>9 DEF read_discontinuity
  <2> QED
    BY <1>3, <2>1
<1> QED
  BY <1>5, <1>6, <1>7, <1>8, <1>9 DEF Reader

LEMMA CloserStales ==
  ASSUME TypedRings, file' = file, StalesInv, stream_seek \/ toggle_pause \/ ffp_stop \/ Closer \/ Done
  PROVE  StalesInv'
<1> USE DEF TypedRings
<1> SUFFICES ASSUME NEW t \in Streams PROVE StaleInv(t)'
  BY StreamsStay DEF StalesInv
<1>1. StaleInv(t) /\ queue[t] \in PacketQueue
  BY DEF StalesInv, TypeOK
<1>2. CASE stream_seek \/ toggle_pause \/ ffp_stop \/ Done
  <2>1. UNCHANGED <<queue, ring, outVars>>
    BY <1>2 DEF stream_seek, toggle_pause, ffp_stop, Done, vars, packetVars
  <2> QED
    BY <1>1, <2>1, StaleSameKeeps DEF StaleSame, ToBePutOut, outVars
<1>3. CASE Closer
  <2>1. UNCHANGED <<ring, used, audio_left, stale, fresh>>
    BY <1>3 DEF Closer, close_queues, join_reader, close_audio, stream_closed, decoder_abort,
                decoder_joined, outVars
  <2>2. out_at'[t] = "display" => out_at[t] = "display"
    <3>1. \/ UNCHANGED out_at
          \/ \E s \in Streams : out_at' = [out_at EXCEPT ![s] = "idle"]
          \/ out_at' = [out_at EXCEPT !["audio"] = "closed"]
          \/ \E s \in Streams :
               out_at' = [out_at EXCEPT ![s] = IF @ = "readable_asleep" THEN "idle" ELSE @]
      BY <1>3 DEF Closer, close_queues, join_reader, close_audio, stream_closed, decoder_abort,
                  decoder_joined, outVars, RingSignal, OutTo
    <3> QED
      BY <3>1 DEF TypeOK
  <2>3. \/ queue'[t] = queue[t]
        \/ queue'[t] = packet_queue_abort(queue[t])
        \/ queue'[t] = packet_queue_flush(queue[t])
    <3>1. CASE close_queues \/ join_reader \/ close_audio \/ stream_closed
      BY <3>1 DEF close_queues, join_reader, close_audio, stream_closed, packetVars
    <3>2. ASSUME NEW s \in Streams, decoder_abort(s) \/ decoder_joined(s)
          PROVE  \/ queue' = [queue EXCEPT ![s] = packet_queue_abort(@)]
                 \/ queue' = [queue EXCEPT ![s] = packet_queue_flush(@)]
      BY <3>2 DEF decoder_abort, decoder_joined
    <3> QED
      BY <1>3, <3>1, <3>2 DEF Closer, TypeOK
  <2>4. queue'[t].serial = queue[t].serial
    BY <1>1, <2>3, AbortIs, FlushIs
  <2> QED
    BY <1>1, <2>1, <2>2, <2>4, StaleSameKeeps DEF StaleSame, ToBePutOut
<1> QED
  BY <1>2, <1>3

StalesAll == TypedRings /\ StalesInv

LEMMA InitStales == ASSUME Init PROVE StalesAll
<1>1. \A s \in Streams : stale[s] = 0
  BY DEF Init
<1> QED
  BY <1>1, InitTypes DEF StalesAll, StalesInv, StaleInv

LEMMA NextStales == ASSUME StalesAll, [Next]_vars PROVE StalesAll'
<1>1. CASE Next
  <2>1. file' = file
    BY <1>1 DEF Next
  <2>2. TypedRings'
    BY <1>1, NextRings DEF StalesAll
  <2>3. StalesInv'
    BY <1>1, <2>1, DecoderStales, AudioOutStales, VideoOutStales, ReaderStales, CloserStales
       DEF Next, StalesAll
  <2> QED
    BY <2>2, <2>3 DEF StalesAll
<1>2. CASE UNCHANGED vars
  <2>1. TypedRings'
    BY <1>2, SameRings DEF StalesAll
  <2>2. StalesInv'
    BY <1>2 DEF StalesAll, vars, packetVars, outVars, StalesInv, StaleInv, ToBePutOut, Current, Streams
  <2> QED
    BY <2>1, <2>2 DEF StalesAll
<1> QED
  BY <1>1, <1>2

\* Between two seeks or discontinuities at most one frame of a stream is put out that
\* belongs to what was left: the one in hand when the serial moved on (video_refresh,
\* audio_decode_frame).
THEOREM OneStale == Spec => []AtMostOneStale
<1>1. StalesAll => AtMostOneStale
  BY DEF StalesAll, StalesInv, StaleInv, AtMostOneStale
<1> QED
  BY <1>1, InitStales, NextStales, PTL DEF Spec

-----------------------------------------------------------------------------
(* The end.                                                                *)

\* What a queue holds when a packet that is no flush packet was put into it.
LEMMA PutHolds ==
  ASSUME NEW q \in PacketQueue, ~q.abort_request, NEW what \in {"data", "null"},
         NEW r, r = packet_queue_put(q, what)
  PROVE  /\ r \in PacketQueue /\ r.serial = q.serial /\ ~r.abort_request
         /\ Len(q.packets) \in Nat /\ Len(r.packets) = Len(q.packets) + 1
         /\ r.packets[Len(q.packets) + 1].what = what
         /\ \A i \in 1 .. Len(q.packets) : r.packets[i] = q.packets[i]
<1> DEFINE x == [what |-> what, serial |-> q.serial]
<1>1. x \in Packet /\ x.what = what /\ q.packets \in Seq(Packet)
  BY DEF PacketQueue, Packet
<1>2. r \in PacketQueue /\ r.serial = q.serial /\ ~r.abort_request /\ r.packets = Append(q.packets, x)
  BY PutIs
<1> HIDE DEF x
<1> QED
  BY <1>1, <1>2, AppendIs

LEMMA PutDataHolds ==
  ASSUME NEW q \in PacketQueue, ~q.abort_request, ~NullWaits(q)
  PROVE  ~NullWaits(packet_queue_put(q, "data")) /\ NullIsLast(packet_queue_put(q, "data"))
<1> DEFINE r == packet_queue_put(q, "data")
           n == Len(q.packets)
<1>1. /\ r.serial = q.serial /\ n \in Nat /\ Len(r.packets) = n + 1 /\ r.packets[n + 1].what = "data"
      /\ \A i \in 1 .. n : r.packets[i] = q.packets[i]
  BY PutHolds
<1> HIDE DEF r, n
<1>2. ASSUME NEW i \in 1 .. n + 1 PROVE ~Carries(r, i, "null")
  <2>1. CASE i = n + 1
    BY <1>1, <2>1 DEF Carries
  <2>2. CASE i \in 1 .. n
    BY <1>1, <2>2 DEF Carries, NullWaits, n
  <2> QED
    BY <1>1, <2>1, <2>2
<1> QED
  BY <1>1, <1>2 DEF NullWaits, NullIsLast, r

LEMMA PutNullHolds ==
  ASSUME NEW q \in PacketQueue, ~q.abort_request
  PROVE  /\ NullIsLast(q) => NullIsLast(packet_queue_put(q, "null"))
         /\ NoData(q) => NoData(packet_queue_put(q, "null"))
<1> DEFINE r == packet_queue_put(q, "null")
           n == Len(q.packets)
<1>1. /\ r.serial = q.serial /\ n \in Nat /\ Len(r.packets) = n + 1 /\ r.packets[n + 1].what = "null"
      /\ \A i \in 1 .. n : r.packets[i] = q.packets[i]
  BY PutHolds
<1> HIDE DEF r, n
<1>2. ~Carries(r, n + 1, "data")
  BY <1>1 DEF Carries
<1>3. \A i \in 1 .. n, what \in {"data", "null"} : Carries(r, i, what) <=> Carries(q, i, what)
  BY <1>1 DEF Carries
<1>4. \A i \in 1 .. n + 1 : i = n + 1 \/ i \in 1 .. n
  BY <1>1
<1>5. ASSUME NoData(q) PROVE NoData(r)
  BY <1>1, <1>2, <1>3, <1>4, <1>5 DEF NoData, n
<1>6. ASSUME NullIsLast(q) PROVE NullIsLast(r)
  <2> SUFFICES ASSUME NEW i \in 1 .. n + 1, NEW j \in 1 .. n + 1, i < j, Carries(r, i, "null")
               PROVE  ~Carries(r, j, "data")
    BY <1>1 DEF NullIsLast
  <2>1. CASE j = n + 1
    BY <1>2, <2>1
  <2>2. CASE j \in 1 .. n
    <3>1. i \in 1 .. n
      BY <1>1, <2>2
    <3> QED
      BY <1>3, <1>6, <2>2, <3>1 DEF NullIsLast, n
  <2> QED
    BY <1>4, <2>1, <2>2
<1> QED
  BY <1>5, <1>6 DEF r

\* A new serial: what the queue holds is of another, but for the flush packet.
LEMMA PutFlushHolds ==
  ASSUME NEW q \in PacketQueue, ~q.abort_request, NEW p, Ordered(q, p),
         NEW r, r = packet_queue_put(q, "flush")
  PROVE  /\ r \in PacketQueue /\ r.serial = q.serial + 1 /\ ~r.abort_request
         /\ ~NullWaits(r) /\ NoData(r) /\ NullIsLast(r)
<1> DEFINE x == [what |-> "flush", serial |-> q.serial + 1]
           n == Len(q.packets)
<1>1. x \in Packet /\ x.what = "flush" /\ q.packets \in Seq(Packet) /\ q.serial \in Nat
  BY DEF PacketQueue, Packet
<1>2. r \in PacketQueue /\ r.serial = q.serial + 1 /\ ~r.abort_request /\ r.packets = Append(q.packets, x)
  BY PutIs
<1> HIDE DEF x
<1>3. /\ n \in Nat /\ Len(r.packets) = n + 1 /\ r.packets[n + 1] = x
      /\ \A i \in 1 .. n : r.packets[i] = q.packets[i]
  BY <1>1, <1>2, AppendIs
<1>4. \A i \in 1 .. n : q.packets[i].serial <= q.serial /\ q.packets[i].serial \in Nat
  <2>1. \A i \in 1 .. n : q.packets[i] \in Packet
    BY <1>1
  <2> QED
    BY <2>1 DEF Ordered, Packet
<1> HIDE DEF n
<1>5. ASSUME NEW i \in 1 .. n PROVE r.packets[i].serial # r.serial
  <2>1. r.packets[i] = q.packets[i] /\ q.packets[i].serial <= q.serial /\ q.packets[i].serial \in Nat
    BY <1>3, <1>4
  <2>2. r.serial = q.serial + 1
    BY <1>2
  <2> QED
    BY <1>1, <2>1, <2>2
<1>6. ASSUME NEW i \in 1 .. n + 1 PROVE ~Carries(r, i, "null") /\ ~Carries(r, i, "data")
  <2>1. CASE i = n + 1
    BY <1>1, <1>3, <2>1 DEF Carries
  <2>2. CASE i \in 1 .. n
    BY <1>5, <2>2 DEF Carries
  <2> QED
    BY <1>3, <2>1, <2>2
<1> QED
  BY <1>2, <1>3, <1>6 DEF NullWaits, NoData, NullIsLast

\* The packet that is taken.
LEMMA TakeHolds ==
  ASSUME NEW q \in PacketQueue, q.packets # <<>>,
         NEW r \in PacketQueue, r.packets = Tail(q.packets), r.serial = q.serial
  PROVE  /\ NullWaits(r) => NullWaits(q)
         /\ NullIsLast(q) => NullIsLast(r)
         /\ NoData(q) => NoData(r)
         /\ Head(q.packets).what = "null" /\ Head(q.packets).serial = q.serial =>
              NullWaits(q) /\ (NullIsLast(q) => NoData(r))
<1> DEFINE n == Len(q.packets)
<1>1. /\ n \in Nat /\ n > 0 /\ Len(r.packets) = n - 1 /\ Head(q.packets) = q.packets[1]
      /\ \A i \in 1 .. n - 1 : r.packets[i] = q.packets[i + 1]
  BY TailIs DEF PacketQueue
<1> HIDE DEF n
<1>2. \A i \in 1 .. n - 1, what \in {"data", "null"} : Carries(r, i, what) <=> Carries(q, i + 1, what)
  BY <1>1 DEF Carries
<1>3. \A i \in 1 .. n - 1 : i + 1 \in 1 .. n /\ 1 < i + 1
  BY <1>1
<1>4. 1 \in 1 .. n
  BY <1>1
<1>5. NullWaits(r) => NullWaits(q)
  BY <1>1, <1>2, <1>3 DEF NullWaits, n
<1>6. ASSUME NullIsLast(q) PROVE NullIsLast(r)
  <2> SUFFICES ASSUME NEW i \in 1 .. n - 1, NEW j \in 1 .. n - 1, i < j, Carries(r, i, "null")
               PROVE  ~Carries(r, j, "data")
    BY <1>1 DEF NullIsLast
  <2>1. i + 1 < j + 1 /\ i + 1 \in 1 .. n /\ j + 1 \in 1 .. n
    BY <1>3
  <2>2. Carries(q, i + 1, "null")
    BY <1>2
  <2>3. ~Carries(q, j + 1, "data")
    BY <1>6, <2>1, <2>2 DEF NullIsLast, n
  <2> QED
    BY <1>2, <2>3
<1>7. ASSUME NoData(q) PROVE NoData(r)
  BY <1>1, <1>2, <1>3, <1>7 DEF NoData, n
<1>8. ASSUME Head(q.packets).what = "null", Head(q.packets).serial = q.serial
      PROVE  NullWaits(q) /\ (NullIsLast(q) => NoData(r))
  <2>1. Carries(q, 1, "null")
    BY <1>1, <1>8 DEF Carries
  <2>2. NullWaits(q)
    BY <1>4, <2>1 DEF NullWaits, n
  <2>3. ASSUME NullIsLast(q) PROVE NoData(r)
    <3> SUFFICES ASSUME NEW i \in 1 .. n - 1 PROVE ~Carries(r, i, "data")
      BY <1>1 DEF NoData
    <3>1. ~Carries(q, i + 1, "data")
      BY <1>3, <1>4, <2>1, <2>3 DEF NullIsLast, n
    <3> QED
      BY <1>2, <3>1
  <2> QED
    BY <2>2, <2>3
<1> QED
  BY <1>5, <1>6, <1>7, <1>8

\* The decoder's half of EndInv.
AtTheEnd(s) ==
  finished[s] = Current(s) => codec[s].held = <<>> /\ dec_at[s] \in {"decode", "get_asleep", "ended"}

\* The decoder stays, and its queue keeps its serial.
LEMMA DrainedKept ==
  ASSUME NEW s \in Streams, Woken(s), DecoderStays(s), queue'[s].serial = queue[s].serial
  PROVE  (Drained(s)' <=> Drained(s)) /\ (AtTheEnd(s) => AtTheEnd(s)')
<1>1. /\ FlushInHand(s)' <=> FlushInHand(s)
      /\ dec_at'[s] = "send" <=> dec_at[s] = "send"
  BY DEF FlushInHand, Woken, DecoderStays
<1>2. Drained(s)' <=> Drained(s)
  BY <1>1 DEF Drained, Current, DecoderStays
<1>3. AtTheEnd(s) => AtTheEnd(s)'
  BY DEF AtTheEnd, Woken, Current, DecoderStays
<1> QED
  BY <1>2, <1>3

\* The decoder stays, and its queue begins a new serial.
LEMMA DrainedOver ==
  ASSUME TypeOK, NEW s \in Streams, SerialInv(s), Woken(s), DecoderStays(s),
         queue'[s].serial = queue[s].serial + 1
  PROVE  ~Drained(s)' /\ AtTheEnd(s)' /\ Current(s)' > 0
<1>1. finished[s] <= pkt_serial[s] /\ pkt_serial[s] <= queue[s].serial
  BY DEF SerialInv, Ordered
<1>2. finished'[s] # Current(s)' /\ pkt_serial'[s] # Current(s)' /\ Current(s)' > 0
  BY <1>1, SerialTypes DEF Current, DecoderStays
<1> QED
  BY <1>2 DEF Drained, AtTheEnd

\* The queue of an open stream.
EndQueue(s) ==
  /\ NullWaits(queue[s]) \/ Drained(s) => ~FlushedAlready(s) /\ \A t \in Streams : unread[t] = 0
  /\ NullIsLast(queue[s])
  /\ Drained(s) => NoData(queue[s])

LEMMA EndParts == ASSUME NEW s PROVE
  EndInv(s) <=> Current(s) > 0 /\ (~Aborted(s) => EndQueue(s)) /\ AtTheEnd(s)
  BY DEF EndInv, EndQueue, AtTheEnd

\* Nothing that EndInv looks at changes.
LEMMA EndSame ==
  ASSUME file' = file, NEW s \in Streams, EndInv(s), Woken(s), DecoderStays(s), queue'[s] = queue[s],
         FlushedAlready(s)' => FlushedAlready(s),
         unread' = unread \/ (~NullWaits(queue[s]) /\ ~Drained(s))
  PROVE  EndInv(s)'
<1>1. (Drained(s)' <=> Drained(s)) /\ AtTheEnd(s)' /\ Current(s)' > 0
  BY EndParts, DrainedKept DEF Current
<1>2. Aborted(s)' <=> Aborted(s)
  BY DEF Aborted
<1>3. EndQueue(s) => EndQueue(s)'
  BY <1>1, StreamsStay DEF EndQueue
<1> QED
  BY <1>1, <1>2, <1>3, EndParts DEF EndInv, EndQueue, AtTheEnd

\* An aborted stream has no end to tell.
LEMMA EndAborted ==
  ASSUME NEW s \in Streams, EndInv(s), Woken(s), DecoderStays(s), queue'[s].serial = queue[s].serial,
         queue'[s].abort_request
  PROVE  EndInv(s)'
<1>1. AtTheEnd(s)' /\ Current(s)' > 0 /\ Aborted(s)'
  BY EndParts, DrainedKept DEF Current, Aborted
<1> QED
  BY <1>1 DEF EndInv, AtTheEnd

LEMMA DecoderEnds ==
  ASSUME SerialsAll, TypeOK', file' = file, EndsInv, audio_thread \/ ffplay_video_thread
  PROVE  EndsInv'
<1> USE DEF SerialsAll, TypedRings
<1> SUFFICES ASSUME NEW t \in Streams PROVE EndInv(t)'
  BY StreamsStay DEF EndsInv
<1>1. EndInv(t) /\ SerialInv(t) /\ Current(t) > 0 /\ AtTheEnd(t)
  BY DEF EndsInv, SerialsInv, EndInv, AtTheEnd
<1>2. PICK s \in Streams :
        decoder_decode_frame(s) \/ frame_queue_peek_writable(s) \/ fill_frame(s)
          \/ (s = "video" /\ picture_aborted)
  BY DEF audio_thread, ffplay_video_thread, picture_aborted
<1>3. UNCHANGED <<read_at, unread>>
  BY <1>2 DEF decoder_decode_frame, receive_frame, receive_end, receive_aborted, packet_queue_get,
              get_waits, send_packet, picture_aborted, frame_queue_peek_writable, fill_frame, readVars
<1>4. (FlushedAlready(t)' <=> FlushedAlready(t)) /\ Streams' = Streams
  BY <1>3, StreamsStay DEF FlushedAlready
<1>5. CASE t # s
  BY <1>1, <1>2, <1>3, <1>4, <1>5, EndSame, OtherStays
\* What the decoder does with the stream's own queue unchanged.
<1>6. ASSUME queue'[t] = queue[t], AtTheEnd(t)', Drained(t)' => Drained(t) PROVE EndInv(t)'
  <2>1. Current(t)' > 0 /\ (Aborted(t)' <=> Aborted(t))
    BY <1>1, <1>6 DEF Current, Aborted
  <2>2. EndQueue(t) => EndQueue(t)'
    BY <1>3, <1>4, <1>6 DEF EndQueue
  <2>3. ~Aborted(t) => EndQueue(t)
    BY <1>1, EndParts
  <2> QED
    BY <1>6, <2>1, <2>2, <2>3 DEF EndInv, EndQueue, AtTheEnd
<1>7. CASE t = s /\ receive_frame(s)
  <2>1. /\ queue' = queue /\ UNCHANGED <<pkt_serial, finished, pkt>> /\ dec_at[s] = "decode"
        /\ dec_at'[s] \in {"room", "decode"} /\ codec'[s].draining = codec[s].draining
        /\ Ready(s) /\ pkt_serial[s] = Current(s)
    BY <1>7 DEF receive_frame, Receiving, get_video_frame, DecoderTo, TypeOK
  <2>2. codec[s].held # <<>>
    BY <2>1, BoundsAssumption, SerialTypes DEF Ready
  <2>3. finished[s] # Current(s)
    BY <1>1, <1>7, <2>2 DEF AtTheEnd
  <2>4. AtTheEnd(t)' /\ (Drained(t)' => Drained(t))
    BY <1>7, <2>1, <2>3 DEF AtTheEnd, Drained, FlushInHand, Current
  <2> QED
    BY <1>6, <2>1, <2>4
<1>8. CASE t = s /\ receive_end(s)
  <2>1. /\ queue' = queue /\ UNCHANGED <<pkt_serial, pkt, dec_at>> /\ dec_at[s] = "decode"
        /\ codec[s].draining /\ codec'[s].held = <<>> /\ pkt_serial[s] = Current(s)
    BY <1>8 DEF receive_end, Receiving, Emptied, TypeOK
  <2>2. AtTheEnd(t)' /\ Drained(t)
    BY <1>8, <2>1 DEF AtTheEnd, Drained, FlushInHand
  <2> QED
    BY <1>6, <2>1, <2>2
<1>9. CASE t = s /\ (receive_aborted(s) \/ get_waits(s))
  <2>1. /\ UNCHANGED <<queue, codec, finished, pkt_serial, pkt>> /\ dec_at[s] = "decode"
        /\ dec_at'[s] \in {"ended", "get_asleep"}
    BY <1>9 DEF receive_aborted, get_waits, Wants, Receiving, packetVars, DecoderTo, TypeOK
  <2>2. AtTheEnd(t)' /\ (Drained(t)' => Drained(t))
    BY <1>1, <1>9, <2>1 DEF AtTheEnd, Drained, FlushInHand, Current
  <2> QED
    BY <1>6, <2>1, <2>2
<1>10. CASE t = s /\ (frame_queue_peek_writable(s) \/ fill_frame(s) \/ (s = "video" /\ picture_aborted))
  <2>1. /\ UNCHANGED <<queue, codec, finished, pkt_serial, pkt>> /\ dec_at[s] \in {"room", "fill"}
        /\ dec_at'[s] # "send"
    BY <1>10 DEF frame_queue_peek_writable, fill_frame, picture_aborted, packetVars, DecoderTo, TypeOK
  <2>2. finished[s] # Current(s)
    BY <1>1, <1>10, <2>1 DEF AtTheEnd
  <2>3. AtTheEnd(t)' /\ (Drained(t)' => Drained(t))
    BY <1>10, <2>1, <2>2 DEF AtTheEnd, Drained, FlushInHand, Current
  <2> QED
    BY <1>6, <2>1, <2>3
<1>11. CASE t = s /\ send_packet(s)
  <2>1. /\ UNCHANGED <<queue, pkt_serial, pkt>> /\ dec_at[s] = "send" /\ dec_at'[s] = "decode"
    BY <1>11 DEF send_packet, DecoderTo, TypeOK
  <2>2. finished[s] # Current(s)
    BY <1>1, <1>11, <2>1 DEF AtTheEnd
  <2>3. finished'[s] # Current(s)
    <3>1. finished' = finished \/ finished' = [finished EXCEPT ![s] = 0]
      BY <1>11 DEF send_packet
    <3>2. finished'[s] = finished[s] \/ finished'[s] = 0
      BY <3>1 DEF TypeOK
    <3> QED
      BY <1>1, <1>11, <2>2, <3>2
  <2>4. AtTheEnd(t)'
    BY <1>11, <2>1, <2>3 DEF AtTheEnd, Current
  <2>5. Drained(t)' => Drained(t)
    <3> SUFFICES ASSUME pkt_serial[s] = Current(s), codec'[s].draining PROVE Drained(s)
      BY <1>11, <2>1, <2>3 DEF Drained, Current
    <3>1. codec'[s] = Entered(codec[s], pkt[s])
      BY <1>11 DEF send_packet, TypeOK
    <3>2. pkt[s].what # "flush"
      BY <3>1 DEF Entered, Emptied
    <3>3. CASE pkt[s].what = "null"
      BY <2>1, <3>3 DEF Drained
    <3>4. CASE pkt[s].what # "null"
      <4>1. codec[s].draining
        BY <3>1, <3>2, <3>4 DEF Entered, TypeOK
      <4> QED
        BY <3>2, <4>1 DEF Drained, FlushInHand
    <3> QED
      BY <3>3, <3>4
  <2> QED
    BY <1>6, <2>1, <2>4, <2>5
<1>12. CASE t = s /\ packet_queue_get(s)
  <2> DEFINE q == queue[s]
             p == Head(q.packets)
             r == queue'[s]
  <2>1. /\ pkt'[s] = p /\ pkt_serial'[s] = p.serial /\ UNCHANGED <<codec, finished>>
        /\ r.packets = Tail(q.packets) /\ r.serial = q.serial
        /\ r.abort_request = q.abort_request /\ q.packets # <<>> /\ dec_at[s] = "decode"
        /\ finished[s] = p.serial => dec_at'[s] = "decode"
        /\ finished[s] # p.serial => dec_at'[s] = "send"
    <3>1. finished[s] = p.serial => dec_at'[s] = "decode"
      BY <1>12 DEF packet_queue_get, DecoderTo, TypeOK
    <3>2. finished[s] # p.serial => dec_at'[s] = "send"
      BY <1>12 DEF packet_queue_get, DecoderTo, TypeOK
    <3> QED
      BY <1>12, <3>1, <3>2 DEF packet_queue_get, Wants, TypeOK, PacketQueue
  <2>2. q \in PacketQueue /\ r \in PacketQueue /\ q.serial \in Nat
    BY <1>12, <1>4, SerialTypes DEF TypeOK
  <2>3. /\ NullWaits(r) => NullWaits(q)
        /\ NullIsLast(q) => NullIsLast(r)
        /\ NoData(q) => NoData(r)
        /\ p.what = "null" /\ p.serial = q.serial => NullWaits(q) /\ (NullIsLast(q) => NoData(r))
    BY <2>1, <2>2, TakeHolds
  <2>4. /\ p \in Packet /\ pkt_serial[s] <= p.serial /\ Ordered(r, p.serial)
        /\ p.serial = q.serial /\ pkt_serial[s] # q.serial => p.what = "flush"
        /\ pkt_serial[s] = q.serial => p.serial = q.serial
    BY <1>1, <1>12, <2>1, <2>2, SerialTypes, TakeKeepsOrder DEF SerialInv
  <2>5. finished[s] <= pkt_serial[s] /\ pkt_serial[s] <= q.serial /\ p.serial <= q.serial
        /\ finished[s] \in Nat /\ pkt_serial[s] \in Nat /\ p.serial \in Nat
    BY <1>1, <1>12, <2>1, <2>4, SerialTypes DEF SerialInv, Ordered, Packet
  <2> HIDE DEF p, q, r
  <2>6. Current(s) = q.serial /\ Current(s)' = q.serial
    BY <2>1 DEF Current, q, r
  <2>7. finished[s] = q.serial => pkt_serial[s] = q.serial /\ p.serial = q.serial /\ dec_at'[s] = "decode"
    BY <2>1, <2>2, <2>4, <2>5
  <2>8. AtTheEnd(s)'
    BY <1>1, <1>12, <2>1, <2>6, <2>7 DEF AtTheEnd
  <2>9. Drained(s)' => Drained(s) \/ (p.what = "null" /\ p.serial = q.serial)
    <3> SUFFICES ASSUME p.serial = q.serial, finished[s] # q.serial, codec[s].draining,
                        ~(dec_at'[s] = "send" /\ p.what = "flush")
                 PROVE  Drained(s)
      BY <2>1, <2>6, <2>7 DEF Drained, FlushInHand
    <3>1. pkt_serial[s] = q.serial
      BY <2>1, <2>4
    <3> QED
      BY <2>1, <2>6, <3>1 DEF Drained, FlushInHand
  <2>10. ~Aborted(s)' => EndQueue(s)'
    <3> SUFFICES ASSUME ~Aborted(s)' PROVE EndQueue(s)'
      OBVIOUS
    <3>1. EndQueue(s)
      BY <1>1, <1>12, <2>1, EndParts DEF Aborted, q, r
    <3>2. NullWaits(r) \/ Drained(s)' => ~FlushedAlready(s) /\ \A u \in Streams : unread[u] = 0
      BY <2>3, <2>9, <3>1 DEF EndQueue, q
    <3>3. NullIsLast(r)
      BY <2>3, <3>1 DEF EndQueue, q
    <3>4. Drained(s)' => NoData(r)
      BY <2>3, <2>9, <3>1 DEF EndQueue, q
    <3> QED
      BY <1>3, <1>4, <1>12, <3>2, <3>3, <3>4 DEF EndQueue, r
  <2> QED
    BY <1>1, <1>12, <2>6, <2>8, <2>10 DEF EndInv, EndQueue, AtTheEnd
<1> QED
  BY <1>2, <1>5, <1>7, <1>8, <1>9, <1>10, <1>11, <1>12 DEF decoder_decode_frame

LEMMA OutEnds ==
  ASSUME SerialsAll, file' = file, EndsInv, AudioOut \/ VideoOut PROVE EndsInv'
<1> SUFFICES ASSUME NEW t \in Streams PROVE EndInv(t)'
  BY StreamsStay DEF EndsInv
<1>1. Woken(t) /\ DecoderStays(t) /\ UNCHANGED <<queue, read_at, unread>>
  BY OutStays DEF SerialsAll, packetVars
<1> QED
  BY <1>1, EndSame DEF EndsInv, FlushedAlready

\* stream_close touches no queue that is still open, but to abort it.
LEMMA CloserQueues ==
  ASSUME TypeOK, QueuesOpen, NEW t \in Streams, stream_seek \/ toggle_pause \/ ffp_stop \/ Closer \/ Done
  PROVE  queue'[t] = queue[t] \/ (queue'[t].serial = queue[t].serial /\ queue'[t].abort_request)
<1>1. queue[t] \in PacketQueue
  BY SerialTypes
<1>2. CASE stream_seek \/ toggle_pause \/ ffp_stop \/ Done \/ join_reader \/ close_audio \/ stream_closed
  BY <1>2 DEF stream_seek, toggle_pause, ffp_stop, Done, vars, join_reader, close_audio,
              stream_closed, packetVars
<1>3. CASE close_queues
  BY <1>1, <1>3, AbortIs DEF close_queues
<1>4. ASSUME NEW s \in Streams, decoder_abort(s)
      PROVE  queue'[t] = queue[t] \/ queue'[t] = packet_queue_abort(queue[t])
  BY <1>4 DEF decoder_abort, TypeOK
<1>5. ASSUME NEW s \in Streams, decoder_joined(s)
      PROVE  Aborted(t) /\ (queue'[t] = queue[t] \/ queue'[t] = packet_queue_flush(queue[t]))
  <2>1. Aborted(t)
    BY <1>5 DEF decoder_joined, JoinOf, QueuesOpen
  <2>2. queue'[t] = queue[t] \/ queue'[t] = packet_queue_flush(queue[t])
    BY <1>5 DEF decoder_joined, TypeOK
  <2> QED
    BY <2>1, <2>2
<1> QED
  BY <1>1, <1>2, <1>3, <1>4, <1>5, AbortIs, FlushIs DEF Closer, Aborted

LEMMA CloserEnds ==
  ASSUME SerialsAll, file' = file, EndsInv, stream_seek \/ toggle_pause \/ ffp_stop \/ Closer \/ Done
  PROVE  EndsInv'
<1> SUFFICES ASSUME NEW t \in Streams PROVE EndInv(t)'
  BY StreamsStay DEF EndsInv
<1>1. Woken(t) /\ DecoderStays(t) /\ UNCHANGED <<read_at, unread>>
  BY CloserStays DEF SerialsAll, TypedRings
<1>2. queue'[t] = queue[t] \/ (queue'[t].serial = queue[t].serial /\ queue'[t].abort_request)
  BY CloserQueues DEF SerialsAll, TypedRings
<1> QED
  BY <1>1, <1>2, EndSame, EndAborted DEF EndsInv, FlushedAlready

\* A stream of which a flush packet begins a new serial.
LEMMA EndAnew ==
  ASSUME TypeOK, NEW s \in Streams, SerialInv(s), Woken(s), DecoderStays(s),
         queue'[s].serial = queue[s].serial + 1, ~NullWaits(queue[s])', NullIsLast(queue[s])'
  PROVE  EndInv(s)'
<1>1. ~Drained(s)' /\ AtTheEnd(s)' /\ Current(s)' > 0
  BY DrainedOver
<1> QED
  BY <1>1 DEF EndInv, AtTheEnd

LEMMA ReaderEnds ==
  ASSUME SerialsAll, file' = file, EndsInv, Reader \/ seek_fails \/ (\E s \in Streams : read_discontinuity(s))
  PROVE  EndsInv'
<1> USE DEF SerialsAll, TypedRings
<1> SUFFICES ASSUME NEW t \in Streams PROVE EndInv(t)'
  BY StreamsStay DEF EndsInv
<1>1. EndInv(t) /\ SerialInv(t) /\ queue[t] \in PacketQueue /\ Ordered(queue[t], pkt_serial[t])
  BY SerialTypes DEF EndsInv, SerialsInv, SerialInv
<1>2. Woken(t) /\ DecoderStays(t)
  BY ReaderStays
<1>3. Streams \subseteq {"audio", "video"} /\ First \in Streams
  BY TheStreams
\* An aborted queue takes nothing.
<1>4. ASSUME NEW what \in {"flush", "data", "null"}, queue[t].abort_request
      PROVE  packet_queue_put(queue[t], what) = queue[t]
  BY <1>4 DEF packet_queue_put
<1>5. CASE queue[t].abort_request /\ queue'[t] = queue[t]
  BY <1>1, <1>2, <1>5, EndAborted
<1>6. CASE seek_begins
  <2>1. UNCHANGED <<queue, unread>> /\ read_at' = [at |-> "flush", of |-> First]
    BY <1>6 DEF seek_begins, packetVars
  <2>2. ~FlushedAlready(t)'
    BY <2>1 DEF FlushedAlready, First
  <2> QED
    BY <1>1, <1>2, <2>1, <2>2, EndSame
<1>7. CASE complete \/ read_thread_ends \/ seek_fails
  <2>1. UNCHANGED <<queue, unread>> /\ (FlushedAlready(t)' => FlushedAlready(t))
    <3>1. read_at' = read_at \/ read_at' = [read_at EXCEPT !.at = "ended"]
      BY <1>7 DEF complete, read_thread_ends, seek_fails
    <3>2. FlushedAlready(t)' => FlushedAlready(t)
      BY <3>1 DEF FlushedAlready, TypeOK
    <3> QED
      BY <1>7, <3>2 DEF complete, read_thread_ends, seek_fails, packetVars
  <2> QED
    BY <1>1, <1>2, <2>1, EndSame
<1>8. CASE flush_queue
  <2>1. /\ read_at.at = "flush" /\ read_at' = [read_at EXCEPT !.at = "put"] /\ unread' = unread
        /\ queue' = [queue EXCEPT ![read_at.of] = packet_queue_flush(@)]
    BY <1>8 DEF flush_queue
  <2>2. FlushedAlready(t)' <=> FlushedAlready(t)
    BY <2>1 DEF FlushedAlready, TypeOK
  <2>3. CASE t # read_at.of
    <3>1. queue'[t] = queue[t]
      BY <2>1, <2>3 DEF TypeOK
    <3> QED
      BY <1>1, <1>2, <2>1, <2>2, <3>1, EndSame
  <2>4. CASE t = read_at.of
    <3>1. queue'[t] = packet_queue_flush(queue[t])
      BY <2>1, <2>4 DEF TypeOK
    <3>2. queue'[t].packets = <<>> /\ queue'[t].serial = queue[t].serial
          /\ queue'[t].abort_request = queue[t].abort_request
      BY <1>1, <3>1, FlushIs
    <3>3. (Drained(t)' <=> Drained(t)) /\ AtTheEnd(t)' /\ Current(t)' > 0
      BY <1>1, <1>2, <3>2, DrainedKept, EndParts DEF Current
    <3>4. ~NullWaits(queue[t])' /\ NullIsLast(queue[t])' /\ NoData(queue[t])'
      BY <3>2 DEF NullWaits, NullIsLast, NoData
    <3>5. ~Aborted(t)' => EndQueue(t)
      BY <1>1, <3>2, EndParts DEF Aborted
    <3> QED
      BY <2>1, <2>2, <3>3, <3>4, <3>5, StreamsStay DEF EndInv, EndQueue, AtTheEnd
  <2> QED
    BY <2>3, <2>4
<1>9. CASE put_flush_packet
  <2>1. /\ read_at.at = "put" /\ queue' = [queue EXCEPT ![read_at.of] = packet_queue_put(@, "flush")]
    BY <1>9 DEF put_flush_packet, Put
  <2>2. CASE t = read_at.of
    <3>1. queue'[t] = packet_queue_put(queue[t], "flush")
      BY <2>1, <2>2 DEF TypeOK
    <3>2. CASE ~queue[t].abort_request
      BY <1>1, <1>2, <3>1, <3>2, PutFlushHolds, EndAnew
    <3> QED
      BY <1>4, <1>5, <3>1, <3>2
  <2>3. CASE t # read_at.of
    <3>1. queue'[t] = queue[t]
      BY <2>1, <2>3 DEF TypeOK
    <3>2. CASE read_at.of = "audio" /\ "video" \in Streams
      <4>1. unread' = unread /\ ~FlushedAlready(t)'
        BY <1>9, <2>3, <3>2 DEF put_flush_packet, FlushedAlready
      <4> QED
        BY <1>1, <1>2, <3>1, <4>1, EndSame
    <3>3. CASE ~(read_at.of = "audio" /\ "video" \in Streams)
      <4>1. read_at' = [read_at EXCEPT !.at = "reading"]
        BY <1>9, <3>3 DEF put_flush_packet
      <4>2. FlushedAlready(t) /\ ~FlushedAlready(t)'
        <5>1. read_at.of \in Streams /\ t # read_at.of /\ read_at'.at = "reading"
          BY <2>3, <4>1 DEF TypeOK
        <5> QED
          BY <1>3, <2>1, <3>3, <5>1 DEF FlushedAlready
      <4>3. CASE queue[t].abort_request
        BY <1>5, <3>1, <4>3
      <4>4. CASE ~queue[t].abort_request
        <5>1. ~NullWaits(queue[t]) /\ ~Drained(t)
          BY <1>1, <4>2, <4>4 DEF EndInv, Aborted
        <5> QED
          BY <1>1, <1>2, <3>1, <4>2, <5>1, EndSame
      <4> QED
        BY <4>3, <4>4
    <3> QED
      BY <3>2, <3>3
  <2> QED
    BY <2>2, <2>3
<1>10. ASSUME NEW s \in Streams, read_packet(s) PROVE EndInv(t)'
  <2>1. /\ unread[s] > 0 /\ read_at' = read_at
        /\ queue'[t] = queue[t] \/ queue'[t] = packet_queue_put(queue[t], "data")
    BY <1>10 DEF read_packet, Put, TypeOK
  <2>2. CASE queue[t].abort_request
    BY <1>4, <1>5, <2>1, <2>2
  <2>3. CASE ~queue[t].abort_request
    <3>1. ~NullWaits(queue[t]) /\ ~Drained(t)
      <4>1. unread[s] # 0 /\ ~Aborted(t)
        BY <2>1, <2>3 DEF Aborted
      <4> QED
        BY <1>1, <4>1 DEF EndInv
    <3>2. CASE queue'[t] = queue[t]
      BY <1>1, <1>2, <2>1, <3>1, <3>2, EndSame DEF FlushedAlready
    <3>3. CASE queue'[t] = packet_queue_put(queue[t], "data")
      <4>1. queue'[t].serial = queue[t].serial
        BY <1>1, <2>3, <3>3, PutHolds
      <4>2. ~NullWaits(queue[t])' /\ NullIsLast(queue[t])'
        BY <1>1, <2>3, <3>1, <3>3, PutDataHolds
      <4>3. ~Drained(t)' /\ AtTheEnd(t)' /\ Current(t)' > 0
        BY <1>1, <1>2, <3>1, <4>1, DrainedKept, EndParts DEF Current
      <4> QED
        BY <4>2, <4>3 DEF EndInv, AtTheEnd
    <3> QED
      BY <2>1, <3>2, <3>3
  <2> QED
    BY <2>2, <2>3
<1>11. CASE read_end
  <2>1. /\ read_at.at = "reading" /\ read_at' = read_at /\ unread' = unread
        /\ \A s \in Streams : unread[s] = 0
        /\ queue'[t] = packet_queue_put(queue[t], "null")
    BY <1>11 DEF read_end, Reading, PutAll
  <2>2. CASE queue[t].abort_request
    BY <1>4, <1>5, <2>1, <2>2
  <2>3. CASE ~queue[t].abort_request
    <3>1. queue'[t].serial = queue[t].serial
      BY <1>1, <2>1, <2>3, PutHolds
    <3>2. NullIsLast(queue[t]) /\ (Drained(t) => NoData(queue[t]))
      BY <1>1, <2>3 DEF EndInv, Aborted
    <3>3. NullIsLast(queue[t])' /\ (Drained(t) => NoData(queue[t])')
      BY <1>1, <2>1, <2>3, <3>2, PutNullHolds
    <3>4. (Drained(t)' <=> Drained(t)) /\ AtTheEnd(t)' /\ Current(t)' > 0
      BY <1>1, <1>2, <3>1, DrainedKept, EndParts DEF Current
    <3>5. ~FlushedAlready(t)' /\ \A s \in Streams' : unread'[s] = 0
      BY <2>1, StreamsStay DEF FlushedAlready
    <3> QED
      BY <3>3, <3>4, <3>5 DEF EndInv, AtTheEnd
  <2> QED
    BY <2>2, <2>3
<1>12. ASSUME NEW s \in Streams, read_discontinuity(s) PROVE EndInv(t)'
  <2> DEFINE q == packet_queue_put(queue[t], "flush")
  <2>1. queue'[t] = q \/ queue'[t] = packet_queue_put(q, "data")
    BY <1>12 DEF read_discontinuity
  <2>2. CASE queue[t].abort_request
    <3>1. q = queue[t]
      BY <1>4, <2>2
    <3>2. queue'[t] = queue[t]
      BY <1>4, <2>1, <2>2, <3>1
    <3> QED
      BY <1>5, <2>2, <3>2
  <2>3. CASE ~queue[t].abort_request
    <3>1. /\ q \in PacketQueue /\ q.serial = queue[t].serial + 1 /\ ~q.abort_request
          /\ ~NullWaits(q) /\ NullIsLast(q)
      BY <1>1, <2>3, PutFlushHolds
    <3> HIDE DEF q
    <3>2. queue'[t].serial = queue[t].serial + 1
      BY <2>1, <3>1, PutHolds
    <3>3. ~NullWaits(queue[t])' /\ NullIsLast(queue[t])'
      BY <2>1, <3>1, PutDataHolds
    <3> QED
      BY <1>1, <1>2, <3>2, <3>3, EndAnew
  <2> QED
    BY <2>2, <2>3
<1> QED
  BY <1>6, <1>7, <1>8, <1>9, <1>10, <1>11, <1>12 DEF Reader

EndsAll == SerialsAll /\ EndsInv

LEMMA InitEnds == ASSUME Init PROVE EndsAll
<1> SUFFICES ASSUME NEW s \in Streams PROVE EndInv(s)
  BY InitSerials DEF EndsAll, EndsInv
<1>1. queue[s].serial = 1 /\ queue[s].packets = <<[what |-> "flush", serial |-> 1]>>
  BY StartIs DEF Init
<1>2. pkt_serial[s] = 0 /\ finished[s] = 0
  BY DEF Init
<1>3. Len(queue[s].packets) = 1 /\ queue[s].packets[1].what = "flush"
  BY <1>1
<1>4. ~NullWaits(queue[s]) /\ NullIsLast(queue[s])
  BY <1>3 DEF NullWaits, NullIsLast, Carries
<1> QED
  BY <1>1, <1>2, <1>4 DEF EndInv, Drained, Current

LEMMA NextEnds == ASSUME EndsAll, [Next]_vars PROVE EndsAll'
<1>1. SerialsAll'
  BY NextSerials DEF EndsAll
<1>2. CASE Next
  <2>1. file' = file /\ TypeOK'
    BY <1>1, <1>2 DEF Next, SerialsAll, TypedRings
  <2>2. EndsInv'
    BY <1>2, <2>1, DecoderEnds, OutEnds, ReaderEnds, CloserEnds DEF Next, EndsAll
  <2> QED
    BY <1>1, <2>2 DEF EndsAll
<1>3. CASE UNCHANGED vars
  <2>1. EndsInv'
    BY <1>3 DEF EndsAll, vars, packetVars, readVars, EndsInv, EndInv, Drained, FlushInHand,
                FlushedAlready, Current, Aborted, Streams
  <2> QED
    BY <1>1, <2>1 DEF EndsAll
<1> QED
  BY <1>2, <1>3

\* When the end of the file is told, everything that was read has been decoded and taken
\* from the rings, whatever seeks and discontinuities came before: the null packet comes
\* last, and a decoder is finished with a serial only when its library was drained
\* (read_thread, decoder_decode_frame).
THEOREM EndTold == Spec => EndIsTheEnd
<1>1. ASSUME EndsAll, [Next]_vars, ~completed, completed', NEW s \in Streams
      PROVE  unread[s] = 0 /\ ~OnTheWay(s)
  <2> USE <1>1 DEF EndsAll, SerialsAll, TypedRings
  <2>1. complete
    BY DEF Next, vars, readVars, audio_thread, ffplay_video_thread, decoder_decode_frame, receive_frame,
           receive_end, receive_aborted, packet_queue_get, get_waits, send_packet, picture_aborted,
           frame_queue_peek_writable, fill_frame, AudioOut, frame_queue_peek_readable, readable_waits,
           audio_decode_frame, sdl_audio_callback, VideoOut, refresh_skips, refresh_picks,
           video_image_display, refresh_ends, Reader, seek_begins, flush_queue, put_flush_packet,
           read_packet, read_end, read_thread_ends, read_discontinuity, seek_fails, stream_seek,
           toggle_pause, ffp_stop, Closer, close_queues, join_reader, close_audio, stream_closed,
           decoder_abort, decoder_joined, Done
  <2>2. close_at = "open" /\ finished[s] = Current(s) /\ frame_queue_nb_remaining(ring[s]) = 0
    BY <2>1 DEF complete, Reading, PlayedOut
  <2>3. ~Aborted(s)
    BY <2>2 DEF QueuesOpen
  <2>4. pkt_serial[s] = Current(s)
    <3>1. finished[s] <= pkt_serial[s] /\ pkt_serial[s] <= queue[s].serial
      BY DEF SerialsInv, SerialInv, Ordered
    <3> QED
      BY <2>2, <3>1, SerialTypes DEF Current
  <2>5. Drained(s) /\ EndQueue(s) /\ AtTheEnd(s)
    BY <2>2, <2>3, <2>4, EndParts DEF Drained, EndsInv
  <2>6. unread[s] = 0 /\ NoData(queue[s])
    BY <2>5 DEF EndQueue
  <2> QED
    BY <2>2, <2>5, <2>6 DEF OnTheWay, NoData, Carries, Current, AtTheEnd
<1>2. EndsAll /\ [Next]_vars
        => [~completed /\ completed' => \A s \in Streams : unread[s] = 0 /\ ~OnTheWay(s)]_vars
  BY <1>1
<1> QED
  BY <1>2, InitEnds, NextEnds, PTL DEF Spec, EndIsTheEnd

-----------------------------------------------------------------------------
(* The hooks: whichever connection it is, it stands where the reader is.   *)

Connecting == {"tcp", "http", "io"}

HookTypes ==
  /\ kind \in Kinds
  /\ at \in {"closed", "idle", "ask", "ask_again", "connect", "inner"}
  /\ call \in {"none", "open", "read", "seek"}
  /\ target \in 0 .. Size /\ inner \in 0 .. Size /\ logical_pos \in 0 .. Size
  /\ io_error \in {0, EOF, EIO, EXIT, CLOSED}

HookFlags ==
  /\ streamed \in BOOLEAN
  /\ interrupted \in BOOLEAN /\ abort_request \in BOOLEAN /\ active_reconnect \in BOOLEAN
  /\ discontinuity \in BOOLEAN /\ flagged \in BOOLEAN /\ gap \in BOOLEAN

\* What a call has answered is gone before the next one answers.
CallInv ==
  /\ call = "none" <=> at \in {"closed", "idle"}
  /\ call # "none" => dest = <<>> /\ ret = 0
  /\ call = "open" \/ at = "closed" => inner = 0 /\ logical_pos = 0
  /\ call = "open" => at # "inner"
  /\ call = "read" => at # "ask"

\* The connection is where the reader is, and the end that a read met is the end.
ConnectionInv ==
  /\ kind \in Connecting => inner = logical_pos
  /\ kind \in Connecting /\ io_error = EOF => logical_pos = Size

\* One of unknown length is not told to reconnect, unless that is allowed.
ReconnectInv == kind = "io" /\ active_reconnect /\ streamed => AnyReconnect

\* A live stream has no positions, and what was missed is announced.
LiveInv ==
  kind = "live" =>
    /\ inner = 0 /\ logical_pos = 0 /\ io_error \in {0, EXIT} /\ call # "seek"
    /\ gap => discontinuity
    /\ call = "read" /\ at = "connect" => discontinuity

ObjectInv == kind \in {"mds", "androidio"} => call = "none"

\* For what the application is asked again; an end of file ends a seek instead.
ErrorInv ==
  /\ kind = "tcp" => streamed
  /\ kind \in Connecting /\ at = "ask_again" /\ call = "open" => io_error \in {EIO, CLOSED}
  /\ kind \in Connecting /\ at = "ask_again" /\ call = "seek" => io_error = EIO

HookInv ==
  /\ HookTypes /\ HookFlags /\ CallInv /\ ConnectionInv /\ ReconnectInv /\ LiveInv
  /\ ObjectInv /\ ErrorInv

LEMMA HookInvInit == HookInit => HookInv
<1> SUFFICES ASSUME HookInit PROVE HookInv
  OBVIOUS
<1>1. HookTypes
  BY KindsAssumption, SizesAssumption DEF HookInit, HookTypes
<1>2. HookFlags
  BY DEF HookInit, HookFlags
<1>3. CallInv /\ ConnectionInv /\ ReconnectInv /\ LiveInv /\ ObjectInv
  BY DEF HookInit, CallInv, ConnectionInv, ReconnectInv, LiveInv, ObjectInv, EOF
<1>4. ErrorInv
  <2>1. kind = "tcp" => streamed \in {TRUE}
    BY DEF HookInit
  <2> QED
    BY <2>1 DEF HookInit, ErrorInv
<1> QED
  BY <1>1, <1>2, <1>3, <1>4 DEF HookInv

\* How a step of a call that fails goes on, or answers.
LEMMA FailsIs ==
  ASSUME NEW e \in {EOF, EIO, EXIT, CLOSED}, Fails(e)
  PROVE  /\ io_error' \in {0, e}
         /\ \/ Goes("ask_again") /\ Retries /\ io_error' = e /\ e # EXIT
               /\ (call = "seek" => e # CLOSED)
            \/ Returns(e) /\ (call # "seek" => io_error' = e /\ (~Retries \/ e = EXIT))
            \/ call = "seek" /\ e \in {EXIT, CLOSED} /\ io_error' = e /\ Returns(0)
  BY DEF Fails, Final, ReturnsZero

\* Who does not connect again has read everything, or is one of those that may not.
LEMMA NoRetry ==
  ASSUME HookInv, kind \in Connecting, call = "read", ~Retries
  PROVE  logical_pos = Size \/ streamed \/ abort_request
  BY SizesAssumption DEF HookInv, HookTypes, HookFlags, ErrorInv, Connecting, Retries, RetriesHttp, RetriesIo,
     logical_size

LEMMA RefusesIs ==
  ASSUME HookInv, kind \in Connecting, Refuses
  PROVE  /\ io_error' \in {0, EIO, EXIT, CLOSED} /\ UNCHANGED <<inner, logical_pos>>
         /\ \/ Goes("ask_again") /\ io_error' \in {EIO, CLOSED} /\ (call = "seek" => io_error' = EIO)
            \/ Returns(EIO) \/ Returns(EXIT)
            \/ Returns(CLOSED) /\ call # "read"
            \/ /\ Returns(CLOSED) /\ call = "read" /\ io_error' = CLOSED
               /\ logical_pos = Size \/ streamed \/ abort_request
            \/ call = "seek" /\ io_error' \in {EXIT, CLOSED} /\ Returns(0)
<1>1. PICK e \in {EIO, EXIT, CLOSED} : Fails(e) /\ UNCHANGED <<inner, logical_pos>>
  BY DEF Refuses, Errors
<1>2. e # EOF /\ EXIT # CLOSED
  BY DEF EOF, EIO, EXIT, CLOSED
<1>3. /\ io_error' \in {0, e}
      /\ \/ Goes("ask_again") /\ Retries /\ io_error' = e /\ e # EXIT
            /\ (call = "seek" => e # CLOSED)
         \/ Returns(e) /\ (call # "seek" => io_error' = e /\ (~Retries \/ e = EXIT))
         \/ call = "seek" /\ e \in {EXIT, CLOSED} /\ io_error' = e /\ Returns(0)
  BY <1>1, FailsIs
<1> QED
  BY <1>1, <1>2, <1>3, NoRetry

LEMMA AskedIs ==
  ASSUME Refused \/ Asked, HookTypes, CallInv, ErrorInv, kind \in Connecting
  PROVE  /\ io_error' \in {io_error, 0, EXIT}
         /\ \/ Goes("connect")
            \/ Goes("inner") /\ call = "seek"
            \/ Returns(EXIT) \/ (call = "open" /\ (Returns(EIO) \/ Returns(CLOSED)))
            \/ FALSE \in Handles /\ Returns(EOF) /\ call = "read"
            \/ FALSE \in Handles /\ Returns(0) /\ call = "seek" /\ io_error' = EIO
  BY DEF Refused, Asked, Unhandled, Handled, Goes, HookTypes, CallInv, ErrorInv, ReturnsZero

LEMMA BytesIs ==
  ASSUME HookInv, kind \in Connecting, call = "read", Bytes
  PROVE  \/ /\ \E n \in 1 .. MaxRead :
                 /\ n <= Size - inner /\ ret' = n
                 /\ dest' = [i \in 1 .. n |-> inner + i - 1]
                 /\ inner' = inner + n /\ logical_pos' = logical_pos + n
            /\ at' = "idle" /\ call' = "none" /\ io_error' = 0
         \/ \E e \in {EOF, EIO, EXIT, CLOSED} :
              /\ Goes("ask_again") \/ Returns(e)
              /\ io_error' = e /\ (e = EOF => logical_pos = Size)
              /\ Returns(e) /\ e = CLOSED => logical_pos = Size \/ streamed \/ abort_request
              /\ UNCHANGED <<inner, logical_pos>>
<1>0. HookTypes /\ ConnectionInv /\ ~(call = "seek")
  BY DEF HookInv
<1>e. EOF # EIO /\ EOF # EXIT /\ EOF # CLOSED /\ EXIT # CLOSED
  BY DEF EOF, EIO, EXIT, CLOSED
<1>f. ASSUME NEW e \in {EOF, EIO, EXIT, CLOSED}, Fails(e)
      PROVE  /\ Goes("ask_again") \/ Returns(e)
             /\ io_error' = e
             /\ Returns(e) /\ e = CLOSED => logical_pos = Size \/ streamed \/ abort_request
  <2>1. \/ Goes("ask_again") /\ Retries /\ io_error' = e
        \/ Returns(e) /\ io_error' = e /\ (~Retries \/ e = EXIT)
    BY <1>0, <1>f, FailsIs
  <2>2. CASE Goes("ask_again") /\ Retries /\ io_error' = e
    <3>1. ~Returns(e)
      BY <2>2 DEF Goes, Returns
    <3> QED
      BY <2>2, <3>1
  <2>3. CASE Returns(e) /\ io_error' = e /\ (~Retries \/ e = EXIT)
    BY <2>3, <1>e, NoRetry
  <2> QED
    BY <2>1, <2>2, <2>3
<1>1. CASE io_error < 0
  <2>1. io_error \in {EOF, EIO, EXIT, CLOSED} /\ (io_error = EOF => logical_pos = Size)
    BY <1>0, <1>1 DEF HookTypes, ConnectionInv
  <2>2. Fails(io_error) /\ UNCHANGED <<inner, logical_pos>>
    BY <1>1 DEF Bytes
  <2> QED
    BY <2>1, <2>2, <1>f
<1>2. CASE ~(io_error < 0) /\ inner = Size /\ Fails(EOF) /\ UNCHANGED <<inner, logical_pos>>
  <2>1. logical_pos = Size
    BY <1>0, <1>2 DEF ConnectionInv
  <2> QED
    BY <1>2, <1>f, <2>1
<1>3. CASE ~(io_error < 0) /\ Refuses
  <2>1. PICK e \in {EIO, EXIT, CLOSED} : Fails(e) /\ UNCHANGED <<inner, logical_pos>>
    BY <1>3 DEF Refuses, Errors
  <2> QED
    BY <2>1, <1>e, <1>f
<1>4. CASE /\ ~(io_error < 0)
           /\ \E n \in 1 .. MaxRead :
                /\ n <= Size - inner
                /\ at' = "idle" /\ call' = "none"
                /\ dest' = [i \in 1 .. n |-> inner + i - 1] /\ ret' = n
                /\ inner' = inner + n /\ logical_pos' = logical_pos + n
                /\ UNCHANGED io_error
  <2>1. io_error = 0
    BY <1>0, <1>4 DEF HookTypes, EOF, EIO, EXIT, CLOSED
  <2> QED
    BY <1>4, <2>1
<1> QED
  BY <1>1, <1>2, <1>3, <1>4 DEF Bytes

LEMMA ConnectedIs ==
  ASSUME HookInv, Connected, at = "connect"
  PROVE  /\ inner' \in 0 .. Size /\ logical_pos' = inner' /\ io_error' = 0
         /\ \/ call = "open" /\ Returns(0) /\ logical_pos' = 0
            \/ call = "read" /\ Goes("inner") /\ logical_pos' = logical_pos
            \/ call = "seek" /\ Returns(target) /\ logical_pos' = target
  BY SizesAssumption DEF HookInv, HookTypes, CallInv, Connected, Offset

\* What asking the application, connecting, reading and seeking come to.
LEMMA AskDoes ==
  ASSUME HookInv, Ask \/ AskIo
  PROVE  /\ at \in {"ask", "ask_again"} /\ io_error' \in {io_error, 0, EXIT}
         /\ UNCHANGED <<setup, target, inner, logical_pos, interrupted, abort_request, live>>
         /\ active_reconnect' \in {FALSE, active_reconnect}
         /\ kind \in Connecting
         /\ \/ Goes("connect")
            \/ Goes("inner") /\ call = "seek"
            \/ Returns(EXIT) \/ (call = "open" /\ (Returns(EIO) \/ Returns(CLOSED)))
            \/ FALSE \in Handles /\ Returns(EOF) /\ call = "read"
            \/ FALSE \in Handles /\ Returns(0) /\ call = "seek" /\ io_error' = EIO
<1>1. kind \in Connecting /\ (Refused \/ Asked)
  BY DEF Ask, AskIo, Connecting
<1> QED
  BY <1>1, AskedIs DEF Ask, AskIo, io, HookFlags, HookInv

LEMMA ConnectDoes ==
  ASSUME HookInv, Connect \/ ConnectIo
  PROVE  /\ at = "connect" /\ kind \in Connecting /\ UNCHANGED <<setup, target, interrupted, io, live>>
         /\ \/ /\ inner' \in 0 .. Size /\ logical_pos' = inner' /\ io_error' = 0
               /\ \/ call = "open" /\ Returns(0) /\ logical_pos' = 0
                  \/ call = "read" /\ Goes("inner") /\ logical_pos' = logical_pos
                  \/ call = "seek" /\ Returns(target) /\ logical_pos' = target
            \/ /\ io_error' \in {0, EIO, EXIT, CLOSED} /\ UNCHANGED <<inner, logical_pos>>
               /\ \/ Goes("ask_again") /\ io_error' \in {EIO, CLOSED}
                     /\ (call = "seek" => io_error' = EIO)
                  \/ Returns(EIO) \/ Returns(EXIT)
                  \/ Returns(CLOSED) /\ call # "read"
                  \/ /\ Returns(CLOSED) /\ call = "read" /\ io_error' = CLOSED
                     /\ logical_pos = Size \/ streamed \/ abort_request
                  \/ call = "seek" /\ io_error' \in {EXIT, CLOSED} /\ Returns(0)
  BY ConnectedIs, RefusesIs DEF Connect, ConnectIo, Connecting

LEMMA ReadDoes ==
  ASSUME HookInv, ReadInner \/ ReadInnerIo
  PROVE  /\ at = "inner" /\ call = "read" /\ kind \in Connecting
         /\ UNCHANGED <<setup, target, interrupted, io, live>>
         /\ \/ /\ \E n \in 1 .. MaxRead :
                    /\ n <= Size - inner /\ ret' = n
                    /\ dest' = [i \in 1 .. n |-> inner + i - 1]
                    /\ inner' = inner + n /\ logical_pos' = logical_pos + n
               /\ at' = "idle" /\ call' = "none" /\ io_error' = 0
            \/ \E e \in {EOF, EIO, EXIT, CLOSED} :
                 /\ Goes("ask_again") \/ Returns(e)
                 /\ io_error' = e /\ (e = EOF => logical_pos = Size)
                 /\ Returns(e) /\ e = CLOSED => logical_pos = Size \/ streamed \/ abort_request
                 /\ UNCHANGED <<inner, logical_pos>>
  BY BytesIs DEF ReadInner, ReadInnerIo, Connecting

LEMMA SeekDoes ==
  ASSUME HookInv, SeekInner \/ SeekInnerIo
  PROVE  /\ at = "inner" /\ call = "seek" /\ kind \in Connecting
         /\ UNCHANGED <<setup, target, interrupted, io, live>>
         /\ \/ inner' = target /\ logical_pos' = target /\ io_error' = 0 /\ Returns(target)
            \/ /\ io_error' \in {0, EIO, EXIT, CLOSED} /\ UNCHANGED <<inner, logical_pos>>
               /\ \/ Goes("ask_again") /\ io_error' = EIO
                  \/ Returns(EIO) \/ Returns(EXIT) \/ Returns(CLOSED)
                  \/ io_error' \in {EXIT, CLOSED} /\ Returns(0)
  BY RefusesIs DEF SeekInner, SeekInnerIo, Moved, Connecting

\* What is asked again is asked because of an error that was kept.
LEMMA ErrorInvNext ==
  ASSUME HookInv, [HookNext]_hookVars
  PROVE  ErrorInv'
<1>0. HookTypes /\ CallInv /\ ErrorInv
  BY DEF HookInv
<1>1. UNCHANGED <<kind, streamed>>
  BY DEF HookNext, hookVars, setup, Open, Read, Close, Ask, Connect, ReadInner, SeekInner, AskIo, ConnectIo,
     ReadInnerIo, SeekInnerIo, AskLive, ConnectLive, ReadPacket, Seek, Objects, OpenMds, ReadMds, CloseMds,
     OpenAndroidio, ReadAndroidio, CloseAndroidio, SeekMds, SeekAndroidio, Asks, Interrupt, Pause, Reconnect
<1> SUFFICES ASSUME kind \in Connecting, at' = "ask_again", call' \in {"open", "seek"}
             PROVE  io_error' \in {EIO, CLOSED} /\ (call' = "seek" => io_error' = EIO)
  BY <1>0, <1>1 DEF ErrorInv, Connecting
<1>2. CASE Connect \/ ConnectIo
  <2>1. Goes("ask_again") /\ io_error' \in {EIO, CLOSED} /\ (call = "seek" => io_error' = EIO)
    BY <1>2, ConnectDoes DEF Goes, Returns
  <2> QED
    BY <2>1 DEF Goes
<1>3. CASE SeekInner \/ SeekInnerIo
  <2>1. Goes("ask_again") /\ io_error' = EIO
    BY <1>3, SeekDoes DEF Goes, Returns
  <2> QED
    BY <2>1
<1>4. CASE Ask \/ AskIo
  BY <1>4, AskDoes DEF Goes, Returns
<1>5. CASE ReadInner \/ ReadInnerIo
  BY <1>5, ReadDoes DEF Goes, Returns
<1>6. CASE Open \/ Read \/ Close \/ (\E t \in SeekTo : Seek(t))
  BY <1>0, <1>6 DEF CallInv, Open, OpenTcp, OpenHttp, OpenIo, OpenLive, Read, ReadHttp, ReadIo, ReadLive, Close,
     Seek, SeekNowhere, SeekHttp, SeekIo, Begins
<1>7. CASE Interrupt \/ Pause \/ Reconnect \/ UNCHANGED hookVars
  BY <1>0, <1>7 DEF ErrorInv, Interrupt, Pause, Reconnect, hookVars, stream
<1>8. CASE AskLive \/ ConnectLive \/ ReadPacket \/ Objects
  BY <1>8 DEF Connecting, AskLive, ConnectLive, ReadPacket, Objects, OpenMds, ReadMds, CloseMds, OpenAndroidio,
     ReadAndroidio, CloseAndroidio, SeekMds, SeekAndroidio, Asks
<1> QED
  BY <1>2, <1>3, <1>4, <1>5, <1>6, <1>7, <1>8 DEF HookNext

LEMMA HookInvNext == HookInv /\ [HookNext]_hookVars => HookInv'
<1> SUFFICES ASSUME HookInv, [HookNext]_hookVars PROVE HookInv'
  OBVIOUS
<1> USE SizesAssumption
<1>0. HookTypes /\ HookFlags /\ CallInv /\ ConnectionInv /\ ReconnectInv /\ LiveInv /\ ObjectInv
  BY DEF HookInv
<1>e. ErrorInv'
  BY ErrorInvNext
<1>1. CASE Open
  <2>1. HookTypes'
    BY <1>0, <1>1 DEF Open, OpenTcp, OpenHttp, OpenIo, OpenLive, Begins, setup, stream,
       io, live, HookTypes, CallInv, ConnectionInv, EOF, EIO, EXIT, CLOSED, Connecting
  <2>2. HookFlags'
    BY <1>0, <1>1 DEF Open, OpenTcp, OpenHttp, OpenIo, OpenLive, Begins, setup, stream,
       io, live, HookFlags
  <2>3. CallInv'
    BY <1>0, <1>1 DEF Open, OpenTcp, OpenHttp, OpenIo, OpenLive, Begins, setup, stream,
       io, live, HookTypes, CallInv, EOF, EIO, EXIT, CLOSED
  <2>4. ConnectionInv'
    BY <1>0, <1>1 DEF Open, OpenTcp, OpenHttp, OpenIo, OpenLive, Begins, setup, stream,
       io, live, HookTypes, CallInv, ConnectionInv, Connecting, EOF, EIO, EXIT, CLOSED
  <2>5. ReconnectInv'
    BY <1>0, <1>1 DEF Open, OpenTcp, OpenHttp, OpenIo, OpenLive, Begins, setup, stream,
       io, live, HookFlags, ReconnectInv
  <2>6. LiveInv'
    BY <1>0, <1>1 DEF Open, OpenTcp, OpenHttp, OpenIo, OpenLive, Begins, setup, stream,
       io, live, HookTypes, CallInv, LiveInv, EOF, EXIT, EIO, CLOSED
  <2>7. ObjectInv'
    BY <1>0, <1>1 DEF Open, OpenTcp, OpenHttp, OpenIo, OpenLive, Begins, setup, stream,
       io, live, HookTypes, ObjectInv, CallInv
  <2> QED
    BY <2>1, <2>2, <2>3, <2>4, <2>5, <2>6, <2>7, <1>e DEF HookInv
<1>2. CASE Read
  <2>1. HookTypes'
    BY <1>0, <1>2 DEF Read, ReadHttp, ReadIo, ReadLive, Begins, Resumed, setup, stream,
       io, live, HookTypes, CallInv, ConnectionInv, EOF, EIO, EXIT, CLOSED, Connecting
  <2>2. HookFlags'
    BY <1>0, <1>2 DEF Read, ReadHttp, ReadIo, ReadLive, Begins, Resumed, setup, stream,
       io, live, HookFlags
  <2>3. CallInv'
    BY <1>0, <1>2 DEF Read, ReadHttp, ReadIo, ReadLive, Begins, Resumed, setup, stream,
       io, live, HookTypes, CallInv, EOF, EIO, EXIT, CLOSED
  <2>4. ConnectionInv'
    BY <1>0, <1>2 DEF Read, ReadHttp, ReadIo, ReadLive, Begins, Resumed, setup, stream,
       io, live, HookTypes, CallInv, ConnectionInv, Connecting, EOF, EIO, EXIT, CLOSED
  <2>5. ReconnectInv'
    BY <1>0, <1>2 DEF Read, ReadHttp, ReadIo, ReadLive, Begins, Resumed, setup, stream,
       io, live, HookFlags, ReconnectInv
  <2>6. LiveInv'
    BY <1>0, <1>2 DEF Read, ReadHttp, ReadIo, ReadLive, Begins, Resumed, setup, stream,
       io, live, HookTypes, CallInv, LiveInv, EOF, EXIT, EIO, CLOSED
  <2>7. ObjectInv'
    BY <1>0, <1>2 DEF Read, ReadHttp, ReadIo, ReadLive, Begins, Resumed, setup, stream,
       io, live, HookTypes, ObjectInv, CallInv
  <2> QED
    BY <2>1, <2>2, <2>3, <2>4, <2>5, <2>6, <2>7, <1>e DEF HookInv
<1>3. CASE Close
  <2>1. HookTypes'
    BY <1>0, <1>3 DEF Close, setup, stream, io, live, HookTypes, CallInv, ConnectionInv,
       EOF, EIO, EXIT, CLOSED, Connecting
  <2>2. HookFlags'
    BY <1>0, <1>3 DEF Close, setup, stream, io, live, HookFlags
  <2>3. CallInv'
    BY <1>0, <1>3 DEF Close, setup, stream, io, live, HookTypes, CallInv, EOF, EIO, EXIT, CLOSED
  <2>4. ConnectionInv'
    BY <1>0, <1>3 DEF Close, setup, stream, io, live, HookTypes, CallInv, ConnectionInv,
       Connecting, EOF, EIO, EXIT, CLOSED
  <2>5. ReconnectInv'
    BY <1>0, <1>3 DEF Close, setup, stream, io, live, HookFlags, ReconnectInv
  <2>6. LiveInv'
    BY <1>0, <1>3 DEF Close, setup, stream, io, live, HookTypes, CallInv, LiveInv, EOF,
       EXIT, EIO, CLOSED
  <2>7. ObjectInv'
    BY <1>0, <1>3 DEF Close, setup, stream, io, live, HookTypes, ObjectInv, CallInv
  <2> QED
    BY <2>1, <2>2, <2>3, <2>4, <2>5, <2>6, <2>7, <1>e DEF HookInv
<1>4. CASE Ask \/ AskIo
  <2>1. HookTypes'
    BY <1>0, <1>4, AskDoes DEF Goes, Returns, ReturnsZero, Connecting, setup, io, live,
       HookTypes, CallInv, ConnectionInv, EOF, EIO, EXIT, CLOSED
  <2>2. HookFlags'
    BY <1>0, <1>4, AskDoes DEF Goes, Returns, ReturnsZero, Connecting, setup, io, live,
       HookFlags
  <2>3. CallInv'
    BY <1>0, <1>4, AskDoes DEF Goes, Returns, ReturnsZero, Connecting, setup, io, live,
       HookTypes, CallInv, EOF, EIO, EXIT, CLOSED
  <2>4. ConnectionInv'
    <3>1. io_error' \in {io_error, 0, EXIT} /\ UNCHANGED <<kind, inner, logical_pos>>
      BY <1>4, AskDoes DEF setup
    <3> QED
      BY <1>0, <3>1 DEF ConnectionInv, EOF, EXIT
  <2>5. ReconnectInv'
    BY <1>0, <1>4, AskDoes DEF Goes, Returns, ReturnsZero, Connecting, setup, io, live,
       HookFlags, ReconnectInv
  <2>6. LiveInv'
    BY <1>0, <1>4, AskDoes DEF Goes, Returns, ReturnsZero, Connecting, setup, io, live,
       HookTypes, CallInv, LiveInv, EOF, EXIT, EIO, CLOSED
  <2>7. ObjectInv'
    BY <1>0, <1>4, AskDoes DEF Goes, Returns, ReturnsZero, Connecting, setup, io, live,
       HookTypes, ObjectInv, CallInv
  <2> QED
    BY <2>1, <2>2, <2>3, <2>4, <2>5, <2>6, <2>7, <1>e DEF HookInv
<1>5. CASE AskLive
  <2>1. HookTypes'
    BY <1>0, <1>5 DEF AskLive, Refused, Asked, Unhandled, Handled, Returns, ReturnsZero,
       Goes, setup, stream, io, live, HookTypes, CallInv, ConnectionInv, EOF, EIO, EXIT, CLOSED,
       Connecting
  <2>2. HookFlags'
    BY <1>0, <1>5 DEF AskLive, Refused, Asked, Unhandled, Handled, Returns, ReturnsZero,
       Goes, setup, stream, io, live, HookFlags
  <2>3. CallInv'
    BY <1>0, <1>5 DEF AskLive, Refused, Asked, Unhandled, Handled, Returns, ReturnsZero,
       Goes, setup, stream, io, live, HookTypes, CallInv, EOF, EIO, EXIT, CLOSED
  <2>4. ConnectionInv'
    BY <1>0, <1>5 DEF AskLive, Refused, Asked, Unhandled, Handled, Returns, ReturnsZero,
       Goes, setup, stream, io, live, HookTypes, CallInv, ConnectionInv, Connecting,
       EOF, EIO, EXIT, CLOSED
  <2>5. ReconnectInv'
    BY <1>0, <1>5 DEF AskLive, Refused, Asked, Unhandled, Handled, Returns, ReturnsZero,
       Goes, setup, stream, io, live, HookFlags, ReconnectInv
  <2>6. LiveInv'
    <3>1. /\ io_error' \in {io_error, EXIT} /\ call' \in {call, "none"}
          /\ UNCHANGED <<kind, inner, logical_pos, gap>> /\ at \in {"ask", "ask_again"}
      BY <1>5 DEF AskLive, Refused, Returns, Goes, setup
    <3>2. discontinuity => discontinuity'
      BY <1>5 DEF AskLive
    <3>3. at = "ask_again" /\ at' = "connect" => discontinuity'
      BY <1>5 DEF AskLive, Refused, Returns
    <3> QED
      BY <1>0, <3>1, <3>2, <3>3 DEF LiveInv, CallInv, HookTypes
  <2>7. ObjectInv'
    BY <1>0, <1>5 DEF AskLive, Refused, Asked, Unhandled, Handled, Returns, ReturnsZero,
       Goes, setup, stream, io, live, HookTypes, ObjectInv, CallInv
  <2> QED
    BY <2>1, <2>2, <2>3, <2>4, <2>5, <2>6, <2>7, <1>e DEF HookInv
<1>6. CASE Interrupt \/ Pause \/ Reconnect \/ UNCHANGED hookVars
  <2>1. HookTypes'
    BY <1>0, <1>6 DEF Interrupt, Pause, Reconnect, hookVars, setup, stream, io, live,
       HookTypes, CallInv, ConnectionInv, EOF, EIO, EXIT, CLOSED, Connecting
  <2>2. HookFlags'
    BY <1>0, <1>6 DEF Interrupt, Pause, Reconnect, hookVars, setup, stream, io, live,
       HookFlags
  <2>3. CallInv'
    BY <1>0, <1>6 DEF Interrupt, Pause, Reconnect, hookVars, setup, stream, io, live,
       HookTypes, CallInv, EOF, EIO, EXIT, CLOSED
  <2>4. ConnectionInv'
    BY <1>0, <1>6 DEF Interrupt, Pause, Reconnect, hookVars, setup, stream, io, live,
       HookTypes, CallInv, ConnectionInv, Connecting, EOF, EIO, EXIT, CLOSED
  <2>5. ReconnectInv'
    BY <1>0, <1>6 DEF Interrupt, Pause, Reconnect, hookVars, setup, stream, io, live,
       HookFlags, ReconnectInv
  <2>6. LiveInv'
    BY <1>0, <1>6 DEF Interrupt, Pause, Reconnect, hookVars, setup, stream, io, live,
       HookTypes, CallInv, LiveInv, EOF, EXIT, EIO, CLOSED
  <2>7. ObjectInv'
    BY <1>0, <1>6 DEF Interrupt, Pause, Reconnect, hookVars, setup, stream, io, live,
       HookTypes, ObjectInv, CallInv
  <2> QED
    BY <2>1, <2>2, <2>3, <2>4, <2>5, <2>6, <2>7, <1>e DEF HookInv
<1>7. CASE Connect \/ ConnectIo
  <2>1. HookTypes'
    BY <1>0, <1>7, ConnectDoes DEF Goes, Returns, Connecting, setup, io, live,
       HookTypes, CallInv, ConnectionInv, EOF, EIO, EXIT, CLOSED
  <2>2. HookFlags'
    BY <1>0, <1>7, ConnectDoes DEF Goes, Returns, Connecting, setup, io, live, HookFlags
  <2>3. CallInv'
    BY <1>0, <1>7, ConnectDoes DEF Goes, Returns, Connecting, setup, io, live,
       HookTypes, CallInv, EOF, EIO, EXIT, CLOSED
  <2>4. ConnectionInv'
    BY <1>0, <1>7, ConnectDoes DEF Goes, Returns, Connecting, setup, io, live,
       HookTypes, CallInv, ConnectionInv, EOF, EIO, EXIT, CLOSED
  <2>5. ReconnectInv'
    BY <1>0, <1>7, ConnectDoes DEF Goes, Returns, Connecting, setup, io, live,
       HookFlags, ReconnectInv
  <2>6. LiveInv'
    BY <1>0, <1>7, ConnectDoes DEF Goes, Returns, Connecting, setup, io, live,
       HookTypes, CallInv, LiveInv, EOF, EXIT, EIO, CLOSED
  <2>7. ObjectInv'
    BY <1>0, <1>7, ConnectDoes DEF Goes, Returns, Connecting, setup, io, live,
       HookTypes, ObjectInv, CallInv
  <2> QED
    BY <2>1, <2>2, <2>3, <2>4, <2>5, <2>6, <2>7, <1>e DEF HookInv
<1>8. CASE ConnectLive
  <2>1. HookTypes'
    BY <1>0, <1>8 DEF ConnectLive, Errors, FailsLive, Returns, Goes, setup, stream, io,
       live, HookTypes, CallInv, ConnectionInv, EOF, EIO, EXIT, CLOSED, Connecting
  <2>2. HookFlags'
    BY <1>0, <1>8 DEF ConnectLive, Errors, FailsLive, Returns, Goes, setup, stream, io,
       live, HookFlags
  <2>3. CallInv'
    BY <1>0, <1>8 DEF ConnectLive, Errors, FailsLive, Returns, Goes, setup, stream, io,
       live, HookTypes, CallInv, EOF, EIO, EXIT, CLOSED
  <2>4. ConnectionInv'
    BY <1>0, <1>8 DEF ConnectLive, Errors, FailsLive, Returns, Goes, setup, stream, io,
       live, HookTypes, CallInv, ConnectionInv, Connecting, EOF, EIO, EXIT, CLOSED
  <2>5. ReconnectInv'
    BY <1>0, <1>8 DEF ConnectLive, Errors, FailsLive, Returns, Goes, setup, stream, io,
       live, HookFlags, ReconnectInv
  <2>6. LiveInv'
    BY <1>0, <1>8 DEF ConnectLive, Errors, FailsLive, Returns, Goes, setup, stream, io,
       live, HookTypes, CallInv, LiveInv, EOF, EXIT, EIO, CLOSED
  <2>7. ObjectInv'
    BY <1>0, <1>8 DEF ConnectLive, Errors, FailsLive, Returns, Goes, setup, stream, io,
       live, HookTypes, ObjectInv, CallInv
  <2> QED
    BY <2>1, <2>2, <2>3, <2>4, <2>5, <2>6, <2>7, <1>e DEF HookInv
<1>9. CASE ReadInner \/ ReadInnerIo
  <2>1. HookTypes'
    BY <1>0, <1>9, ReadDoes DEF Goes, Returns, Connecting, setup, io, live, HookTypes,
       CallInv, ConnectionInv, EOF, EIO, EXIT, CLOSED
  <2>2. HookFlags'
    BY <1>0, <1>9, ReadDoes DEF Goes, Returns, Connecting, setup, io, live, HookFlags
  <2>3. CallInv'
    BY <1>0, <1>9, ReadDoes DEF Goes, Returns, Connecting, setup, io, live, HookTypes,
       CallInv, EOF, EIO, EXIT, CLOSED
  <2>4. ConnectionInv'
    BY <1>0, <1>9, ReadDoes DEF Goes, Returns, Connecting, setup, io, live, HookTypes,
       CallInv, ConnectionInv, EOF, EIO, EXIT, CLOSED
  <2>5. ReconnectInv'
    BY <1>0, <1>9, ReadDoes DEF Goes, Returns, Connecting, setup, io, live, HookFlags,
       ReconnectInv
  <2>6. LiveInv'
    BY <1>0, <1>9, ReadDoes DEF Goes, Returns, Connecting, setup, io, live, HookTypes,
       CallInv, LiveInv, EOF, EXIT, EIO, CLOSED
  <2>7. ObjectInv'
    BY <1>0, <1>9, ReadDoes DEF Goes, Returns, Connecting, setup, io, live, HookTypes,
       ObjectInv, CallInv
  <2> QED
    BY <2>1, <2>2, <2>3, <2>4, <2>5, <2>6, <2>7, <1>e DEF HookInv
<1>10. CASE ReadPacket
  <2>1. HookTypes'
    BY <1>0, <1>10 DEF ReadPacket, Errors, FailsLive, Returns, Goes, setup, stream, io,
       live, HookTypes, CallInv, ConnectionInv, EOF, EIO, EXIT, CLOSED, Connecting
  <2>2. HookFlags'
    BY <1>0, <1>10 DEF ReadPacket, Errors, FailsLive, Returns, Goes, setup, stream, io,
       live, HookFlags
  <2>3. CallInv'
    BY <1>0, <1>10 DEF ReadPacket, Errors, FailsLive, Returns, Goes, setup, stream, io,
       live, HookTypes, CallInv, EOF, EIO, EXIT, CLOSED
  <2>4. ConnectionInv'
    BY <1>0, <1>10 DEF ReadPacket, Errors, FailsLive, Returns, Goes, setup, stream, io,
       live, HookTypes, CallInv, ConnectionInv, Connecting, EOF, EIO, EXIT, CLOSED
  <2>5. ReconnectInv'
    BY <1>0, <1>10 DEF ReadPacket, Errors, FailsLive, Returns, Goes, setup, stream, io,
       live, HookFlags, ReconnectInv
  <2>6. LiveInv'
    BY <1>0, <1>10 DEF ReadPacket, Errors, FailsLive, Returns, Goes, setup, stream, io,
       live, HookTypes, CallInv, LiveInv, EOF, EXIT, EIO, CLOSED
  <2>7. ObjectInv'
    BY <1>0, <1>10 DEF ReadPacket, Errors, FailsLive, Returns, Goes, setup, stream, io,
       live, HookTypes, ObjectInv, CallInv
  <2> QED
    BY <2>1, <2>2, <2>3, <2>4, <2>5, <2>6, <2>7, <1>e DEF HookInv
<1>11. CASE SeekInner \/ SeekInnerIo
  <2>1. HookTypes'
    BY <1>0, <1>11, SeekDoes DEF Goes, Returns, Connecting, setup, io, live, HookTypes,
       CallInv, ConnectionInv, EOF, EIO, EXIT, CLOSED
  <2>2. HookFlags'
    BY <1>0, <1>11, SeekDoes DEF Goes, Returns, Connecting, setup, io, live, HookFlags
  <2>3. CallInv'
    BY <1>0, <1>11, SeekDoes DEF Goes, Returns, Connecting, setup, io, live, HookTypes,
       CallInv, EOF, EIO, EXIT, CLOSED
  <2>4. ConnectionInv'
    BY <1>0, <1>11, SeekDoes DEF Goes, Returns, Connecting, setup, io, live, HookTypes,
       CallInv, ConnectionInv, EOF, EIO, EXIT, CLOSED
  <2>5. ReconnectInv'
    BY <1>0, <1>11, SeekDoes DEF Goes, Returns, Connecting, setup, io, live, HookFlags,
       ReconnectInv
  <2>6. LiveInv'
    BY <1>0, <1>11, SeekDoes DEF Goes, Returns, Connecting, setup, io, live, HookTypes,
       CallInv, LiveInv, EOF, EXIT, EIO, CLOSED
  <2>7. ObjectInv'
    BY <1>0, <1>11, SeekDoes DEF Goes, Returns, Connecting, setup, io, live, HookTypes,
       ObjectInv, CallInv
  <2> QED
    BY <2>1, <2>2, <2>3, <2>4, <2>5, <2>6, <2>7, <1>e DEF HookInv
<1>12. CASE \E t \in SeekTo : Seek(t)
  <2>1. HookTypes'
    BY <1>0, <1>12 DEF Seek, SeekNowhere, SeekHttp, SeekIo, Begins, Resumed, setup,
       stream, io, live, HookTypes, CallInv, ConnectionInv, EOF, EIO, EXIT, CLOSED, Connecting
  <2>2. HookFlags'
    BY <1>0, <1>12 DEF Seek, SeekNowhere, SeekHttp, SeekIo, Begins, Resumed, setup,
       stream, io, live, HookFlags
  <2>3. CallInv'
    BY <1>0, <1>12 DEF Seek, SeekNowhere, SeekHttp, SeekIo, Begins, Resumed, setup,
       stream, io, live, HookTypes, CallInv, EOF, EIO, EXIT, CLOSED
  <2>4. ConnectionInv'
    BY <1>0, <1>12 DEF Seek, SeekNowhere, SeekHttp, SeekIo, Begins, Resumed, setup,
       stream, io, live, HookTypes, CallInv, ConnectionInv, Connecting, EOF, EIO, EXIT, CLOSED
  <2>5. ReconnectInv'
    BY <1>0, <1>12 DEF Seek, SeekNowhere, SeekHttp, SeekIo, Begins, Resumed, setup,
       stream, io, live, HookFlags, ReconnectInv
  <2>6. LiveInv'
    BY <1>0, <1>12 DEF Seek, SeekNowhere, SeekHttp, SeekIo, Begins, Resumed, setup,
       stream, io, live, HookTypes, CallInv, LiveInv, EOF, EXIT, EIO, CLOSED
  <2>7. ObjectInv'
    BY <1>0, <1>12 DEF Seek, SeekNowhere, SeekHttp, SeekIo, Begins, Resumed, setup,
       stream, io, live, HookTypes, ObjectInv, CallInv
  <2> QED
    BY <2>1, <2>2, <2>3, <2>4, <2>5, <2>6, <2>7, <1>e DEF HookInv
<1>13. CASE Objects
  <2>1. HookTypes'
    BY <1>0, <1>13 DEF Objects, OpenMds, ReadMds, CloseMds, OpenAndroidio,
       ReadAndroidio, CloseAndroidio, SeekMds, SeekAndroidio, Asks, Opens, Reads, Seeks,
       Closes, setup, stream, io, live, HookTypes, CallInv, ConnectionInv, EOF, EIO,
       EXIT, CLOSED, Connecting
  <2>2. HookFlags'
    BY <1>0, <1>13 DEF Objects, OpenMds, ReadMds, CloseMds, OpenAndroidio,
       ReadAndroidio, CloseAndroidio, SeekMds, SeekAndroidio, Asks, Opens, Reads, Seeks,
       Closes, setup, stream, io, live, HookFlags
  <2>3. CallInv'
    BY <1>0, <1>13 DEF Objects, OpenMds, ReadMds, CloseMds, OpenAndroidio,
       ReadAndroidio, CloseAndroidio, SeekMds, SeekAndroidio, Asks, Opens, Reads, Seeks,
       Closes, setup, stream, io, live, HookTypes, CallInv, EOF, EIO, EXIT, CLOSED
  <2>4. ConnectionInv'
    BY <1>0, <1>13 DEF Objects, OpenMds, ReadMds, CloseMds, OpenAndroidio,
       ReadAndroidio, CloseAndroidio, SeekMds, SeekAndroidio, Asks, Opens, Reads, Seeks,
       Closes, setup, stream, io, live, HookTypes, CallInv, ConnectionInv, Connecting,
       EOF, EIO, EXIT, CLOSED
  <2>5. ReconnectInv'
    BY <1>0, <1>13 DEF Objects, OpenMds, ReadMds, CloseMds, OpenAndroidio,
       ReadAndroidio, CloseAndroidio, SeekMds, SeekAndroidio, Asks, Opens, Reads, Seeks,
       Closes, setup, stream, io, live, HookFlags, ReconnectInv
  <2>6. LiveInv'
    BY <1>0, <1>13 DEF Objects, OpenMds, ReadMds, CloseMds, OpenAndroidio,
       ReadAndroidio, CloseAndroidio, SeekMds, SeekAndroidio, Asks, Opens, Reads, Seeks,
       Closes, setup, stream, io, live, HookTypes, CallInv, LiveInv, EOF, EXIT, EIO, CLOSED
  <2>7. ObjectInv'
    BY <1>0, <1>13 DEF Objects, OpenMds, ReadMds, CloseMds, OpenAndroidio,
       ReadAndroidio, CloseAndroidio, SeekMds, SeekAndroidio, Asks, Opens, Reads, Seeks,
       Closes, setup, stream, io, live, HookTypes, ObjectInv, CallInv
  <2> QED
    BY <2>1, <2>2, <2>3, <2>4, <2>5, <2>6, <2>7, <1>e DEF HookInv
<1> QED
  BY <1>1, <1>2, <1>3, <1>4, <1>5, <1>6, <1>7, <1>8, <1>9, <1>10, <1>11, <1>12, <1>13
     DEF HookNext

\* Types and places of the hooks, the live demuxer and the sources over a Java object;
\* the connection in use stands where the reader is, whichever connection it is; an end
\* that a read met is the end, one that broke a connection off need not be, and never has
\* the application asked again for a seek (ijkurlhook.c, ijkiourlhook.c, ijklivehook.c).
THEOREM HookCorrect == HookSpec => []HookInv
  BY HookInvInit, HookInvNext, PTL DEF HookSpec

-----------------------------------------------------------------------------
(* Whatever the protocol does, its reader sees a step of the stream.       *)

Place == IF kind = "androidio" THEN inner ELSE logical_pos

Failures == {EIO, EXIT, ENOSYS, EAGAIN, CLOSED}

\* What a step of the protocol may be to the reader.
Quiet  == UNCHANGED <<Place, dest, ret>>
Begun  == dest' = <<>> /\ ret' = 0 /\ UNCHANGED Place
Failed == /\ dest' = <<>> /\ UNCHANGED Place
          /\ ret' \in Failures \/ (ret' = EOF /\ (Place = Size \/ CutShort'))
Denied == ret' \in Failures /\ UNCHANGED <<Place, dest>>
Sought == Place' \in 0 .. Size /\ ret' = Place' /\ UNCHANGED dest
Taken  == \E n \in 1 .. MaxRead :
            /\ n <= Size - Place /\ Place' = Place + n /\ ret' = n
            /\ dest' = [i \in 1 .. n |-> Place + i - 1]

Seen == Quiet \/ Begun \/ Failed \/ Denied \/ Sought \/ Taken

LEMMA SeenIsAStep ==
  ASSUME HookTypes, Seen
  PROVE  [Stream!Next]_(Stream!streamVars)
<1> USE DEF Place, Failures
<1>1. CASE Quiet
  BY <1>1 DEF Quiet, Stream!streamVars
<1>2. CASE Begun
  BY <1>2 DEF Begun, Stream!Begin, Stream!Next
<1>3. CASE Failed
  BY <1>3 DEF Failed, Stream!ReadFails, Stream!Next
<1>4. CASE Denied
  BY <1>4 DEF Denied, Stream!SeekFails, Stream!Next
<1>5. CASE Sought
  BY <1>5 DEF Sought, Stream!Seek, Stream!Next
<1>6. CASE Taken
  <2>1. PICK n \in 1 .. MaxRead :
          /\ n <= Size - Place /\ Place' = Place + n /\ ret' = n
          /\ dest' = [i \in 1 .. n |-> Place + i - 1]
    BY <1>6 DEF Taken
  <2>2. n \in 1 .. Size - Place
    BY <2>1, SizesAssumption DEF HookTypes
  <2>3. Stream!Read
    BY <2>1, <2>2 DEF Stream!Read
  <2> QED
    BY <2>3 DEF Stream!Next
<1> QED
  BY <1>1, <1>2, <1>3, <1>4, <1>5, <1>6 DEF Seen

LEMMA HookSeen ==
  ASSUME HookInv, [HookNext]_hookVars, FALSE \notin Handles, ~AnyReconnect
  PROVE  Seen /\ (call = "read" => logical_pos' >= logical_pos)
<1> USE SizesAssumption
<1> DEFINE Onward == call = "read" => logical_pos' >= logical_pos
<1>0. HookTypes /\ HookFlags /\ CallInv /\ ConnectionInv /\ ReconnectInv /\ LiveInv /\ ObjectInv
  BY DEF HookInv
<1>1. CASE Open
  <2>1. Begun
    BY <1>1 DEF Open, OpenTcp, OpenHttp, OpenIo, OpenLive, Begins, setup, stream, Begun, Place
  <2> QED
    BY <1>0, <1>1, <2>1 DEF Seen, Open, CallInv
<1>2. CASE Read
  <2>1. UNCHANGED <<inner, logical_pos, kind>> /\ at = "idle"
    BY <1>2 DEF Read, setup
  <2>2. CASE ReadHttp
    BY <1>0, <2>1, <2>2 DEF ReadHttp, Begins, Begun, Seen, Place, HookTypes
  <2>3. CASE ReadLive
    BY <1>0, <2>1, <2>3 DEF ReadLive, LiveInv, Begins, Begun, Failed, Failures, Seen, Place, HookTypes, CallInv
  <2>4. CASE ReadIo
    <3>1. ~active_reconnect \/ logical_size = Size
      BY <1>0, <2>4 DEF ReconnectInv, ReadIo, HookFlags, logical_size
    <3>2. Begun \/ (dest' = <<>> /\ ret' = EOF /\ logical_pos >= Size)
      BY <1>0, <2>1, <2>4, <3>1 DEF ReadIo, Begins, Begun, Place, HookTypes
    <3> QED
      BY <1>0, <2>1, <2>4, <3>2 DEF Failed, Seen, Place, HookTypes, ReadIo
  <2> QED
    BY <1>2, <2>2, <2>3, <2>4 DEF Read
<1>3. CASE Close
  BY <1>0, <1>3 DEF Close, setup, Sought, Seen, Place, CallInv
<1>4. CASE Ask \/ AskIo
  <2>1. \/ Goes("connect") \/ Goes("inner") \/ Returns(EXIT) \/ Returns(EIO)
        \/ call = "open" /\ Returns(CLOSED)
    BY <1>4, AskDoes
  <2>2. UNCHANGED <<kind, inner, logical_pos>>
    BY <1>4, AskDoes DEF setup
  <2>3. EIO # CLOSED /\ EXIT # CLOSED
    BY DEF EIO, EXIT, CLOSED
  <2> QED
    BY <1>0, <2>1, <2>2, <2>3 DEF Goes, Returns, Quiet, Failed, Failures, Seen, Place, HookTypes
<1>5. CASE AskLive
  <2>1. (Goes("connect") \/ Returns(EXIT)) /\ UNCHANGED <<kind, inner, logical_pos>>
    BY <1>5 DEF AskLive, Refused, setup
  <2> QED
    BY <1>0, <2>1 DEF Goes, Returns, Quiet, Failed, Failures, Seen, Place, HookTypes, EXIT, CLOSED
<1>6. CASE Interrupt \/ Pause \/ Reconnect \/ UNCHANGED hookVars
  <2>1. UNCHANGED <<kind, inner, logical_pos, dest, ret>>
    BY <1>6 DEF Interrupt, Pause, Reconnect, hookVars, setup, stream
  <2> QED
    BY <1>0, <2>1 DEF Quiet, Seen, Place, HookTypes
<1>7. CASE Connect \/ ConnectIo
  <2>1. kind \in Connecting /\ UNCHANGED kind /\ at = "connect" /\ call # "none"
    BY <1>0, <1>7, ConnectDoes DEF setup, CallInv
  <2>2. CASE call = "open" /\ Returns(0) /\ logical_pos' = 0
    BY <1>0, <2>1, <2>2 DEF Returns, CallInv, Connecting, Begun, Seen, Place
  <2>3. CASE call = "read" /\ Goes("inner") /\ logical_pos' = logical_pos
    BY <1>0, <2>1, <2>3 DEF Goes, Connecting, Quiet, Seen, Place, HookTypes
  <2>4. CASE call = "seek" /\ Returns(target) /\ logical_pos' = target
    BY <1>0, <2>1, <2>4 DEF Returns, CallInv, Connecting, Sought, Seen, Place, HookTypes
  <2>5. CASE Goes("ask_again") /\ logical_pos' = logical_pos
    BY <1>0, <2>1, <2>5 DEF Goes, Connecting, Quiet, Seen, Place, HookTypes
  <2>6. CASE /\ Returns(EIO) \/ Returns(EXIT) \/ (Returns(CLOSED) /\ call # "read")
             /\ logical_pos' = logical_pos
    BY <1>0, <2>1, <2>6 DEF Returns, Connecting, Failed, Failures, Seen, Place, HookTypes, EIO, EXIT, CLOSED
  <2>7. CASE /\ Returns(CLOSED) /\ call = "read" /\ io_error' = CLOSED
             /\ logical_pos = Size \/ streamed \/ abort_request
             /\ logical_pos' = logical_pos
    <3>1. UNCHANGED <<streamed, abort_request>>
      BY <1>7, ConnectDoes DEF setup, io
    <3>2. dest' = <<>> /\ ret' = EOF /\ (Place = Size \/ CutShort') /\ UNCHANGED Place
      BY <2>1, <2>7, <3>1 DEF Returns, Connecting, Place, CutShort
    <3> QED
      BY <1>0, <2>7, <3>2 DEF Failed, Seen, HookTypes
  <2>8. CASE Returns(0) /\ logical_pos' = logical_pos
    BY <1>0, <2>1, <2>8 DEF Returns, Connecting, Begun, Seen, Place, HookTypes, CLOSED
  <2> QED
    BY <1>7, ConnectDoes, <2>2, <2>3, <2>4, <2>5, <2>6, <2>7, <2>8
<1>8. CASE ConnectLive
  <2>1. /\ UNCHANGED <<kind, inner, logical_pos>>
        /\ Returns(0) \/ Goes("inner") \/ Goes("ask_again") \/ Returns(EXIT)
    BY <1>8 DEF ConnectLive, FailsLive, setup
  <2> QED
    BY <1>0, <2>1 DEF Goes, Returns, Quiet, Begun, Failed, Failures, Seen, Place, HookTypes,
       EXIT, CLOSED
<1>9. CASE ReadInner \/ ReadInnerIo
  <2>1. kind \in Connecting /\ UNCHANGED kind /\ inner = logical_pos
    BY <1>0, <1>9, ReadDoes DEF setup, ConnectionInv
  <2>2. ASSUME NEW n \in 1 .. MaxRead,
               n <= Size - inner, ret' = n, dest' = [i \in 1 .. n |-> inner + i - 1],
               logical_pos' = logical_pos + n
        PROVE  Seen /\ Onward
    <3>1. Place = inner /\ Place' = Place + n
      BY <2>1, <2>2 DEF Place, Connecting
    <3> QED
      BY <1>0, <2>2, <3>1 DEF Taken, Seen, HookTypes
  <2>3. CASE Goes("ask_again") /\ logical_pos' = logical_pos
    BY <1>0, <2>1, <2>3 DEF Goes, Connecting, Quiet, Seen, Place, HookTypes
  <2>4. ASSUME NEW e \in {EOF, EIO, EXIT, CLOSED}, Returns(e), e = EOF => logical_pos = Size,
               io_error' = e, e = CLOSED => logical_pos = Size \/ streamed \/ abort_request,
               logical_pos' = logical_pos
        PROVE  Seen /\ Onward
    <3>1. UNCHANGED <<streamed, abort_request>> /\ call = "read"
      BY <1>9, ReadDoes DEF setup, io
    <3>2. /\ dest' = <<>> /\ UNCHANGED Place
          /\ ret' \in Failures \/ (ret' = EOF /\ (Place = Size \/ CutShort'))
      BY <2>1, <2>4, <3>1 DEF Returns, Connecting, Place, CutShort, Failures
    <3> QED
      BY <1>0, <2>4, <3>2 DEF Failed, Seen, HookTypes
  <2> QED
    BY <1>9, ReadDoes, <2>2, <2>3, <2>4
<1>10. CASE ReadPacket
  <2>1. /\ UNCHANGED <<kind, inner, logical_pos>>
        /\ Returns(0) \/ Goes("ask_again") \/ Returns(EXIT)
    BY <1>10 DEF ReadPacket, FailsLive, setup
  <2> QED
    BY <1>0, <2>1 DEF Goes, Returns, Quiet, Begun, Failed, Failures, Seen, Place, HookTypes,
       EXIT, CLOSED
<1>11. CASE SeekInner \/ SeekInnerIo
  <2>1. kind \in Connecting /\ UNCHANGED kind /\ call = "seek" /\ dest = <<>>
    BY <1>0, <1>11, SeekDoes DEF setup, CallInv
  <2>2. CASE logical_pos' = target /\ Returns(target)
    BY <1>0, <2>1, <2>2 DEF Returns, Connecting, Sought, Seen, Place, HookTypes
  <2>3. CASE Goes("ask_again") /\ logical_pos' = logical_pos
    BY <1>0, <2>1, <2>3 DEF Goes, Connecting, Quiet, Seen, Place, HookTypes
  <2>4. CASE (Returns(EIO) \/ Returns(EXIT) \/ Returns(CLOSED)) /\ logical_pos' = logical_pos
    BY <1>0, <2>1, <2>4 DEF Returns, Connecting, Failed, Failures, Seen, Place, HookTypes
  <2>5. CASE Returns(0) /\ logical_pos' = logical_pos
    BY <1>0, <2>1, <2>5 DEF Returns, Connecting, Begun, Seen, Place, HookTypes
  <2> QED
    BY <1>11, SeekDoes, <2>2, <2>3, <2>4, <2>5
<1>12. ASSUME NEW t \in SeekTo, Seek(t)
       PROVE  Seen /\ Onward
  <2>1. UNCHANGED <<kind, inner, logical_pos>> /\ at = "idle" /\ t \in 0 .. Size
    BY <1>12 DEF Seek, setup, stream
  <2>2. CASE SeekNowhere(t)
    BY <1>0, <2>1, <2>2 DEF SeekNowhere, Sought, Seen, Place, HookTypes
  <2>3. CASE SeekHttp(t)
    BY <1>0, <2>1, <2>3 DEF SeekHttp, Begins, Begun, Denied, Failures, Seen, Place, HookTypes
  <2>4. CASE SeekIo(t)
    BY <1>0, <2>1, <2>4 DEF SeekIo, Begins, Begun, Seen, Place, HookTypes
  <2> QED
    BY <1>12, <2>2, <2>3, <2>4 DEF Seek
<1>13. CASE Objects
  <2>1. UNCHANGED <<kind, call>> /\ call # "read"
    BY <1>0, <1>13 DEF Objects, OpenMds, ReadMds, CloseMds, OpenAndroidio, ReadAndroidio, CloseAndroidio,
       SeekMds, SeekAndroidio, Asks, setup, ObjectInv
  <2>2. CASE OpenMds \/ OpenAndroidio
    BY <1>0, <2>1, <2>2 DEF OpenMds, OpenAndroidio, Asks, Opens, CallInv, Sought, Denied, Failures, Seen, Place
  <2>3. CASE CloseMds \/ CloseAndroidio
    BY <1>0, <2>1, <2>3 DEF CloseMds, CloseAndroidio, Asks, Closes, Sought, Seen, Place
  <2>4. CASE ReadMds
    BY <1>0, <2>1, <2>4 DEF ReadMds, Asks, Reads, Taken, Failed, Failures, Seen, Place, HookTypes
  <2>5. CASE ReadAndroidio
    BY <1>0, <2>1, <2>5 DEF ReadAndroidio, Asks, Reads, Taken, Failed, Failures, Seen, Place, HookTypes
  <2>6. ASSUME NEW t \in SeekTo, SeekMds(t) \/ SeekAndroidio(t) PROVE Seen
    BY <1>0, <2>1, <2>6 DEF SeekMds, SeekAndroidio, Asks, Seeks, Sought, Denied, Failures, Seen, Place, HookTypes
  <2> QED
    BY <1>13, <2>1, <2>2, <2>3, <2>4, <2>5, <2>6 DEF Objects
<1> QED
  BY <1>1, <1>2, <1>3, <1>4, <1>5, <1>6, <1>7, <1>8, <1>9, <1>10, <1>11, <1>12, <1>13 DEF HookNext

\* Whoever reads from a hook reads one stream, over however many connections, and is told
\* an end only there or where the last connection it may make broke off: as long as the
\* application handles a failure and asks for no reconnection that cannot be made
\* (ijkurlhook.c:305, ijkiourlhook.c:336).
THEOREM HooksAreStreams ==
  FALSE \notin Handles /\ ~AnyReconnect => (HookSpec => ImplementsStream)
<1> SUFFICES ASSUME FALSE \notin Handles, ~AnyReconnect
             PROVE  HookSpec => ImplementsStream
  OBVIOUS
<1>1. HookInit => Stream!Init
  BY DEF HookInit, Stream!Init
<1>2. HookInv /\ [HookNext]_hookVars => [Stream!Next]_(Stream!streamVars)
  BY HookSeen, SeenIsAStep DEF HookInv
<1>3. HookInv /\ [HookNext]_hookVars => [call = "read" => logical_pos' >= logical_pos]_hookVars
  BY HookSeen
<1> QED
  BY <1>1, <1>2, <1>3, HookCorrect, PTL DEF HookSpec, ImplementsStream, Stream!Spec

-----------------------------------------------------------------------------
(* What a seek answers, and what the first packet after a gap says.        *)

SeekAnswered ==
  call = "seek" /\ call' = "none" /\ ret' >= 0 =>
    \/ ret' = target /\ logical_pos' = target /\ inner' = target
    \/ ret' = 0 /\ io_error' \in Excused /\ UNCHANGED <<inner, logical_pos>>

GapTold ==
  kind = "live" /\ call = "read" /\ call' = "none" /\ ret' = 0 /\ gap => flagged'

LEMMA SeekIsAnswered ==
  ASSUME HookInv, [HookNext]_hookVars
  PROVE  SeekAnswered
<1> SUFFICES ASSUME call = "seek", call' = "none", ret' >= 0
             PROVE  \/ ret' = target /\ logical_pos' = target /\ inner' = target
                    \/ ret' = 0 /\ io_error' \in Excused /\ UNCHANGED <<inner, logical_pos>>
  BY DEF SeekAnswered
<1>0. at \notin {"closed", "idle"} /\ kind \notin {"live", "mds", "androidio"}
  BY DEF HookInv, CallInv, LiveInv, ObjectInv
<1>n. ~Goes("connect") /\ ~Goes("inner") /\ ~Goes("ask_again")
  BY DEF Goes
<1>r. ~Returns(EIO) /\ ~Returns(EXIT) /\ ~Returns(CLOSED)
  BY DEF Returns, EIO, EXIT, CLOSED
<1>z. ASSUME NEW n, Returns(n)
      PROVE  ret' = n
  BY <1>z DEF Returns
<1>1. CASE Ask \/ AskIo
  <2>1. FALSE \in Handles /\ Returns(0) /\ io_error' = EIO /\ UNCHANGED <<inner, logical_pos>>
    BY <1>1, <1>n, <1>r, AskDoes
  <2> QED
    BY <2>1, <1>z DEF Excused
<1>2. CASE Connect \/ ConnectIo
  <2>1. \/ Returns(target) /\ logical_pos' = target /\ inner' = target
        \/ io_error' \in {EXIT, CLOSED} /\ Returns(0) /\ UNCHANGED <<inner, logical_pos>>
    BY <1>2, <1>n, <1>r, ConnectDoes
  <2> QED
    BY <2>1, <1>z DEF Excused
<1>3. CASE SeekInner \/ SeekInnerIo
  <2>1. \/ Returns(target) /\ logical_pos' = target /\ inner' = target
        \/ io_error' \in {EXIT, CLOSED} /\ Returns(0) /\ UNCHANGED <<inner, logical_pos>>
    BY <1>3, <1>n, <1>r, SeekDoes
  <2> QED
    BY <2>1, <1>z DEF Excused
<1>4. CASE UNCHANGED call
  BY <1>4
<1>5. CASE ReadInner \/ ReadInnerIo
  BY <1>5, ReadDoes
<1>6. CASE Objects
  BY <1>0, <1>6 DEF Objects, OpenMds, ReadMds, CloseMds, OpenAndroidio, ReadAndroidio, CloseAndroidio,
     SeekMds, SeekAndroidio, Asks
<1>7. CASE Interrupt \/ Pause \/ Reconnect \/ UNCHANGED hookVars
  BY <1>4, <1>7 DEF Interrupt, Pause, Reconnect, hookVars
<1>8. CASE Open \/ Read \/ Close \/ \E t \in SeekTo : Seek(t)
  BY <1>0, <1>8 DEF Open, Read, Close, Seek
<1>9. CASE AskLive \/ ConnectLive \/ ReadPacket
  BY <1>0, <1>9 DEF AskLive, ConnectLive, ReadPacket
<1> QED
  BY <1>1, <1>2, <1>3, <1>5, <1>6, <1>7, <1>8, <1>9 DEF HookNext

LEMMA GapIsTold ==
  ASSUME HookInv, [HookNext]_hookVars
  PROVE  GapTold
<1> SUFFICES ASSUME kind = "live", call = "read", call' = "none", ret' = 0, gap
             PROVE  flagged'
  BY DEF GapTold
<1>0. at \notin {"closed", "idle", "ask"} /\ discontinuity
  BY DEF HookInv, CallInv, LiveInv
<1>1. CASE AskLive
  BY <1>1 DEF AskLive, Refused, Returns, Goes, EXIT, CLOSED
<1>2. CASE ConnectLive
  BY <1>2 DEF ConnectLive, FailsLive, Returns, Goes, EXIT, CLOSED
<1>3. CASE ReadPacket
  BY <1>0, <1>3 DEF ReadPacket, FailsLive, Returns, Goes, EXIT, CLOSED
<1>4. CASE Open \/ Read \/ Close \/ (\E t \in SeekTo : Seek(t)) \/ Objects
  BY <1>0, <1>4 DEF Open, Read, Close, Seek, Objects, OpenMds, ReadMds, CloseMds, OpenAndroidio,
     ReadAndroidio, CloseAndroidio, SeekMds, SeekAndroidio, Asks
<1>5. CASE Ask \/ Connect \/ ReadInner \/ SeekInner \/ AskIo \/ ConnectIo \/ ReadInnerIo \/ SeekInnerIo
  BY <1>5 DEF Ask, Connect, ReadInner, SeekInner, AskIo, ConnectIo, ReadInnerIo, SeekInnerIo
<1>6. CASE Interrupt \/ Pause \/ Reconnect \/ UNCHANGED hookVars
  BY <1>6 DEF Interrupt, Pause, Reconnect, hookVars
<1> QED
  BY <1>1, <1>2, <1>3, <1>4, <1>5, <1>6 DEF HookNext

\* A seek that answers with a position has got there, or answers zero, has moved nothing
\* and remembers an interrupt or an end of file, or a failure that the application would
\* not handle; and the first packet after a gap in a live stream says so (ijkurlhook.c:384,
\* ijkiourlhook.c:416, ijklivehook.c:273).  Whatever the application answers.
THEOREM HooksAnswerHonestly == HookSpec => AnswersHonest
<1>1. HookInv /\ [HookNext]_hookVars => [SeekAnswered]_hookVars
  BY SeekIsAnswered
<1>2. HookInv /\ [HookNext]_hookVars => [GapTold]_hookVars
  BY GapIsTold
<1> QED
  BY <1>1, <1>2, HookCorrect, PTL DEF HookSpec, AnswersHonest, SeekAnswered, GapTold
=============================================================================
