------------------------------- MODULE Queues -------------------------------
(***************************************************************************)
(* The two queues of a stream of ff_ffplay.c as values.  A PacketQueue     *)
(* carries the packets of the demuxer to the decoder; each is stamped with *)
(* the serial of the queue, which a flush packet counts up.  A FrameQueue  *)
(* is a ring of decoded frames; with keep_last the frame shown last stays  *)
(* in it.                                                                  *)
(***************************************************************************)
EXTENDS Naturals, Sequences

CONSTANT RingSize  \* FrameQueue.max_size

\* With one slot and keep_last the frame shown last would fill the ring.
ASSUME RingAssumption == RingSize \in Nat /\ RingSize > 1

Packet == [what : {"flush", "data", "null"}, serial : Nat]
PacketQueue == [packets : Seq(Packet), serial : Nat, abort_request : BOOLEAN]

\* A frame: the serial it is labelled with and that of the packet it came from.
Frame == [serial : Nat, from : Nat]
Slot == 0 .. RingSize - 1
FrameQueue == [slot : [Slot -> Frame], rindex : Slot, windex : Slot, size : 0 .. RingSize,
               rindex_shown : 0 .. 1]
-----------------------------------------------------------------------------
packet_queue_init == [packets |-> <<>>, serial |-> 0, abort_request |-> TRUE]

\* An aborted queue takes nothing.
packet_queue_put(q, what) ==
  LET serial == IF what = "flush" THEN q.serial + 1 ELSE q.serial
  IN IF q.abort_request THEN q
     ELSE [q EXCEPT !.serial = serial,
                    !.packets = Append(@, [what |-> what, serial |-> serial])]

packet_queue_start(q) == packet_queue_put([q EXCEPT !.abort_request = FALSE], "flush")
packet_queue_flush(q) == [q EXCEPT !.packets = <<>>]
packet_queue_abort(q) == [q EXCEPT !.abort_request = TRUE]
-----------------------------------------------------------------------------
NoFrame == [serial |-> 0, from |-> 0]

frame_queue_init ==
  [slot |-> [i \in Slot |-> NoFrame], rindex |-> 0, windex |-> 0, size |-> 0, rindex_shown |-> 0]

Following(i) == IF i + 1 = RingSize THEN 0 ELSE i + 1

frame_queue_peek(f) == IF f.rindex_shown = 0 THEN f.rindex ELSE Following(f.rindex)
frame_queue_peek_last(f) == f.rindex
frame_queue_nb_remaining(f) == f.size - f.rindex_shown

\* The slot at windex is filled before the frame counts.
frame_queue_push(f, frame) ==
  [f EXCEPT !.slot[f.windex] = frame, !.windex = Following(f.windex), !.size = @ + 1]

\* Mutant: without keep_last.
MutNext(f) == [f EXCEPT !.rindex = Following(f.rindex), !.size = @ - 1]

\* keep_last: the first frame stays where it is, then each takes the place of the one before.
frame_queue_next(f) ==
  IF f.rindex_shown = 0 THEN [f EXCEPT !.rindex_shown = 1]
  ELSE [f EXCEPT !.rindex = Following(f.rindex), !.size = @ - 1]
=============================================================================
