---------------------------- MODULE MCMediaCodec ----------------------------
(***************************************************************************)
(* MediaCodec with one surface and its absence.  _surface has two output   *)
(* buffers and a codec that may throw, and plays with two threads and two  *)
(* pictures, or with one thread and a decoder that gives its frames in the *)
(* wrong order; _close has one buffer, one picture and a codec that does   *)
(* not throw, and plays with two threads or with one.  _same and _async    *)
(* show what the code does not keep.                                       *)
(***************************************************************************)
EXTENDS MediaCodec, TLC

Plain     == [pictq_size |-> 1, sync |-> FALSE, n_buf_out |-> 0, resolution |-> FALSE,
              async |-> FALSE]
TwoSlots  == [Plain EXCEPT !.pictq_size = 2]
OneThread == [Plain EXCEPT !.sync = TRUE, !.resolution = TRUE, !.async = TRUE]
Reordered == [Plain EXCEPT !.sync = TRUE, !.n_buf_out = 1]
AsyncInit == [Plain EXCEPT !.async = TRUE]

OnlyPlain            == {Plain}
OnlyAsync            == {AsyncInit}
TwoSlotsAndReordered == {TwoSlots, Reordered}
PlainAndOneThread    == {Plain, OneThread}

BufferSymmetry == Permutations(Buffers)
=============================================================================
