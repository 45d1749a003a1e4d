----------------------------- MODULE ByteStream -----------------------------
(***************************************************************************)
(* What a seekable input promises to the demuxer that reads it: a position *)
(* and calls that each give one answer.  A read hands over the bytes that  *)
(* follow the position and moves past them, or fails and moves nothing;    *)
(* the end of the file is only announced at the end of the file, or where  *)
(* the stream has been cut short: when that may be is for the input to     *)
(* say.  A seek answers with the position it really reached, or fails and  *)
(* moves nothing.                                                          *)
(* The byte at position p is written p.                                    *)
(***************************************************************************)
EXTENDS Integers, Sequences

CONSTANTS Size,   \* length of the file
          Eof,    \* the answer "end of file"
          Errors  \* the other answers that are errors

VARIABLES pos,    \* the position of the reader
          cut,    \* has the stream been cut short?
          dest,   \* the bytes the last read handed over
          ret     \* the answer of the last call

streamVars == <<pos, dest, ret>>

Init == pos = 0 /\ dest = <<>> /\ ret = 0

Read ==
  \E n \in 1 .. Size - pos :
    /\ dest' = [i \in 1 .. n |-> pos + i - 1]
    /\ pos' = pos + n
    /\ ret' = n

ReadFails ==
  /\ \/ ret' \in Errors
     \/ ret' = Eof /\ (pos = Size \/ cut')
  /\ dest' = <<>>
  /\ UNCHANGED pos

\* A call begins: the answer and the buffer of the call before it are forgotten.
Begin == dest' = <<>> /\ ret' = 0 /\ UNCHANGED pos

\* A seek moves in one go, or skips what it reads, piece by piece, and answers at the end.
Skip == pos' \in pos + 1 .. Size /\ UNCHANGED <<dest, ret>>

Seek == pos' \in 0 .. Size /\ ret' = pos' /\ UNCHANGED dest

SeekFails == ret' \in Errors /\ UNCHANGED <<pos, dest>>

Next == Read \/ ReadFails \/ Begin \/ Skip \/ Seek \/ SeekFails

Spec == Init /\ [][Next]_streamVars
=============================================================================
