----------------------------- MODULE FrameStream ----------------------------
(***************************************************************************)
(* What encoding or decoding a file promises, whatever the number of       *)
(* threads: the frames of the source reach the output one after the other  *)
(* in their order, and the output is closed when it has all of them.  An   *)
(* error may abandon it at any time before.                                *)
(***************************************************************************)
EXTENDS Naturals, Sequences

VARIABLES source,   \* the frames of the input, in order
          stream,   \* the frames written so far
          status    \* "open", "closed" or "abandoned"

vars == <<source, stream, status>>

Init == stream = <<>> /\ status = "open"

Deliver ==
  /\ status = "open"
  /\ Len(stream) < Len(source)
  /\ stream' = Append(stream, source[Len(stream) + 1])
  /\ UNCHANGED <<source, status>>

Close ==
  /\ status = "open"
  /\ stream = source
  /\ status' = "closed"
  /\ UNCHANGED <<source, stream>>

Abandon ==
  /\ status = "open"
  /\ status' = "abandoned"
  /\ UNCHANGED <<source, stream>>

Next == Deliver \/ Close \/ Abandon

Spec == Init /\ [][Next]_vars

=============================================================================
