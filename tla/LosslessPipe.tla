---------------------------- MODULE LosslessPipe ----------------------------
(***************************************************************************)
(* What a codec promises for one frame, whatever its format: samples are   *)
(* taken in order until all are taken, the frame is sealed, and then the   *)
(* same samples are given back in order.  Only a frame that is spoiled     *)
(* when it is sealed may give back something else, or nothing.             *)
(***************************************************************************)
EXTENDS Naturals, Sequences, SequencesExt

VARIABLES
  input,    \* the samples of the frame
  taken,    \* how many of them were taken
  sealed,   \* whether the frame is complete
  spoiled,  \* whether it cannot be expected to come back
  output    \* the samples given back

vars == <<input, taken, sealed, spoiled, output>>

Init == taken = 0 /\ ~sealed /\ ~spoiled /\ output = <<>>

Take ==
  /\ ~sealed
  /\ taken' \in (taken + 1)..Len(input)
  /\ UNCHANGED <<input, sealed, spoiled, output>>

Seal ==
  /\ ~sealed /\ taken = Len(input)
  /\ sealed' = TRUE
  /\ spoiled' \in BOOLEAN
  /\ UNCHANGED <<input, taken, output>>

Give ==
  /\ sealed
  /\ Len(output') > Len(output) /\ IsPrefix(output, output')
  /\ IsPrefix(output', input) \/ spoiled
  /\ UNCHANGED <<input, taken, sealed, spoiled>>

Next == Take \/ Seal \/ Give

Spec == Init /\ [][Next]_vars

=============================================================================
