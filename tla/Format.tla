------------------------------- MODULE Format -------------------------------
(***************************************************************************)
(* The sample format of a stream, the same for the encoder and the decoder *)
(* (struct FileStats, src/src/cli/formats.h).                              *)
(***************************************************************************)
EXTENDS Integers

CONSTANTS NChan,              \* number of audio channels
          NSamplesPerFrame    \* samples of NChan channels per frame

ASSUME FormatAssumption ==
  NChan \in Nat \ {0} /\ NSamplesPerFrame \in Nat \ {0}

=============================================================================
