------------------------------ MODULE MC_Codec ------------------------------
(***************************************************************************)
(* FrameCodec with words of 15 bits and PCM bytes of 4: samples of 4, 8    *)
(* and 12 bits.                                                            *)
(***************************************************************************)
EXTENDS FrameCodec

MCUnaryMaxBytes == <<32, 32, 512>>

\* PCM samples: the extremes, and the ones next to 0.
MCPcm(samplebytes) ==
  CASE samplebytes = 1 -> {<<0>>, <<8>>, <<9>>}
    [] samplebytes = 2 -> {<<0, 8>>, <<0, 0>>, <<1, 0>>, <<15, 7>>}
    [] samplebytes = 3 -> {<<0, 0, 8>>, <<0, 0, 0>>, <<15, 15, 15>>, <<15, 15, 7>>}

MCFrames(samplebytes, n) ==
  {FlattenSeq(s) : s \in [1..n -> MCPcm(samplebytes)]}

Job(callers, rude, samplebytes, nchan, frames) ==
  [caller : callers, rude : rude, samplebytes : {samplebytes}, nchan : {nchan},
   bytes : frames]

\* Quiet samples bring both k of a channel down to 0; then it jumps from one
\* extreme to the other, to codes of 8 * UnaryMaxBytes ones and more.
Quiet(n, nchan) == FlattenSeq([i \in 1..(n * nchan) |-> <<i % 2, 0>>])
QuietJumps(nchan) == {Quiet(n, nchan) \o last : n \in 1..4, last \in MCFrames(2, 2)}

\* Stereo: quiet, then swings whose codes take the buffer in two steps, and
\* swings of which no two channels together take as much as it grows by.
Swings == {Quiet(n, 2) \o <<0, 8, 14, 6, 14, 6, 0, 8, 1, 0, 0, 0>> : n \in 2..4}
            \cup {Quiet(2, 2) \o <<0, 5, 8, 8, 0, 11, 0, 5, 0, 5, 0, 11>>}

\* Loud samples bring both k up to KMax, and the sum beyond its word.
LoudFrames ==
  {FlattenSeq([i \in 1..12 |-> IF i % 2 = 1 THEN <<0, 0, 12>> ELSE <<0, 0, 4>>]) \o last :
     last \in MCFrames(3, 1)}

CodecJobs ==
  UNION {Job({"cli"}, {FALSE}, 1, 1, MCFrames(1, 4)),
         Job({"cli"}, {FALSE}, 2, 1, MCFrames(2, 3)),
         Job({"cli"}, {FALSE}, 2, 2, MCFrames(2, 4) \cup QuietJumps(2) \cup Swings),
         Job({"cli"}, {FALSE}, 2, 3, MCFrames(2, 3)),
         Job({"cli"}, {FALSE}, 3, 1, MCFrames(3, 2)),
         Job({"api"}, {FALSE}, 1, 2, MCFrames(1, 4)),
         Job({"api"}, {FALSE}, 2, 1, QuietJumps(1)),
         Job({"api"}, {FALSE}, 3, 1, LoudFrames),
         Job({"api"}, BOOLEAN, 2, 1, MCFrames(2, 3))}

\* A stereo frame whose longest code the decoder refuses.
LaxJobs == Job({"cli"}, {FALSE}, 2, 2, {Quiet(3, 2) \o <<15, 7, 0, 8>>})
\* A quiet frame, whose last byte holds the codes of several samples.
TailJobs == Job({"api"}, {FALSE}, 2, 1, {Quiet(4, 1)})

=============================================================================
