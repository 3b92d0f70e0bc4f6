------------------------------ MODULE MC_EncMT ------------------------------
(***************************************************************************)
(* EncMT on small instances: 2 channels of 16 bit samples, a frame of one  *)
(* sample per channel (4 bytes).                                           *)
(***************************************************************************)
EXTENDS EncMTInv

CONSTANTS c1, c2

MCCoders2 == {c1, c2}

\* A file of n whole frames.
Whole(n) == [decpcm_size |-> 4 * n, avail |-> 4 * n]

\* n whole frames and b more bytes, of a file that announces more.
Cut(n, b) == [decpcm_size |-> 4 * n + 6, avail |-> 4 * n + b]

WholeFiles == {Whole(n) : n \in 1..9}

\* Trailing chunks after the PCM, sizes that are no multiple of a sample or a
\* frame, files cut inside a frame or a sample.
OddFiles == {[decpcm_size |-> d, avail |-> d + t] : d \in {2, 5, 7, 18, 21},
                                                    t \in {0, 3}}
            \cup {Cut(n, b) : n \in 0..5, b \in {2, 3}}

\* Files that are cut at the end of a frame.
CutFiles == {Cut(n, b) : n \in 0..5, b \in {0, 1}}

AllFiles == WholeFiles \cup OddFiles \cup CutFiles

=============================================================================
