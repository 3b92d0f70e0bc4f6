------------------------------ MODULE MC_DecMT ------------------------------
(***************************************************************************)
(* DecMT on small instances: 2 channels, frames of 2 samples per channel,  *)
(* checksums of 1 byte, so that an entry of the seektable is malformed if  *)
(* it is 0 or 1.                                                           *)
(***************************************************************************)
EXTENDS DecMT

CONSTANTS c1, c2

MCCoders == {c1, c2}

\* A file with the seektable t.
File(t, n, avail, damaged) ==
  LET sum[k \in 1..(Len(t) + 1)] == IF k = 1 THEN 0 ELSE sum[k - 1] + t[k - 1]
  IN  [table |-> t, start |-> sum, nsamples_enc |-> n, avail |-> avail,
       damaged |-> damaged]

\* n samples of every channel in frames of 3 bytes, with avail bytes present.
Threes(n) == [k \in 1..seektable_nmemb(n) |-> 3]

Cut(n, avail, damaged) == File(Threes(n), n, avail, damaged)

\* Files with all their frames, the last one full or not, and one damaged.
WholeFiles ==
  {Cut(n, 3 * seektable_nmemb(n), d) : n \in {1, 2, 5, 8, 11, 14, 17},
                                       d \in {{}, {2}}}

\* Files cut inside a frame or inside a checksum.
TruncatedFiles ==
  {Cut(13, 3 * k + b, {1}) : k \in 0..6, b \in {1, 2}}

\* Files with an entry of the seektable that is not the size of a frame.
MalformedFiles ==
  {File([Threes(11) EXCEPT ![k] = e], 11, 18, k..6) :
     k \in 1..6, e \in {1, 2, 5}}

\* Files that are cut between two frames, or have none.
CutFiles == {Cut(13, 3 * k, {}) : k \in 0..6} \cup {Cut(0, 0, {})}

AllFiles == WholeFiles \cup TruncatedFiles \cup MalformedFiles \cup CutFiles

=============================================================================
