----------------------------- MODULE DecFrames ------------------------------
(***************************************************************************)
(* How the decoder cuts its input file into frames                         *)
(* (src/src/cli/modes/mode_decode_loop.c).  A file is                      *)
(*   [table        |-> its seektable: bytes of every frame with its CRC,   *)
(*    start        |-> what they add up to before every frame,             *)
(*    nsamples_enc |-> samples of NChan channels its header announces,     *)
(*    avail        |-> bytes that follow the seektable in the file,        *)
(*    damaged      |-> the frames whose bytes are not what was encoded]    *)
(* The table is used even if its own checksum is wrong, so its entries may *)
(* be any numbers.  A frame of PCM is [frame |-> its number, from 1,       *)
(* ni32 |-> its samples, corrupted |-> whether it is reported as corrupted *)
(* when it is written].                                                    *)
(***************************************************************************)
EXTENDS Format, Sequences, FiniteSets

CONSTANT CrcSize  \* bytes of a frame's checksum

ASSUME CrcAssumption == CrcSize \in Nat

\* dec_loop: the number of entries follows from the header.
seektable_nmemb(nsamples_enc) ==
  (nsamples_enc + NSamplesPerFrame - 1) \div NSamplesPerFrame

\* start[k] is the sum of the entries before entry k.
TableStarts(start, table) ==
  /\ start \in [1..(Len(table) + 1) -> Nat]
  /\ start[1] = 0
  /\ \A k \in 1..Len(table) : start[k + 1] = start[k] + table[k]

IsFile(f) ==
  /\ f.table \in Seq(Nat)
  /\ TableStarts(f.start, f.table)
  /\ f.nsamples_enc \in Nat
  /\ f.avail \in Nat
  /\ Len(f.table) = seektable_nmemb(f.nsamples_enc)

CONSTANT TTAFiles  \* the files to start from

ASSUME TTAFilesAssumption == \A f \in TTAFiles : IsFile(f)

PcmFrame == [frame : Nat, ni32 : Nat, corrupted : BOOLEAN]

\* Mutant of dec_ni32_perframe: the last frame is taken for a full one.
dec_ni32_perframe_full(nsamples_dec, nsamples_enc) ==
  IF nsamples_dec >= nsamples_enc THEN 0 ELSE NSamplesPerFrame * NChan

dec_ni32_perframe(nsamples_dec, nsamples_enc) ==
  IF nsamples_dec + NSamplesPerFrame > nsamples_enc
  THEN (nsamples_enc - nsamples_dec) * NChan
  ELSE NSamplesPerFrame * NChan

\* fread: as many bytes as asked for and as are left.
fread_bytes(n, unread) == IF n <= unread THEN n ELSE unread

\* Checksums: the one of intact frame k differs from every other, from the one
\* of bytes that are not a frame, and from the 0 that stands for "not read".
NoCrc == 0
BadCrc == 1
Crc(k) == k + 1

-----------------------------------------------------------------------------
(* The reference, written without the loop.                                *)

Malformed(f, k) == f.table[k] <= CrcSize

Whole(f, k) == f.start[k] + f.table[k] <= f.avail

NoneLeft(f, k) == f.avail <= f.start[k]

\* The frames the decoder can find: up to the first malformed entry, or up to
\* and including the first truncated frame.
NFramesFound(f) ==
  Cardinality({n \in 1..Len(f.table) :
                 /\ \A k \in 1..n : ~Malformed(f, k)
                 /\ \A k \in 1..(n - 1) : Whole(f, k)
                 /\ ~NoneLeft(f, n)})

DecodedFrames(f) ==
  [k \in 1..NFramesFound(f) |->
     LET left == f.nsamples_enc - (k - 1) * NSamplesPerFrame
         n    == IF left < NSamplesPerFrame THEN left ELSE NSamplesPerFrame
     IN  [frame     |-> k,
          ni32      |-> NChan * n,
          corrupted |-> k \in f.damaged \/ ~Whole(f, k)]]

\* The data ends exactly between two frames: the loop then reads one more
\* frame and gets nothing.
CutBetweenFrames(f) ==
  LET n == NFramesFound(f) + 1
  IN  n <= Len(f.table) /\ ~Malformed(f, n) /\ NoneLeft(f, n)
      /\ \A k \in 1..(n - 1) : Whole(f, k)

-----------------------------------------------------------------------------
(* What the loop knows when it has taken n frames: all were whole, and it  *)
(* has that many fewer to take; or the last was not, and it takes no more. *)

TakenSoFar(f, n, target, total, unread) ==
  /\ n <= Len(f.table)
  /\ total = (IF n * NSamplesPerFrame < f.nsamples_enc
              THEN n * NSamplesPerFrame ELSE f.nsamples_enc)
  /\ \A k \in 1..n : ~Malformed(f, k)
  /\ \A k \in 1..(n - 1) : Whole(f, k)
  /\ \/ /\ target = Len(f.table) - n
        /\ n # 0 => Whole(f, n)
        /\ f.avail = f.start[n + 1] + unread
     \/ target = 0 /\ n # 0 /\ ~Whole(f, n)

=============================================================================
