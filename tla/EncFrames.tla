----------------------------- MODULE EncFrames ------------------------------
(***************************************************************************)
(* How the encoder cuts the PCM of its input file into frames              *)
(* (src/src/cli/modes/mode_encode_loop.c).  A file is                      *)
(*   [decpcm_size |-> bytes of PCM its header announces,                   *)
(*    avail       |-> bytes that follow the header in the file]            *)
(* and a frame is [frame |-> its number, from 1, ni32 |-> its samples].    *)
(* A truncated file has avail < decpcm_size.                               *)
(***************************************************************************)
EXTENDS Format, Sequences

CONSTANTS SampleBytes,        \* bytes per PCM sample
          SIZE_MAX            \* largest size_t, also the "truncated" total

ASSUME SizeAssumption == SampleBytes \in 1..3 /\ SIZE_MAX \in Nat

File == [decpcm_size : Nat, avail : Nat]

Frame == [frame : Nat, ni32 : Nat]

SizeT(x) == x % (SIZE_MAX + 1)

FullFrame == NSamplesPerFrame * NChan

\* Mutant of enc_readlen: the last frame is read only if it is full.
enc_readlen_full(nsamples_flat_read, decpcm_size) ==
  IF nsamples_flat_read # SIZE_MAX
     /\ SizeT((nsamples_flat_read + FullFrame) * SampleBytes) <= decpcm_size
  THEN FullFrame ELSE 0

\* The number of samples to ask fread for, given the samples read so far.
enc_readlen(nsamples_flat_read, decpcm_size) ==
  LET new_total == SizeT(nsamples_flat_read * SampleBytes)
  IN  IF nsamples_flat_read = SIZE_MAX THEN 0
      ELSE IF SizeT((nsamples_flat_read + FullFrame) * SampleBytes)
                <= decpcm_size
           THEN FullFrame
      ELSE IF new_total < decpcm_size
           THEN (decpcm_size - new_total) \div SampleBytes
      ELSE 0

\* The number of samples that complete the last, truncated sample.
enc_frame_zeropad(nmemb_read) ==
  IF nmemb_read % NChan = 0 THEN 0 ELSE NChan - (nmemb_read % NChan)

\* fread: whole samples only, as many as asked for and as are left.
fread(readlen, unread) ==
  IF readlen * SampleBytes <= unread THEN readlen ELSE unread \div SampleBytes

\* Mutant of TotalAfter: a short read is counted as any other.
TotalAfterAny(total, nmemb_read, readlen) == SizeT(total + nmemb_read)

\* The total the io loop keeps: a short read makes the next readlen 0.
TotalAfter(total, nmemb_read, readlen) ==
  IF nmemb_read # readlen THEN SIZE_MAX ELSE SizeT(total + nmemb_read)

-----------------------------------------------------------------------------
(* The reference, written without the loop.                                *)

\* Whole samples the file really has to encode.
NSamples(f) ==
  (IF f.avail < f.decpcm_size THEN f.avail ELSE f.decpcm_size)
    \div SampleBytes

NFrames(f) == (NSamples(f) + FullFrame - 1) \div FullFrame

\* The frames of file f in order: all full but the last, which ends with the
\* last sample, completed to NChan channels.
InputFrames(f) ==
  [k \in 1..NFrames(f) |->
     LET left == NSamples(f) - (k - 1) * FullFrame
         n    == IF left < FullFrame THEN left ELSE FullFrame
     IN  [frame |-> k, ni32 |-> NChan * ((n + NChan - 1) \div NChan)]]

\* The data ends exactly at a frame boundary before the announced size: the
\* loop then reads one more frame and gets nothing.
CutAtFrameBoundary(f) ==
  /\ f.avail \div SampleBytes < f.decpcm_size \div SampleBytes
  /\ (f.avail \div SampleBytes) % FullFrame = 0

\* The products of enc_readlen are computed without wrapping.  It is so of
\* every file a file system can hold if size_t has 64 bits, whatever the
\* header announces, and of those below 4 GiB less a frame if it has 32.
Fits(f) == (NSamples(f) + FullFrame) * SampleBytes <= SIZE_MAX

\* What the loop keeps when n frames of file f have been read: the samples
\* of them and the bytes that follow, or that a short read was the last.
ReadSoFar(f, n, total, unread) ==
  LET announced == f.decpcm_size \div SampleBytes
  IN  IF total = SIZE_MAX
      THEN \/ n = NFrames(f)
           \/ n = NFrames(f) + 1 /\ CutAtFrameBoundary(f)
      ELSE /\ n <= NFrames(f)
           /\ total = IF n * FullFrame < announced THEN n * FullFrame
                      ELSE announced
           /\ total * SampleBytes <= f.avail
           /\ unread = f.avail - total * SampleBytes

=============================================================================
