------------------------------ MODULE DecMTInv ------------------------------
(***************************************************************************)
(* The inductive invariant of DecMT.  It numbers the posts of navailable   *)
(* and the pops of the queue from 0: number n is about slot n modulo the   *)
(* length of the ring, and for n below nframes_read about frame n + 1.     *)
(***************************************************************************)
EXTENDS DecMT

Slot(n) == n % QueueLen

Written == Len(outfile)

Loop1Pcs == {"wait1", "write1", "post1", "done"}

\* How often navailable has been posted: once per frame read, then once per
\* slot that tells a coder to stop.
Posted ==
  IF io_pc \in Loop1Pcs
  THEN Written + (IF start_writing THEN QueueLen - 1 ELSE QueueLen)
               - (IF io_pc = "post1" THEN 1 ELSE 0)
  ELSE IF io_pc = "tiny" THEN io_idx
  ELSE nframes_read

\* The coders that have taken a post and not yet popped the queue for it.
Holders == {c \in Coders : coder_pc[c] \in {"lock", "pop"}}

Popped == Posted - navailable - Cardinality(Holders)

Busy(c) == coder_pc[c] \in {"check", "decode", "post"}

\* Where the io thread is in the ring: how far reading is ahead of writing.
RingInv ==
  /\ io_pc \in {"unborn", "read", "post0"} =>
       /\ io_idx = Slot(nframes_read)
       /\ IF start_writing THEN nframes_read = Written + QueueLen - 1
          ELSE Written = 0 /\ nframes_read < QueueLen
  /\ io_pc = "unborn" => nframes_read = 0
  /\ io_pc \in {"wait0", "write0"} =>
       /\ start_writing
       /\ nframes_read = Written + QueueLen
       /\ io_idx = Slot(Written)
  /\ io_pc = "tiny" =>
       /\ ~start_writing
       /\ Written = 0
       /\ nframes_read <= io_idx
  /\ io_pc \in Loop1Pcs =>
       /\ last = Slot(nframes_read)
       /\ Written <= nframes_read
       /\ IF start_writing
          THEN nframes_read < Written + QueueLen
          ELSE nframes_read < QueueLen
  /\ io_pc = "tiny" => last = nframes_read
  /\ io_pc = "wait1" => io_idx = Slot(Written)
                        /\ (Written < nframes_read \/ nframes_read = 0)
  /\ io_pc = "write1" => io_idx = Slot(Written) /\ Written < nframes_read
  /\ io_pc = "post1" => Written > 0 /\ io_idx = Slot(Written - 1)
                        /\ (start_writing =>
                              nframes_read <= Written + QueueLen - 2)
  /\ io_pc = "done" => Written = nframes_read

\* The queue hands out the numbers in order, to one coder at a time, never
\* before they are posted and never behind the io thread.
QueueInv ==
  /\ Popped >= Written
  /\ next = Slot(Popped)
  /\ \A c, d \in Coders : coder_pc[c] = "pop" /\ coder_pc[d] = "pop" => c = d
  /\ \A c \in Coders : coder_pc[c] = "pop" => lock

\* A coder at a slot popped a number that is still to be written, and it is
\* alone at that slot.
CoderInv ==
  /\ \A c \in Coders : Busy(c) =>
       \E q \in Written..(Popped - 1) : coder_idx[c] = Slot(q)
  /\ \A c, d \in Coders : Busy(c) /\ Busy(d) /\ coder_idx[c] = coder_idx[d]
                            => c = d
  /\ \A c \in Coders : coder_pc[c] \in {"decode", "post"} =>
       /\ nbytes_tta_perframe[coder_idx[c]] # 0
       /\ \E q \in Written..(nframes_read - 1) : coder_idx[c] = Slot(q)

\* What decodes from slot s.
Decoded(s) == [frame |-> ttabuf[s],
               ni32  |-> ni32_perframe[s],
               crc   |-> IF Intact(s) THEN Crc(ttabuf[s]) ELSE BadCrc]

Coded(s) == pcmbuf[s] = Decoded(s)

\* A slot is either at a coder, or posted once to the io thread, or being
\* written; from the end of its decoding until it is written it is not touched.
HandoverInv ==
  /\ \A c \in Coders : coder_pc[c] = "post" => Coded(coder_idx[c])
  /\ \A c \in Coders : Busy(c) => post_decoder[coder_idx[c]] = 0
  /\ \A s \in Slots : post_decoder[s] > 0 =>
       /\ post_decoder[s] = 1
       /\ Coded(s) /\ nbytes_tta_perframe[s] # 0
       /\ \E q \in Written..(nframes_read - 1) : s = Slot(q) /\ q < Popped
  /\ io_pc \in Writing =>
       /\ post_decoder[io_idx] = 0
       /\ Coded(io_idx) /\ nbytes_tta_perframe[io_idx] # 0
       /\ Written < Popped
       /\ \A c \in Coders : Busy(c) => coder_idx[c] # io_idx

\* The slots of the numbers after the last frame say that the input is read.
PillInv ==
  (~start_writing \/ io_pc \in Loop1Pcs) =>
    \A n \in nframes_read..(Written + QueueLen - 1) :
      \/ n = nframes_read /\ io_pc = "post0"
      \/ nbytes_tta_perframe[Slot(n)] = 0

Stopped(c) ==
  \/ coder_pc[c] \in {"cleanup", "gone", "join", "free", "returned"}
  \/ coder_pc[c] = "check" /\ nbytes_tta_perframe[coder_idx[c]] = 0

\* Each number popped beyond the frames has stopped a coder.
StopInv == Popped <= nframes_read + Cardinality({c \in Coders : Stopped(c)})

\* Frames taken from the seektable, the one being read included.
Taken == IF io_pc = "post0" THEN nframes_read + 1 ELSE nframes_read

\* The io thread counts the frames it has taken and those still to take, and a
\* slot has the checksum of the frame whose bytes it has, or none.
FrameInv ==
  /\ nframes_target # 0 => nframes_target + Taken = Len(file.table)
  /\ \A s \in Slots : crc_read[s] \in {NoCrc, Crc(ttabuf[s])}

\* Together these explain why no slot is touched by two threads, handed over
\* unfinished or forgotten.
SyncInv ==
  /\ TypeOK /\ RingInv /\ QueueInv /\ CoderInv /\ HandoverInv
  /\ PillInv /\ StopInv /\ FrameInv

-----------------------------------------------------------------------------
(* What the frames are                                                     *)

\* The io thread has found that there is no more to read.
Late == {"tiny"} \cup Loop1Pcs

\* Numbers of the frames that are in the ring, the one being read included.
InRing == Written..(Taken - 1)

\* A decoded frame as dec_frame_write will report it from slot s.
Report(s, pcm) == [frame     |-> pcm.frame,
                   ni32      |-> pcm.ni32,
                   corrupted |-> pcm.crc # crc_read[s]]

\* The slot of number n has the bytes of its frame: none if the file is cut
\* before it.
Filled(n) ==
  /\ nbytes_tta_perframe[Slot(n)] # 0 <=> n < NFramesFound(file)
  /\ n < NFramesFound(file) =>
       Report(Slot(n), Decoded(Slot(n))) = DecodedFrames(file)[n + 1]

\* The io thread has taken as many frames as it has counted, and filled a slot
\* with each.
ReadInv ==
  /\ IF io_pc \in Late
     THEN \/ nframes_read = NFramesFound(file)
          \/ nframes_read = NFramesFound(file) + 1 /\ CutBetweenFrames(file)
     ELSE TakenSoFar(file, Taken, nframes_target, nsamples_perchan_dec_total,
                    unread)
  /\ \A n \in InRing : Filled(n)

\* What is written are the first frames of the file.
PrefixInv ==
  /\ Written <= NFramesFound(file)
  /\ \A i \in 1..Written : outfile[i] = DecodedFrames(file)[i]

\* A coder stops, and the shared state is freed, only after all is read.
EndInv ==
  /\ coder_pc[Main] \in {"free", "returned"} => io_pc = "done"
  /\ Decodable =>
       \A c \in Coders :
         coder_pc[c] \in {"cleanup", "gone", "join", "free", "returned"} =>
           io_pc \in Late

StreamInv == ReadInv /\ PrefixInv /\ EndInv

IInv == SyncInv /\ StreamInv

=============================================================================
