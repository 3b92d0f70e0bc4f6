------------------------------ MODULE EncMTInv ------------------------------
(***************************************************************************)
(* The inductive invariant of EncMT.  It numbers the posts of navailable   *)
(* and the pops of the queue from 0: number n is about slot n modulo the   *)
(* length of the ring, and for n below nframes_read about frame n + 1.     *)
(***************************************************************************)
EXTENDS EncMT

Slot(n) == n % QueueLen

Written == Len(outfile)

Loop1Pcs == {"wait1", "write1", "post1", "done"}

\* How often navailable has been posted: once per frame read, then once per
\* slot that tells a coder to stop.
Posted ==
  IF io_pc \in Loop1Pcs
  THEN Written + (IF start_writing THEN QueueLen - 1 ELSE QueueLen)
               - (IF io_pc = "post1" THEN 1 ELSE 0)
  ELSE IF io_pc = "tiny" THEN io_idx
  ELSE nframes_read

\* The coders that have taken a post and not yet popped the queue for it.
Holders == {c \in Coders : coder_pc[c] \in {"lock", "pop"}}

Popped == Posted - navailable - Cardinality(Holders)

Busy(c) == coder_pc[c] \in {"check", "encode", "post"}

\* Where the io thread is in the ring: how far reading is ahead of writing.
RingInv ==
  /\ io_pc \in {"unborn", "read", "post0"} =>
       /\ io_idx = Slot(nframes_read)
       /\ IF start_writing THEN nframes_read = Written + QueueLen - 1
          ELSE Written = 0 /\ nframes_read < QueueLen
  /\ io_pc = "unborn" => nframes_read = 0
  /\ io_pc \in {"wait0", "write0"} =>
       /\ start_writing
       /\ nframes_read = Written + QueueLen
       /\ io_idx = Slot(Written)
  /\ io_pc = "tiny" =>
       /\ ~start_writing
       /\ Written = 0
       /\ nframes_read <= io_idx
  /\ io_pc \in Loop1Pcs =>
       /\ last = Slot(nframes_read)
       /\ Written <= nframes_read
       /\ IF start_writing
          THEN nframes_read < Written + QueueLen
          ELSE nframes_read < QueueLen
  /\ io_pc = "tiny" => last = nframes_read
  /\ io_pc = "wait1" => io_idx = Slot(Written)
                        /\ (Written < nframes_read \/ nframes_read = 0)
  /\ io_pc = "write1" => io_idx = Slot(Written) /\ Written < nframes_read
  /\ io_pc = "post1" => Written > 0 /\ io_idx = Slot(Written - 1)
                        /\ (start_writing =>
                              nframes_read <= Written + QueueLen - 2)
  /\ io_pc = "done" => Written = nframes_read

\* The queue hands out the numbers in order, to one coder at a time, never
\* before they are posted and never behind the io thread.
QueueInv ==
  /\ Popped >= Written
  /\ next = Slot(Popped)
  /\ \A c, d \in Coders : coder_pc[c] = "pop" /\ coder_pc[d] = "pop" => c = d
  /\ \A c \in Coders : coder_pc[c] = "pop" => lock

\* A coder at a slot popped a number that is still to be written, and it is
\* alone at that slot.
CoderInv ==
  /\ \A c \in Coders : Busy(c) =>
       \E q \in Written..(Popped - 1) : coder_idx[c] = Slot(q)
  /\ \A c, d \in Coders : Busy(c) /\ Busy(d) /\ coder_idx[c] = coder_idx[d]
                            => c = d
  /\ \A c \in Coders : coder_pc[c] \in {"encode", "post"} =>
       /\ ni32_perframe[coder_idx[c]] # 0
       /\ \E q \in Written..(nframes_read - 1) : coder_idx[c] = Slot(q)

Coded(s) == ttabuf[s] = [frame |-> pcmbuf[s], ni32 |-> ni32_perframe[s]]

\* A slot is either at a coder, or posted once to the io thread, or being
\* written; from the end of its encoding until it is written it is not touched.
HandoverInv ==
  /\ \A c \in Coders : coder_pc[c] = "post" => Coded(coder_idx[c])
  /\ \A c \in Coders : Busy(c) => post_encoder[coder_idx[c]] = 0
  /\ \A s \in Slots : post_encoder[s] > 0 =>
       /\ post_encoder[s] = 1
       /\ Coded(s) /\ ni32_perframe[s] # 0
       /\ \E q \in Written..(nframes_read - 1) : s = Slot(q) /\ q < Popped
  /\ io_pc \in Writing =>
       /\ post_encoder[io_idx] = 0
       /\ Coded(io_idx) /\ ni32_perframe[io_idx] # 0
       /\ Written < Popped
       /\ \A c \in Coders : Busy(c) => coder_idx[c] # io_idx

\* The slots of the numbers after the last frame say that the input is read.
PillInv ==
  (~start_writing \/ io_pc \in Loop1Pcs) =>
    \A n \in nframes_read..(Written + QueueLen - 1) :
      \/ n = nframes_read /\ io_pc = "post0"
      \/ ni32_perframe[Slot(n)] = 0

Stopped(c) ==
  \/ coder_pc[c] \in {"cleanup", "gone", "join", "free", "returned"}
  \/ coder_pc[c] = "check" /\ ni32_perframe[coder_idx[c]] = 0

\* Each number popped beyond the frames has stopped a coder.
StopInv == Popped <= nframes_read + Cardinality({c \in Coders : Stopped(c)})

\* The PCM of a frame that is read and not written is in its slot, and what is
\* written are the frames in order.
ContentInv ==
  /\ \A n \in Written..(nframes_read - 1) :
       ni32_perframe[Slot(n)] # 0 => pcmbuf[Slot(n)] = n + 1
  /\ io_pc = "post0" /\ ni32_perframe[io_idx] # 0 =>
       pcmbuf[io_idx] = nframes_read + 1
  /\ \A s \in Slots :
       \/ pcmbuf[s] <= Written
       \/ \E n \in Written..nframes_read : s = Slot(n) /\ pcmbuf[s] = n + 1
                 /\ (n < nframes_read \/ io_pc = "post0")
  /\ \A i \in 1..Written : outfile[i].frame = i

\* Together these explain why no slot is touched by two threads, handed over
\* unfinished, overwritten or forgotten.
SyncInv ==
  /\ TypeOK /\ RingInv /\ QueueInv /\ CoderInv /\ HandoverInv
  /\ PillInv /\ StopInv /\ ContentInv

-----------------------------------------------------------------------------
(* What the frames are, of a file whose sizes do not wrap.                 *)

\* The io thread has found that there is no more to read.
Late == {"tiny"} \cup Loop1Pcs

\* Numbers of the frames that are in the ring, the one being read included.
InRing == Written..(IF io_pc = "post0" THEN nframes_read ELSE nframes_read - 1)

\* The io thread has cut off as many frames as it has counted, and the slot of
\* each says how many samples it has: none if the file is cut before it.
ReadInv ==
  /\ IF io_pc \in Late
     THEN \/ nframes_read = NFrames(file)
          \/ nframes_read = NFrames(file) + 1 /\ CutAtFrameBoundary(file)
     ELSE ReadSoFar(file,
                    IF io_pc = "post0" THEN nframes_read + 1 ELSE nframes_read,
                    nsamples_flat_read_total, unread)
  /\ \A n \in InRing :
       ni32_perframe[Slot(n)] =
         IF n < NFrames(file) THEN InputFrames(file)[n + 1].ni32 ELSE 0

\* What is written are the first frames of the input.
PrefixInv ==
  /\ Written <= NFrames(file)
  /\ \A i \in 1..Written : outfile[i] = InputFrames(file)[i]

\* A coder stops, and the shared state is freed, only after all is read.
EndInv ==
  /\ coder_pc[Main] \in {"free", "returned"} => io_pc = "done"
  /\ Encodable =>
       \A c \in Coders :
         coder_pc[c] \in {"cleanup", "gone", "join", "free", "returned"} =>
           io_pc \in Late

StreamInv == Fits(file) => ReadInv /\ PrefixInv /\ EndInv

IInv == SyncInv /\ StreamInv

\* The sizes of every file can be computed.
FilesFit == \A f \in Files : Fits(f)

=============================================================================
