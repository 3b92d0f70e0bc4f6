------------------------------- MODULE DecMT --------------------------------
(***************************************************************************)
(* The multi-threaded decoder: decmt_loop, its io thread decmt_io and its  *)
(* coder threads decmt_decoder (src/src/cli/modes/mode_decode_loop.c) over *)
(* the shared state of decmt_state_init (src/src/cli/modes/mt-struct.c).   *)
(*                                                                         *)
(* The threads share a ring of slots as those of EncMT do.  The io thread  *)
(* reads the frames the seektable names, and a slot whose                  *)
(* nbytes_tta_perframe is 0 tells a coder to stop.  The program counters   *)
(* are used as in EncMT.                                                   *)
(***************************************************************************)
EXTENDS DecFrames, PQueue

CONSTANTS Coders,     \* the coder threads
          Main,       \* the coder that called decmt_loop
          QueueLen    \* framequeue_len

\* decmt_io: "@pre arg->frames->nmemb > the number of decoder threads".
ASSUME CodersAssumption == IsFiniteSet(Coders) /\ Main \in Coders
ASSUME QueueLenAssumption ==
  QueueLen \in Nat /\ QueueLen > Cardinality(Coders)

Slots == 0..(QueueLen - 1)

PCM == [frame : Nat, ni32 : Nat, crc : Nat]

NoPCM == [frame |-> 0, ni32 |-> 0, crc |-> NoCrc]

VARIABLES
  process,        \* "running", or "exited" through error_sys or error_tta
  file,           \* the input file
  unread,         \* bytes of it not yet read
  outfile,        \* the frames of PCM written, in the order of the file
  io_pc,
  io_idx, last,   \* idx and last of decmt_io
  start_writing,
  nframes_target, nframes_read,
  nsamples_perchan_dec_total,
  coder_pc,       \* of every coder
  coder_idx,      \* idx of every coder
  navailable,     \* semaphore: slots made available
  post_decoder,   \* semaphore of every slot
  lock,           \* spinlock of the queue
  next,           \* cursor of the queue
  ni32_perframe, nbytes_tta_perframe,   \* of every slot
  ttabuf,         \* number of the frame whose bytes every slot holds
  crc_read,       \* the checksum read for every slot
  pcmbuf          \* decoded frame of every slot, with its user state

file_vars   == <<file, unread, outfile>>
io_vars     == <<io_pc, io_idx, last, start_writing, nframes_target,
                 nframes_read, nsamples_perchan_dec_total>>
coder_vars  == <<coder_pc, coder_idx>>
queue_vars  == <<lock, next>>
slot_vars   == <<ni32_perframe, nbytes_tta_perframe, ttabuf, crc_read, pcmbuf>>
sem_vars    == <<navailable, post_decoder>>
vars == <<process, file_vars, io_vars, coder_vars, queue_vars, slot_vars,
          sem_vars>>

\* The shared state exists until decmt_state_free has run.
Running == process = "running" /\ coder_pc[Main] # "returned"

-----------------------------------------------------------------------------
(* decmt_loop and decmt_state_init                                         *)

Init ==
  /\ process = "running"
  /\ file \in TTAFiles
  /\ unread = file.avail
  /\ outfile = <<>>
  /\ io_pc = "unborn"
  /\ io_idx = 0
  /\ last = 0
  /\ start_writing = FALSE
  /\ nframes_target = Len(file.table)
  /\ nframes_read = 0
  /\ nsamples_perchan_dec_total = 0
  /\ coder_pc = [c \in Coders |-> IF c = Main THEN "create" ELSE "unborn"]
  /\ coder_idx = [c \in Coders |-> 0]
  /\ navailable = 0
  /\ post_decoder = [s \in Slots |-> 0]
  /\ lock = FALSE
  /\ next = pqueue_first
  /\ ni32_perframe = [s \in Slots |-> 0]
  /\ nbytes_tta_perframe = [s \in Slots |-> 0]
  /\ ttabuf = [s \in Slots |-> 0]
  /\ crc_read = [s \in Slots |-> NoCrc]
  /\ pcmbuf = [s \in Slots |-> NoPCM]

CoderGoes(c, from, to) ==
  /\ Running
  /\ coder_pc[c] = from
  /\ coder_pc' = [coder_pc EXCEPT ![c] = to]
  /\ UNCHANGED process

\* The io thread is created first,
MainCreateIO ==
  /\ io_pc = "unborn"
  /\ io_pc' = "read"
  /\ CoderGoes(Main, "create", "create")
  /\ UNCHANGED <<file_vars, io_idx, last, start_writing, nframes_target,
                 nframes_read, nsamples_perchan_dec_total, coder_idx,
                 queue_vars, slot_vars, sem_vars>>

\* then the coder threads,
MainCreateCoder(c) ==
  /\ io_pc # "unborn"
  /\ coder_pc[Main] = "create"
  /\ CoderGoes(c, "unborn", "setup")
  /\ UNCHANGED <<file_vars, io_vars, coder_idx, queue_vars, slot_vars,
                 sem_vars>>

\* then the main thread becomes the last one.
MainCode ==
  /\ io_pc # "unborn"
  /\ \A c \in Coders : coder_pc[c] # "unborn"
  /\ CoderGoes(Main, "create", "setup")
  /\ UNCHANGED <<file_vars, io_vars, coder_idx, queue_vars, slot_vars,
                 sem_vars>>

\* When it has finished decoding it joins the io thread,
MainJoin ==
  /\ io_pc = "done"
  /\ CoderGoes(Main, "join", "free")
  /\ UNCHANGED <<file_vars, io_vars, coder_idx, queue_vars, slot_vars,
                 sem_vars>>

\* and destroys and frees everything the threads share.
MainFree ==
  /\ CoderGoes(Main, "free", "returned")
  /\ UNCHANGED <<file_vars, io_vars, coder_idx, queue_vars, slot_vars,
                 sem_vars>>

-----------------------------------------------------------------------------
(* decmt_io                                                                *)

IOGoes(from, to) ==
  /\ Running
  /\ io_pc = from
  /\ io_pc' = to
  /\ UNCHANGED <<process, file, coder_vars, queue_vars>>

\* The samples of the next frame.
next_ni32 == dec_ni32_perframe(nsamples_perchan_dec_total, file.nsamples_enc)

\* There is a next frame and its seektable entry is not malformed.
MoreFrames == /\ nframes_target # 0
              /\ ~Malformed(file, nframes_read + 1)
              /\ next_ni32 # 0

\* Mutant of Loop0Read: the checksum of a truncated frame is left as it was.
Loop0ReadStaleCrc ==
  LET framesize_tta == file.table[nframes_read + 1] - CrcSize
      nbytes_read   == fread_bytes(framesize_tta, unread)
      whole         == framesize_tta + CrcSize <= unread
  IN
  /\ MoreFrames
  /\ IOGoes("read", "post0")
  /\ nframes_target' = IF whole THEN nframes_target - 1 ELSE 0
  /\ nsamples_perchan_dec_total' =
       nsamples_perchan_dec_total + next_ni32 \div NChan
  /\ unread' = IF whole THEN unread - nbytes_read - CrcSize ELSE 0
  /\ ni32_perframe' = [ni32_perframe EXCEPT ![io_idx] = next_ni32]
  /\ nbytes_tta_perframe' = [nbytes_tta_perframe EXCEPT ![io_idx] = nbytes_read]
  /\ ttabuf' = [ttabuf EXCEPT ![io_idx] = nframes_read + 1]
  /\ crc_read' = [crc_read EXCEPT ![io_idx] =
                    IF whole THEN Crc(nframes_read + 1) ELSE @]
  /\ UNCHANGED <<outfile, io_idx, last, start_writing, nframes_read, pcmbuf,
                 sem_vars>>

\* Read the next frame and its checksum into slot idx.  A truncated one is the
\* last.
Loop0Read ==
  LET framesize_tta == file.table[nframes_read + 1] - CrcSize
      nbytes_read   == fread_bytes(framesize_tta, unread)
      whole         == framesize_tta + CrcSize <= unread
  IN
  /\ MoreFrames
  /\ IOGoes("read", "post0")
  /\ nframes_target' = IF whole THEN nframes_target - 1 ELSE 0
  /\ nsamples_perchan_dec_total' =
       nsamples_perchan_dec_total + next_ni32 \div NChan
  /\ unread' = IF whole THEN unread - nbytes_read - CrcSize ELSE 0
  /\ ni32_perframe' = [ni32_perframe EXCEPT ![io_idx] = next_ni32]
  /\ nbytes_tta_perframe' = [nbytes_tta_perframe EXCEPT ![io_idx] = nbytes_read]
  /\ ttabuf' = [ttabuf EXCEPT ![io_idx] = nframes_read + 1]
  /\ crc_read' = [crc_read EXCEPT ![io_idx] =
                    IF whole THEN Crc(nframes_read + 1) ELSE NoCrc]
  /\ UNCHANGED <<outfile, io_idx, last, start_writing, nframes_read, pcmbuf,
                 sem_vars>>

\* Make it available.  Nothing is written before every slot has been filled.
Loop0Post ==
  LET idx == pqueue_next(io_idx, QueueLen) IN
  /\ IOGoes("post0", IF ~start_writing /\ idx # 0 THEN "read" ELSE "wait0")
  /\ navailable' = navailable + 1
  /\ nframes_read' = nframes_read + 1
  /\ io_idx' = idx
  /\ start_writing' = (start_writing \/ idx = 0)
  /\ UNCHANGED <<unread, outfile, last, nframes_target,
                 nsamples_perchan_dec_total, slot_vars, post_decoder>>

\* semaphore_wait(&post_decoder[idx])
WaitForSlot ==
  /\ post_decoder[io_idx] > 0
  /\ post_decoder' = [post_decoder EXCEPT ![io_idx] = @ - 1]
  /\ UNCHANGED <<unread, outfile, io_idx, last, start_writing, nframes_target,
                 nframes_read, nsamples_perchan_dec_total, slot_vars,
                 navailable>>

Loop0Wait == IOGoes("wait0", "write0") /\ WaitForSlot

\* dec_frame_write of slot idx
dec_frame_write ==
  LET pcm == pcmbuf[io_idx] IN
  outfile' = Append(outfile, [frame     |-> pcm.frame,
                              ni32      |-> pcm.ni32,
                              corrupted |-> pcm.crc # crc_read[io_idx]])

Loop0Write ==
  /\ IOGoes("write0", "read")
  /\ dec_frame_write
  /\ UNCHANGED <<unread, io_idx, last, start_writing, nframes_target,
                 nframes_read, nsamples_perchan_dec_total, slot_vars, sem_vars>>

\* Everything is read: slot idx is marked as done without being made
\* available, and the io thread goes on to the frames not yet written, or, if
\* it has not filled every slot, to making the other slots available.
Loop0Done ==
  LET idx == IF start_writing THEN pqueue_next(io_idx, QueueLen) ELSE io_idx
  IN
  /\ ~MoreFrames
  /\ IOGoes("read", IF ~start_writing THEN "tiny"
                    ELSE IF idx # io_idx THEN "wait1" ELSE "done")
  /\ nbytes_tta_perframe' = [nbytes_tta_perframe EXCEPT ![io_idx] = 0]
  /\ last' = io_idx
  /\ io_idx' = idx
  /\ UNCHANGED <<unread, outfile, start_writing, nframes_target, nframes_read,
                 nsamples_perchan_dec_total, ni32_perframe, ttabuf, crc_read,
                 pcmbuf, sem_vars>>

TinyPost ==
  LET idx == pqueue_next(io_idx, QueueLen) IN
  /\ IOGoes("tiny", IF idx # 0 THEN "tiny" ELSE "wait1")
  /\ navailable' = navailable + 1
  /\ io_idx' = idx
  /\ UNCHANGED <<unread, outfile, last, start_writing, nframes_target,
                 nframes_read, nsamples_perchan_dec_total, slot_vars,
                 post_decoder>>

Loop1Wait == IOGoes("wait1", "write1") /\ WaitForSlot

\* Mutant of Loop1Write: the slot is not marked as done.
Loop1WriteUnmarked ==
  /\ IOGoes("write1", "post1")
  /\ dec_frame_write
  /\ UNCHANGED <<unread, io_idx, last, start_writing, nframes_target,
                 nframes_read, nsamples_perchan_dec_total, slot_vars, sem_vars>>

Loop1Write ==
  /\ IOGoes("write1", "post1")
  /\ dec_frame_write
  /\ nbytes_tta_perframe' = [nbytes_tta_perframe EXCEPT ![io_idx] = 0]
  /\ UNCHANGED <<unread, io_idx, last, start_writing, nframes_target,
                 nframes_read, nsamples_perchan_dec_total, ni32_perframe,
                 ttabuf, crc_read, pcmbuf, sem_vars>>

Loop1Post ==
  LET idx == pqueue_next(io_idx, QueueLen) IN
  /\ IOGoes("post1", IF idx # last THEN "wait1" ELSE "done")
  /\ navailable' = navailable + 1
  /\ io_idx' = idx
  /\ UNCHANGED <<unread, outfile, last, start_writing, nframes_target,
                 nframes_read, nsamples_perchan_dec_total, slot_vars,
                 post_decoder>>

IO == \/ Loop0Read \/ Loop0Post \/ Loop0Wait \/ Loop0Write \/ Loop0Done
      \/ TinyPost \/ Loop1Wait \/ Loop1Write \/ Loop1Post

-----------------------------------------------------------------------------
(* decmt_decoder                                                           *)

\* calloc_check and priv_alloc
CoderSetup(c) ==
  /\ CoderGoes(c, "setup", "wait")
  /\ UNCHANGED <<file_vars, io_vars, coder_idx, queue_vars, slot_vars,
                 sem_vars>>

\* Mutant of CoderWait: the semaphore is tested and not taken.
CoderWaitUntaken(c) ==
  /\ navailable > 0
  /\ CoderGoes(c, "wait", "lock")
  /\ UNCHANGED <<file_vars, io_vars, coder_idx, queue_vars, slot_vars,
                 sem_vars>>

CoderWait(c) ==
  /\ navailable > 0
  /\ CoderGoes(c, "wait", "lock")
  /\ navailable' = navailable - 1
  /\ UNCHANGED <<file_vars, io_vars, coder_idx, queue_vars, slot_vars,
                 post_decoder>>

CoderLock(c) ==
  /\ ~lock
  /\ CoderGoes(c, "lock", "pop")
  /\ lock' = TRUE
  /\ UNCHANGED <<file_vars, io_vars, coder_idx, next, slot_vars, sem_vars>>

\* Mutant of CoderPop: the id is read and the cursor is left where it is.
CoderPopStays(c) ==
  /\ CoderGoes(c, "pop", "check")
  /\ coder_idx' = [coder_idx EXCEPT ![c] = next]
  /\ lock' = FALSE
  /\ UNCHANGED <<next, file_vars, io_vars, slot_vars, sem_vars>>

\* pqueue_pop and spinlock_unlock
CoderPop(c) ==
  /\ CoderGoes(c, "pop", "check")
  /\ coder_idx' = [coder_idx EXCEPT ![c] = next]
  /\ next' = pqueue_next(next, QueueLen)
  /\ lock' = FALSE
  /\ UNCHANGED <<file_vars, io_vars, slot_vars, sem_vars>>

CoderCheck(c) ==
  /\ CoderGoes(c, "check",
               IF nbytes_tta_perframe[coder_idx[c]] # 0 THEN "decode"
               ELSE "cleanup")
  /\ UNCHANGED <<file_vars, io_vars, coder_idx, queue_vars, slot_vars,
                 sem_vars>>

\* The bytes in slot s are those of the frame that was encoded.
Intact(s) ==
  /\ ttabuf[s] \notin file.damaged
  /\ nbytes_tta_perframe[s] = file.table[ttabuf[s]] - CrcSize

\* Mutant of CoderDecode: a frame that cannot be decoded is not padded.
CoderDecodeUnpadded(c) ==
  LET idx == coder_idx[c] IN
  /\ CoderGoes(c, "decode", "post")
  /\ pcmbuf' = [pcmbuf EXCEPT ![idx] =
       [frame |-> ttabuf[idx],
        ni32  |-> IF Intact(idx) THEN ni32_perframe[idx] ELSE 0,
        crc   |-> IF Intact(idx) THEN Crc(ttabuf[idx]) ELSE BadCrc]]
  /\ UNCHANGED <<file_vars, io_vars, coder_idx, queue_vars, ni32_perframe,
                 nbytes_tta_perframe, ttabuf, crc_read, sem_vars>>

\* dec_frame_decode: a frame that cannot be decoded to its end is padded to
\* its ni32_perframe samples.
CoderDecode(c) ==
  LET idx == coder_idx[c] IN
  /\ CoderGoes(c, "decode", "post")
  /\ pcmbuf' = [pcmbuf EXCEPT ![idx] =
       [frame |-> ttabuf[idx],
        ni32  |-> ni32_perframe[idx],
        crc   |-> IF Intact(idx) THEN Crc(ttabuf[idx]) ELSE BadCrc]]
  /\ UNCHANGED <<file_vars, io_vars, coder_idx, queue_vars, ni32_perframe,
                 nbytes_tta_perframe, ttabuf, crc_read, sem_vars>>

CoderPost(c) ==
  /\ CoderGoes(c, "post", "wait")
  /\ post_decoder' = [post_decoder EXCEPT ![coder_idx[c]] = @ + 1]
  /\ UNCHANGED <<file_vars, io_vars, coder_idx, queue_vars, slot_vars,
                 navailable>>

\* priv_free, free; decmt_decoder_wrapper detaches every thread but Main.
CoderCleanup(c) ==
  /\ CoderGoes(c, "cleanup", IF c = Main THEN "join" ELSE "gone")
  /\ UNCHANGED <<file_vars, io_vars, coder_idx, queue_vars, slot_vars,
                 sem_vars>>

Coder(c) == \/ CoderSetup(c) \/ CoderWait(c) \/ CoderLock(c) \/ CoderPop(c)
            \/ CoderCheck(c) \/ CoderDecode(c) \/ CoderPost(c)
            \/ CoderCleanup(c)

-----------------------------------------------------------------------------
(* The process                                                             *)

\* error_sys or error_tta ends the process: thread_create fails, an allocation
\* fails, fread reports an error, fwrite fails.
ErrorExit ==
  /\ Running
  /\ \/ coder_pc[Main] = "create"
     \/ io_pc = "read" /\ MoreFrames
     \/ io_pc \in {"write0", "write1"}
     \/ \E c \in Coders : coder_pc[c] = "setup"
  /\ process' = "exited"
  /\ UNCHANGED <<file_vars, io_vars, coder_vars, queue_vars, slot_vars,
                 sem_vars>>

\* What a coder does that outlives the shared state is undefined: the model
\* leaves it where it is.
Finished == process = "exited" \/ coder_pc[Main] = "returned"

Terminated == Finished /\ UNCHANGED vars

Next ==
  \/ MainCreateIO \/ MainCode \/ MainJoin \/ MainFree
  \/ \E c \in Coders : MainCreateCoder(c) \/ Coder(c)
  \/ IO
  \/ ErrorExit
  \/ Terminated

\* Every thread that can run does, and none waits for ever on a semaphore
\* that stays positive.
Fairness ==
  /\ WF_vars(MainCreateIO) /\ WF_vars(MainCode)
  /\ WF_vars(MainJoin) /\ WF_vars(MainFree)
  /\ WF_vars(IO)
  /\ \A c \in Coders : WF_vars(MainCreateCoder(c)) /\ WF_vars(Coder(c))

Spec == Init /\ [][Next]_vars /\ Fairness

-----------------------------------------------------------------------------
(* Safety                                                                  *)

IOPcs == {"unborn", "read", "post0", "wait0", "write0", "tiny", "wait1",
          "write1", "post1", "done"}

CoderPcs == {"unborn", "create", "setup", "wait", "lock", "pop", "check",
             "decode", "post", "cleanup", "gone", "join", "free", "returned"}

\* Every variable keeps its type; only the main thread creates, joins, frees.
TypeOK ==
  /\ process \in {"running", "exited"}
  /\ file \in TTAFiles
  /\ unread \in Nat
  /\ outfile \in Seq(PcmFrame)
  /\ io_pc \in IOPcs
  /\ io_idx \in Slots
  /\ last \in Slots
  /\ start_writing \in BOOLEAN
  /\ nframes_target \in Nat
  /\ nframes_read \in Nat
  /\ nsamples_perchan_dec_total \in Nat
  /\ nsamples_perchan_dec_total <= file.nsamples_enc
  /\ coder_pc \in [Coders -> CoderPcs]
  /\ \A c \in Coders \ {Main} :
       coder_pc[c] \notin {"create", "join", "free", "returned"}
  /\ coder_idx \in [Coders -> Slots]
  /\ navailable \in Nat
  /\ post_decoder \in [Slots -> Nat]
  /\ lock \in BOOLEAN
  /\ next \in Slots
  /\ ni32_perframe \in [Slots -> Nat]
  /\ nbytes_tta_perframe \in [Slots -> Nat]
  /\ ttabuf \in [Slots -> Nat]
  /\ crc_read \in [Slots -> Nat]
  /\ pcmbuf \in [Slots -> PCM]

Writing == {"write0", "write1"}

\* No two threads are in code that accesses the same memory, one of them to
\* write it: the cursor of the queue, or an entry of the parallel arrays that
\* decmt_io and decmt_decoder share without a lock (ni32_perframe,
\* nbytes_tta_perframe and decbuf written by the io thread and read by a
\* coder; pcmbuf, user and dec_retval written by a coder and read by the io
\* thread).
NoDataRace ==
  /\ \A c, d \in Coders : c # d =>
       /\ ~(coder_pc[c] = "pop" /\ coder_pc[d] = "pop")
       /\ ~(coder_pc[c] = "decode" /\ coder_pc[d] = "decode"
              /\ coder_idx[c] = coder_idx[d])
  /\ \A c \in Coders :
       /\ ~(coder_pc[c] \in {"check", "decode"} /\ coder_idx[c] = io_idx
              /\ io_pc \in {"read", "write1"})
       /\ ~(coder_pc[c] = "decode" /\ coder_idx[c] = io_idx
              /\ io_pc \in Writing)

\* A slot is posted to the io thread at most once, and only when it holds the
\* PCM of the frame whose bytes, checksum and size were read into it, and no
\* coder is at it any more.
HandoverComplete ==
  \A s \in Slots :
    post_decoder[s] > 0 \/ (io_pc \in Writing /\ io_idx = s) =>
      /\ post_decoder[s] <= 1
      /\ pcmbuf[s].frame = ttabuf[s] /\ pcmbuf[s].ni32 = ni32_perframe[s]
      /\ crc_read[s] \in {NoCrc, Crc(ttabuf[s])}
      /\ \A c \in Coders : coder_pc[c] \in {"decode", "post"} =>
                             coder_idx[c] # s

\* The input is one the decoder can decode to its end: it has at least one
\* frame and is not cut off between two frames.
Decodable == NFramesFound(file) > 0 /\ ~CutBetweenFrames(file)

\* A coder stops neither too early, a slot nobody read a frame into taken for
\* the end of the input (nbytes_tta_perframe 0), nor never: the io thread returns
\* only when it has posted navailable for every coder that still has to learn
\* that it must stop.
CodersStopInTime ==
  /\ Decodable =>
       \A c \in Coders :
         coder_pc[c] \in {"cleanup", "gone", "join", "free", "returned"} =>
           nframes_read = NFramesFound(file)
  /\ io_pc = "done" =>
       Cardinality({c \in Coders :
                      coder_pc[c] \in {"unborn", "create", "setup", "wait"}})
         <= navailable

\* Whatever the interleaving, the program does what the sequential loop does:
\* it writes the PCM of the frames in their order, each once and at its full
\* length, reports exactly the damaged and the truncated ones, and returns
\* when all of them are written.
Stream == INSTANCE FrameStream WITH
            source <- DecodedFrames(file),
            stream <- outfile,
            status <- IF process = "exited" THEN "abandoned"
                      ELSE IF coder_pc[Main] = "returned" THEN "closed"
                      ELSE "open"

WritesFramesInOrder == Stream!Spec

-----------------------------------------------------------------------------
(* Liveness                                                                *)

\* decmt_loop returns, unless an error ends the process.
DecmtReturns == Decodable => <>Finished

=============================================================================
