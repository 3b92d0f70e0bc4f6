------------------------------- MODULE EncMT --------------------------------
(***************************************************************************)
(* The multi-threaded encoder: encmt_loop, its io thread encmt_io and its  *)
(* coder threads encmt_encoder (src/src/cli/modes/mode_encode_loop.c) over *)
(* the shared state of encmt_state_init (src/src/cli/modes/mt-struct.c).   *)
(*                                                                         *)
(* The io thread fills the slots of a ring in order, posts navailable once *)
(* per filled slot, and writes slot idx after waiting on post_encoder[idx].*)
(* A coder waits on navailable, pops the next slot id under a spinlock,    *)
(* and encodes that slot; a slot whose ni32_perframe is 0 tells it to      *)
(* stop.  The thread that called encmt_loop is the last coder: it then     *)
(* joins the io thread and frees the shared state.                         *)
(*                                                                         *)
(* A thread at a program counter is inside the code of the same name: all  *)
(* the memory that code touches counts as in use while it is there.        *)
(***************************************************************************)
EXTENDS EncFrames, PQueue, FiniteSets

CONSTANTS Coders,     \* the coder threads
          Main,       \* the coder that called encmt_loop
          QueueLen,   \* framequeue_len
          Files       \* the input files to start from

\* encmt_io: "@pre arg->frames->nmemb > the number of encoder threads".
ASSUME CodersAssumption == IsFiniteSet(Coders) /\ Main \in Coders
ASSUME QueueLenAssumption ==
  QueueLen \in Nat /\ QueueLen > Cardinality(Coders)
ASSUME FilesAssumption == Files \subseteq File

Slots == 0..(QueueLen - 1)

NoFrame == [frame |-> 0, ni32 |-> 0]

VARIABLES
  process,        \* "running", or "exited" through error_sys or error_tta
  file,           \* the input file
  unread,         \* bytes of it not yet read
  outfile,        \* the frames written, in the order of the file
  io_pc,
  io_idx, last,   \* idx and last of encmt_io
  start_writing,
  nframes_read,
  nsamples_flat_read_total,
  coder_pc,       \* of every coder
  coder_idx,      \* idx of every coder
  navailable,     \* semaphore: slots made available
  post_encoder,   \* semaphore of every slot
  lock,           \* spinlock of the queue
  next,           \* cursor of the queue
  ni32_perframe,  \* of every slot
  pcmbuf,         \* number of the frame whose PCM every slot holds
  ttabuf          \* encoded frame of every slot, with its user state

file_vars   == <<file, unread, outfile>>
io_vars     == <<io_pc, io_idx, last, start_writing, nframes_read,
                 nsamples_flat_read_total>>
coder_vars  == <<coder_pc, coder_idx>>
queue_vars  == <<lock, next>>
slot_vars   == <<ni32_perframe, pcmbuf, ttabuf>>
sem_vars    == <<navailable, post_encoder>>
vars == <<process, file_vars, io_vars, coder_vars, queue_vars, slot_vars,
          sem_vars>>

\* The shared state exists until encmt_state_free has run.
Running == process = "running" /\ coder_pc[Main] # "returned"

-----------------------------------------------------------------------------
(* encmt_loop and encmt_state_init                                         *)

Init ==
  /\ process = "running"
  /\ file \in Files
  /\ unread = file.avail
  /\ outfile = <<>>
  /\ io_pc = "unborn"
  /\ io_idx = 0
  /\ last = 0
  /\ start_writing = FALSE
  /\ nframes_read = 0
  /\ nsamples_flat_read_total = 0
  /\ coder_pc = [c \in Coders |-> IF c = Main THEN "create" ELSE "unborn"]
  /\ coder_idx = [c \in Coders |-> 0]
  /\ navailable = 0
  /\ post_encoder = [s \in Slots |-> 0]
  /\ lock = FALSE
  /\ next = pqueue_first
  /\ ni32_perframe = [s \in Slots |-> 0]
  /\ pcmbuf = [s \in Slots |-> 0]
  /\ ttabuf = [s \in Slots |-> NoFrame]

CoderGoes(c, from, to) ==
  /\ Running
  /\ coder_pc[c] = from
  /\ coder_pc' = [coder_pc EXCEPT ![c] = to]
  /\ UNCHANGED process

\* The io thread is created first.
MainCreateIO ==
  /\ io_pc = "unborn"
  /\ io_pc' = "read"
  /\ CoderGoes(Main, "create", "create")
  /\ UNCHANGED <<file_vars, io_idx, last, start_writing, nframes_read,
                 nsamples_flat_read_total, coder_idx, queue_vars, slot_vars,
                 sem_vars>>

\* Then the coder threads are.
MainCreateCoder(c) ==
  /\ io_pc # "unborn"
  /\ coder_pc[Main] = "create"
  /\ CoderGoes(c, "unborn", "setup")
  /\ UNCHANGED <<file_vars, io_vars, coder_idx, queue_vars, slot_vars,
                 sem_vars>>

\* Then the main thread becomes the last one.
MainCode ==
  /\ io_pc # "unborn"
  /\ \A c \in Coders : coder_pc[c] # "unborn"
  /\ CoderGoes(Main, "create", "setup")
  /\ UNCHANGED <<file_vars, io_vars, coder_idx, queue_vars, slot_vars,
                 sem_vars>>

\* When it has finished coding it joins the io thread,
MainJoin ==
  /\ io_pc = "done"
  /\ CoderGoes(Main, "join", "free")
  /\ UNCHANGED <<file_vars, io_vars, coder_idx, queue_vars, slot_vars,
                 sem_vars>>

\* and destroys and frees everything the threads share.
MainFree ==
  /\ CoderGoes(Main, "free", "returned")
  /\ UNCHANGED <<file_vars, io_vars, coder_idx, queue_vars, slot_vars,
                 sem_vars>>

-----------------------------------------------------------------------------
(* encmt_io                                                                *)

IOGoes(from, to) ==
  /\ Running
  /\ io_pc = from
  /\ io_pc' = to
  /\ UNCHANGED <<process, file, coder_vars, queue_vars>>

readlen == enc_readlen(nsamples_flat_read_total, file.decpcm_size)

\* Fill slot idx with the next frame.
Loop0Read ==
  LET nmemb_read == fread(readlen, unread) IN
  /\ readlen # 0
  /\ IOGoes("read", "post0")
  /\ unread' = IF nmemb_read < readlen THEN 0
               ELSE unread - nmemb_read * SampleBytes
  /\ nsamples_flat_read_total' =
       TotalAfter(nsamples_flat_read_total, nmemb_read, readlen)
  /\ ni32_perframe' = [ni32_perframe EXCEPT ![io_idx] =
                         nmemb_read + enc_frame_zeropad(nmemb_read)]
  /\ pcmbuf' = [pcmbuf EXCEPT ![io_idx] =
                  IF nmemb_read = 0 THEN @ ELSE nframes_read + 1]
  /\ UNCHANGED <<outfile, io_idx, last, start_writing, nframes_read, ttabuf,
                 sem_vars>>

\* Make it available.  Nothing is written before every slot has been filled.
Loop0Post ==
  LET idx == pqueue_next(io_idx, QueueLen) IN
  /\ IOGoes("post0", IF ~start_writing /\ idx # 0 THEN "read" ELSE "wait0")
  /\ navailable' = navailable + 1
  /\ nframes_read' = nframes_read + 1
  /\ io_idx' = idx
  /\ start_writing' = (start_writing \/ idx = 0)
  /\ UNCHANGED <<unread, outfile, last, nsamples_flat_read_total, slot_vars,
                 post_encoder>>

\* Mutant of WaitForSlot: the semaphore is tested and not taken.
WaitForSlotUntaken ==
  /\ post_encoder[io_idx] > 0
  /\ UNCHANGED <<unread, outfile, io_idx, last, start_writing, nframes_read,
                 nsamples_flat_read_total, slot_vars, sem_vars>>

\* semaphore_wait(&post_encoder[idx])
WaitForSlot ==
  /\ post_encoder[io_idx] > 0
  /\ post_encoder' = [post_encoder EXCEPT ![io_idx] = @ - 1]
  /\ UNCHANGED <<unread, outfile, io_idx, last, start_writing, nframes_read,
                 nsamples_flat_read_total, slot_vars, navailable>>

Loop0Wait == IOGoes("wait0", "write0") /\ WaitForSlot

\* enc_frame_write of slot idx
enc_frame_write == outfile' = Append(outfile, ttabuf[io_idx])

Loop0Write ==
  /\ IOGoes("write0", "read")
  /\ enc_frame_write
  /\ UNCHANGED <<unread, io_idx, last, start_writing, nframes_read,
                 nsamples_flat_read_total, slot_vars, sem_vars>>

\* Everything is read: slot idx is marked as done without being made
\* available, and the io thread goes on to the frames not yet written, or, if
\* it has not filled every slot, to making the other slots available.
Loop0Done ==
  LET idx == IF start_writing THEN pqueue_next(io_idx, QueueLen) ELSE io_idx
  IN
  /\ readlen = 0
  /\ IOGoes("read", IF ~start_writing THEN "tiny"
                    ELSE IF idx # io_idx THEN "wait1" ELSE "done")
  /\ ni32_perframe' = [ni32_perframe EXCEPT ![io_idx] = 0]
  /\ last' = io_idx
  /\ io_idx' = idx
  /\ UNCHANGED <<unread, outfile, start_writing, nframes_read,
                 nsamples_flat_read_total, pcmbuf, ttabuf, sem_vars>>

TinyPost ==
  LET idx == pqueue_next(io_idx, QueueLen) IN
  /\ IOGoes("tiny", IF idx # 0 THEN "tiny" ELSE "wait1")
  /\ navailable' = navailable + 1
  /\ io_idx' = idx
  /\ UNCHANGED <<unread, outfile, last, start_writing, nframes_read,
                 nsamples_flat_read_total, slot_vars, post_encoder>>

Loop1Wait == IOGoes("wait1", "write1") /\ WaitForSlot

\* Mutant of Loop1Write: the slot is not marked as done.
Loop1WriteUnmarked ==
  /\ IOGoes("write1", "post1")
  /\ enc_frame_write
  /\ UNCHANGED <<unread, io_idx, last, start_writing, nframes_read,
                 nsamples_flat_read_total, slot_vars, sem_vars>>

Loop1Write ==
  /\ IOGoes("write1", "post1")
  /\ enc_frame_write
  /\ ni32_perframe' = [ni32_perframe EXCEPT ![io_idx] = 0]
  /\ UNCHANGED <<unread, io_idx, last, start_writing, nframes_read,
                 nsamples_flat_read_total, pcmbuf, ttabuf, sem_vars>>

\* Mutant of Loop1Post: the written slot is not made available as a pill.
Loop1PostNothing ==
  LET idx == pqueue_next(io_idx, QueueLen) IN
  /\ IOGoes("post1", IF idx # last THEN "wait1" ELSE "done")
  /\ io_idx' = idx
  /\ UNCHANGED <<unread, outfile, last, start_writing, nframes_read,
                 nsamples_flat_read_total, slot_vars, sem_vars>>

Loop1Post ==
  LET idx == pqueue_next(io_idx, QueueLen) IN
  /\ IOGoes("post1", IF idx # last THEN "wait1" ELSE "done")
  /\ navailable' = navailable + 1
  /\ io_idx' = idx
  /\ UNCHANGED <<unread, outfile, last, start_writing, nframes_read,
                 nsamples_flat_read_total, slot_vars, post_encoder>>

IO == \/ Loop0Read \/ Loop0Post \/ Loop0Wait \/ Loop0Write \/ Loop0Done
      \/ TinyPost \/ Loop1Wait \/ Loop1Write \/ Loop1Post

-----------------------------------------------------------------------------
(* encmt_encoder                                                           *)

\* calloc_check and priv_alloc
CoderSetup(c) ==
  /\ CoderGoes(c, "setup", "wait")
  /\ UNCHANGED <<file_vars, io_vars, coder_idx, queue_vars, slot_vars,
                 sem_vars>>

\* Mutant of CoderWait: the semaphore is tested and not taken.
CoderWaitUntaken(c) ==
  /\ navailable > 0
  /\ CoderGoes(c, "wait", "lock")
  /\ UNCHANGED <<file_vars, io_vars, coder_idx, queue_vars, slot_vars,
                 sem_vars>>

CoderWait(c) ==
  /\ navailable > 0
  /\ CoderGoes(c, "wait", "lock")
  /\ navailable' = navailable - 1
  /\ UNCHANGED <<file_vars, io_vars, coder_idx, queue_vars, slot_vars,
                 post_encoder>>

\* Mutant of CoderLock: the queue is popped whoever holds the lock.
CoderLockHeld(c) ==
  /\ CoderGoes(c, "lock", "pop")
  /\ lock' = TRUE
  /\ UNCHANGED <<file_vars, io_vars, coder_idx, next, slot_vars, sem_vars>>

CoderLock(c) ==
  /\ ~lock
  /\ CoderGoes(c, "lock", "pop")
  /\ lock' = TRUE
  /\ UNCHANGED <<file_vars, io_vars, coder_idx, next, slot_vars, sem_vars>>

\* Mutant of CoderPop: the lock is not released.
CoderPopKeepsLock(c) ==
  /\ CoderGoes(c, "pop", "check")
  /\ coder_idx' = [coder_idx EXCEPT ![c] = next]
  /\ next' = pqueue_next(next, QueueLen)
  /\ UNCHANGED <<lock, file_vars, io_vars, slot_vars, sem_vars>>

\* pqueue_pop and spinlock_unlock
CoderPop(c) ==
  /\ CoderGoes(c, "pop", "check")
  /\ coder_idx' = [coder_idx EXCEPT ![c] = next]
  /\ next' = pqueue_next(next, QueueLen)
  /\ lock' = FALSE
  /\ UNCHANGED <<file_vars, io_vars, slot_vars, sem_vars>>

CoderCheck(c) ==
  /\ CoderGoes(c, "check", IF ni32_perframe[coder_idx[c]] # 0 THEN "encode"
                           ELSE "cleanup")
  /\ UNCHANGED <<file_vars, io_vars, coder_idx, queue_vars, slot_vars,
                 sem_vars>>

\* enc_frame_encode
CoderEncode(c) ==
  LET idx == coder_idx[c] IN
  /\ CoderGoes(c, "encode", "post")
  /\ ttabuf' = [ttabuf EXCEPT ![idx] = [frame |-> pcmbuf[idx],
                                        ni32  |-> ni32_perframe[idx]]]
  /\ UNCHANGED <<file_vars, io_vars, coder_idx, queue_vars, ni32_perframe,
                 pcmbuf, sem_vars>>

CoderPost(c) ==
  /\ CoderGoes(c, "post", "wait")
  /\ post_encoder' = [post_encoder EXCEPT ![coder_idx[c]] = @ + 1]
  /\ UNCHANGED <<file_vars, io_vars, coder_idx, queue_vars, slot_vars,
                 navailable>>

\* priv_free, free; encmt_encoder_wrapper detaches every thread but Main.
CoderCleanup(c) ==
  /\ CoderGoes(c, "cleanup", IF c = Main THEN "join" ELSE "gone")
  /\ UNCHANGED <<file_vars, io_vars, coder_idx, queue_vars, slot_vars,
                 sem_vars>>

Coder(c) == \/ CoderSetup(c) \/ CoderWait(c) \/ CoderLock(c) \/ CoderPop(c)
            \/ CoderCheck(c) \/ CoderEncode(c) \/ CoderPost(c)
            \/ CoderCleanup(c)

-----------------------------------------------------------------------------
(* The process                                                             *)

\* The program counters from which a coder still uses the shared state.
UsesState == {"unborn", "setup", "wait", "lock", "pop", "check", "encode",
              "post"}

\* error_sys or error_tta ends the process: thread_create fails, an allocation
\* fails, fread reports an error, fwrite fails.
ErrorExit ==
  /\ Running
  /\ \/ coder_pc[Main] = "create"
     \/ io_pc = "read" /\ readlen # 0
     \/ io_pc \in {"write0", "write1"}
     \/ \E c \in Coders : coder_pc[c] \in {"setup", "encode"}
  /\ process' = "exited"
  /\ UNCHANGED <<file_vars, io_vars, coder_vars, queue_vars, slot_vars,
                 sem_vars>>

\* What a coder does that outlives the shared state is undefined: the model
\* leaves it where it is, and NoUseAfterFree tells whether there is one.
Finished == process = "exited" \/ coder_pc[Main] = "returned"

Terminated == Finished /\ UNCHANGED vars

Next ==
  \/ MainCreateIO \/ MainCode \/ MainJoin \/ MainFree
  \/ \E c \in Coders : MainCreateCoder(c) \/ Coder(c)
  \/ IO
  \/ ErrorExit
  \/ Terminated

\* Every thread that can run does, and none waits for ever on a semaphore
\* that stays positive.
Fairness ==
  /\ WF_vars(MainCreateIO) /\ WF_vars(MainCode)
  /\ WF_vars(MainJoin) /\ WF_vars(MainFree)
  /\ WF_vars(IO)
  /\ \A c \in Coders : WF_vars(MainCreateCoder(c)) /\ WF_vars(Coder(c))

Spec == Init /\ [][Next]_vars /\ Fairness

-----------------------------------------------------------------------------
(* Safety                                                                  *)

IOPcs == {"unborn", "read", "post0", "wait0", "write0", "tiny", "wait1",
          "write1", "post1", "done"}

CoderPcs == {"unborn", "create", "setup", "wait", "lock", "pop", "check",
             "encode", "post", "cleanup", "gone", "join", "free", "returned"}

\* Every variable keeps its type; only the main thread creates, joins, frees.
TypeOK ==
  /\ process \in {"running", "exited"}
  /\ file \in Files
  /\ unread \in Nat
  /\ outfile \in Seq(Frame)
  /\ io_pc \in IOPcs
  /\ io_idx \in Slots
  /\ last \in Slots
  /\ start_writing \in BOOLEAN
  /\ nframes_read \in Nat
  /\ nsamples_flat_read_total \in Nat
  /\ coder_pc \in [Coders -> CoderPcs]
  /\ \A c \in Coders \ {Main} :
       coder_pc[c] \notin {"create", "join", "free", "returned"}
  /\ coder_idx \in [Coders -> Slots]
  /\ navailable \in Nat
  /\ post_encoder \in [Slots -> Nat]
  /\ lock \in BOOLEAN
  /\ next \in Slots
  /\ ni32_perframe \in [Slots -> Nat]
  /\ pcmbuf \in [Slots -> Nat]
  /\ ttabuf \in [Slots -> Frame]

Writing == {"write0", "write1"}

\* No two threads are in code that accesses the same memory, one of them to
\* write it: the cursor of the queue, or an entry of the parallel arrays that
\* encmt_io and encmt_encoder share without a lock (ni32_perframe and pcmbuf
\* written by the io thread and read by a coder; ttabuf, user and enc_retval
\* written by a coder and read by the io thread).
NoDataRace ==
  /\ \A c, d \in Coders : c # d =>
       /\ ~(coder_pc[c] = "pop" /\ coder_pc[d] = "pop")
       /\ ~(coder_pc[c] = "encode" /\ coder_pc[d] = "encode"
              /\ coder_idx[c] = coder_idx[d])
  /\ \A c \in Coders :
       /\ ~(coder_pc[c] \in {"check", "encode"} /\ coder_idx[c] = io_idx
              /\ io_pc \in {"read", "write1"})
       /\ ~(coder_pc[c] = "encode" /\ coder_idx[c] = io_idx
              /\ io_pc \in Writing)

\* A slot is posted to the io thread at most once, and only when it holds the
\* encoding of the PCM that was read into it and no coder is at it any more.
HandoverComplete ==
  \A s \in Slots :
    post_encoder[s] > 0 \/ (io_pc \in Writing /\ io_idx = s) =>
      /\ post_encoder[s] <= 1
      /\ ttabuf[s] = [frame |-> pcmbuf[s], ni32 |-> ni32_perframe[s]]
      /\ \A c \in Coders : coder_pc[c] \in {"encode", "post"} =>
                             coder_idx[c] # s

\* The input is one the encoder can encode to its end: it has at least one
\* frame and is not cut off at the end of a frame.
Encodable == NFrames(file) > 0 /\ ~CutAtFrameBoundary(file)

\* A coder that has found a slot with ni32_perframe 0 and stops has not taken
\* a frame nobody filled yet for the end of the input: all of it is read.
NoEarlyStop ==
  Encodable =>
    \A c \in Coders :
      coder_pc[c] \in {"cleanup", "gone", "join", "free", "returned"} =>
        nframes_read = NFrames(file)

\* The io thread returns only when it has posted navailable for every coder
\* that still has to learn that it must stop, so that none is left waiting.
NoStrandedCoder ==
  io_pc = "done" =>
    Cardinality({c \in Coders :
                   coder_pc[c] \in {"unborn", "create", "setup", "wait"}})
      <= navailable

\* The io thread never reads a frame over one that is not yet written.
NoFrameOverwritten ==
  [][\A s \in Slots : pcmbuf'[s] # pcmbuf[s] => pcmbuf[s] <= Len(outfile)]_vars

\* Whatever the interleaving, the program does what the sequential loop does:
\* it writes the frames of the input in their order, each once, and returns
\* when all of them are written.
Stream == INSTANCE FrameStream WITH
            source <- InputFrames(file),
            stream <- outfile,
            status <- IF process = "exited" THEN "abandoned"
                      ELSE IF coder_pc[Main] = "returned" THEN "closed"
                      ELSE "open"

WritesInputInOrder == Stream!Spec

\* Nothing is freed while a coder still has to use it.
NoUseAfterFree ==
  coder_pc[Main] \in {"free", "returned"} =>
    \A c \in Coders : coder_pc[c] \notin UsesState

-----------------------------------------------------------------------------
(* Liveness                                                                *)

\* encmt_loop returns, unless an error ends the process.
EncmtReturns == Encodable => <>Finished

\* The same of every file the file checks let through: with QueueLen greater
\* than the number of coders the encoder does not deadlock.
NeverDeadlocks == <>Finished

=============================================================================
