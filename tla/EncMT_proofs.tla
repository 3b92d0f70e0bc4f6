---------------------------- MODULE EncMT_proofs ----------------------------
(***************************************************************************)
(* Safety of EncMT for every set of coders, every ring longer than it is   *)
(* large, every file and every PCM format.                                 *)
(***************************************************************************)
EXTENDS EncMTInv, Frames_proofs

LEMMA QueueLenNat == /\ QueueLen \in Nat \ {0}
                     /\ QueueLen > Cardinality(Coders)
                     /\ Cardinality(Coders) \in Nat \ {0}
                     /\ QueueLen > 1
<1>1. Cardinality(Coders) \in Nat
  BY CodersAssumption, FS_CardinalityType
<1>2. Cardinality(Coders) # 0
  BY CodersAssumption, FS_EmptySet
<1> QED BY <1>1, <1>2, QueueLenAssumption

LEMMA NextInSlots == ASSUME NEW s \in Slots
                     PROVE  pqueue_next(s, QueueLen) \in Slots
  BY QueueLenNat, SMT DEF pqueue_next, Slots

LEMMA TypeInit == Init => TypeOK
<1> SUFFICES ASSUME Init PROVE TypeOK
  OBVIOUS
<1>1. file \in File /\ unread \in Nat
  BY FilesAssumption DEF Init, File
<1>2. 0 \in Slots /\ NoFrame \in Frame
  BY QueueLenNat, SMT DEF Slots, NoFrame, Frame
<1>3. outfile \in Seq(Frame)
  BY DEF Init
<1> QED BY <1>1, <1>2, <1>3, CodersAssumption
        DEF Init, TypeOK, IOPcs, CoderPcs, pqueue_first

LEMMA TypeStep == TypeOK /\ [Next]_vars => TypeOK'
<1> SUFFICES ASSUME TypeOK, [Next]_vars PROVE TypeOK'
  OBVIOUS
<1> USE DEF TypeOK
<1> DEFINE Mains == {"create", "join", "free", "returned"}
<1>typing. ASSUME NEW c \in Coders, NEW to \in CoderPcs,
                  c = Main \/ to \notin Mains,
                  coder_pc' = [coder_pc EXCEPT ![c] = to]
           PROVE  /\ coder_pc' \in [Coders -> CoderPcs]
                  /\ \A d \in Coders \ {Main} : coder_pc'[d] \notin Mains
  BY <1>typing
<1>1. CASE MainCreateIO
  <2>1. coder_pc' = [coder_pc EXCEPT ![Main] = "create"] /\ "create" \in CoderPcs
    BY <1>1 DEF MainCreateIO, CoderGoes, CoderPcs
  <2> QED BY <1>1, <2>1, <1>typing, CodersAssumption
          DEF MainCreateIO, CoderGoes, IOPcs, file_vars, queue_vars, slot_vars, sem_vars
<1>2. ASSUME NEW c \in Coders, MainCreateCoder(c)
      PROVE  TypeOK'
  <2>1. coder_pc' = [coder_pc EXCEPT ![c] = "setup"] /\ "setup" \in CoderPcs
    BY <1>2 DEF MainCreateCoder, CoderGoes, CoderPcs
  <2> QED BY <1>2, <2>1, <1>typing
          DEF MainCreateCoder, CoderGoes, file_vars, io_vars, queue_vars, slot_vars, sem_vars
<1>3. ASSUME NEW c \in Coders, NEW from, NEW to \in CoderPcs,
             CoderGoes(c, from, to), c = Main \/ to \notin Mains
      PROVE  /\ process' = process
             /\ coder_pc' \in [Coders -> CoderPcs]
             /\ \A d \in Coders \ {Main} : coder_pc'[d] \notin Mains
  BY <1>3, <1>typing DEF CoderGoes
<1>4. CASE MainCode
  <2>1. CoderGoes(Main, "create", "setup") /\ "setup" \in CoderPcs
    BY <1>4 DEF MainCode, CoderPcs
  <2> QED BY <1>4, <2>1, <1>3, CodersAssumption
          DEF MainCode, file_vars, io_vars, queue_vars, slot_vars, sem_vars
<1>5. CASE MainJoin
  <2>1. CoderGoes(Main, "join", "free") /\ "free" \in CoderPcs
    BY <1>5 DEF MainJoin, CoderPcs
  <2> QED BY <1>5, <2>1, <1>3, CodersAssumption
          DEF MainJoin, file_vars, io_vars, queue_vars, slot_vars, sem_vars
<1>6. CASE MainFree
  <2>1. CoderGoes(Main, "free", "returned") /\ "returned" \in CoderPcs
    BY <1>6 DEF MainFree, CoderPcs
  <2> QED BY <1>6, <2>1, <1>3, CodersAssumption
          DEF MainFree, file_vars, io_vars, queue_vars, slot_vars, sem_vars
<1>7. ASSUME NEW c \in Coders, Coder(c)
      PROVE  TypeOK'
  <2>1. CASE CoderSetup(c)
    <3>1. CoderGoes(c, "setup", "wait") /\ "wait" \in CoderPcs \ Mains
      BY <2>1 DEF CoderSetup, CoderPcs
    <3> QED BY <2>1, <3>1, <1>3
            DEF CoderSetup, file_vars, io_vars, queue_vars, slot_vars, sem_vars
  <2>2. CASE CoderWait(c)
    <3>1. CoderGoes(c, "wait", "lock") /\ "lock" \in CoderPcs \ Mains
      BY <2>2 DEF CoderWait, CoderPcs
    <3>2. navailable' \in Nat
      BY <2>2 DEF CoderWait
    <3> QED BY <2>2, <3>1, <3>2, <1>3
            DEF CoderWait, file_vars, io_vars, queue_vars, slot_vars
  <2>3. CASE CoderLock(c)
    <3>1. CoderGoes(c, "lock", "pop") /\ "pop" \in CoderPcs \ Mains
      BY <2>3 DEF CoderLock, CoderPcs
    <3> QED BY <2>3, <3>1, <1>3
            DEF CoderLock, file_vars, io_vars, slot_vars, sem_vars
  <2>4. CASE CoderPop(c)
    <3>1. CoderGoes(c, "pop", "check") /\ "check" \in CoderPcs \ Mains
      BY <2>4 DEF CoderPop, CoderPcs
    <3> QED BY <2>4, <3>1, <1>3, NextInSlots
            DEF CoderPop, file_vars, io_vars, slot_vars, sem_vars
  <2>5. CASE CoderCheck(c)
    <3>1. \E to \in CoderPcs \ Mains : CoderGoes(c, "check", to)
      BY <2>5 DEF CoderCheck, CoderPcs
    <3> QED BY <2>5, <3>1, <1>3
            DEF CoderCheck, file_vars, io_vars, queue_vars, slot_vars, sem_vars
  <2>6. CASE CoderEncode(c)
    <3>1. CoderGoes(c, "encode", "post") /\ "post" \in CoderPcs \ Mains
      BY <2>6 DEF CoderEncode, CoderPcs
    <3>2. [frame |-> pcmbuf[coder_idx[c]], ni32 |-> ni32_perframe[coder_idx[c]]]
            \in Frame
      BY DEF Frame
    <3> QED BY <2>6, <3>1, <3>2, <1>3
            DEF CoderEncode, file_vars, io_vars, queue_vars, sem_vars
  <2>7. CASE CoderPost(c)
    <3>1. CoderGoes(c, "post", "wait") /\ "wait" \in CoderPcs \ Mains
      BY <2>7 DEF CoderPost, CoderPcs
    <3>2. post_encoder' \in [Slots -> Nat]
      BY <2>7 DEF CoderPost
    <3> QED BY <2>7, <3>1, <3>2, <1>3
            DEF CoderPost, file_vars, io_vars, queue_vars, slot_vars
  <2>8. CASE CoderCleanup(c)
    <3>1. \E to \in CoderPcs : /\ CoderGoes(c, "cleanup", to)
                               /\ c = Main \/ to \notin Mains
      BY <2>8 DEF CoderCleanup, CoderPcs
    <3> QED BY <2>8, <3>1, <1>3
            DEF CoderCleanup, file_vars, io_vars, queue_vars, slot_vars, sem_vars
  <2> QED BY <1>7, <2>1, <2>2, <2>3, <2>4, <2>5, <2>6, <2>7, <2>8 DEF Coder
<1>8. CASE IO
  <2> USE DEF IOGoes, IOPcs, coder_vars, queue_vars, slot_vars, sem_vars
  <2>0. file.decpcm_size \in Nat /\ readlen \in Nat
    BY FilesAssumption, ReadlenType DEF readlen, File
  <2>1. CASE Loop0Read
    <3> DEFINE n == fread(readlen, unread)
    <3>1. /\ n \in Nat
          /\ n <= readlen
          /\ unread - n * SampleBytes \in Nat
      BY <2>0, FreadType
    <3>2. enc_frame_zeropad(n) \in Nat
      BY <3>1, ZeropadType
    <3>3. TotalAfter(nsamples_flat_read_total, n, readlen) \in Nat
      <4>1. nsamples_flat_read_total + n \in Nat
        BY <3>1
      <4> HIDE DEF n
      <4> QED BY <4>1, SizeTType, FormatAssumption, SizeAssumption DEF TotalAfter
    <3> HIDE DEF n
    <3>4. n + enc_frame_zeropad(n) \in Nat
      BY <3>1, <3>2
    <3>5. unread' \in Nat
      BY <2>1, <3>1 DEF Loop0Read, n
    <3>6. ni32_perframe' \in [Slots -> Nat]
      BY <2>1, <3>4 DEF Loop0Read, n
    <3>7. pcmbuf' \in [Slots -> Nat]
      BY <2>1 DEF Loop0Read
    <3> QED BY <2>1, <3>3, <3>5, <3>6, <3>7 DEF Loop0Read, n
  <2>2. CASE Loop0Post
    BY <2>2, NextInSlots DEF Loop0Post
  <2>3. CASE Loop0Wait
    BY <2>3 DEF Loop0Wait, WaitForSlot
  <2>4. CASE Loop0Write
    BY <2>4 DEF Loop0Write, enc_frame_write
  <2>5. CASE Loop0Done
    BY <2>5, NextInSlots DEF Loop0Done
  <2>6. CASE TinyPost
    BY <2>6, NextInSlots DEF TinyPost
  <2>7. CASE Loop1Wait
    BY <2>7 DEF Loop1Wait, WaitForSlot
  <2>8. CASE Loop1Write
    BY <2>8 DEF Loop1Write, enc_frame_write
  <2>9. CASE Loop1Post
    BY <2>9, NextInSlots DEF Loop1Post
  <2> QED BY <1>8, <2>1, <2>2, <2>3, <2>4, <2>5, <2>6, <2>7, <2>8, <2>9 DEF IO
<1>9. CASE ErrorExit
  BY <1>9 DEF ErrorExit, file_vars, io_vars, coder_vars, queue_vars, slot_vars, sem_vars
<1>10. CASE UNCHANGED vars
  BY <1>10 DEF vars, file_vars, io_vars, coder_vars, queue_vars, slot_vars, sem_vars
<1> QED BY <1>1, <1>2, <1>4, <1>5, <1>6, <1>7, <1>8, <1>9, <1>10
        DEF Next, Terminated

\* Every reachable state of the encoder is well typed.
THEOREM EncMTType == Spec => []TypeOK
  BY TypeInit, TypeStep, PTL DEF Spec

-----------------------------------------------------------------------------
(* Numbers and slots                                                       *)

LEMMA SlotType == ASSUME NEW n \in Nat PROVE Slot(n) \in Slots
  BY QueueLenNat, DivMod DEF Slot, Slots

LEMMA SlotNext == ASSUME NEW n \in Nat
                  PROVE  pqueue_next(Slot(n), QueueLen) = Slot(n + 1)
  BY QueueLenNat, NextIsMod DEF Slot

LEMMA SlotSmall == ASSUME NEW n \in Slots PROVE Slot(n) = n
  BY QueueLenNat, ModSmall DEF Slot, Slots

LEMMA SlotLap == ASSUME NEW n \in Nat PROVE Slot(n + QueueLen) = Slot(n)
  BY QueueLenNat, ModLap DEF Slot

LEMMA SlotDistinct ==
  ASSUME NEW a \in Nat, NEW b \in Nat, a < b, b < a + QueueLen
  PROVE  Slot(a) # Slot(b)
  BY QueueLenNat, ModDistinct DEF Slot

LEMMA WrittenType == ASSUME TypeOK PROVE Written \in Nat
  BY DEF TypeOK, Written

\* Writing a frame adds one to the frames written.
LEMMA WrittenWrite == ASSUME TypeOK, enc_frame_write
                      PROVE  Written' = Written + 1
<1>1. ttabuf[io_idx] \in Frame
  BY DEF TypeOK
<1> QED BY <1>1 DEF TypeOK, Written, enc_frame_write

\* Everything the io thread knows about the ring.
RingVars == <<io_pc, io_idx, last, start_writing, nframes_read, outfile>>

LEMMA RingFrame ==
  ASSUME [Next]_vars, ~IO, ~MainCreateIO
  PROVE  UNCHANGED RingVars
<1>1. ASSUME NEW c \in Coders, MainCreateCoder(c) \/ Coder(c)
      PROVE  UNCHANGED RingVars
  BY <1>1 DEF MainCreateCoder, Coder, CoderSetup, CoderWait, CoderLock, CoderPop,
     CoderCheck, CoderEncode, CoderPost, CoderCleanup, RingVars, io_vars, file_vars
<1>2. CASE MainCode \/ MainJoin \/ MainFree \/ ErrorExit
  BY <1>2 DEF MainCode, MainJoin, MainFree, ErrorExit, RingVars, io_vars, file_vars
<1>3. CASE UNCHANGED vars
  BY <1>3 DEF vars, RingVars, io_vars, file_vars
<1> QED BY <1>1, <1>2, <1>3 DEF Next, Terminated

\* What RingInv says of the distance between writing and posting.
LEMMA PostedBounds ==
  ASSUME TypeOK, RingInv
  PROVE  /\ Posted \in Nat
         /\ Posted <= Written + QueueLen
         /\ nframes_read <= Posted
         /\ Written <= nframes_read
<1>1. Written \in Nat /\ nframes_read \in Nat /\ io_idx \in 0..(QueueLen - 1)
  BY WrittenType DEF TypeOK, Slots
<1> QED BY <1>1, QueueLenNat DEF TypeOK, RingInv, Posted, Loop1Pcs, IOPcs

LEMMA RingInit == Init => RingInv
<1> SUFFICES ASSUME Init PROVE RingInv
  OBVIOUS
<1>1. Written = 0 /\ 0 \in Slots
  BY QueueLenNat, SMT DEF Init, Written, Slots
<1>2. Slot(0) = 0
  BY <1>1, SlotSmall
<1> QED BY <1>1, <1>2, QueueLenNat DEF Init, RingInv, Loop1Pcs

LEMMA RingStep == SyncInv /\ [Next]_vars => RingInv'
<1> SUFFICES ASSUME SyncInv, [Next]_vars PROVE RingInv'
  OBVIOUS
<1>0. TypeOK /\ RingInv /\ HandoverInv
  BY DEF SyncInv
<1>1. /\ Written \in Nat /\ nframes_read \in Nat
      /\ io_idx \in Slots /\ io_idx \in 0..(QueueLen - 1)
  BY <1>0, WrittenType DEF TypeOK, Slots
<1>2. CASE UNCHANGED RingVars
  BY <1>0, <1>2 DEF RingInv, RingVars, Written, Loop1Pcs
<1>3. CASE MainCreateIO
  BY <1>0, <1>3 DEF MainCreateIO, RingInv, file_vars, Written, Loop1Pcs
<1>4. CASE Loop0Read
  <2>1. io_pc = "read" /\ io_pc' = "post0"
        /\ UNCHANGED <<io_idx, start_writing, nframes_read, outfile>>
    BY <1>4 DEF Loop0Read, IOGoes
  <2> QED BY <1>0, <2>1 DEF RingInv, Written, Loop1Pcs
<1>5. CASE Loop0Post
  <2>1. /\ io_pc = "post0" /\ io_idx = Slot(nframes_read)
        /\ io_idx' = pqueue_next(io_idx, QueueLen)
        /\ io_pc' = IF ~start_writing /\ io_idx' # 0 THEN "read" ELSE "wait0"
        /\ nframes_read' = nframes_read + 1
        /\ start_writing' = (start_writing \/ io_idx' = 0)
        /\ UNCHANGED <<outfile, last>>
    BY <1>0, <1>5 DEF Loop0Post, IOGoes, RingInv
  <2>2. io_idx' = Slot(nframes_read + 1)
    BY <1>1, <2>1, SlotNext
  <2>3. CASE start_writing
    <3>1. nframes_read + 1 = Written + QueueLen
      BY <1>0, <1>1, <2>1, <2>3, QueueLenNat DEF RingInv
    <3>2. io_idx' = Slot(Written)
      BY <1>1, <2>2, <3>1, SlotLap
    <3> QED BY <1>1, <2>1, <2>3, <3>1, <3>2 DEF RingInv, Written, Loop1Pcs
  <2>4. CASE ~start_writing /\ nframes_read + 1 < QueueLen
    <3>1. io_idx' = nframes_read + 1
      BY <1>1, <2>2, <2>4, SlotSmall, QueueLenNat DEF Slots
    <3>2. Written = 0 /\ io_idx' # 0
      BY <1>0, <1>1, <2>1, <2>4, <3>1 DEF RingInv
    <3> QED BY <1>1, <2>1, <2>2, <2>4, <3>2 DEF RingInv, Written, Loop1Pcs
  <2>5. CASE ~start_writing /\ ~(nframes_read + 1 < QueueLen)
    <3>1. nframes_read + 1 = QueueLen /\ Written = 0
      BY <1>0, <1>1, <2>1, <2>5, QueueLenNat DEF RingInv
    <3>2. Slot(0 + QueueLen) = Slot(0) /\ Slot(0) = 0
      BY SlotLap, SlotSmall, QueueLenNat DEF Slots
    <3>3. io_idx' = 0 /\ io_idx' = Slot(Written)
      BY <2>2, <3>1, <3>2, QueueLenNat
    <3>4. io_pc' = "wait0" /\ start_writing' = TRUE
      BY <2>1, <3>3
    <3>5. Written' = Written /\ nframes_read' = Written + QueueLen
      BY <1>1, <2>1, <3>1, QueueLenNat DEF Written
    <3> QED BY <3>3, <3>4, <3>5 DEF RingInv, Loop1Pcs
  <2> QED BY <2>3, <2>4, <2>5
<1>6. CASE Loop0Wait
  <2>1. io_pc = "wait0" /\ io_pc' = "write0"
        /\ UNCHANGED <<io_idx, last, start_writing, nframes_read, outfile>>
    BY <1>6 DEF Loop0Wait, WaitForSlot, IOGoes
  <2> QED BY <1>0, <2>1 DEF RingInv, Written, Loop1Pcs
<1>7. CASE Loop0Write
  <2>1. io_pc = "write0" /\ io_pc' = "read"
        /\ UNCHANGED <<io_idx, last, start_writing, nframes_read>>
    BY <1>7 DEF Loop0Write, IOGoes
  <2>2. Written' = Written + 1
    BY <1>0, <1>7, WrittenWrite DEF Loop0Write
  <2>3. io_idx = Slot(nframes_read)
    BY <1>0, <1>1, <2>1, SlotLap DEF RingInv
  <2> QED BY <1>0, <1>1, <2>1, <2>2, <2>3, QueueLenNat DEF RingInv, Loop1Pcs
<1>8. CASE Loop0Done
  <2>1. /\ io_pc = "read" /\ io_idx = Slot(nframes_read)
        /\ last' = io_idx
        /\ UNCHANGED <<start_writing, nframes_read, outfile>>
    BY <1>0, <1>8 DEF Loop0Done, IOGoes, RingInv
  <2>2. CASE ~start_writing
    <3>1. io_pc' = "tiny" /\ io_idx' = io_idx
      BY <1>8, <2>2 DEF Loop0Done, IOGoes
    <3>2. Written = 0 /\ nframes_read < QueueLen
      BY <1>0, <2>1, <2>2 DEF RingInv
    <3>3. io_idx = nframes_read
      BY <1>1, <2>1, <3>2, SlotSmall, QueueLenNat DEF Slots
    <3> QED BY <1>1, <2>1, <2>2, <3>1, <3>2, <3>3
            DEF RingInv, Written, Loop1Pcs
  <2>3. CASE start_writing
    <3>1. nframes_read + 1 = Written + QueueLen
      BY <1>0, <1>1, <2>1, <2>3, QueueLenNat DEF RingInv
    <3>2. Written < nframes_read /\ nframes_read < Written + QueueLen
      BY <1>1, <3>1, QueueLenNat
    <3>3. io_idx' = Slot(Written)
      BY <1>1, <1>8, <2>1, <2>3, <3>1, SlotNext, SlotLap DEF Loop0Done
    <3>4. io_idx' # io_idx
      BY <1>1, <2>1, <3>2, <3>3, SlotDistinct
    <3>5. io_pc' = "wait1"
      BY <1>8, <2>3, <3>4 DEF Loop0Done, IOGoes
    <3> QED BY <1>1, <2>1, <2>3, <3>2, <3>3, <3>5
            DEF RingInv, Written, Loop1Pcs
  <2> QED BY <2>2, <2>3
<1>9. CASE TinyPost
  <2>1. /\ io_pc = "tiny"
        /\ io_idx' = pqueue_next(io_idx, QueueLen)
        /\ io_pc' = IF io_idx' # 0 THEN "tiny" ELSE "wait1"
        /\ UNCHANGED <<last, start_writing, nframes_read, outfile>>
    BY <1>9 DEF TinyPost, IOGoes
  <2>2. /\ ~start_writing /\ Written = 0
        /\ nframes_read <= io_idx /\ last = nframes_read
    BY <1>0, <2>1 DEF RingInv
  <2>3. io_idx' = IF io_idx + 1 < QueueLen THEN io_idx + 1 ELSE 0
    BY <2>1 DEF pqueue_next
  <2>4. nframes_read < QueueLen
    BY <1>1, <2>2, QueueLenNat
  <2>5. Slot(nframes_read) = nframes_read /\ Slot(0) = 0
    BY <1>1, <2>4, SlotSmall, QueueLenNat DEF Slots
  <2> QED BY <1>1, <2>1, <2>2, <2>3, <2>4, <2>5, QueueLenNat
          DEF RingInv, Written, Loop1Pcs
<1>10. CASE Loop1Wait
  <2>1. /\ io_pc = "wait1" /\ io_pc' = "write1" /\ post_encoder[io_idx] > 0
        /\ UNCHANGED <<io_idx, last, start_writing, nframes_read, outfile>>
    BY <1>10 DEF Loop1Wait, WaitForSlot, IOGoes
  <2>2. PICK q \in Written..(nframes_read - 1) : io_idx = Slot(q)
    BY <1>0, <1>1, <2>1 DEF HandoverInv
  <2>3. Written < nframes_read
    BY <1>1, <2>2
  <2> QED BY <1>0, <2>1, <2>3 DEF RingInv, Written, Loop1Pcs
<1>11. CASE Loop1Write
  <2>1. io_pc = "write1" /\ io_pc' = "post1"
        /\ UNCHANGED <<io_idx, last, start_writing, nframes_read>>
    BY <1>11 DEF Loop1Write, IOGoes
  <2>2. Written' = Written + 1
    BY <1>0, <1>11, WrittenWrite DEF Loop1Write
  <2>3. Written' - 1 = Written
    BY <1>1, <2>2
  <2> QED BY <1>0, <1>1, <2>1, <2>2, <2>3, QueueLenNat DEF RingInv, Loop1Pcs
<1>12. CASE Loop1Post
  <2>1. /\ io_pc = "post1"
        /\ io_idx' = pqueue_next(io_idx, QueueLen)
        /\ io_pc' = IF io_idx' # last THEN "wait1" ELSE "done"
        /\ UNCHANGED <<last, start_writing, nframes_read, outfile>>
    BY <1>12 DEF Loop1Post, IOGoes
  <2>2. /\ Written > 0 /\ io_idx = Slot(Written - 1)
        /\ last = Slot(nframes_read) /\ Written <= nframes_read
        /\ nframes_read < Written + QueueLen
    BY <1>0, <1>1, <2>1, QueueLenNat DEF RingInv, Loop1Pcs
  <2>3. Written - 1 \in Nat /\ (Written - 1) + 1 = Written
    BY <1>1, <2>2
  <2>4. io_idx' = Slot(Written)
    BY <2>1, <2>2, <2>3, SlotNext
  <2>5. io_idx' # last <=> Written < nframes_read
    <3>1. CASE Written < nframes_read
      BY <1>1, <2>2, <2>4, <3>1, SlotDistinct
    <3>2. CASE ~(Written < nframes_read)
      BY <1>1, <2>2, <2>4, <3>2
    <3> QED BY <3>1, <3>2
  <2>6. Written = nframes_read \/ Written < nframes_read
    BY <1>1, <2>2
  <2> QED BY <1>0, <1>1, <2>1, <2>2, <2>4, <2>5, <2>6
          DEF RingInv, Written, Loop1Pcs
<1>13. CASE IO
  BY <1>4, <1>5, <1>6, <1>7, <1>8, <1>9, <1>10, <1>11, <1>12, <1>13 DEF IO
<1> QED BY <1>2, <1>3, <1>13, RingFrame

-----------------------------------------------------------------------------
(* SyncInv is inductive.  The argument is about numbers: between the       *)
(* number being written and the number next posted there is never more     *)
(* than one lap of the ring, so different numbers in use are different     *)
(* slots.                                                                  *)

\* Within one lap a slot has one number.
LEMMA OneLap ==
  ASSUME NEW w \in Nat, NEW a \in Nat, NEW b \in Nat,
         w <= a, a < w + QueueLen, w <= b, b < w + QueueLen, a # b
  PROVE  Slot(a) # Slot(b)
<1>1. CASE a < b
  BY <1>1, SlotDistinct, QueueLenNat
<1>2. CASE b < a
  BY <1>2, SlotDistinct, QueueLenNat
<1> QED BY <1>1, <1>2

LEMMA HoldersFinite ==
  IsFiniteSet(Holders) /\ Cardinality(Holders) \in Nat
<1>1. Holders \subseteq Coders
  BY DEF Holders
<1> QED BY <1>1, CodersAssumption, FS_Subset, FS_CardinalityType

\* The numbers in use, in order.
LEMMA Bounds ==
  ASSUME TypeOK, RingInv, QueueInv
  PROVE  /\ Written \in Nat /\ nframes_read \in Nat
         /\ Posted \in Nat /\ Popped \in Nat
         /\ Written <= nframes_read /\ nframes_read <= Posted
         /\ Written <= Popped /\ Popped <= Posted
         /\ Posted <= Written + QueueLen
<1>1. Written \in Nat /\ nframes_read \in Nat /\ navailable \in Nat
  BY WrittenType DEF TypeOK
<1>2. Popped >= Written
  BY DEF QueueInv
<1>3. /\ Posted \in Nat /\ Posted <= Written + QueueLen
      /\ nframes_read <= Posted /\ Written <= nframes_read
  BY PostedBounds
<1>4. Popped \in Nat /\ Popped <= Posted
  BY <1>1, <1>2, <1>3, HoldersFinite DEF Popped
<1> QED BY <1>1, <1>2, <1>3, <1>4

\* A coder that has a post and has not popped yet has a number to pop.
LEMMA HolderBound ==
  ASSUME TypeOK, RingInv, QueueInv, NEW c \in Holders
  PROVE  Popped < Posted
<1>1. Cardinality(Holders) # 0
  BY HoldersFinite, FS_EmptySet
<1>2. Posted \in Nat /\ navailable \in Nat
  BY Bounds DEF TypeOK
<1> QED BY <1>1, <1>2, HoldersFinite DEF Popped

\* Posted counts the posts of navailable by the io thread.
LEMMA PostedIO ==
  ASSUME SyncInv, IO
  PROVE  /\ Posted' \in Int
         /\ Posted' - Posted = navailable' - navailable
<1>0. TypeOK /\ RingInv
  BY DEF SyncInv
<1>1. /\ Written \in Nat /\ nframes_read \in Nat /\ navailable \in Nat
      /\ io_idx \in 0..(QueueLen - 1)
  BY <1>0, WrittenType DEF TypeOK, Slots
<1>2. Posted \in Nat
  BY <1>0, PostedBounds
<1>3. CASE Loop0Read \/ Loop0Wait
  <2>1. io_pc \in {"read", "wait0"} /\ io_pc' \in {"post0", "write0"}
        /\ nframes_read' = nframes_read /\ navailable' = navailable
    BY <1>3 DEF Loop0Read, Loop0Wait, WaitForSlot, IOGoes, sem_vars
  <2> QED BY <1>1, <2>1 DEF Posted, Loop1Pcs
<1>4. CASE Loop0Post
  <2>1. io_pc = "post0" /\ io_pc' \in {"read", "wait0"}
        /\ nframes_read' = nframes_read + 1 /\ navailable' = navailable + 1
    BY <1>4 DEF Loop0Post, IOGoes
  <2> QED BY <1>1, <2>1 DEF Posted, Loop1Pcs
<1>5. CASE Loop0Write
  <2>1. io_pc = "write0" /\ io_pc' = "read"
        /\ nframes_read' = nframes_read /\ navailable' = navailable
    BY <1>5 DEF Loop0Write, IOGoes, sem_vars
  <2> QED BY <1>1, <2>1 DEF Posted, Loop1Pcs
<1>6. CASE Loop0Done
  <2>1. /\ io_pc = "read" /\ io_idx = Slot(nframes_read)
        /\ navailable' = navailable
        /\ UNCHANGED <<start_writing, nframes_read, outfile>>
    BY <1>0, <1>6 DEF Loop0Done, IOGoes, RingInv, sem_vars
  <2>2. CASE ~start_writing
    <3>1. io_pc' = "tiny" /\ io_idx' = io_idx
      BY <1>6, <2>2 DEF Loop0Done, IOGoes
    <3>2. Written = 0 /\ nframes_read < QueueLen
      BY <1>0, <2>1, <2>2 DEF RingInv
    <3>3. io_idx = nframes_read
      BY <1>1, <2>1, <3>2, SlotSmall, QueueLenNat DEF Slots
    <3> QED BY <1>1, <2>1, <3>1, <3>3 DEF Posted, Loop1Pcs
  <2>3. CASE start_writing
    <3>1. nframes_read = Written + QueueLen - 1
      BY <1>0, <2>1, <2>3 DEF RingInv
    <3>2. io_pc' \in {"wait1", "done"}
      BY <1>6, <2>3 DEF Loop0Done, IOGoes
    <3> QED BY <1>1, <2>1, <2>3, <3>1, <3>2, QueueLenNat
            DEF Posted, Written, Loop1Pcs
  <2> QED BY <2>2, <2>3
<1>7. CASE TinyPost
  <2>1. /\ io_pc = "tiny" /\ navailable' = navailable + 1
        /\ io_idx' = IF io_idx + 1 < QueueLen THEN io_idx + 1 ELSE 0
        /\ io_pc' = IF io_idx' # 0 THEN "tiny" ELSE "wait1"
        /\ UNCHANGED <<start_writing, outfile>>
    BY <1>7 DEF TinyPost, IOGoes, pqueue_next
  <2>2. ~start_writing /\ Written = 0
    BY <1>0, <2>1 DEF RingInv
  <2>3. CASE io_idx + 1 < QueueLen
    <3>1. io_pc' = "tiny" /\ io_idx' = io_idx + 1
      BY <1>1, <2>1, <2>3
    <3> QED BY <1>1, <2>1, <3>1 DEF Posted, Loop1Pcs
  <2>4. CASE ~(io_idx + 1 < QueueLen)
    <3>1. io_pc' = "wait1" /\ io_idx + 1 = QueueLen
      BY <1>1, <2>1, <2>4, QueueLenNat
    <3>2. Written' = 0 /\ ~start_writing'
      BY <2>1, <2>2 DEF Written
    <3> QED BY <1>1, <2>1, <3>1, <3>2, QueueLenNat DEF Posted, Loop1Pcs
  <2> QED BY <2>3, <2>4
<1>8. CASE Loop1Wait
  <2>1. io_pc = "wait1" /\ io_pc' = "write1" /\ navailable' = navailable
        /\ UNCHANGED <<start_writing, outfile>>
    BY <1>8 DEF Loop1Wait, WaitForSlot, IOGoes
  <2> QED BY <1>1, <2>1, QueueLenNat DEF Posted, Written, Loop1Pcs
<1>9. CASE Loop1Write
  <2>1. io_pc = "write1" /\ io_pc' = "post1" /\ navailable' = navailable
        /\ start_writing' = start_writing
    BY <1>9 DEF Loop1Write, IOGoes, sem_vars
  <2>2. Written' = Written + 1
    BY <1>0, <1>9, WrittenWrite DEF Loop1Write
  <2> QED BY <1>1, <2>1, <2>2, QueueLenNat DEF Posted, Loop1Pcs
<1>10. CASE Loop1Post
  <2>1. io_pc = "post1" /\ io_pc' \in {"wait1", "done"}
        /\ navailable' = navailable + 1 /\ UNCHANGED <<start_writing, outfile>>
    BY <1>10 DEF Loop1Post, IOGoes
  <2> DEFINE n == Written + IF start_writing THEN QueueLen - 1 ELSE QueueLen
  <2>2. n \in Nat
    BY <1>1, QueueLenNat
  <2>3. Posted = n - 1
    BY <1>1, <2>1, QueueLenNat DEF Posted, Loop1Pcs
  <2>4. Posted' = n
    <3>1. Written' = Written /\ start_writing' = start_writing
          /\ io_pc' \in Loop1Pcs /\ io_pc' # "post1"
      BY <2>1 DEF Written, Loop1Pcs
    <3>2. CASE start_writing
      BY <1>1, <3>1, <3>2, QueueLenNat DEF Posted
    <3>3. CASE ~start_writing
      BY <1>1, <3>1, <3>3, QueueLenNat DEF Posted
    <3> QED BY <3>2, <3>3
  <2> HIDE DEF n
  <2> QED BY <1>1, <2>1, <2>2, <2>3, <2>4
<1> QED BY <1>3, <1>4, <1>5, <1>6, <1>7, <1>8, <1>9, <1>10 DEF IO

\* Nothing the io thread does pops the queue.
LEMMA PoppedIO ==
  ASSUME SyncInv, IO
  PROVE  /\ Popped' = Popped /\ UNCHANGED <<coder_pc, coder_idx, lock, next>>
         /\ Holders' = Holders
<1>1. UNCHANGED <<coder_pc, coder_idx, lock, next>>
  BY DEF IO, Loop0Read, Loop0Post, Loop0Wait, Loop0Write, Loop0Done, TinyPost,
     Loop1Wait, Loop1Write, Loop1Post, IOGoes, coder_vars, queue_vars
<1>2. Holders' = Holders
  BY <1>1 DEF Holders
<1>3. /\ Posted' \in Int /\ Posted' - Posted = navailable' - navailable
      /\ Posted \in Nat
  BY PostedIO, PostedBounds DEF SyncInv
<1>4. navailable \in Nat /\ navailable' \in Nat
  <2>1. TypeOK /\ [Next]_vars
    BY DEF SyncInv, Next
  <2> QED BY <2>1, TypeStep DEF TypeOK
<1>5. Popped' = Posted' - navailable' - Cardinality(Holders)
  BY <1>2 DEF Popped
<1> QED BY <1>1, <1>2, <1>3, <1>4, <1>5, HoldersFinite DEF Popped

-----------------------------------------------------------------------------
(* The steps that touch nothing the invariant is about, but that a thread  *)
(* is created, starts, ends, or has stopped for good.                      *)

Active == {"lock", "pop", "check", "encode", "post"}

Quiet ==
  /\ UNCHANGED <<io_idx, last, start_writing, nframes_read, outfile,
                 coder_idx, lock, next, ni32_perframe, pcmbuf, ttabuf,
                 navailable, post_encoder>>
  /\ io_pc' = io_pc \/ (io_pc = "unborn" /\ io_pc' = "read")
  /\ \A c \in Coders : coder_pc[c] \in Active \/ coder_pc'[c] \in Active =>
                         coder_pc'[c] = coder_pc[c]
  /\ \A c \in Coders : Stopped(c) => Stopped(c)'

CoderActs(c) == \/ CoderWait(c) \/ CoderLock(c) \/ CoderPop(c)
                \/ CoderCheck(c) \/ CoderEncode(c) \/ CoderPost(c)

\* A coder that goes from a quiet place to a quiet place does nothing else.
LEMMA QuietMove ==
  ASSUME TypeOK, NEW c \in Coders, NEW from, NEW to,
         coder_pc[c] = from, coder_pc' = [coder_pc EXCEPT ![c] = to],
         from \notin Active, to \notin Active,
         from \in {"cleanup", "join", "free"} =>
           to \in {"gone", "join", "free", "returned"},
         from \notin {"gone", "returned"},
         UNCHANGED <<io_idx, last, start_writing, nframes_read, outfile,
                     coder_idx, lock, next, ni32_perframe, pcmbuf, ttabuf,
                     navailable, post_encoder>>,
         io_pc' = io_pc \/ (io_pc = "unborn" /\ io_pc' = "read")
  PROVE  Quiet
  BY DEF TypeOK, Quiet, Active, Stopped

LEMMA Steps ==
  ASSUME TypeOK, [Next]_vars
  PROVE  Quiet \/ IO \/ \E c \in Coders : CoderActs(c)
<1> USE DEF file_vars, io_vars, queue_vars, slot_vars, sem_vars
<1>1. CASE UNCHANGED vars \/ ErrorExit
  BY <1>1 DEF ErrorExit, vars, coder_vars, Quiet, Stopped
<1>2. CASE MainCreateIO
  <2>1. CoderGoes(Main, "create", "create") /\ Main \in Coders
    BY <1>2, CodersAssumption DEF MainCreateIO
  <2> QED BY <1>2, <2>1, QuietMove DEF MainCreateIO, CoderGoes, Active
<1>3. CASE MainCode
  <2>1. CoderGoes(Main, "create", "setup") /\ Main \in Coders
    BY <1>3, CodersAssumption DEF MainCode
  <2> QED BY <1>3, <2>1, QuietMove DEF MainCode, CoderGoes, Active
<1>4. CASE MainJoin
  <2>1. CoderGoes(Main, "join", "free") /\ Main \in Coders
    BY <1>4, CodersAssumption DEF MainJoin
  <2> QED BY <1>4, <2>1, QuietMove DEF MainJoin, CoderGoes, Active
<1>5. CASE MainFree
  <2>1. CoderGoes(Main, "free", "returned") /\ Main \in Coders
    BY <1>5, CodersAssumption DEF MainFree
  <2> QED BY <1>5, <2>1, QuietMove DEF MainFree, CoderGoes, Active
<1>6. ASSUME NEW c \in Coders, MainCreateCoder(c) \/ Coder(c)
      PROVE  Quiet \/ CoderActs(c)
  <2>1. CASE MainCreateCoder(c)
    <3>1. CoderGoes(c, "unborn", "setup")
      BY <2>1 DEF MainCreateCoder
    <3> QED BY <2>1, <3>1, QuietMove DEF MainCreateCoder, CoderGoes, Active
  <2>2. CASE CoderSetup(c)
    <3>1. CoderGoes(c, "setup", "wait")
      BY <2>2 DEF CoderSetup
    <3> QED BY <2>2, <3>1, QuietMove DEF CoderSetup, CoderGoes, Active
  <2>3. CASE CoderCleanup(c)
    <3>1. PICK to \in {"join", "gone"} : CoderGoes(c, "cleanup", to)
      BY <2>3 DEF CoderCleanup
    <3> QED BY <2>3, <3>1, QuietMove DEF CoderCleanup, CoderGoes, Active
  <2> QED BY <1>6, <2>1, <2>2, <2>3 DEF Coder, CoderActs
<1> QED BY <1>1, <1>2, <1>3, <1>4, <1>5, <1>6 DEF Next, Terminated

\* A coder that has stopped stays stopped: the count never falls.
LEMMA StoppedGrows ==
  ASSUME \A c \in Coders : Stopped(c) => Stopped(c)'
  PROVE  /\ Cardinality({c \in Coders : Stopped(c)}) \in Nat
         /\ Cardinality({c \in Coders : Stopped(c)})' \in Nat
         /\ Cardinality({c \in Coders : Stopped(c)}) <=
              Cardinality({c \in Coders : Stopped(c)})'
<1> DEFINE S == {c \in Coders : Stopped(c)}
           T == {c \in Coders : Stopped(c)'}
<1>1. S \subseteq T /\ S \subseteq Coders /\ T \subseteq Coders
  OBVIOUS
<1>2. IsFiniteSet(S) /\ IsFiniteSet(T)
  BY <1>1, CodersAssumption, FS_Subset
<1> QED BY <1>1, <1>2, FS_Subset, FS_CardinalityType

LEMMA QuietStep ==
  ASSUME SyncInv, RingInv', Quiet
  PROVE  /\ QueueInv' /\ CoderInv' /\ HandoverInv'
         /\ PillInv' /\ StopInv' /\ ContentInv'
<1>1. \A c \in Coders :
        /\ Busy(c)' <=> Busy(c)
        /\ \A pc \in Active : (coder_pc'[c] = pc) <=> (coder_pc[c] = pc)
  BY DEF Quiet, Active, Busy
<1>2. Written' = Written /\ Posted' = Posted
  BY DEF Quiet, Written, Posted, Loop1Pcs
<1>3. Holders' = Holders
  BY <1>1 DEF Holders, Active
<1>4. Popped' = Popped
  BY <1>2, <1>3 DEF Popped, Quiet
<1>5. QueueInv'
  BY <1>1, <1>2, <1>4 DEF SyncInv, QueueInv, Quiet, Active, Slot
<1>6. CoderInv'
  BY <1>1, <1>2, <1>4 DEF SyncInv, CoderInv, Quiet, Active
<1>7. HandoverInv'
  BY <1>1, <1>2, <1>4 DEF SyncInv, HandoverInv, Quiet, Active, Coded, Writing
<1>8. PillInv'
  BY <1>2 DEF SyncInv, PillInv, Quiet, Loop1Pcs
<1>9. StopInv'
  <2>1. Popped \in Nat /\ nframes_read \in Nat
    BY Bounds DEF SyncInv
  <2> QED BY <1>4, <2>1, StoppedGrows DEF SyncInv, StopInv, Quiet
<1>10. ContentInv'
  BY <1>2 DEF SyncInv, ContentInv, Quiet
<1> QED BY <1>5, <1>6, <1>7, <1>8, <1>9, <1>10

-----------------------------------------------------------------------------
(* The steps of a coder                                                    *)

\* A coder changes nothing of the io thread.
LEMMA CoderFrame ==
  ASSUME NEW c \in Coders, CoderActs(c)
  PROVE  UNCHANGED <<io_pc, io_idx, last, start_writing, nframes_read, outfile,
                     ni32_perframe, pcmbuf, Written, Posted>>
<1>1. UNCHANGED <<io_pc, io_idx, last, start_writing, nframes_read, outfile,
                  ni32_perframe, pcmbuf>>
  BY DEF CoderActs, CoderWait, CoderLock, CoderPop, CoderCheck, CoderEncode,
         CoderPost, io_vars, file_vars, slot_vars
<1> QED BY <1>1 DEF Written, Posted, Loop1Pcs

\* A coder that moves is at its new place, and the others are where they were.
LEMMA CoderMove ==
  ASSUME TypeOK, NEW c \in Coders, NEW from, NEW to, CoderGoes(c, from, to)
  PROVE  /\ coder_pc[c] = from /\ coder_pc'[c] = to
         /\ \A d \in Coders : d # c => coder_pc'[d] = coder_pc[d]
  BY DEF TypeOK, CoderGoes

LEMMA CoderWaitStep ==
  ASSUME SyncInv, NEW c \in Coders, CoderWait(c)
  PROVE  /\ QueueInv' /\ CoderInv' /\ HandoverInv'
         /\ PillInv' /\ StopInv' /\ ContentInv'
<1>0. TypeOK /\ RingInv /\ QueueInv
  BY DEF SyncInv
<1>1. /\ coder_pc[c] = "wait" /\ coder_pc'[c] = "lock"
      /\ \A d \in Coders : d # c => coder_pc'[d] = coder_pc[d]
  BY <1>0, CoderMove DEF CoderWait
<1>2. UNCHANGED <<io_pc, io_idx, last, start_writing, nframes_read, outfile,
                  ni32_perframe, pcmbuf, Written, Posted>>
  BY CoderFrame DEF CoderActs
<1>3. /\ UNCHANGED <<coder_idx, lock, next, ttabuf, post_encoder>>
      /\ navailable' = navailable - 1
  BY DEF CoderWait, queue_vars, slot_vars
<1>4. \A d \in Coders :
        /\ Busy(d)' <=> Busy(d)
        /\ Stopped(d)' <=> Stopped(d)
        /\ \A pc \in {"pop", "encode", "post"} :
             (coder_pc'[d] = pc) <=> (coder_pc[d] = pc)
  BY <1>1, <1>2, <1>3 DEF Busy, Stopped
<1>5. Popped' = Popped
  <2>1. Holders' = Holders \cup {c} /\ c \notin Holders
    BY <1>1 DEF Holders
  <2>2. Cardinality(Holders') = Cardinality(Holders) + 1
    BY <2>1, HoldersFinite, FS_AddElement
  <2>3. Posted \in Nat /\ navailable \in Nat
    BY <1>0, Bounds DEF TypeOK
  <2> QED BY <1>2, <1>3, <2>2, <2>3, HoldersFinite DEF Popped
<1>6. QueueInv'
  BY <1>0, <1>2, <1>3, <1>4, <1>5 DEF QueueInv, Slot
<1>7. CoderInv'
  BY <1>2, <1>3, <1>4, <1>5 DEF SyncInv, CoderInv
<1>8. HandoverInv'
  BY <1>2, <1>3, <1>4, <1>5 DEF SyncInv, HandoverInv, Coded, Writing
<1>9. PillInv'
  BY <1>2 DEF SyncInv, PillInv, Loop1Pcs
<1>10. StopInv'
  <2>1. Popped \in Nat /\ nframes_read \in Nat
    BY <1>0, Bounds
  <2> QED BY <1>2, <1>4, <1>5, <2>1, StoppedGrows DEF SyncInv, StopInv
<1>11. ContentInv'
  BY <1>2 DEF SyncInv, ContentInv
<1> QED BY <1>6, <1>7, <1>8, <1>9, <1>10, <1>11

LEMMA CoderLockStep ==
  ASSUME SyncInv, NEW c \in Coders, CoderLock(c)
  PROVE  /\ QueueInv' /\ CoderInv' /\ HandoverInv'
         /\ PillInv' /\ StopInv' /\ ContentInv'
<1>0. TypeOK /\ RingInv /\ QueueInv
  BY DEF SyncInv
<1>1. /\ coder_pc[c] = "lock" /\ coder_pc'[c] = "pop"
      /\ \A d \in Coders : d # c => coder_pc'[d] = coder_pc[d]
  BY <1>0, CoderMove DEF CoderLock
<1>2. UNCHANGED <<io_pc, io_idx, last, start_writing, nframes_read, outfile,
                  ni32_perframe, pcmbuf, Written, Posted>>
  BY CoderFrame DEF CoderActs
<1>3. /\ UNCHANGED <<coder_idx, next, ttabuf, post_encoder, navailable>>
      /\ lock = FALSE /\ lock' = TRUE
  BY <1>0 DEF CoderLock, slot_vars, sem_vars, TypeOK
<1>4. \A d \in Coders :
        /\ Busy(d)' <=> Busy(d)
        /\ Stopped(d)' <=> Stopped(d)
        /\ \A pc \in {"encode", "post"} :
             (coder_pc'[d] = pc) <=> (coder_pc[d] = pc)
  BY <1>1, <1>2, <1>3 DEF Busy, Stopped
<1>5. Popped' = Popped
  <2>1. Holders' = Holders
    BY <1>1 DEF Holders
  <2> QED BY <1>2, <1>3, <2>1 DEF Popped
<1>6. QueueInv'
  <2>1. \A d \in Coders : coder_pc'[d] = "pop" => d = c
    BY <1>0, <1>1, <1>3 DEF QueueInv
  <2> QED BY <1>0, <1>2, <1>3, <1>5, <2>1 DEF QueueInv, Slot
<1>7. CoderInv'
  BY <1>2, <1>3, <1>4, <1>5 DEF SyncInv, CoderInv
<1>8. HandoverInv'
  BY <1>2, <1>3, <1>4, <1>5 DEF SyncInv, HandoverInv, Coded, Writing
<1>9. PillInv'
  BY <1>2 DEF SyncInv, PillInv, Loop1Pcs
<1>10. StopInv'
  <2>1. Popped \in Nat /\ nframes_read \in Nat
    BY <1>0, Bounds
  <2> QED BY <1>2, <1>4, <1>5, <2>1, StoppedGrows DEF SyncInv, StopInv
<1>11. ContentInv'
  BY <1>2 DEF SyncInv, ContentInv
<1> QED BY <1>6, <1>7, <1>8, <1>9, <1>10, <1>11

\* A number posted beyond the frames is one of a slot that says stop.
LEMMA Pill ==
  ASSUME TypeOK, RingInv, QueueInv, PillInv,
         NEW n \in Nat, nframes_read <= n, n < Posted
  PROVE  ni32_perframe[Slot(n)] = 0
<1>1. /\ nframes_read \in Nat /\ Written \in Nat /\ Posted \in Nat
      /\ Posted <= Written + QueueLen
  BY Bounds
<1>2. Posted # nframes_read
  BY <1>1
<1>3. io_pc = "tiny" \/ io_pc \in Loop1Pcs
  BY <1>2 DEF Posted
<1>4. (~start_writing \/ io_pc \in Loop1Pcs) /\ io_pc # "post0"
  BY <1>3 DEF RingInv, Loop1Pcs
<1>5. n \in nframes_read..(Written + QueueLen - 1)
  BY <1>1, QueueLenNat
<1> QED BY <1>4, <1>5 DEF PillInv

LEMMA CoderPopStep ==
  ASSUME SyncInv, NEW c \in Coders, CoderPop(c)
  PROVE  /\ QueueInv' /\ CoderInv' /\ HandoverInv'
         /\ PillInv' /\ StopInv' /\ ContentInv'
<1>0. /\ TypeOK /\ RingInv /\ QueueInv /\ CoderInv /\ HandoverInv /\ PillInv
      /\ StopInv
  BY DEF SyncInv
<1>1. /\ coder_pc[c] = "pop" /\ coder_pc'[c] = "check"
      /\ \A d \in Coders : d # c => coder_pc'[d] = coder_pc[d]
  BY <1>0, CoderMove DEF CoderPop
<1>2. UNCHANGED <<io_pc, io_idx, last, start_writing, nframes_read, outfile,
                  ni32_perframe, pcmbuf, Written, Posted>>
  BY CoderFrame DEF CoderActs
<1>3. UNCHANGED <<ttabuf, post_encoder, navailable>>
  BY DEF CoderPop, slot_vars, sem_vars
<1>4. /\ Popped \in Nat /\ Written \in Nat /\ nframes_read \in Nat
      /\ Posted \in Nat /\ Written <= Popped
      /\ Posted <= Written + QueueLen
  BY <1>0, Bounds
<1>5. c \in Holders
  BY <1>1 DEF Holders
<1>6. Popped < Posted
  BY <1>0, <1>5, HolderBound
<1>7. Popped' = Popped + 1
  <2>1. Holders' = Holders \ {c}
    BY <1>1 DEF Holders
  <2>2. Cardinality(Holders') = Cardinality(Holders) - 1
    BY <1>5, <2>1, HoldersFinite, FS_RemoveElement
  <2>3. navailable \in Nat
    BY <1>0 DEF TypeOK
  <2> QED BY <1>2, <1>3, <1>4, <2>2, <2>3, HoldersFinite DEF Popped
<1>8. /\ coder_idx'[c] = Slot(Popped)
      /\ \A d \in Coders : d # c => coder_idx'[d] = coder_idx[d]
  BY <1>0 DEF CoderPop, TypeOK, QueueInv
<1>9. \A q \in Written..(Popped - 1) : Slot(q) # Slot(Popped)
  <2> SUFFICES ASSUME NEW q \in Written..(Popped - 1)
               PROVE  Slot(q) # Slot(Popped)
    OBVIOUS
  <2>1. q \in Nat /\ q < Popped /\ Popped < q + QueueLen
    BY <1>4, <1>6, QueueLenNat
  <2> QED BY <1>4, <2>1, SlotDistinct
<1>10. QueueInv'
  <2>1. next' = Slot(Popped')
    BY <1>0, <1>4, <1>7, SlotNext DEF CoderPop, QueueInv
  <2>2. \A d \in Coders : coder_pc'[d] # "pop"
    BY <1>0, <1>1 DEF QueueInv
  <2>3. Popped' >= Written'
    BY <1>2, <1>4, <1>7
  <2> QED BY <2>1, <2>2, <2>3 DEF QueueInv, Slot
<1>11. Popped \in Written'..(Popped' - 1)
       /\ \A q \in Written..(Popped - 1) : q \in Written'..(Popped' - 1)
  BY <1>2, <1>4, <1>7
<1>12. CoderInv'
  <2>1. ASSUME NEW d \in Coders, Busy(d)'
        PROVE  \E q \in Written'..(Popped' - 1) : coder_idx'[d] = Slot(q)
    <3>1. CASE d = c
      BY <1>8, <1>11, <3>1
    <3>2. CASE d # c
      BY <1>0, <1>1, <1>8, <1>11, <2>1, <3>2 DEF CoderInv, Busy
    <3> QED BY <3>1, <3>2
  <2>2. ASSUME NEW d \in Coders, Busy(d), d # c
        PROVE  coder_idx[d] # coder_idx'[c]
    BY <1>0, <1>8, <1>9, <2>2 DEF CoderInv
  <2>3. ASSUME NEW d \in Coders, NEW e \in Coders, Busy(d)', Busy(e)',
               coder_idx'[d] = coder_idx'[e]
        PROVE  d = e
    BY <1>0, <1>1, <1>8, <2>2, <2>3 DEF CoderInv, Busy
  <2>4. ASSUME NEW d \in Coders, coder_pc'[d] \in {"encode", "post"}
        PROVE  /\ ni32_perframe'[coder_idx'[d]] # 0
               /\ \E q \in Written'..(nframes_read' - 1) :
                    coder_idx'[d] = Slot(q)
    BY <1>0, <1>1, <1>2, <1>8, <2>4 DEF CoderInv
  <2> QED BY <2>1, <2>3, <2>4 DEF CoderInv, Slot
<1>13. HandoverInv'
  <2>1. ASSUME NEW d \in Coders, coder_pc'[d] = "post"
        PROVE  Coded(coder_idx[d])'
    BY <1>0, <1>1, <1>2, <1>3, <1>8, <2>1 DEF HandoverInv, Coded
  <2>2. ASSUME NEW d \in Coders, Busy(d)'
        PROVE  post_encoder'[coder_idx'[d]] = 0
    <3>1. CASE d # c
      BY <1>0, <1>1, <1>3, <1>8, <2>2, <3>1 DEF HandoverInv, Busy
    <3>2. CASE d = c
      <4>1. Slot(Popped) \in Slots
        BY <1>4, SlotType
      <4>2. ~(post_encoder[Slot(Popped)] > 0)
        <5> SUFFICES ASSUME post_encoder[Slot(Popped)] > 0 PROVE FALSE
          OBVIOUS
        <5>1. PICK q \in Written..(nframes_read - 1) :
                Slot(Popped) = Slot(q) /\ q < Popped
          BY <1>0, <4>1 DEF HandoverInv
        <5>2. q \in Written..(Popped - 1)
          BY <1>4, <5>1
        <5> QED BY <1>9, <5>1, <5>2
      <4>3. post_encoder[Slot(Popped)] \in Nat
        BY <1>0, <4>1 DEF TypeOK
      <4> QED BY <1>3, <1>8, <3>2, <4>2, <4>3
    <3> QED BY <3>1, <3>2
  <2>3. ASSUME NEW s \in Slots, post_encoder'[s] > 0
        PROVE  /\ post_encoder'[s] = 1
               /\ Coded(s)' /\ ni32_perframe'[s] # 0
               /\ \E q \in Written'..(nframes_read' - 1) :
                    s = Slot(q) /\ q < Popped'
    <3>1. /\ post_encoder[s] = 1 /\ Coded(s) /\ ni32_perframe[s] # 0
          /\ \E q \in Written..(nframes_read - 1) : s = Slot(q) /\ q < Popped
      BY <1>0, <1>3, <2>3 DEF HandoverInv
    <3>2. \A q \in Written..(nframes_read - 1) : q < Popped => q < Popped'
      BY <1>4, <1>7
    <3> QED BY <1>2, <1>3, <3>1, <3>2 DEF Coded
  <2>4. ASSUME io_pc' \in Writing
        PROVE  /\ post_encoder'[io_idx'] = 0
               /\ Coded(io_idx)' /\ ni32_perframe'[io_idx'] # 0
               /\ Written' < Popped'
               /\ \A d \in Coders : Busy(d)' => coder_idx'[d] # io_idx'
    <3>1. /\ post_encoder[io_idx] = 0
          /\ Coded(io_idx) /\ ni32_perframe[io_idx] # 0
          /\ Written < Popped
          /\ \A d \in Coders : Busy(d) => coder_idx[d] # io_idx
      BY <1>0, <1>2, <2>4 DEF HandoverInv
    <3>2. io_idx = Slot(Written)
      BY <1>0, <1>2, <2>4 DEF RingInv, Writing
    <3>3. Slot(Popped) # io_idx
      BY <1>4, <1>9, <3>1, <3>2
    <3>4. Written' < Popped'
      BY <1>2, <1>4, <1>7, <3>1
    <3> QED BY <1>1, <1>2, <1>3, <1>8, <3>1, <3>3, <3>4 DEF Coded, Busy
  <2> QED BY <2>1, <2>2, <2>3, <2>4 DEF HandoverInv, Slot, Coded
<1>14. PillInv'
  BY <1>0, <1>2 DEF PillInv, Loop1Pcs
<1>15. StopInv'
  <2> DEFINE S == {d \in Coders : Stopped(d)}
             T == {d \in Coders : Stopped(d)'}
  <2>1. \A d \in Coders : d # c => (Stopped(d)' <=> Stopped(d))
    BY <1>1, <1>2, <1>8 DEF Stopped
  <2>2. ~Stopped(c)
    BY <1>1 DEF Stopped
  <2>3. /\ Cardinality(S) \in Nat /\ Cardinality(T) \in Nat
        /\ Cardinality(S) <= Cardinality(T)
    BY <2>1, <2>2, StoppedGrows
  <2>4. CASE Popped < nframes_read
    <3>1. Popped' <= nframes_read' + Cardinality(T)
      BY <1>2, <1>4, <1>7, <2>3, <2>4
    <3> QED BY <3>1 DEF StopInv
  <2>5. CASE ~(Popped < nframes_read)
    <3>1. ni32_perframe[Slot(Popped)] = 0
      BY <1>0, <1>4, <1>6, <2>5, Pill
    <3>2. Stopped(c)'
      BY <1>1, <1>2, <1>8, <3>1 DEF Stopped
    <3>3. T = S \cup {c} /\ c \notin S
      BY <2>1, <2>2, <3>2
    <3>4. IsFiniteSet(S)
      BY CodersAssumption, FS_Subset
    <3>5. Cardinality(T) = Cardinality(S) + 1
      BY <3>3, <3>4, FS_AddElement
    <3>6. Popped <= nframes_read + Cardinality(S)
      BY <1>0 DEF StopInv
    <3> HIDE DEF S, T
    <3>7. Popped' <= nframes_read' + Cardinality(T)
      BY <1>2, <1>4, <1>7, <2>3, <3>5, <3>6
    <3> QED BY <3>7 DEF StopInv, T
  <2> QED BY <2>4, <2>5
<1>16. ContentInv'
  BY <1>2 DEF SyncInv, ContentInv
<1> QED BY <1>10, <1>12, <1>13, <1>14, <1>15, <1>16

LEMMA CoderCheckStep ==
  ASSUME SyncInv, NEW c \in Coders, CoderCheck(c)
  PROVE  /\ QueueInv' /\ CoderInv' /\ HandoverInv'
         /\ PillInv' /\ StopInv' /\ ContentInv'
<1>0. /\ TypeOK /\ RingInv /\ QueueInv /\ CoderInv /\ HandoverInv /\ PillInv
      /\ StopInv
  BY DEF SyncInv
<1>1. /\ coder_pc[c] = "check"
      /\ coder_pc'[c] = IF ni32_perframe[coder_idx[c]] # 0 THEN "encode"
                        ELSE "cleanup"
      /\ \A d \in Coders : d # c => coder_pc'[d] = coder_pc[d]
  BY <1>0, CoderMove DEF CoderCheck
<1>2. UNCHANGED <<io_pc, io_idx, last, start_writing, nframes_read, outfile,
                  ni32_perframe, pcmbuf, Written, Posted>>
  BY CoderFrame DEF CoderActs
<1>3. UNCHANGED <<coder_idx, next, lock, ttabuf, post_encoder, navailable>>
  BY DEF CoderCheck, queue_vars, slot_vars, sem_vars
<1>4. \A d \in Coders :
        /\ Busy(d)' => Busy(d)
        /\ Stopped(d)' <=> Stopped(d)
        /\ \A pc \in {"pop", "post"} :
             (coder_pc'[d] = pc) <=> (coder_pc[d] = pc)
        /\ coder_pc'[d] = "encode" =>
             (d = c /\ ni32_perframe[coder_idx[c]] # 0) \/ coder_pc[d] = "encode"
  BY <1>1, <1>2, <1>3 DEF Busy, Stopped
<1>5. Popped' = Popped
  <2>1. Holders' = Holders
    BY <1>1 DEF Holders
  <2> QED BY <1>2, <1>3, <2>1 DEF Popped
<1>6. QueueInv'
  BY <1>0, <1>2, <1>3, <1>4, <1>5 DEF QueueInv, Slot
<1>7. CoderInv'
  <2>1. ASSUME ni32_perframe[coder_idx[c]] # 0
        PROVE  \E q \in Written..(nframes_read - 1) : coder_idx[c] = Slot(q)
    <3>1. PICK q \in Written..(Popped - 1) : coder_idx[c] = Slot(q)
      BY <1>0, <1>1 DEF CoderInv, Busy
    <3>2. /\ Popped \in Nat /\ Written \in Nat /\ nframes_read \in Nat
          /\ Posted \in Nat /\ Popped <= Posted
      BY <1>0, Bounds
    <3>3. q \in Nat /\ q < Posted
      BY <3>2
    <3>4. q < nframes_read
      BY <1>0, <2>1, <3>1, <3>2, <3>3, Pill
    <3> QED BY <3>1, <3>2, <3>4
  <2> QED BY <1>0, <1>2, <1>3, <1>4, <1>5, <2>1 DEF CoderInv, Slot
<1>8. HandoverInv'
  BY <1>0, <1>2, <1>3, <1>4, <1>5 DEF HandoverInv, Coded, Writing
<1>9. PillInv'
  BY <1>0, <1>2 DEF PillInv, Loop1Pcs
<1>10. StopInv'
  <2>1. Popped \in Nat /\ nframes_read \in Nat
    BY <1>0, Bounds
  <2> QED BY <1>0, <1>2, <1>4, <1>5, <2>1, StoppedGrows DEF StopInv
<1>11. ContentInv'
  BY <1>2 DEF SyncInv, ContentInv
<1> QED BY <1>6, <1>7, <1>8, <1>9, <1>10, <1>11

LEMMA CoderEncodeStep ==
  ASSUME SyncInv, NEW c \in Coders, CoderEncode(c)
  PROVE  /\ QueueInv' /\ CoderInv' /\ HandoverInv'
         /\ PillInv' /\ StopInv' /\ ContentInv'
<1>0. /\ TypeOK /\ RingInv /\ QueueInv /\ CoderInv /\ HandoverInv /\ PillInv
      /\ StopInv
  BY DEF SyncInv
<1>1. /\ coder_pc[c] = "encode" /\ coder_pc'[c] = "post"
      /\ \A d \in Coders : d # c => coder_pc'[d] = coder_pc[d]
  BY <1>0, CoderMove DEF CoderEncode
<1>2. UNCHANGED <<io_pc, io_idx, last, start_writing, nframes_read, outfile,
                  ni32_perframe, pcmbuf, Written, Posted>>
  BY CoderFrame DEF CoderActs
<1>3. UNCHANGED <<coder_idx, next, lock, post_encoder, navailable>>
  BY DEF CoderEncode, queue_vars, sem_vars
<1>4. \A d \in Coders :
        /\ Busy(d)' <=> Busy(d)
        /\ Stopped(d)' <=> Stopped(d)
        /\ (coder_pc'[d] = "pop") <=> (coder_pc[d] = "pop")
        /\ coder_pc'[d] \in {"encode", "post"}
             <=> coder_pc[d] \in {"encode", "post"}
  BY <1>1, <1>2, <1>3 DEF Busy, Stopped
<1>5. Popped' = Popped
  <2>1. Holders' = Holders
    BY <1>1 DEF Holders
  <2> QED BY <1>2, <1>3, <2>1 DEF Popped
<1>6. QueueInv'
  BY <1>0, <1>2, <1>3, <1>4, <1>5 DEF QueueInv, Slot
<1>7. CoderInv'
  BY <1>0, <1>2, <1>3, <1>4, <1>5 DEF CoderInv, Slot
<1>8. HandoverInv'
  <2>1. Busy(c) /\ coder_idx[c] \in Slots
    BY <1>0, <1>1 DEF Busy, TypeOK
  <2>2. /\ Coded(coder_idx[c])'
        /\ \A s \in Slots : s # coder_idx[c] => (Coded(s)' <=> Coded(s))
    BY <1>0, <1>2, <1>3, <2>1 DEF CoderEncode, Coded, TypeOK
  <2>3. ASSUME NEW d \in Coders, coder_pc'[d] = "post"
        PROVE  Coded(coder_idx[d])'
    <3>1. CASE d = c
      BY <2>2, <3>1, <1>3 DEF Coded
    <3>2. CASE d # c
      <4>1. coder_pc[d] = "post" /\ Busy(d) /\ coder_idx[d] \in Slots
        BY <1>0, <1>1, <2>3, <3>2 DEF Busy, TypeOK
      <4>2. coder_idx[d] # coder_idx[c]
        BY <1>0, <2>1, <3>2, <4>1 DEF CoderInv
      <4>3. Coded(coder_idx[d])
        BY <1>0, <4>1 DEF HandoverInv
      <4> QED BY <1>3, <2>2, <4>1, <4>2, <4>3 DEF Coded
    <3> QED BY <3>1, <3>2
  <2>4. post_encoder[coder_idx[c]] = 0
    BY <1>0, <2>1 DEF HandoverInv
  <2>5. ASSUME NEW s \in Slots, post_encoder'[s] > 0
        PROVE  /\ post_encoder'[s] = 1
               /\ Coded(s)' /\ ni32_perframe'[s] # 0
               /\ \E q \in Written'..(nframes_read' - 1) :
                    s = Slot(q) /\ q < Popped'
    <3>1. s # coder_idx[c]
      BY <1>3, <2>4, <2>5
    <3> QED BY <1>0, <1>2, <1>3, <1>5, <2>2, <2>5, <3>1 DEF HandoverInv
  <2>6. ASSUME io_pc' \in Writing
        PROVE  /\ post_encoder'[io_idx'] = 0
               /\ Coded(io_idx)' /\ ni32_perframe'[io_idx'] # 0
               /\ Written' < Popped'
               /\ \A d \in Coders : Busy(d)' => coder_idx'[d] # io_idx'
    <3>1. /\ post_encoder[io_idx] = 0
          /\ Coded(io_idx) /\ ni32_perframe[io_idx] # 0
          /\ Written < Popped
          /\ \A d \in Coders : Busy(d) => coder_idx[d] # io_idx
      BY <1>0, <1>2, <2>6 DEF HandoverInv
    <3>2. io_idx # coder_idx[c] /\ io_idx \in Slots
      BY <1>0, <2>1, <3>1 DEF TypeOK
    <3>3. Coded(io_idx)'
      BY <1>2, <2>2, <3>1, <3>2 DEF Coded
    <3> QED BY <1>2, <1>3, <1>4, <1>5, <3>1, <3>3
  <2>7. \A d \in Coders : Busy(d)' => post_encoder'[coder_idx'[d]] = 0
    BY <1>0, <1>3, <1>4 DEF HandoverInv
  <2> QED BY <2>3, <2>5, <2>6, <2>7 DEF HandoverInv, Slot, Coded
<1>9. PillInv'
  BY <1>0, <1>2 DEF PillInv, Loop1Pcs
<1>10. StopInv'
  <2>1. Popped \in Nat /\ nframes_read \in Nat
    BY <1>0, Bounds
  <2> QED BY <1>0, <1>2, <1>4, <1>5, <2>1, StoppedGrows DEF StopInv
<1>11. ContentInv'
  BY <1>2 DEF SyncInv, ContentInv
<1> QED BY <1>6, <1>7, <1>8, <1>9, <1>10, <1>11

LEMMA CoderPostStep ==
  ASSUME SyncInv, NEW c \in Coders, CoderPost(c)
  PROVE  /\ QueueInv' /\ CoderInv' /\ HandoverInv'
         /\ PillInv' /\ StopInv' /\ ContentInv'
<1>0. /\ TypeOK /\ RingInv /\ QueueInv /\ CoderInv /\ HandoverInv /\ PillInv
      /\ StopInv
  BY DEF SyncInv
<1>1. /\ coder_pc[c] = "post" /\ coder_pc'[c] = "wait"
      /\ \A d \in Coders : d # c => coder_pc'[d] = coder_pc[d]
  BY <1>0, CoderMove DEF CoderPost
<1>2. UNCHANGED <<io_pc, io_idx, last, start_writing, nframes_read, outfile,
                  ni32_perframe, pcmbuf, Written, Posted>>
  BY CoderFrame DEF CoderActs
<1>3. UNCHANGED <<coder_idx, next, lock, ttabuf, navailable>>
  BY DEF CoderPost, queue_vars, slot_vars
<1>4. \A d \in Coders :
        /\ Busy(d)' <=> (Busy(d) /\ d # c)
        /\ Stopped(d)' <=> Stopped(d)
        /\ \A pc \in {"pop", "encode"} :
             (coder_pc'[d] = pc) <=> (coder_pc[d] = pc)
        /\ coder_pc'[d] = "post" => coder_pc[d] = "post"
  BY <1>1, <1>2, <1>3 DEF Busy, Stopped
<1>5. Popped' = Popped
  <2>1. Holders' = Holders
    BY <1>1 DEF Holders
  <2> QED BY <1>2, <1>3, <2>1 DEF Popped
<1>6. QueueInv'
  BY <1>0, <1>2, <1>3, <1>4, <1>5 DEF QueueInv, Slot
<1>7. CoderInv'
  BY <1>0, <1>2, <1>3, <1>4, <1>5 DEF CoderInv, Slot
<1>8. HandoverInv'
  <2>1. Busy(c) /\ coder_idx[c] \in Slots
    BY <1>0, <1>1 DEF Busy, TypeOK
  <2>2. post_encoder[coder_idx[c]] = 0
    BY <1>0, <2>1 DEF HandoverInv
  <2>3. /\ post_encoder'[coder_idx[c]] = 1
        /\ \A s \in Slots : s # coder_idx[c] =>
                              post_encoder'[s] = post_encoder[s]
    BY <1>0, <2>1, <2>2 DEF CoderPost, TypeOK
  <2>4. \A d \in Coders : Busy(d) /\ d # c => coder_idx[d] # coder_idx[c]
    BY <1>0, <2>1 DEF CoderInv
  <2>5. ASSUME NEW d \in Coders, Busy(d)'
        PROVE  post_encoder'[coder_idx'[d]] = 0
    <3>1. Busy(d) /\ coder_idx[d] # coder_idx[c] /\ coder_idx[d] \in Slots
      BY <1>0, <1>4, <2>4, <2>5 DEF TypeOK
    <3> QED BY <1>0, <1>3, <2>3, <3>1 DEF HandoverInv
  <2>6. ASSUME NEW s \in Slots, post_encoder'[s] > 0
        PROVE  /\ post_encoder'[s] = 1
               /\ Coded(s)' /\ ni32_perframe'[s] # 0
               /\ \E q \in Written'..(nframes_read' - 1) :
                    s = Slot(q) /\ q < Popped'
    <3>1. CASE s # coder_idx[c]
      BY <1>0, <1>2, <1>3, <1>5, <2>3, <2>6, <3>1 DEF HandoverInv, Coded
    <3>2. CASE s = coder_idx[c]
      <4>1. /\ Popped \in Nat /\ Written \in Nat /\ nframes_read \in Nat
            /\ Posted \in Nat /\ Popped <= Posted /\ nframes_read <= Posted
            /\ Posted <= Written + QueueLen
        BY <1>0, Bounds
      <4>2. ni32_perframe[s] # 0 /\ Coded(s)
        BY <1>0, <1>1, <3>2 DEF CoderInv, HandoverInv
      <4>3. PICK q \in Written..(nframes_read - 1) : s = Slot(q)
        BY <1>0, <1>1, <3>2 DEF CoderInv
      <4>4. PICK p \in Written..(Popped - 1) : s = Slot(p)
        BY <1>0, <2>1, <3>2 DEF CoderInv
      <4>5. /\ q \in Nat /\ Written <= q /\ q < Written + QueueLen
            /\ p \in Nat /\ Written <= p /\ p < Written + QueueLen
        BY <4>1, QueueLenNat
      <4>6. q = p
        BY <4>1, <4>3, <4>4, <4>5, OneLap
      <4>7. q < Popped
        BY <4>1, <4>6
      <4> QED BY <1>2, <1>3, <1>5, <2>3, <3>2, <4>2, <4>3, <4>7 DEF Coded
    <3> QED BY <3>1, <3>2
  <2>7. ASSUME io_pc' \in Writing
        PROVE  /\ post_encoder'[io_idx'] = 0
               /\ Coded(io_idx)' /\ ni32_perframe'[io_idx'] # 0
               /\ Written' < Popped'
               /\ \A d \in Coders : Busy(d)' => coder_idx'[d] # io_idx'
    <3>1. /\ post_encoder[io_idx] = 0
          /\ Coded(io_idx) /\ ni32_perframe[io_idx] # 0
          /\ Written < Popped
          /\ \A d \in Coders : Busy(d) => coder_idx[d] # io_idx
      BY <1>0, <1>2, <2>7 DEF HandoverInv
    <3>2. io_idx # coder_idx[c] /\ io_idx \in Slots
      BY <1>0, <2>1, <3>1 DEF TypeOK
    <3> QED BY <1>2, <1>3, <1>4, <1>5, <2>3, <3>1, <3>2 DEF Coded
  <2>8. \A d \in Coders : coder_pc'[d] = "post" => Coded(coder_idx[d])'
    BY <1>0, <1>2, <1>3, <1>4 DEF HandoverInv, Coded
  <2> QED BY <2>5, <2>6, <2>7, <2>8 DEF HandoverInv, Slot, Coded
<1>9. PillInv'
  BY <1>0, <1>2 DEF PillInv, Loop1Pcs
<1>10. StopInv'
  <2>1. Popped \in Nat /\ nframes_read \in Nat
    BY <1>0, Bounds
  <2> QED BY <1>0, <1>2, <1>4, <1>5, <2>1, StoppedGrows DEF StopInv
<1>11. ContentInv'
  BY <1>2 DEF SyncInv, ContentInv
<1> QED BY <1>6, <1>7, <1>8, <1>9, <1>10, <1>11

-----------------------------------------------------------------------------
(* The steps of the io thread                                              *)

\* Where the io thread reads no frame is waiting and no coder is.
LEMMA AtRead ==
  ASSUME SyncInv, io_pc = "read"
  PROVE  /\ io_idx \in Slots /\ io_idx = Slot(nframes_read)
         /\ Popped <= nframes_read
         /\ \A q \in Written..(nframes_read - 1) : Slot(q) # io_idx
         /\ \A c \in Coders : Busy(c) => coder_idx[c] # io_idx
         /\ ~(post_encoder[io_idx] > 0)
<1>0. TypeOK /\ RingInv /\ QueueInv /\ CoderInv /\ HandoverInv
  BY DEF SyncInv
<1>1. io_idx \in Slots /\ io_idx = Slot(nframes_read)
  BY <1>0 DEF TypeOK, RingInv
<1>2. Posted = nframes_read
  BY DEF Posted, Loop1Pcs
<1>3. /\ Popped \in Nat /\ Written \in Nat /\ nframes_read \in Nat
      /\ Popped <= nframes_read
  BY <1>0, <1>2, Bounds
<1>4. nframes_read < Written + QueueLen
  BY <1>0, <1>3, QueueLenNat DEF RingInv
<1>5. ASSUME NEW q \in Written..(nframes_read - 1)
      PROVE  Slot(q) # io_idx
  <2>1. q \in Nat /\ q < nframes_read /\ nframes_read < q + QueueLen
    BY <1>3, <1>4, QueueLenNat
  <2> QED BY <1>1, <1>3, <2>1, SlotDistinct
<1>6. ASSUME NEW c \in Coders, Busy(c)
      PROVE  coder_idx[c] # io_idx
  <2>1. PICK q \in Written..(Popped - 1) : coder_idx[c] = Slot(q)
    BY <1>0, <1>6 DEF CoderInv
  <2>2. q \in Written..(nframes_read - 1)
    BY <1>3, <2>1
  <2> QED BY <1>5, <2>1, <2>2
<1>7. ~(post_encoder[io_idx] > 0)
  BY <1>0, <1>1, <1>5 DEF HandoverInv
<1> QED BY <1>1, <1>3, <1>5, <1>6, <1>7

\* An empty read adds no samples.
LEMMA ZeropadZero == enc_frame_zeropad(0) = 0
  BY FormatAssumption, SizeAssumption, ModSmall DEF enc_frame_zeropad

LEMMA Loop0ReadStep ==
  ASSUME SyncInv, Loop0Read
  PROVE  /\ QueueInv' /\ CoderInv' /\ HandoverInv'
         /\ PillInv' /\ StopInv' /\ ContentInv'
<1>0. /\ TypeOK /\ RingInv /\ QueueInv /\ CoderInv /\ HandoverInv /\ PillInv
      /\ StopInv /\ ContentInv
  BY DEF SyncInv
<1>1. /\ Popped' = Popped /\ Holders' = Holders
      /\ UNCHANGED <<coder_pc, coder_idx, lock, next>>
  BY PoppedIO DEF IO
<1>2. /\ io_pc = "read" /\ io_pc' = "post0"
      /\ UNCHANGED <<outfile, io_idx, start_writing, nframes_read, ttabuf,
                     post_encoder, Written>>
  BY DEF Loop0Read, IOGoes, sem_vars, Written
<1>3. /\ io_idx \in Slots /\ io_idx = Slot(nframes_read)
      /\ Popped <= nframes_read
      /\ \A q \in Written..(nframes_read - 1) : Slot(q) # io_idx
      /\ \A c \in Coders : Busy(c) => coder_idx[c] # io_idx
      /\ ~(post_encoder[io_idx] > 0)
  BY <1>2, AtRead
<1>4. \A s \in Slots : s # io_idx =>
        ni32_perframe'[s] = ni32_perframe[s] /\ pcmbuf'[s] = pcmbuf[s]
  BY <1>0 DEF Loop0Read, TypeOK
<1>5. ni32_perframe'[io_idx] # 0 => pcmbuf'[io_idx] = nframes_read + 1
  <2> DEFINE n == fread(readlen, unread)
  <2>1. /\ ni32_perframe'[io_idx] = n + enc_frame_zeropad(n)
        /\ pcmbuf'[io_idx] = IF n = 0 THEN pcmbuf[io_idx] ELSE nframes_read + 1
    BY <1>0, <1>3 DEF Loop0Read, TypeOK
  <2> HIDE DEF n
  <2>2. n = 0 => ni32_perframe'[io_idx] = 0
    BY <2>1, ZeropadZero
  <2> QED BY <2>1, <2>2
<1>6. \A q \in Written..(nframes_read - 1) :
        /\ Slot(q) \in Slots /\ Slot(q) # io_idx
        /\ ni32_perframe'[Slot(q)] = ni32_perframe[Slot(q)]
        /\ pcmbuf'[Slot(q)] = pcmbuf[Slot(q)]
  <2>1. \A q \in Written..(nframes_read - 1) : q \in Nat
    BY <1>0, Bounds
  <2> QED BY <1>3, <1>4, <2>1, SlotType
<1>7. \A c \in Coders :
        /\ coder_idx[c] \in Slots
        /\ Busy(c) => /\ coder_idx[c] # io_idx
                      /\ ni32_perframe'[coder_idx[c]] = ni32_perframe[coder_idx[c]]
                      /\ pcmbuf'[coder_idx[c]] = pcmbuf[coder_idx[c]]
  BY <1>0, <1>3, <1>4 DEF TypeOK
<1>8. \A c \in Coders : Busy(c)' <=> Busy(c)
  BY <1>1 DEF Busy
<1>9. QueueInv'
  BY <1>0, <1>1, <1>2 DEF QueueInv, Slot
<1>10. CoderInv'
  <2>1. \A c \in Coders : coder_pc[c] \in {"encode", "post"} => Busy(c)
    BY DEF Busy
  <2> QED BY <1>0, <1>1, <1>2, <1>7, <1>8, <2>1 DEF CoderInv, Slot
<1>11. HandoverInv'
  <2>1. ASSUME NEW c \in Coders, coder_pc'[c] = "post"
        PROVE  Coded(coder_idx[c])'
    <3>1. coder_pc[c] = "post" /\ Busy(c)
      BY <1>1, <2>1 DEF Busy
    <3> QED BY <1>0, <1>1, <1>2, <1>7, <3>1 DEF HandoverInv, Coded
  <2>2. ASSUME NEW s \in Slots, post_encoder'[s] > 0
        PROVE  /\ post_encoder'[s] = 1
               /\ Coded(s)' /\ ni32_perframe'[s] # 0
               /\ \E q \in Written'..(nframes_read' - 1) :
                    s = Slot(q) /\ q < Popped'
    <3>1. s # io_idx
      BY <1>2, <1>3, <2>2
    <3> QED BY <1>0, <1>1, <1>2, <1>4, <2>2, <3>1 DEF HandoverInv, Coded
  <2>3. io_pc' \notin Writing
    BY <1>2 DEF Writing
  <2>4. \A c \in Coders : Busy(c)' => post_encoder'[coder_idx'[c]] = 0
    BY <1>0, <1>1, <1>2, <1>8 DEF HandoverInv
  <2> QED BY <2>1, <2>2, <2>3, <2>4 DEF HandoverInv, Slot, Coded
<1>12. PillInv'
  <2> SUFFICES ASSUME ~start_writing,
                      NEW n \in nframes_read..(Written + QueueLen - 1),
                      n # nframes_read
               PROVE  ni32_perframe'[Slot(n)] = 0
    BY <1>2 DEF PillInv, Loop1Pcs, Slot
  <2>1. Written \in Nat /\ nframes_read \in Nat /\ Written <= nframes_read
    BY <1>0, Bounds
  <2>2. n \in Nat /\ nframes_read < n /\ n < nframes_read + QueueLen
    BY <2>1, QueueLenNat
  <2>3. Slot(n) # io_idx /\ Slot(n) \in Slots
    BY <1>3, <2>1, <2>2, SlotDistinct, SlotType
  <2>4. ni32_perframe[Slot(n)] = 0
    BY <1>0, <1>2 DEF PillInv
  <2> QED BY <1>4, <2>3, <2>4
<1>13. StopInv'
  <2>1. Popped \in Nat /\ nframes_read \in Nat
    BY <1>0, Bounds
  <2>2. \A c \in Coders : Stopped(c) => Stopped(c)'
    BY <1>1, <1>7 DEF Stopped, Busy
  <2> QED BY <1>0, <1>1, <1>2, <2>1, <2>2, StoppedGrows DEF StopInv
<1>14. ContentInv'
  <2>1. \A q \in Written..(nframes_read - 1) :
          ni32_perframe'[Slot(q)] # 0 => pcmbuf'[Slot(q)] = q + 1
    BY <1>0, <1>6 DEF ContentInv
  <2>2. ASSUME NEW s \in Slots
        PROVE  \/ pcmbuf'[s] <= Written
               \/ \E n \in Written..nframes_read :
                    s = Slot(n) /\ pcmbuf'[s] = n + 1
    <3>1. CASE s # io_idx \/ pcmbuf'[s] = pcmbuf[s]
      <4>1. pcmbuf'[s] = pcmbuf[s]
        BY <1>4, <3>1
      <4> QED BY <1>0, <4>1 DEF ContentInv
    <3>2. CASE s = io_idx /\ pcmbuf'[s] # pcmbuf[s]
      <4>1. pcmbuf'[s] = nframes_read + 1
        BY <1>0, <3>2 DEF Loop0Read, TypeOK
      <4>2. nframes_read \in Written..nframes_read
        BY <1>0, Bounds
      <4> QED BY <1>3, <3>2, <4>1, <4>2
    <3> QED BY <3>1, <3>2
  <2>3. \A i \in 1..Written : outfile'[i].frame = i
    BY <1>0, <1>2 DEF ContentInv
  <2> QED BY <1>2, <1>5, <2>1, <2>2, <2>3 DEF ContentInv, Slot
<1> QED BY <1>9, <1>10, <1>11, <1>12, <1>13, <1>14

LEMMA Loop0PostStep ==
  ASSUME SyncInv, Loop0Post
  PROVE  /\ QueueInv' /\ CoderInv' /\ HandoverInv'
         /\ PillInv' /\ StopInv' /\ ContentInv'
<1>0. /\ TypeOK /\ RingInv /\ QueueInv /\ CoderInv /\ HandoverInv /\ PillInv
      /\ StopInv /\ ContentInv
  BY DEF SyncInv
<1>1. /\ Popped' = Popped /\ Holders' = Holders
      /\ UNCHANGED <<coder_pc, coder_idx, lock, next>>
  BY PoppedIO DEF IO
<1>2. /\ io_pc = "post0" /\ io_pc' \in {"read", "wait0"}
      /\ io_pc' = "wait0" <=> start_writing'
      /\ nframes_read' = nframes_read + 1
      /\ start_writing => start_writing'
      /\ UNCHANGED <<outfile, ni32_perframe, pcmbuf, ttabuf,
                     post_encoder, Written>>
  BY <1>0 DEF Loop0Post, IOGoes, slot_vars, Written, TypeOK
<1>3. /\ Popped \in Nat /\ Written \in Nat /\ nframes_read \in Nat
      /\ Written <= nframes_read
  BY <1>0, Bounds
<1>4. \A q \in Written..(nframes_read - 1) : q \in Written..(nframes_read' - 1)
  BY <1>2, <1>3
<1>5. \A c \in Coders : Busy(c)' <=> Busy(c)
  BY <1>1 DEF Busy
<1>6. QueueInv'
  BY <1>0, <1>1, <1>2 DEF QueueInv, Slot
<1>7. CoderInv'
  BY <1>0, <1>1, <1>2, <1>4, <1>5 DEF CoderInv, Slot
<1>8. HandoverInv'
  BY <1>0, <1>1, <1>2, <1>4, <1>5 DEF HandoverInv, Slot, Coded, Writing
<1>9. PillInv'
  <2> SUFFICES ASSUME ~start_writing',
                      NEW n \in nframes_read'..(Written + QueueLen - 1)
               PROVE  ni32_perframe[Slot(n)] = 0
    BY <1>2 DEF PillInv, Loop1Pcs, Slot
  <2>1. n \in nframes_read..(Written + QueueLen - 1) /\ n # nframes_read
    BY <1>2, <1>3, QueueLenNat
  <2> QED BY <1>0, <1>2, <2>1 DEF PillInv
<1>10. StopInv'
  <2>1. \A c \in Coders : Stopped(c) => Stopped(c)'
    BY <1>1, <1>2 DEF Stopped
  <2> QED BY <1>0, <1>1, <1>2, <1>3, <2>1, StoppedGrows DEF StopInv
<1>11. ContentInv'
  <2>1. ASSUME NEW n \in Written..(nframes_read' - 1),
               ni32_perframe[Slot(n)] # 0
        PROVE  pcmbuf[Slot(n)] = n + 1
    <3>1. CASE n = nframes_read
      BY <1>0, <1>2, <2>1, <3>1 DEF ContentInv, RingInv
    <3>2. CASE n # nframes_read
      <4>1. n \in Written..(nframes_read - 1)
        BY <1>2, <1>3, <3>2
      <4> QED BY <1>0, <2>1, <4>1 DEF ContentInv
    <3> QED BY <3>1, <3>2
  <2>2. ASSUME NEW s \in Slots
        PROVE  \/ pcmbuf[s] <= Written
               \/ \E n \in Written..nframes_read' :
                    s = Slot(n) /\ pcmbuf[s] = n + 1 /\ n < nframes_read'
    <3>1. \A n \in Written..nframes_read :
            n \in Written..nframes_read' /\ n < nframes_read'
      BY <1>2, <1>3
    <3> QED BY <1>0, <3>1 DEF ContentInv
  <2>3. io_pc' # "post0" /\ \A i \in 1..Written : outfile[i].frame = i
    BY <1>0, <1>2 DEF ContentInv
  <2> QED BY <1>2, <2>1, <2>2, <2>3 DEF ContentInv, Slot
<1> QED BY <1>6, <1>7, <1>8, <1>9, <1>10, <1>11

\* Taking post_encoder[idx] hands slot idx to the io thread.
LEMMA WaitStep ==
  ASSUME SyncInv, Loop0Wait \/ Loop1Wait
  PROVE  /\ QueueInv' /\ CoderInv' /\ HandoverInv'
         /\ PillInv' /\ StopInv' /\ ContentInv'
<1>0. /\ TypeOK /\ RingInv /\ QueueInv /\ CoderInv /\ HandoverInv /\ PillInv
      /\ StopInv /\ ContentInv
  BY DEF SyncInv
<1>1. /\ Popped' = Popped /\ Holders' = Holders
      /\ UNCHANGED <<coder_pc, coder_idx, lock, next>>
  BY PoppedIO DEF IO
<1>2. /\ \/ io_pc = "wait0" /\ io_pc' = "write0"
         \/ io_pc = "wait1" /\ io_pc' = "write1"
      /\ post_encoder[io_idx] > 0
      /\ post_encoder' = [post_encoder EXCEPT ![io_idx] = @ - 1]
      /\ UNCHANGED <<outfile, io_idx, start_writing, nframes_read,
                     ni32_perframe, pcmbuf, ttabuf, Written>>
  BY DEF Loop0Wait, Loop1Wait, WaitForSlot, IOGoes, slot_vars, Written
<1>3. /\ Popped \in Nat /\ Written \in Nat /\ nframes_read \in Nat
  BY <1>0, Bounds
<1>4. \A c \in Coders : Busy(c)' <=> Busy(c)
  BY <1>1 DEF Busy
<1>5. QueueInv'
  BY <1>0, <1>1, <1>2 DEF QueueInv, Slot
<1>6. CoderInv'
  BY <1>0, <1>1, <1>2, <1>4 DEF CoderInv, Slot
<1>7. HandoverInv'
  <2>1. /\ io_idx \in Slots /\ post_encoder[io_idx] = 1
        /\ Coded(io_idx) /\ ni32_perframe[io_idx] # 0
        /\ \E q \in Written..(nframes_read - 1) : io_idx = Slot(q) /\ q < Popped
    BY <1>0, <1>2 DEF HandoverInv, TypeOK
  <2>2. Written < Popped
    BY <1>3, <2>1
  <2>3. /\ post_encoder'[io_idx] = 0
        /\ \A s \in Slots : s # io_idx => post_encoder'[s] = post_encoder[s]
    BY <1>0, <1>2, <2>1 DEF TypeOK
  <2>4. ASSUME NEW s \in Slots, post_encoder'[s] > 0
        PROVE  s # io_idx /\ post_encoder[s] > 0
    BY <2>3, <2>4
  <2>5. ASSUME NEW c \in Coders, Busy(c)
        PROVE  coder_idx[c] # io_idx /\ post_encoder'[coder_idx[c]] = 0
    <3>1. post_encoder[coder_idx[c]] = 0 /\ coder_idx[c] \in Slots
      BY <1>0, <2>5 DEF HandoverInv, TypeOK
    <3> QED BY <2>1, <2>3, <3>1
  <2>6. \A s \in Slots : post_encoder'[s] > 0 =>
          /\ post_encoder'[s] = 1
          /\ Coded(s) /\ ni32_perframe[s] # 0
          /\ \E q \in Written..(nframes_read - 1) : s = Slot(q) /\ q < Popped
    BY <1>0, <2>3, <2>4 DEF HandoverInv
  <2>7. \A c \in Coders : coder_pc'[c] = "post" => Coded(coder_idx[c])
    BY <1>0, <1>1 DEF HandoverInv
  <2> QED BY <1>1, <1>2, <1>4, <2>1, <2>2, <2>3, <2>5, <2>6, <2>7
          DEF HandoverInv, Slot, Coded
<1>8. PillInv'
  BY <1>0, <1>2 DEF PillInv, Loop1Pcs, Slot
<1>9. StopInv'
  <2>1. \A c \in Coders : Stopped(c) => Stopped(c)'
    BY <1>1, <1>2 DEF Stopped
  <2> QED BY <1>0, <1>1, <1>2, <1>3, <2>1, StoppedGrows DEF StopInv
<1>10. ContentInv'
  BY <1>0, <1>2 DEF ContentInv, Slot
<1> QED BY <1>5, <1>6, <1>7, <1>8, <1>9, <1>10

\* Posting a slot that says stop changes no slot.
LEMMA PillPostStep ==
  ASSUME SyncInv, TinyPost \/ Loop1Post
  PROVE  /\ QueueInv' /\ CoderInv' /\ HandoverInv'
         /\ PillInv' /\ StopInv' /\ ContentInv'
<1>0. /\ TypeOK /\ RingInv /\ QueueInv /\ CoderInv /\ HandoverInv /\ PillInv
      /\ StopInv /\ ContentInv
  BY DEF SyncInv
<1>1. /\ Popped' = Popped /\ Holders' = Holders
      /\ UNCHANGED <<coder_pc, coder_idx, lock, next>>
  BY PoppedIO DEF IO
<1>2. /\ io_pc \in {"tiny", "post1"} /\ io_pc' \in {"tiny", "wait1", "done"}
      /\ io_pc = "post1" => io_pc' # "tiny"
      /\ UNCHANGED <<outfile, start_writing, nframes_read, ni32_perframe,
                     pcmbuf, ttabuf, post_encoder, Written>>
  BY DEF TinyPost, Loop1Post, IOGoes, slot_vars, Written
<1>3. /\ Popped \in Nat /\ nframes_read \in Nat
  BY <1>0, Bounds
<1>4. \A c \in Coders : Busy(c)' <=> Busy(c)
  BY <1>1 DEF Busy
<1>5. QueueInv'
  BY <1>0, <1>1, <1>2 DEF QueueInv, Slot
<1>6. CoderInv'
  BY <1>0, <1>1, <1>2, <1>4 DEF CoderInv, Slot
<1>7. HandoverInv'
  BY <1>0, <1>1, <1>2, <1>4 DEF HandoverInv, Slot, Coded, Writing
<1>8. PillInv'
  <2>1. (~start_writing \/ io_pc \in Loop1Pcs) /\ io_pc # "post0"
    BY <1>0, <1>2 DEF RingInv, Loop1Pcs
  <2> QED BY <1>0, <1>2, <2>1 DEF PillInv, Slot
<1>9. StopInv'
  <2>1. \A c \in Coders : Stopped(c) => Stopped(c)'
    BY <1>1, <1>2 DEF Stopped
  <2> QED BY <1>0, <1>1, <1>2, <1>3, <2>1, StoppedGrows DEF StopInv
<1>10. ContentInv'
  <2>1. io_pc # "post0" /\ io_pc' # "post0"
    BY <1>2
  <2> QED BY <1>0, <1>2, <2>1 DEF ContentInv, Slot
<1> QED BY <1>5, <1>6, <1>7, <1>8, <1>9, <1>10

LEMMA Loop0DoneStep ==
  ASSUME SyncInv, Loop0Done
  PROVE  /\ QueueInv' /\ CoderInv' /\ HandoverInv'
         /\ PillInv' /\ StopInv' /\ ContentInv'
<1>0. /\ TypeOK /\ RingInv /\ QueueInv /\ CoderInv /\ HandoverInv /\ PillInv
      /\ StopInv /\ ContentInv
  BY DEF SyncInv
<1>1. /\ Popped' = Popped /\ Holders' = Holders
      /\ UNCHANGED <<coder_pc, coder_idx, lock, next>>
  BY PoppedIO DEF IO
<1>2. /\ io_pc = "read" /\ io_pc' \in {"tiny", "wait1", "done"}
      /\ start_writing => io_pc' # "tiny"
      /\ ni32_perframe' = [ni32_perframe EXCEPT ![io_idx] = 0]
      /\ UNCHANGED <<outfile, start_writing, nframes_read, pcmbuf,
                     ttabuf, post_encoder, Written>>
  BY DEF Loop0Done, IOGoes, sem_vars, Written
<1>3. /\ io_idx \in Slots /\ io_idx = Slot(nframes_read)
      /\ \A q \in Written..(nframes_read - 1) : Slot(q) # io_idx
      /\ \A c \in Coders : Busy(c) => coder_idx[c] # io_idx
      /\ ~(post_encoder[io_idx] > 0)
  BY <1>2, AtRead
<1>4. /\ Popped \in Nat /\ Written \in Nat /\ nframes_read \in Nat
      /\ Written <= nframes_read
  BY <1>0, Bounds
<1>5. /\ ni32_perframe'[io_idx] = 0
      /\ \A s \in Slots : s # io_idx => ni32_perframe'[s] = ni32_perframe[s]
  BY <1>0, <1>2, <1>3 DEF TypeOK
<1>6. \A c \in Coders :
        /\ Busy(c)' <=> Busy(c)
        /\ coder_pc[c] \in {"encode", "post"} => Busy(c)
        /\ Busy(c) => /\ coder_idx[c] # io_idx
                      /\ ni32_perframe'[coder_idx[c]] = ni32_perframe[coder_idx[c]]
  BY <1>0, <1>1, <1>3, <1>5 DEF Busy, TypeOK
<1>7. QueueInv'
  BY <1>0, <1>1, <1>2 DEF QueueInv, Slot
<1>8. CoderInv'
  BY <1>0, <1>1, <1>2, <1>6 DEF CoderInv, Slot
<1>9. HandoverInv'
  <2>1. ASSUME NEW s \in Slots, post_encoder'[s] > 0
        PROVE  /\ post_encoder'[s] = 1
               /\ Coded(s)' /\ ni32_perframe'[s] # 0
               /\ \E q \in Written'..(nframes_read' - 1) :
                    s = Slot(q) /\ q < Popped'
    <3>1. s # io_idx
      BY <1>2, <1>3, <2>1
    <3> QED BY <1>0, <1>1, <1>2, <1>5, <2>1, <3>1 DEF HandoverInv, Coded
  <2>2. \A c \in Coders : coder_pc'[c] = "post" => Coded(coder_idx[c])'
    BY <1>0, <1>1, <1>2, <1>6 DEF HandoverInv, Coded
  <2>3. io_pc' \notin Writing
    BY <1>2 DEF Writing
  <2>4. \A c \in Coders : Busy(c)' => post_encoder'[coder_idx'[c]] = 0
    BY <1>0, <1>1, <1>2, <1>6 DEF HandoverInv
  <2> QED BY <2>1, <2>2, <2>3, <2>4 DEF HandoverInv, Slot, Coded
<1>10. PillInv'
  <2> SUFFICES ASSUME NEW n \in nframes_read..(Written + QueueLen - 1),
                      ~start_writing \/ io_pc' \in Loop1Pcs
               PROVE  ni32_perframe'[Slot(n)] = 0
    BY <1>2 DEF PillInv, Loop1Pcs, Slot
  <2>1. CASE n = nframes_read
    BY <1>3, <1>5, <2>1
  <2>2. CASE n # nframes_read
    <3>1. ~start_writing
      BY <1>0, <1>2, <1>4, <2>2, QueueLenNat DEF RingInv
    <3>2. ni32_perframe[Slot(n)] = 0
      BY <1>0, <1>2, <3>1, <2>2 DEF PillInv
    <3>3. Slot(n) \in Slots
      BY <1>4, SlotType
    <3> QED BY <1>5, <3>2, <3>3
  <2> QED BY <2>1, <2>2
<1>11. StopInv'
  <2>1. \A c \in Coders : Stopped(c) => Stopped(c)'
    BY <1>1, <1>6 DEF Stopped, Busy
  <2> QED BY <1>0, <1>1, <1>2, <1>4, <2>1, StoppedGrows DEF StopInv
<1>12. ContentInv'
  <2>1. \A q \in Written..(nframes_read - 1) : Slot(q) \in Slots
    BY <1>4, SlotType
  <2>2. \A q \in Written..(nframes_read - 1) :
          ni32_perframe'[Slot(q)] # 0 => pcmbuf[Slot(q)] = q + 1
    BY <1>0, <1>3, <1>5, <2>1 DEF ContentInv
  <2>3. io_pc # "post0" /\ io_pc' # "post0"
    BY <1>2
  <2> QED BY <1>0, <1>2, <2>2, <2>3 DEF ContentInv, Slot
<1> QED BY <1>7, <1>8, <1>9, <1>10, <1>11, <1>12

LEMMA WriteStep ==
  ASSUME SyncInv, Loop0Write \/ Loop1Write
  PROVE  /\ QueueInv' /\ CoderInv' /\ HandoverInv'
         /\ PillInv' /\ StopInv' /\ ContentInv'
<1>0. /\ TypeOK /\ RingInv /\ QueueInv /\ CoderInv /\ HandoverInv /\ PillInv
      /\ StopInv /\ ContentInv
  BY DEF SyncInv
<1>1. /\ Popped' = Popped /\ Holders' = Holders
      /\ UNCHANGED <<coder_pc, coder_idx, lock, next>>
  BY PoppedIO DEF IO
<1>2. /\ io_pc \in Writing
      /\ \/ io_pc = "write0" /\ io_pc' = "read" /\ start_writing
            /\ ni32_perframe' = ni32_perframe
         \/ io_pc = "write1" /\ io_pc' = "post1"
            /\ ni32_perframe' = [ni32_perframe EXCEPT ![io_idx] = 0]
      /\ UNCHANGED <<io_idx, start_writing, nframes_read, pcmbuf, ttabuf,
                     post_encoder>>
      /\ enc_frame_write
  BY <1>0 DEF Loop0Write, Loop1Write, IOGoes, slot_vars, sem_vars, Writing,
              RingInv
<1>3. Written' = Written + 1
  BY <1>0, <1>2, WrittenWrite
<1>4. /\ Popped \in Nat /\ Written \in Nat /\ nframes_read \in Nat
  BY <1>0, Bounds
<1>5. io_idx \in Slots /\ io_idx = Slot(Written) /\ Written < nframes_read
  BY <1>0, <1>2, <1>4, QueueLenNat DEF RingInv, TypeOK, Writing
<1>6. /\ post_encoder[io_idx] = 0
      /\ Coded(io_idx) /\ ni32_perframe[io_idx] # 0
      /\ Written < Popped
      /\ \A c \in Coders : Busy(c) => coder_idx[c] # io_idx
  BY <1>0, <1>2 DEF HandoverInv
<1>7. \A s \in Slots : s # io_idx => ni32_perframe'[s] = ni32_perframe[s]
  BY <1>0, <1>2 DEF TypeOK
<1>8. \A c \in Coders :
        /\ Busy(c)' <=> Busy(c)
        /\ coder_pc[c] \in {"encode", "post"} => Busy(c)
        /\ Busy(c) => /\ coder_idx[c] # io_idx
                      /\ ni32_perframe'[coder_idx[c]] = ni32_perframe[coder_idx[c]]
  BY <1>0, <1>1, <1>6, <1>7 DEF Busy, TypeOK
<1>9. \A n \in Int : \A q \in Written..n :
        Slot(q) # io_idx => q \in Written'..n
  BY <1>3, <1>4, <1>5
<1>10. Popped - 1 \in Int /\ nframes_read - 1 \in Int
  BY <1>4
<1>11. QueueInv'
  <2>1. Popped' >= Written'
    BY <1>1, <1>3, <1>4, <1>6
  <2> QED BY <1>0, <1>1, <2>1 DEF QueueInv, Slot
<1>12. CoderInv'
  <2>1. ASSUME NEW c \in Coders, Busy(c)'
        PROVE  \E q \in Written'..(Popped' - 1) : coder_idx'[c] = Slot(q)
    BY <1>0, <1>1, <1>8, <1>9, <1>10, <2>1 DEF CoderInv
  <2>2. ASSUME NEW c \in Coders, coder_pc'[c] \in {"encode", "post"}
        PROVE  /\ ni32_perframe'[coder_idx'[c]] # 0
               /\ \E q \in Written'..(nframes_read' - 1) :
                    coder_idx'[c] = Slot(q)
    BY <1>0, <1>1, <1>2, <1>8, <1>9, <1>10, <2>2 DEF CoderInv
  <2>3. \A c, d \in Coders : Busy(c)' /\ Busy(d)'
          /\ coder_idx'[c] = coder_idx'[d] => c = d
    BY <1>0, <1>1, <1>8 DEF CoderInv
  <2> QED BY <2>1, <2>2, <2>3 DEF CoderInv, Slot
<1>13. HandoverInv'
  <2>1. ASSUME NEW s \in Slots, post_encoder'[s] > 0
        PROVE  /\ post_encoder'[s] = 1
               /\ Coded(s)' /\ ni32_perframe'[s] # 0
               /\ \E q \in Written'..(nframes_read' - 1) :
                    s = Slot(q) /\ q < Popped'
    <3>1. s # io_idx
      BY <1>2, <1>6, <2>1
    <3>2. /\ post_encoder[s] = 1 /\ Coded(s) /\ ni32_perframe[s] # 0
          /\ \E q \in Written..(nframes_read - 1) : s = Slot(q) /\ q < Popped
      BY <1>0, <1>2, <2>1 DEF HandoverInv
    <3>3. \E q \in Written'..(nframes_read - 1) : s = Slot(q) /\ q < Popped
      BY <1>9, <1>10, <3>1, <3>2
    <3> QED BY <1>1, <1>2, <1>7, <3>1, <3>2, <3>3 DEF Coded
  <2>2. \A c \in Coders : coder_pc'[c] = "post" => Coded(coder_idx[c])'
    BY <1>0, <1>1, <1>2, <1>8 DEF HandoverInv, Coded
  <2>3. io_pc' \notin Writing
    BY <1>2 DEF Writing
  <2>4. \A c \in Coders : Busy(c)' => post_encoder'[coder_idx'[c]] = 0
    BY <1>0, <1>1, <1>2, <1>8 DEF HandoverInv
  <2> QED BY <2>1, <2>2, <2>3, <2>4 DEF HandoverInv, Slot, Coded
<1>14. PillInv'
  <2> SUFFICES ASSUME NEW n \in nframes_read..(Written' + QueueLen - 1),
                      io_pc = "write1"
               PROVE  ni32_perframe'[Slot(n)] = 0
    BY <1>2 DEF PillInv, Loop1Pcs, Slot
  <2>1. ni32_perframe'[io_idx] = 0
    BY <1>0, <1>2, <1>5 DEF TypeOK
  <2>2. CASE n = Written + QueueLen
    BY <1>4, <1>5, <2>1, <2>2, SlotLap
  <2>3. CASE n # Written + QueueLen
    <3>1. n \in nframes_read..(Written + QueueLen - 1) /\ n \in Nat
      BY <1>3, <1>4, <2>3, QueueLenNat
    <3>2. ni32_perframe[Slot(n)] = 0 /\ Slot(n) \in Slots
      BY <1>0, <3>1, SlotType DEF PillInv, Loop1Pcs
    <3> QED BY <1>7, <2>1, <3>2
  <2> QED BY <2>2, <2>3
<1>15. StopInv'
  <2>1. \A c \in Coders : Stopped(c) => Stopped(c)'
    BY <1>1, <1>8 DEF Stopped, Busy
  <2> QED BY <1>0, <1>1, <1>2, <1>4, <2>1, StoppedGrows DEF StopInv
<1>16. ContentInv'
  <2>1. pcmbuf[io_idx] = Written + 1
    <3>1. Written \in Written..(nframes_read - 1)
      BY <1>4, <1>5
    <3> QED BY <1>0, <1>5, <1>6, <3>1 DEF ContentInv
  <2>2. ASSUME NEW n \in Written'..(nframes_read - 1),
               ni32_perframe'[Slot(n)] # 0
        PROVE  pcmbuf[Slot(n)] = n + 1
    <3>1. n \in Written..(nframes_read - 1) /\ Slot(n) \in Slots
      BY <1>3, <1>4, SlotType
    <3>2. ni32_perframe[Slot(n)] # 0
      BY <1>0, <1>2, <2>2, <3>1 DEF TypeOK
    <3> QED BY <1>0, <3>1, <3>2 DEF ContentInv
  <2>3. io_pc # "post0" /\ io_pc' # "post0"
    BY <1>2 DEF Writing
  <2>4. ASSUME NEW s \in Slots
        PROVE  \/ pcmbuf[s] <= Written'
               \/ \E n \in Written'..nframes_read :
                    s = Slot(n) /\ pcmbuf[s] = n + 1 /\ n < nframes_read
    <3>1. CASE s = io_idx
      BY <1>3, <1>4, <2>1, <3>1
    <3>2. CASE s # io_idx /\ pcmbuf[s] <= Written
      <4>1. pcmbuf[s] \in Nat
        BY <1>0 DEF TypeOK
      <4> QED BY <1>3, <1>4, <3>2, <4>1
    <3>3. CASE s # io_idx /\ ~(pcmbuf[s] <= Written)
      <4>1. \E n \in Written..nframes_read :
              s = Slot(n) /\ pcmbuf[s] = n + 1 /\ n < nframes_read
        BY <1>0, <2>3, <3>3 DEF ContentInv
      <4> QED BY <1>4, <1>9, <3>3, <4>1
    <3> QED BY <3>1, <3>2, <3>3
  <2>5. ASSUME NEW i \in 1..Written'
        PROVE  outfile'[i].frame = i
    <3>1. outfile' = Append(outfile, ttabuf[io_idx])
          /\ outfile \in Seq(Frame) /\ Written = Len(outfile)
      BY <1>0, <1>2 DEF enc_frame_write, TypeOK, Written
    <3>2. ttabuf[io_idx].frame = Written + 1
      BY <1>6, <2>1 DEF Coded
    <3>3. CASE i = Written + 1
      BY <3>1, <3>2, <3>3
    <3>4. CASE i # Written + 1
      <4>1. i \in 1..Written
        BY <1>3, <1>4, <3>4
      <4>2. outfile'[i] = outfile[i]
        BY <3>1, <4>1
      <4> QED BY <1>0, <4>1, <4>2 DEF ContentInv
    <3> QED BY <3>3, <3>4
  <2> QED BY <1>2, <2>2, <2>3, <2>4, <2>5 DEF ContentInv, Slot
<1> QED BY <1>11, <1>12, <1>13, <1>14, <1>15, <1>16

-----------------------------------------------------------------------------
(* SyncInv is inductive                                                       *)

LEMMA SyncInit == Init => SyncInv
<1> SUFFICES ASSUME Init PROVE SyncInv
  OBVIOUS
<1>1. TypeOK /\ RingInv
  BY TypeInit, RingInit
<1>2. Written = 0 /\ Posted = 0 /\ navailable = 0
  BY DEF Init, Written, Posted, Loop1Pcs
<1>3. \A c \in Coders : coder_pc[c] \in {"create", "unborn"}
  BY DEF Init
<1>4. Holders = {}
  BY <1>3 DEF Holders
<1>5. Popped = 0
  BY <1>2, <1>4, FS_EmptySet DEF Popped
<1>6. \A c \in Coders : ~Busy(c) /\ ~Stopped(c)
  BY <1>3 DEF Busy, Stopped
<1>7. QueueInv
  <2>1. Slot(0) = 0
    BY QueueLenNat, SlotSmall DEF Slots
  <2> QED BY <1>2, <1>3, <1>5, <2>1 DEF QueueInv, Init, pqueue_first
<1>8. CoderInv
  BY <1>3, <1>6 DEF CoderInv
<1>9. HandoverInv
  BY <1>3, <1>6 DEF HandoverInv, Init, Writing
<1>10. PillInv
  <2>1. \A n \in 0..(0 + QueueLen - 1) : Slot(n) \in Slots
    BY QueueLenNat, SlotType
  <2> QED BY <1>2, <2>1 DEF PillInv, Init
<1>11. StopInv
  <2>1. {c \in Coders : Stopped(c)} = {}
    BY <1>6
  <2> QED BY <1>5, <2>1, FS_EmptySet DEF StopInv, Init
<1>12. ContentInv
  BY <1>2 DEF ContentInv, Init
<1> QED BY <1>1, <1>7, <1>8, <1>9, <1>10, <1>11, <1>12 DEF SyncInv

LEMMA SyncStep == SyncInv /\ [Next]_vars => SyncInv'
<1> SUFFICES ASSUME SyncInv, [Next]_vars PROVE SyncInv'
  OBVIOUS
<1>1. TypeOK' /\ RingInv'
  BY TypeStep, RingStep DEF SyncInv
<1> DEFINE Rest == /\ QueueInv' /\ CoderInv' /\ HandoverInv'
                   /\ PillInv' /\ StopInv' /\ ContentInv'
<1>3. CASE IO
  <2>1. Rest
    BY <1>3, Loop0ReadStep, Loop0PostStep, WaitStep, WriteStep, Loop0DoneStep,
       PillPostStep DEF IO
  <2> QED BY <1>1, <2>1 DEF SyncInv
<1>4. ASSUME NEW c \in Coders, CoderActs(c)
      PROVE  SyncInv'
  <2>1. Rest
    BY <1>4, CoderWaitStep, CoderLockStep, CoderPopStep, CoderCheckStep,
       CoderEncodeStep, CoderPostStep DEF CoderActs
  <2> QED BY <1>1, <2>1 DEF SyncInv
<1>5. Quiet => Rest
  BY <1>1, QuietStep
<1>6. Quiet \/ IO \/ \E c \in Coders : CoderActs(c)
  BY Steps DEF SyncInv
<1> QED BY <1>1, <1>3, <1>4, <1>5, <1>6 DEF SyncInv

\* The threads keep to the protocol of the ring in every reachable state.
THEOREM EncMTSync == Spec => []SyncInv
  BY SyncInit, SyncStep, PTL DEF Spec

-----------------------------------------------------------------------------
(* The safety properties, from the inductive invariant                     *)

LEMMA InvNoDataRace == SyncInv => NoDataRace
<1> SUFFICES ASSUME SyncInv PROVE NoDataRace
  OBVIOUS
<1>1. QueueInv /\ CoderInv /\ HandoverInv
  BY DEF SyncInv
<1>2. ASSUME NEW c \in Coders, NEW d \in Coders, c # d
      PROVE  /\ ~(coder_pc[c] = "pop" /\ coder_pc[d] = "pop")
             /\ ~(coder_pc[c] = "encode" /\ coder_pc[d] = "encode"
                    /\ coder_idx[c] = coder_idx[d])
  BY <1>1, <1>2 DEF QueueInv, CoderInv, Busy
<1>3. ASSUME NEW c \in Coders, coder_pc[c] \in {"check", "encode"},
             io_pc \in {"read"} \cup Writing
      PROVE  coder_idx[c] # io_idx
  <2>1. Busy(c)
    BY <1>3 DEF Busy
  <2>2. CASE io_pc = "read"
    BY <2>1, <2>2, AtRead
  <2>3. CASE io_pc \in Writing
    BY <1>1, <2>1, <2>3 DEF HandoverInv
  <2> QED BY <1>3, <2>2, <2>3
<1> QED BY <1>2, <1>3 DEF NoDataRace, Writing

\* encmt_io and encmt_encoder never access the queue's cursor or an entry of
\* the parallel arrays at the same time, one of them to write it.
THEOREM EncMTNoDataRace == Spec => []NoDataRace
  BY EncMTSync, InvNoDataRace, PTL

LEMMA InvHandoverComplete == SyncInv => HandoverComplete
<1> SUFFICES ASSUME SyncInv, NEW s \in Slots,
                    post_encoder[s] > 0 \/ (io_pc \in Writing /\ io_idx = s)
             PROVE  /\ post_encoder[s] <= 1
                    /\ Coded(s)
                    /\ \A c \in Coders : coder_pc[c] \in {"encode", "post"} =>
                                           coder_idx[c] # s
  BY DEF HandoverComplete, Coded
<1>1. HandoverInv
  BY DEF SyncInv
<1>2. \A c \in Coders : coder_pc[c] \in {"encode", "post"} => Busy(c)
  BY DEF Busy
<1>3. CASE post_encoder[s] > 0
  BY <1>1, <1>2, <1>3 DEF HandoverInv
<1>4. CASE io_pc \in Writing /\ io_idx = s
  BY <1>1, <1>2, <1>4 DEF HandoverInv
<1> QED BY <1>3, <1>4

\* What semaphore_wait(&post_encoder[idx]) lets encmt_io write is a complete
\* frame that no coder is at.
THEOREM EncMTHandoverComplete == Spec => []HandoverComplete
  BY EncMTSync, InvHandoverComplete, PTL

\* Three disjoint parts of the coders are together no more than the coders.
LEMMA ThreeParts ==
  ASSUME NEW A, NEW B, NEW C,
         A \subseteq Coders, B \subseteq Coders, C \subseteq Coders,
         A \cap B = {}, (A \cup B) \cap C = {}
  PROVE  /\ Cardinality(A) \in Nat /\ Cardinality(B) \in Nat
         /\ Cardinality(C) \in Nat
         /\ Cardinality(A) + Cardinality(B) + Cardinality(C)
              <= Cardinality(Coders)
<1>1. /\ IsFiniteSet(Coders) /\ IsFiniteSet(A) /\ IsFiniteSet(B)
      /\ IsFiniteSet(C) /\ IsFiniteSet(A \cup B)
  BY CodersAssumption, FS_Subset, FS_Union
<1>2. /\ Cardinality(A) \in Nat /\ Cardinality(B) \in Nat
      /\ Cardinality(C) \in Nat /\ Cardinality(A \cup B) \in Nat
      /\ Cardinality((A \cup B) \cup C) \in Nat
  BY <1>1, FS_Union, FS_CardinalityType
<1>3. Cardinality(A \cup B) = Cardinality(A) + Cardinality(B)
  <2>1. Cardinality(A \cup B)
          = Cardinality(A) + Cardinality(B) - Cardinality(A \cap B)
    BY <1>1, FS_Union
  <2>2. Cardinality(A \cap B) = 0
    BY FS_EmptySet
  <2> QED BY <1>2, <2>1, <2>2
<1>4. Cardinality((A \cup B) \cup C) = Cardinality(A \cup B) + Cardinality(C)
  <2>1. Cardinality((A \cup B) \cup C)
          = Cardinality(A \cup B) + Cardinality(C)
              - Cardinality((A \cup B) \cap C)
    BY <1>1, FS_Union
  <2>2. Cardinality((A \cup B) \cap C) = 0
    BY FS_EmptySet
  <2> QED BY <1>2, <2>1, <2>2
<1>5. Cardinality((A \cup B) \cup C) <= Cardinality(Coders)
  BY <1>1, FS_Subset
<1> QED BY <1>2, <1>3, <1>4, <1>5

LEMMA InvNoStrandedCoder == SyncInv => NoStrandedCoder
<1> DEFINE A == {c \in Coders :
                   coder_pc[c] \in {"unborn", "create", "setup", "wait"}}
           S == {c \in Coders : Stopped(c)}
<1> SUFFICES ASSUME SyncInv, io_pc = "done"
             PROVE  Cardinality(A) <= navailable
  BY DEF NoStrandedCoder
<1>1. TypeOK /\ RingInv /\ QueueInv /\ StopInv
  BY DEF SyncInv
<1>2. Written = nframes_read /\ Written \in Nat /\ navailable \in Nat
  BY <1>1, Bounds DEF RingInv, TypeOK
<1>3. Posted >= Written + QueueLen - 1 /\ Posted \in Nat
  BY <1>1, <1>2, Bounds, QueueLenNat DEF Posted, Loop1Pcs
<1>4. Popped \in Nat /\ Popped <= Written + Cardinality(S)
  BY <1>1, <1>2, Bounds DEF StopInv
<1>5. /\ A \subseteq Coders /\ Holders \subseteq Coders /\ S \subseteq Coders
      /\ A \cap Holders = {} /\ (A \cup Holders) \cap S = {}
  BY DEF Holders, Stopped
<1>6. /\ Cardinality(A) \in Nat /\ Cardinality(Holders) \in Nat
      /\ Cardinality(S) \in Nat
      /\ Cardinality(A) + Cardinality(Holders) + Cardinality(S)
           <= Cardinality(Coders)
  <2> HIDE DEF A, S
  <2> QED BY <1>5, ThreeParts
<1>7. Popped = Posted - navailable - Cardinality(Holders)
  BY DEF Popped
<1> HIDE DEF A, S
<1> QED BY <1>2, <1>3, <1>4, <1>6, <1>7, QueueLenNat

\* When encmt_io returns it has posted navailable for every coder that is
\* still to learn that it must stop, with framequeue_len > nthreads.
THEOREM EncMTNoStrandedCoder == Spec => []NoStrandedCoder
  BY EncMTSync, InvNoStrandedCoder, PTL

LEMMA InvNoFrameOverwritten ==
  SyncInv /\ [Next]_vars =>
    [\A s \in Slots : pcmbuf'[s] # pcmbuf[s] => pcmbuf[s] <= Len(outfile)]_vars
<1> SUFFICES ASSUME SyncInv, [Next]_vars, NEW s \in Slots, pcmbuf'[s] # pcmbuf[s]
             PROVE  pcmbuf[s] <= Len(outfile)
  OBVIOUS
<1>1. TypeOK /\ RingInv /\ ContentInv
  BY DEF SyncInv
<1>2. Loop0Read
  <2>1. IO
    BY Steps, CoderFrame, <1>1 DEF Quiet
  <2>2. ~Loop0Read => UNCHANGED pcmbuf
    BY <2>1 DEF IO, Loop0Post, Loop0Wait, Loop0Write, Loop0Done, TinyPost,
       Loop1Wait, Loop1Write, Loop1Post, WaitForSlot, slot_vars
  <2> QED BY <2>2
<1>3. io_pc = "read"
  BY <1>2 DEF Loop0Read, IOGoes
<1>4. s = io_idx
  BY <1>1, <1>2 DEF Loop0Read, TypeOK
<1>5. \A q \in Written..(nframes_read - 1) : Slot(q) # io_idx
  BY <1>3, AtRead
<1>6. \/ pcmbuf[s] <= Written
      \/ \E n \in Written..nframes_read : s = Slot(n) /\ n < nframes_read
  BY <1>1, <1>3 DEF ContentInv
<1>7. \A n \in Written..nframes_read :
        n < nframes_read => n \in Written..(nframes_read - 1)
  BY <1>1, Bounds DEF SyncInv
<1> QED BY <1>4, <1>5, <1>6, <1>7 DEF Written

\* The fread of encmt_io never replaces the PCM of a frame that enc_frame_write
\* has not written.
THEOREM EncMTNoFrameOverwritten == Spec => NoFrameOverwritten
  BY EncMTSync, InvNoFrameOverwritten, PTL DEF Spec, NoFrameOverwritten

-----------------------------------------------------------------------------
(* What the frames are                                                     *)

StreamVars == <<unread, outfile, nframes_read, nsamples_flat_read_total,
                ni32_perframe>>

\* Only the io thread reads, counts, and writes.
LEMMA StreamFrame ==
  ASSUME [Next]_vars, ~IO
  PROVE  /\ UNCHANGED StreamVars
         /\ io_pc' = io_pc \/ (io_pc = "unborn" /\ io_pc' = "read")
<1> USE DEF file_vars, io_vars, slot_vars, StreamVars
<1>1. ASSUME NEW c \in Coders, MainCreateCoder(c) \/ Coder(c)
      PROVE  UNCHANGED StreamVars /\ io_pc' = io_pc
  BY <1>1 DEF MainCreateCoder, Coder, CoderSetup, CoderWait, CoderLock, CoderPop,
     CoderCheck, CoderEncode, CoderPost, CoderCleanup
<1>2. CASE MainCode \/ MainJoin \/ MainFree \/ ErrorExit
  BY <1>2 DEF MainCode, MainJoin, MainFree, ErrorExit
<1>3. CASE UNCHANGED vars
  BY <1>3 DEF vars
<1>4. CASE MainCreateIO
  BY <1>4 DEF MainCreateIO
<1> QED BY <1>1, <1>2, <1>3, <1>4 DEF Next, Terminated

LEMMA FileKept == [Next]_vars => file' = file
<1> USE DEF file_vars
<1>1. ASSUME NEW c \in Coders, MainCreateCoder(c) \/ Coder(c)
      PROVE  file' = file
  BY <1>1 DEF MainCreateCoder, Coder, CoderSetup, CoderWait, CoderLock, CoderPop,
     CoderCheck, CoderEncode, CoderPost, CoderCleanup
<1>2. MainCreateIO \/ MainCode \/ MainJoin \/ MainFree \/ ErrorExit
        => file' = file
  BY DEF MainCreateIO, MainCode, MainJoin, MainFree, ErrorExit
<1>3. IO => file' = file
  BY DEF IO, Loop0Read, Loop0Post, Loop0Wait, Loop0Write, Loop0Done, TinyPost,
     Loop1Wait, Loop1Write, Loop1Post, IOGoes
<1>4. UNCHANGED vars => file' = file
  BY DEF vars
<1> QED BY <1>1, <1>2, <1>3, <1>4 DEF Next, Terminated

LEMMA StreamTypes ==
  ASSUME TypeOK
  PROVE  /\ file \in File /\ file.avail \in Nat /\ file.decpcm_size \in Nat
         /\ readlen \in Nat /\ unread \in Nat /\ nframes_read \in Nat
         /\ nsamples_flat_read_total \in Nat
         /\ NFrames(file) \in Nat /\ Written \in Nat
         /\ FullFrame \in Nat \ {0}
<1>1. /\ file \in File /\ file.avail \in Nat /\ file.decpcm_size \in Nat
      /\ nsamples_flat_read_total \in Nat /\ nframes_read \in Nat
      /\ unread \in Nat
  BY FilesAssumption DEF TypeOK, File
<1> QED BY <1>1, ReadlenType, FramesAre, FullFrameType, WrittenType
        DEF readlen

\* The slots of the frames in the ring, before the last is read.
LEMMA SlotsInRing ==
  ASSUME TypeOK
  PROVE  \A n \in Written..nframes_read : n \in Nat /\ Slot(n) \in Slots
<1> SUFFICES ASSUME NEW n \in Written..nframes_read
             PROVE  n \in Nat /\ Slot(n) \in Slots
  OBVIOUS
<1>1. n \in Nat
  BY StreamTypes
<1> QED BY <1>1, SlotType

LEMMA StreamInit ==
  ASSUME Init, Fits(file)
  PROVE  ReadInv /\ PrefixInv /\ EndInv
<1>1. /\ file \in File /\ file.avail \in Nat /\ NFrames(file) \in Nat
      /\ Announced(file) \in Nat /\ NSamples(file) \in Nat
      /\ FullFrame \in Nat \ {0} /\ SIZE_MAX \in Nat
  BY TypeInit, StreamTypes, SamplesAre, FormatAssumption, SizeAssumption
<1>2. Written = 0 /\ InRing = {}
  BY DEF Init, Written, InRing
<1>3. 0 # SIZE_MAX
  <2>1. NSamples(file) + FullFrame <= SIZE_MAX \div SampleBytes
    BY <1>1, SamplesFit DEF Fits
  <2>2. 1 * SampleBytes <= SIZE_MAX
    BY <1>1, <2>1, SamplesFit
  <2> QED BY <2>2, FormatAssumption, SizeAssumption, SMT
<1>4. 0 * FullFrame = 0 /\ 0 * SampleBytes = 0
  BY <1>1, FormatAssumption, SizeAssumption, SMT
<1>5. ReadSoFar(file, 0, 0, file.avail)
  BY <1>1, <1>3, <1>4 DEF ReadSoFar, Announced
<1>6. ReadInv
  BY <1>2, <1>5 DEF Init, ReadInv, Late, Loop1Pcs
<1>7. PrefixInv
  BY <1>1, <1>2 DEF PrefixInv
<1>8. EndInv
  BY CodersAssumption DEF Init, EndInv
<1> QED BY <1>6, <1>7, <1>8

\* encmt_io reads the next frame into the slot of its number.
LEMMA ReadKeepsStream ==
  ASSUME SyncInv, ReadInv, PrefixInv, Fits(file), Loop0Read
  PROVE  ReadInv' /\ PrefixInv'
<1> DEFINE m == fread(readlen, unread)
           n == nframes_read
<1>1. TypeOK
  BY DEF SyncInv
<1>2. /\ io_pc = "read" /\ io_pc' = "post0" /\ readlen # 0
      /\ unread' = (IF m < readlen THEN 0 ELSE unread - m * SampleBytes)
      /\ nsamples_flat_read_total'
           = TotalAfter(nsamples_flat_read_total, m, readlen)
      /\ ni32_perframe' = [ni32_perframe EXCEPT ![io_idx]
                              = m + enc_frame_zeropad(m)]
      /\ UNCHANGED <<file, outfile, nframes_read>>
  BY DEF Loop0Read, IOGoes
<1>3. /\ n \in Nat /\ Written \in Nat /\ file \in File
      /\ nsamples_flat_read_total \in Nat /\ unread \in Nat
      /\ NFrames(file) \in Nat
  BY <1>1, StreamTypes
<1>4. ReadSoFar(file, n, nsamples_flat_read_total, unread)
  BY <1>2 DEF ReadInv, Late, Loop1Pcs
<1>5. /\ ReadSoFar(file, n + 1, nsamples_flat_read_total', unread')
      /\ m + enc_frame_zeropad(m)
           = IF n < NFrames(file) THEN InputFrames(file)[n + 1].ni32 ELSE 0
  BY <1>2, <1>3, <1>4, ReadStep DEF readlen
<1>6. Written' = Written /\ InRing' = Written..n
  BY <1>2 DEF Written, InRing
<1>7. ASSUME NEW k \in Written..n
      PROVE  ni32_perframe'[Slot(k)]
               = IF k < NFrames(file) THEN InputFrames(file)[k + 1].ni32 ELSE 0
  <2>1. Slot(k) \in Slots /\ k \in Nat
    BY <1>1, <1>7, SlotsInRing
  <2>2. CASE k = n
    <3>1. Slot(k) = io_idx
      BY <1>2, <2>2, AtRead
    <3>2. ni32_perframe'[Slot(k)] = m + enc_frame_zeropad(m)
      BY <1>1, <1>2, <2>1, <3>1 DEF TypeOK
    <3> QED BY <1>5, <2>2, <3>2
  <2>3. CASE k # n
    <3>1. k \in Written..(n - 1)
      BY <1>3, <1>7, <2>3
    <3>2. Slot(k) # io_idx
      BY <1>2, <3>1, AtRead
    <3>3. ni32_perframe'[Slot(k)] = ni32_perframe[Slot(k)]
      BY <1>1, <1>2, <2>1, <3>2 DEF TypeOK
    <3>4. k \in InRing
      BY <1>2, <3>1 DEF InRing
    <3> QED BY <3>3, <3>4 DEF ReadInv
  <2> QED BY <2>2, <2>3
<1>8. ReadInv'
  <2>1. io_pc' \notin Late
    BY <1>2 DEF Late, Loop1Pcs
  <2> QED BY <1>2, <1>5, <1>6, <1>7, <2>1 DEF ReadInv, Slot
<1>9. PrefixInv'
  BY <1>2, <1>6 DEF PrefixInv
<1> QED BY <1>8, <1>9

\* The io thread goes on with the same frames in the ring.
LEMMA PostKeepsStream ==
  ASSUME SyncInv, ReadInv, PrefixInv,
         Loop0Post \/ Loop0Wait \/ TinyPost \/ Loop1Wait \/ Loop1Post
  PROVE  ReadInv' /\ PrefixInv'
<1>1. TypeOK
  BY DEF SyncInv
<1>2. /\ UNCHANGED <<file, outfile, unread, nsamples_flat_read_total,
                     ni32_perframe>>
      /\ Written' = Written
  BY DEF Loop0Post, Loop0Wait, TinyPost, Loop1Wait, Loop1Post, IOGoes,
         WaitForSlot, slot_vars, Written
<1>3. PrefixInv'
  BY <1>2 DEF PrefixInv
<1>4. nframes_read \in Nat
  BY <1>1 DEF TypeOK
<1>5. CASE Loop0Post
  <2>1. io_pc = "post0" /\ io_pc' \in {"read", "wait0"}
        /\ nframes_read' = nframes_read + 1
    BY <1>5 DEF Loop0Post, IOGoes
  <2>2. InRing' = InRing
    BY <1>2, <1>4, <2>1 DEF InRing
  <2>3. ReadInv'
    BY <1>2, <2>1, <2>2 DEF ReadInv, Late, Loop1Pcs, Slot
  <2> QED BY <1>3, <2>3
<1>6. CASE Loop0Wait
  <2>1. io_pc = "wait0" /\ io_pc' = "write0" /\ nframes_read' = nframes_read
    BY <1>6 DEF Loop0Wait, IOGoes, WaitForSlot
  <2>2. InRing' = InRing
    BY <1>2, <2>1 DEF InRing
  <2>3. ReadInv'
    BY <1>2, <2>1, <2>2 DEF ReadInv, Late, Loop1Pcs, Slot
  <2> QED BY <1>3, <2>3
<1>7. CASE TinyPost \/ Loop1Wait \/ Loop1Post
  <2>1. io_pc \in Late /\ io_pc' \in Late /\ nframes_read' = nframes_read
        /\ io_pc # "post0" /\ io_pc' # "post0"
    BY <1>7 DEF TinyPost, Loop1Wait, Loop1Post, IOGoes, WaitForSlot, Late,
       Loop1Pcs
  <2>2. InRing' = InRing
    BY <1>2, <2>1 DEF InRing
  <2>3. ReadInv'
    BY <1>2, <2>1, <2>2 DEF ReadInv, Slot
  <2> QED BY <1>3, <2>3
<1> QED BY <1>5, <1>6, <1>7

\* When nothing is left to read, every frame has been read.
LEMMA DoneKeepsStream ==
  ASSUME SyncInv, ReadInv, PrefixInv, Fits(file), Loop0Done
  PROVE  ReadInv' /\ PrefixInv'
<1>1. TypeOK
  BY DEF SyncInv
<1>2. /\ io_pc = "read" /\ io_pc' \in Late /\ io_pc' # "post0" /\ readlen = 0
      /\ ni32_perframe' = [ni32_perframe EXCEPT ![io_idx] = 0]
      /\ UNCHANGED <<file, outfile, unread, nframes_read,
                     nsamples_flat_read_total>>
      /\ Written' = Written
  BY DEF Loop0Done, IOGoes, Late, Loop1Pcs, Written
<1>3. /\ nframes_read \in Nat /\ Written \in Nat /\ file \in File
      /\ nsamples_flat_read_total \in Nat /\ unread \in Nat
  BY <1>1, StreamTypes
<1>4. ReadSoFar(file, nframes_read, nsamples_flat_read_total, unread)
  BY <1>2 DEF ReadInv, Late, Loop1Pcs
<1>5. \/ nframes_read = NFrames(file)
      \/ nframes_read = NFrames(file) + 1 /\ CutAtFrameBoundary(file)
  BY <1>2, <1>3, <1>4, ReadEnds DEF readlen
<1>6. InRing' = InRing /\ InRing = Written..(nframes_read - 1)
  BY <1>2 DEF InRing
<1>7. ASSUME NEW k \in InRing
      PROVE  ni32_perframe'[Slot(k)] = ni32_perframe[Slot(k)]
  <2>1. k \in Written..nframes_read /\ Slot(k) # io_idx
    BY <1>2, <1>3, <1>6, <1>7, AtRead
  <2>2. Slot(k) \in Slots
    BY <1>1, <2>1, SlotsInRing
  <2> QED BY <1>1, <1>2, <2>1, <2>2 DEF TypeOK
<1>8. ReadInv'
  BY <1>2, <1>5, <1>6, <1>7 DEF ReadInv, Slot
<1>9. PrefixInv'
  BY <1>2 DEF PrefixInv
<1> QED BY <1>8, <1>9

\* The slot that encmt_io writes holds the next frame of the input.
LEMMA SlotHoldsNext ==
  ASSUME SyncInv, ReadInv, io_pc \in Writing
  PROVE  /\ Written < NFrames(file)
         /\ ttabuf[io_idx] = InputFrames(file)[Written + 1]
<1>1. TypeOK /\ RingInv /\ HandoverInv /\ ContentInv
  BY DEF SyncInv
<1>2. Written \in Nat /\ nframes_read \in Nat /\ file \in File
      /\ NFrames(file) \in Nat
  BY <1>1, StreamTypes
<1>3. io_idx = Slot(Written) /\ Written < nframes_read
  BY <1>1, <1>2, QueueLenNat DEF RingInv, Writing, Loop1Pcs
<1>4. Written \in Written..(nframes_read - 1) /\ Written \in InRing
  BY <1>2, <1>3 DEF InRing, Writing
<1>5. Coded(io_idx) /\ ni32_perframe[io_idx] # 0
  BY <1>1 DEF HandoverInv
<1>6. pcmbuf[io_idx] = Written + 1
  BY <1>1, <1>3, <1>4, <1>5 DEF ContentInv
<1>7. ni32_perframe[io_idx]
        = IF Written < NFrames(file) THEN InputFrames(file)[Written + 1].ni32
          ELSE 0
  BY <1>3, <1>4 DEF ReadInv
<1>8. Written < NFrames(file)
  BY <1>5, <1>7
<1>9. InputFrames(file)[Written + 1]
        = [frame |-> Written + 1,
           ni32  |-> InputFrames(file)[Written + 1].ni32]
  BY <1>2, <1>8, FrameFields
<1> QED BY <1>5, <1>6, <1>7, <1>8, <1>9 DEF Coded

LEMMA WriteKeepsStream ==
  ASSUME SyncInv, ReadInv, PrefixInv, Loop0Write \/ Loop1Write
  PROVE  ReadInv' /\ PrefixInv'
<1>1. TypeOK /\ RingInv
  BY DEF SyncInv
<1>2. /\ io_pc \in Writing
      /\ \/ io_pc = "write0" /\ io_pc' = "read"
            /\ ni32_perframe' = ni32_perframe
         \/ io_pc = "write1" /\ io_pc' = "post1"
            /\ ni32_perframe' = [ni32_perframe EXCEPT ![io_idx] = 0]
      /\ UNCHANGED <<file, unread, nframes_read, nsamples_flat_read_total>>
      /\ enc_frame_write
  BY DEF Loop0Write, Loop1Write, IOGoes, Writing, slot_vars
<1>3. /\ Written < NFrames(file)
      /\ ttabuf[io_idx] = InputFrames(file)[Written + 1]
  BY <1>2, SlotHoldsNext
<1>4. /\ Written' = Written + 1
      /\ Written \in Nat /\ nframes_read \in Nat /\ NFrames(file) \in Nat
  BY <1>1, <1>2, WrittenWrite, StreamTypes
<1>5. io_idx = Slot(Written) /\ Written < nframes_read
      /\ nframes_read <= Written + QueueLen
  BY <1>1, <1>2, <1>4, QueueLenNat DEF RingInv, Writing, Loop1Pcs, TypeOK
<1>6. InRing' = (Written + 1)..(nframes_read - 1)
  BY <1>2, <1>4 DEF InRing
<1>7. ASSUME NEW k \in InRing'
      PROVE  k \in InRing /\ ni32_perframe'[Slot(k)] = ni32_perframe[Slot(k)]
  <2>1. k \in Nat /\ Written < k /\ k < Written + QueueLen
        /\ k \in Written..nframes_read
    BY <1>4, <1>5, <1>6, <1>7, QueueLenNat
  <2>2. Slot(k) # io_idx /\ Slot(k) \in Slots
    BY <1>1, <1>4, <1>5, <2>1, SlotDistinct, SlotsInRing
  <2>3. k \in InRing
    BY <1>2, <1>4, <1>6, <1>7 DEF InRing, Writing
  <2> QED BY <1>1, <1>2, <2>2, <2>3 DEF TypeOK
<1>8. ReadInv'
  <2>1. io_pc \in Late <=> io_pc' \in Late
    BY <1>2 DEF Late, Loop1Pcs
  <2>2. io_pc # "post0" /\ io_pc' # "post0"
    BY <1>2
  <2> QED BY <1>2, <1>7, <2>1, <2>2 DEF ReadInv, Slot
<1>9. PrefixInv'
  <2>1. ASSUME NEW i \in 1..(Written + 1)
        PROVE  outfile'[i] = InputFrames(file)[i]
    <3>1. outfile \in Seq(Frame) /\ ttabuf[io_idx] \in Frame
          /\ outfile' = Append(outfile, ttabuf[io_idx])
      BY <1>1, <1>2 DEF TypeOK, enc_frame_write
    <3>2. CASE i = Written + 1
      BY <1>3, <3>1, <3>2 DEF Written
    <3>3. CASE i # Written + 1
      <4>1. i \in 1..Written
        BY <1>4, <3>3
      <4>2. outfile'[i] = outfile[i]
        BY <3>1, <4>1 DEF Written
      <4> QED BY <4>1, <4>2 DEF PrefixInv
    <3> QED BY <3>2, <3>3
  <2>2. Written + 1 <= NFrames(file)
    BY <1>3, <1>4
  <2> QED BY <1>2, <1>4, <2>1, <2>2 DEF PrefixInv
<1> QED BY <1>8, <1>9

\* Once it has found that there is no more to read the io thread goes on to
\* its end, and there it stays.
LEMMA LateStays ==
  ASSUME [Next]_vars
  PROVE  /\ io_pc \in Late => io_pc' \in Late
         /\ io_pc = "done" => io_pc' = "done"
<1>1. CASE IO
  BY <1>1 DEF IO, Loop0Read, Loop0Post, Loop0Wait, Loop0Write, Loop0Done,
     TinyPost, Loop1Wait, Loop1Write, Loop1Post, IOGoes, Late, Loop1Pcs
<1>2. CASE ~IO
  BY <1>2, StreamFrame DEF Late, Loop1Pcs
<1> QED BY <1>1, <1>2

\* The number that a coder takes for the end of an encodable input is not that
\* of a frame, so it was posted after everything was read.
LEMMA StopIsLate ==
  ASSUME SyncInv, ReadInv, Encodable, NEW c \in Coders,
         coder_pc[c] = "check", ni32_perframe[coder_idx[c]] = 0
  PROVE  io_pc \in Late
<1>1. TypeOK /\ RingInv /\ QueueInv /\ CoderInv
  BY DEF SyncInv
<1>2. /\ Written \in Nat /\ nframes_read \in Nat /\ Popped \in Nat
      /\ Posted \in Nat /\ Popped <= Posted /\ NFrames(file) \in Nat
  BY <1>1, Bounds, StreamTypes
<1>3. PICK q \in Written..(Popped - 1) : coder_idx[c] = Slot(q)
  BY <1>1 DEF CoderInv, Busy
<1> SUFFICES ASSUME io_pc \notin Late PROVE FALSE
  OBVIOUS
<1>4. Posted = nframes_read
  BY DEF Posted, Late
<1>5. q \in InRing /\ q < nframes_read /\ q \in Nat
  BY <1>2, <1>3, <1>4 DEF InRing
<1>6. ~(q < NFrames(file)) \/ InputFrames(file)[q + 1].ni32 = 0
  BY <1>3, <1>5 DEF ReadInv
<1>7. q < NFrames(file)
  <2>1. ReadSoFar(file, IF io_pc = "post0" THEN nframes_read + 1
                        ELSE nframes_read,
                  nsamples_flat_read_total, unread)
    BY DEF ReadInv
  <2>2. nframes_read <= NFrames(file)
    BY <1>2, <2>1 DEF ReadSoFar, Encodable
  <2> QED BY <1>2, <1>5, <2>2
<1>8. InputFrames(file)[q + 1].ni32 # 0
  BY <1>1, <1>5, <1>7, StreamTypes, FrameNotEmpty
<1> QED BY <1>6, <1>7, <1>8

LEMMA EndKept ==
  ASSUME SyncInv, ReadInv, EndInv, [Next]_vars
  PROVE  EndInv'
<1>1. TypeOK /\ file' = file
  BY FileKept DEF SyncInv
<1>2. ASSUME coder_pc'[Main] \in {"free", "returned"}
      PROVE  io_pc' = "done"
  <2>1. CASE coder_pc[Main] \in {"free", "returned"}
    BY <2>1, LateStays DEF EndInv
  <2>2. CASE coder_pc[Main] \notin {"free", "returned"}
    <3>1. Main \in Coders
      BY CodersAssumption
    <3>2. ~IO
      BY <1>2, <2>2 DEF IO, Loop0Read, Loop0Post, Loop0Wait, Loop0Write,
         Loop0Done, TinyPost, Loop1Wait, Loop1Write, Loop1Post, IOGoes,
         coder_vars
    <3>3. ASSUME NEW c \in Coders, MainCreateCoder(c) \/ Coder(c)
          PROVE  FALSE
      BY <1>1, <1>2, <2>2, <3>1, <3>3 DEF TypeOK, MainCreateCoder, Coder,
         CoderSetup, CoderWait, CoderLock, CoderPop, CoderCheck, CoderEncode,
         CoderPost, CoderCleanup, CoderGoes
    <3>4. ~(MainCreateIO \/ MainCode \/ MainFree)
      BY <1>1, <1>2, <2>2, <3>1 DEF TypeOK, MainCreateIO, MainCode, MainFree,
         CoderGoes
    <3>5. ~(ErrorExit \/ UNCHANGED vars)
      BY <1>2, <2>2 DEF ErrorExit, vars, coder_vars
    <3>6. MainJoin
      BY <3>2, <3>3, <3>4, <3>5 DEF Next, Terminated
    <3> QED BY <3>6 DEF MainJoin, io_vars
  <2> QED BY <2>1, <2>2
<1>3. ASSUME Encodable', NEW c \in Coders,
             coder_pc'[c] \in {"cleanup", "gone", "join", "free", "returned"}
      PROVE  io_pc' \in Late
  <2>1. Encodable
    BY <1>1, <1>3 DEF Encodable
  <2>2. CASE coder_pc[c] \in {"cleanup", "gone", "join", "free", "returned"}
    BY <2>1, <2>2, LateStays DEF EndInv
  <2>3. CASE coder_pc[c] \notin {"cleanup", "gone", "join", "free", "returned"}
    <3>1. ~IO
      BY <1>3, <2>3 DEF IO, Loop0Read, Loop0Post, Loop0Wait, Loop0Write,
         Loop0Done, TinyPost, Loop1Wait, Loop1Write, Loop1Post, IOGoes,
         coder_vars
    <3>2. ~(MainCreateIO \/ MainCode \/ MainJoin \/ MainFree)
      BY <1>1, <1>3, <2>3 DEF TypeOK, MainCreateIO, MainCode, MainJoin,
         MainFree, CoderGoes
    <3>3. ~(ErrorExit \/ UNCHANGED vars)
      BY <1>3, <2>3 DEF ErrorExit, vars, coder_vars
    <3>4. PICK d \in Coders : MainCreateCoder(d) \/ Coder(d)
      BY <3>1, <3>2, <3>3 DEF Next, Terminated
    <3>5. CoderCheck(d) /\ d = c
      BY <1>1, <1>3, <2>3, <3>4 DEF TypeOK, MainCreateCoder, Coder,
         CoderSetup, CoderWait, CoderLock, CoderPop, CoderCheck, CoderEncode,
         CoderPost, CoderCleanup, CoderGoes
    <3>6. coder_pc[c] = "check" /\ ni32_perframe[coder_idx[c]] = 0
      BY <1>1, <1>3, <3>5 DEF TypeOK, CoderCheck, CoderGoes
    <3>7. io_pc \in Late
      BY <2>1, <3>6, StopIsLate
    <3> QED BY <3>7, LateStays
  <2> QED BY <2>2, <2>3
<1> QED BY <1>2, <1>3 DEF EndInv

LEMMA StreamKept ==
  ASSUME SyncInv, StreamInv, [Next]_vars
  PROVE  StreamInv'
<1> SUFFICES ASSUME Fits(file)'
             PROVE  ReadInv' /\ PrefixInv' /\ EndInv'
  BY DEF StreamInv
<1>1. Fits(file) /\ file' = file
  BY FileKept
<1>2. ReadInv /\ PrefixInv /\ EndInv
  BY <1>1 DEF StreamInv
<1>3. CASE IO
  BY <1>1, <1>2, <1>3, ReadKeepsStream, PostKeepsStream, WriteKeepsStream,
     DoneKeepsStream, EndKept DEF IO
<1>4. CASE ~IO
  <2>1. /\ UNCHANGED StreamVars
        /\ io_pc' = io_pc \/ (io_pc = "unborn" /\ io_pc' = "read")
    BY <1>4, StreamFrame
  <2>2. InRing' = InRing /\ Written' = Written
    BY <2>1 DEF InRing, Written, StreamVars
  <2>3. ReadInv' /\ PrefixInv'
    BY <1>1, <1>2, <2>1, <2>2
       DEF ReadInv, PrefixInv, StreamVars, Late, Loop1Pcs, Slot
  <2> QED BY <1>2, <2>3, EndKept
<1> QED BY <1>3, <1>4

LEMMA InvInit == Init => IInv
  BY SyncInit, StreamInit DEF IInv, StreamInv

LEMMA InvStep == IInv /\ [Next]_vars => IInv'
  BY SyncStep, StreamKept DEF IInv

\* The inductive invariant holds of every reachable state: the threads keep to
\* the protocol of the ring, and the frames in it are those of the input.
THEOREM EncMTInvariant == Spec => []IInv
  BY InvInit, InvStep, PTL DEF Spec

LEMMA InvNoEarlyStop == FilesFit /\ IInv => NoEarlyStop
<1> SUFFICES ASSUME FilesFit, IInv, Encodable, NEW c \in Coders,
                    coder_pc[c] \in {"cleanup", "gone", "join", "free",
                                     "returned"}
             PROVE  nframes_read = NFrames(file)
  BY DEF NoEarlyStop
<1>1. ReadInv /\ EndInv
  BY DEF FilesFit, IInv, StreamInv, SyncInv, TypeOK
<1>2. io_pc \in Late
  BY <1>1 DEF EndInv
<1> QED BY <1>1, <1>2 DEF ReadInv, Encodable

\* No coder takes a slot that is not filled yet for the end of the input: when
\* one stops, all the frames are read, if the sizes of the files do not wrap.
THEOREM EncMTNoEarlyStop == FilesFit => (Spec => []NoEarlyStop)
<1> SUFFICES ASSUME FilesFit PROVE Spec => []NoEarlyStop
  OBVIOUS
<1>1. IInv => NoEarlyStop
  BY InvNoEarlyStop
<1> QED BY <1>1, EncMTInvariant, PTL

-----------------------------------------------------------------------------
(* The refinement                                                          *)

\* When the shared state is freed all the frames are written.
LEMMA AllWritten ==
  ASSUME IInv, Fits(file), coder_pc[Main] \in {"free", "returned"}
  PROVE  outfile = InputFrames(file)
<1>1. TypeOK /\ RingInv /\ ReadInv /\ PrefixInv /\ EndInv
  BY DEF IInv, StreamInv, SyncInv
<1>2. io_pc = "done" /\ Written = nframes_read
  BY <1>1 DEF EndInv, RingInv
<1>3. /\ nframes_read \in Nat /\ NFrames(file) \in Nat /\ file \in File
      /\ outfile \in Seq(Frame)
  BY <1>1, StreamTypes DEF TypeOK
<1>4. nframes_read >= NFrames(file)
  BY <1>1, <1>2, <1>3 DEF ReadInv, Late, Loop1Pcs
<1>5. Len(outfile) = NFrames(file)
  BY <1>1, <1>2, <1>3, <1>4 DEF PrefixInv, Written
<1> QED BY <1>1, <1>3, <1>5, InputFramesType DEF PrefixInv, Written

\* The steps that the promise does not see.
LEMMA StreamStutters ==
  ASSUME TypeOK, [Next]_vars, ~Loop0Write, ~Loop1Write, ~MainFree, ~ErrorExit
  PROVE  UNCHANGED Stream!vars
<1>1. file' = file
  BY FileKept
<1>2. outfile' = outfile /\ process' = process
  <2> USE DEF file_vars
  <2>1. ASSUME NEW c \in Coders, MainCreateCoder(c) \/ Coder(c)
        PROVE  outfile' = outfile /\ process' = process
    BY <2>1 DEF MainCreateCoder, Coder, CoderSetup, CoderWait, CoderLock,
       CoderPop, CoderCheck, CoderEncode, CoderPost, CoderCleanup, CoderGoes
  <2>2. CASE MainCreateIO \/ MainCode \/ MainJoin
    BY <2>2 DEF MainCreateIO, MainCode, MainJoin, CoderGoes
  <2>3. CASE IO
    BY <2>3 DEF IO, Loop0Read, Loop0Post, Loop0Wait, Loop0Done, TinyPost,
       Loop1Wait, Loop1Post, IOGoes, WaitForSlot
  <2>4. CASE UNCHANGED vars
    BY <2>4 DEF vars
  <2> QED BY <2>1, <2>2, <2>3, <2>4 DEF Next, Terminated
<1>3. (coder_pc'[Main] = "returned") <=> (coder_pc[Main] = "returned")
  <2>1. Main \in Coders
    BY CodersAssumption
  <2>2. ASSUME NEW c \in Coders, MainCreateCoder(c) \/ Coder(c)
        PROVE  (coder_pc'[Main] = "returned") <=> (coder_pc[Main] = "returned")
    BY <2>1, <2>2 DEF TypeOK, MainCreateCoder, Coder, CoderSetup, CoderWait,
       CoderLock, CoderPop, CoderCheck, CoderEncode, CoderPost, CoderCleanup,
       CoderGoes
  <2>3. CASE MainCreateIO \/ MainCode \/ MainJoin
    BY <2>1, <2>3 DEF TypeOK, MainCreateIO, MainCode, MainJoin, CoderGoes
  <2>4. CASE IO
    BY <2>4 DEF IO, Loop0Read, Loop0Post, Loop0Wait, Loop0Done, TinyPost,
       Loop1Wait, Loop1Post, IOGoes, coder_vars
  <2>5. CASE UNCHANGED vars
    BY <2>5 DEF vars, coder_vars
  <2> QED BY <2>2, <2>3, <2>4, <2>5 DEF Next, Terminated
<1> QED BY <1>1, <1>2, <1>3 DEF Stream!vars

LEMMA WriteDelivers ==
  ASSUME IInv, Fits(file), Loop0Write \/ Loop1Write
  PROVE  Stream!Deliver
<1>1. TypeOK /\ SyncInv /\ ReadInv
  BY DEF IInv, StreamInv, SyncInv
<1>2. /\ io_pc \in Writing /\ Running
      /\ UNCHANGED <<process, file, coder_pc>>
      /\ outfile' = Append(outfile, ttabuf[io_idx])
  BY DEF Loop0Write, Loop1Write, IOGoes, Writing, enc_frame_write, coder_vars
<1>3. Written < NFrames(file) /\ ttabuf[io_idx] = InputFrames(file)[Written + 1]
  BY <1>1, <1>2, SlotHoldsNext
<1>4. Len(InputFrames(file)) = NFrames(file)
  BY <1>1, StreamTypes, InputFramesType
<1> QED BY <1>2, <1>3, <1>4 DEF Stream!Deliver, Running, Written

LEMMA FreeCloses ==
  ASSUME IInv, Fits(file), MainFree
  PROVE  Stream!Close
<1>1. TypeOK /\ Main \in Coders
  BY CodersAssumption DEF IInv, SyncInv
<1>2. /\ Running /\ coder_pc[Main] = "free" /\ coder_pc'[Main] = "returned"
      /\ UNCHANGED <<process, file, outfile>>
  BY <1>1 DEF MainFree, CoderGoes, file_vars, TypeOK
<1>3. outfile = InputFrames(file)
  BY <1>2, AllWritten
<1> QED BY <1>2, <1>3 DEF Stream!Close, Running

LEMMA ErrorAbandons ==
  ASSUME ErrorExit
  PROVE  Stream!Abandon
  BY DEF ErrorExit, Running, file_vars, Stream!Abandon

LEMMA StreamStep ==
  FilesFit /\ IInv /\ [Next]_vars => [Stream!Next]_(Stream!vars)
<1> SUFFICES ASSUME FilesFit, IInv, [Next]_vars
             PROVE  Stream!Next \/ UNCHANGED Stream!vars
  OBVIOUS
<1>1. TypeOK /\ Fits(file)
  BY DEF FilesFit, IInv, SyncInv, TypeOK
<1> QED BY <1>1, StreamStutters, WriteDelivers, FreeCloses, ErrorAbandons
        DEF Stream!Next

LEMMA StreamStart == Init => Stream!Init
  BY CodersAssumption DEF Init, Stream!Init

\* encmt_loop implements FrameStream on every interleaving of any number of
\* coders over any ring that is longer: the frames of the input are written in
\* their order, each once, and it returns only when all of them are.
THEOREM EncMTWritesInputInOrder == FilesFit => (Spec => WritesInputInOrder)
<1> SUFFICES ASSUME FilesFit PROVE Spec => WritesInputInOrder
  OBVIOUS
<1>1. IInv /\ [Next]_vars => [Stream!Next]_(Stream!vars)
  BY StreamStep
<1> QED BY <1>1, StreamStart, EncMTInvariant, PTL
        DEF Spec, WritesInputInOrder, Stream!Spec

=============================================================================
