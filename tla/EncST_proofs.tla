---------------------------- MODULE EncST_proofs ----------------------------
(***************************************************************************)
(* The sequential encoder writes the frames of its input, in order, for    *)
(* every PCM format and every set of files whose sizes size_t can hold.    *)
(***************************************************************************)
EXTENDS EncST, Frames_proofs

LEMMA InvInit == Init => IInv
<1> SUFFICES ASSUME Init PROVE IInv
  OBVIOUS
<1>1. file \in Files /\ file \in File /\ file.avail \in Nat
      /\ file.decpcm_size \in Nat
  BY FilesAssumption DEF Init, File
<1>2. Types
  BY <1>1 DEF Init, Types, NoFrame, Frame
<1>3. ASSUME Fits(file)
      PROVE  ReadInv /\ PrefixInv
  <2>1. NFrames(file) \in Nat /\ Announced(file) \in Nat
    BY <1>1, FramesAre, SamplesAre
  <2>2. 0 * FullFrame = 0 /\ 0 * SampleBytes = 0 /\ 0 <= file.avail
        /\ file.avail - 0 = file.avail
    BY <1>1, FullFrameType, FormatAssumption, SizeAssumption, SMT
  <2>3. 0 # SIZE_MAX
    <3>1. FullFrame \in Nat \ {0} /\ NSamples(file) \in Nat /\ SIZE_MAX \in Nat
      BY <1>1, FullFrameType, SamplesAre, FormatAssumption, SizeAssumption
    <3>2. NSamples(file) + FullFrame <= SIZE_MAX \div SampleBytes
      BY <1>3, <3>1, SamplesFit DEF Fits
    <3>3. SIZE_MAX \div SampleBytes # 0
      BY <3>1, <3>2, SamplesFit
    <3>4. 1 * SampleBytes <= SIZE_MAX
      BY <3>1, <3>2, SamplesFit
    <3> QED BY <3>4, FormatAssumption, SizeAssumption, SMT
  <2>4. ReadSoFar(file, 0, 0, file.avail)
    BY <2>1, <2>2, <2>3 DEF ReadSoFar, Announced
  <2> QED BY <2>1, <2>4 DEF Init, ReadInv, PrefixInv
<1> QED BY <1>2, <1>3 DEF Init, IInv

LEMMA ReadTypes ==
  ASSUME Types
  PROVE  /\ file \in File /\ file.avail \in Nat /\ file.decpcm_size \in Nat
         /\ readlen \in Nat
         /\ NFrames(file) \in Nat
         /\ FullFrame \in Nat \ {0}
<1>1. file \in File /\ file.avail \in Nat /\ file.decpcm_size \in Nat
  BY FilesAssumption DEF Types, File
<1> QED BY <1>1, ReadlenType, FramesAre, FullFrameType DEF Types, readlen

\* A read of the next frame.
LEMMA ReadPreserves == IInv /\ Read => IInv'
<1> SUFFICES ASSUME IInv, Read PROVE IInv'
  OBVIOUS
<1> DEFINE m == fread(readlen, unread)
<1>1. /\ Types
      /\ file \in File /\ file.avail \in Nat /\ file.decpcm_size \in Nat
      /\ readlen \in Nat /\ NFrames(file) \in Nat
  BY ReadTypes DEF IInv
<1>2. /\ readlen # 0 /\ process = "running" /\ pc = "read" /\ pc' = "encode"
      /\ unread' = (IF m < readlen THEN 0 ELSE unread - m * SampleBytes)
      /\ nsamples_flat_read_total'
           = TotalAfter(nsamples_flat_read_total, m, readlen)
      /\ ni32_perframe' = m + enc_frame_zeropad(m)
      /\ pcmbuf' = (IF m = 0 THEN pcmbuf ELSE nframes_read + 1)
      /\ UNCHANGED <<file, process, outfile, nframes_read, ttabuf, enc_retval>>
  BY DEF Read, Goes
<1>3. m \in Nat /\ unread' \in Nat /\ ni32_perframe' \in Nat
      /\ nsamples_flat_read_total' \in Nat
  <2>1. m \in Nat /\ unread - m * SampleBytes \in Nat
    BY <1>1, FreadType DEF Types
  <2>2. enc_frame_zeropad(m) \in Nat
    BY <2>1, ZeropadType
  <2>3. nsamples_flat_read_total + m \in Nat
    BY <1>1, <2>1 DEF Types
  <2>4. SizeT(nsamples_flat_read_total + m) \in Nat /\ SIZE_MAX \in Nat
    BY <2>3, SizeTType, FormatAssumption, SizeAssumption
  <2> HIDE DEF m
  <2> QED BY <1>2, <2>1, <2>2, <2>4 DEF TotalAfter
<1>4. Types'
  BY <1>1, <1>2, <1>3 DEF Types
<1>5. ASSUME Fits(file)
      PROVE  ReadInv' /\ PrefixInv'
  <2>1. ReadInv /\ PrefixInv
    BY <1>5 DEF IInv
  <2>2. nframes_read \in Nat /\ nsamples_flat_read_total \in Nat /\ unread \in Nat
    BY <1>1 DEF Types
  <2>3. ReadSoFar(file, nframes_read, nsamples_flat_read_total, unread)
    BY <1>2, <2>1 DEF ReadInv
  <2>4. /\ ReadSoFar(file, nframes_read + 1, nsamples_flat_read_total', unread')
        /\ m # 0 <=> nframes_read < NFrames(file)
        /\ m + enc_frame_zeropad(m)
             = IF nframes_read < NFrames(file)
               THEN InputFrames(file)[nframes_read + 1].ni32 ELSE 0
        /\ \/ nframes_read < NFrames(file)
           \/ nframes_read = NFrames(file) /\ CutAtFrameBoundary(file)
    BY <1>1, <1>2, <1>5, <2>2, <2>3, ReadStep DEF readlen
  <2>5. Another => InputFrames(file)[nframes_read + 1]
                     = [frame |-> pcmbuf', ni32 |-> ni32_perframe']
    BY <1>1, <1>2, <2>2, <2>4, FrameFields DEF Another
  <2>6. m + enc_frame_zeropad(m) = 0 <=> m = 0
    BY <1>3, ZeropadCompletes
  <2>7. /\ ni32_perframe' # 0 <=> Another
        /\ Another \/ CutAtFrameBoundary(file)
    BY <1>2, <2>4, <2>6 DEF Another
  <2>8. Another' = Another
    BY <1>2 DEF Another
  <2>9. ReadInv'
    BY <1>2, <2>1, <2>4, <2>5, <2>7, <2>8 DEF ReadInv
  <2> QED BY <1>2, <2>1, <2>9 DEF PrefixInv
<1> QED BY <1>2, <1>4, <1>5 DEF IInv

\* enc_frame_encode, which refuses the frame of no samples.
LEMMA EncodePreserves == IInv /\ Encode => IInv'
<1> SUFFICES ASSUME IInv, Encode PROVE IInv'
  OBVIOUS
<1>1. /\ process = "running" /\ pc = "encode" /\ pc' = "write"
      /\ UNCHANGED <<file, process, unread, outfile, nframes_read,
                     nsamples_flat_read_total, ni32_perframe, pcmbuf>>
      /\ IF ni32_perframe # 0
         THEN /\ enc_retval' = "OK_DONE"
              /\ ttabuf' = [frame |-> pcmbuf, ni32 |-> ni32_perframe]
         ELSE enc_retval' = "INVAL_RANGE" /\ ttabuf' = NoFrame
  BY DEF Encode, Goes
<1>2. Types'
  <2>1. ttabuf' \in Frame
    BY <1>1 DEF IInv, Types, Frame, NoFrame
  <2> QED BY <1>1, <2>1 DEF IInv, Types
<1>3. ASSUME Fits(file)
      PROVE  ReadInv' /\ PrefixInv'
  <2>1. ReadInv /\ PrefixInv
    BY <1>3 DEF IInv
  <2>2. Another' = Another
    BY <1>1 DEF Another
  <2>3. /\ enc_retval' = "OK_DONE" <=> Another
        /\ Another => ttabuf' = InputFrames(file)[nframes_read + 1]
    BY <1>1, <2>1 DEF ReadInv
  <2>4. ReadInv'
    BY <1>1, <2>1, <2>2, <2>3 DEF ReadInv
  <2> QED BY <1>1, <2>1, <2>4 DEF PrefixInv
<1> QED BY <1>1, <1>2, <1>3 DEF IInv

\* Where the next frame is written it is the next of the input.
LEMMA WritesNext ==
  ASSUME IInv, Write, Fits(file)
  PROVE  /\ Another
         /\ ttabuf = InputFrames(file)[Len(outfile) + 1]
         /\ Len(outfile) = nframes_read
  BY DEF IInv, ReadInv, PrefixInv, Write, Goes

\* enc_frame_write
LEMMA WritePreserves == IInv /\ Write => IInv'
<1> SUFFICES ASSUME IInv, Write PROVE IInv'
  OBVIOUS
<1>1. /\ process = "running" /\ pc = "write" /\ pc' = "read"
      /\ outfile' = Append(outfile, ttabuf)
      /\ nframes_read' = nframes_read + 1
      /\ UNCHANGED <<file, process, unread, nsamples_flat_read_total,
                     ni32_perframe, pcmbuf, ttabuf, enc_retval>>
  BY DEF Write, Goes
<1>2. /\ nframes_read \in Nat /\ outfile \in Seq(Frame) /\ ttabuf \in Frame
      /\ NFrames(file) \in Nat
  BY ReadTypes DEF IInv, Types
<1>3. Types'
  <2>1. outfile' \in Seq(Frame)
    BY <1>1, <1>2
  <2> QED BY <1>1, <1>2, <2>1 DEF IInv, Types
<1>4. ASSUME Fits(file)
      PROVE  ReadInv' /\ PrefixInv'
  <2>1. ReadInv /\ PrefixInv
    BY <1>4 DEF IInv
  <2>2. /\ nframes_read < NFrames(file)
        /\ ttabuf = InputFrames(file)[nframes_read + 1]
        /\ Len(outfile) = nframes_read
    BY <1>4, WritesNext DEF Another
  <2>3. ReadSoFar(file, nframes_read + 1, nsamples_flat_read_total, unread)
    BY <1>1, <2>1 DEF ReadInv
  <2>4. nframes_read' <= NFrames(file)
    BY <1>1, <1>2, <2>2
  <2>5. ReadInv'
    BY <1>1, <2>3, <2>4 DEF ReadInv
  <2>6. Len(outfile') = nframes_read + 1
    BY <1>1, <1>2, <2>2
  <2>7. ASSUME NEW i \in 1..(nframes_read + 1)
        PROVE  outfile'[i] = InputFrames(file)[i]
    <3>1. CASE i = nframes_read + 1
      BY <1>1, <1>2, <2>2, <3>1
    <3>2. CASE i # nframes_read + 1
      <4>1. i \in 1..nframes_read
        BY <1>2, <3>2
      <4>2. outfile'[i] = outfile[i]
        BY <1>1, <1>2, <2>2, <4>1
      <4> QED BY <2>1, <4>1, <4>2 DEF PrefixInv
    <3> QED BY <3>1, <3>2
  <2>8. PrefixInv'
    BY <1>1, <2>6, <2>7 DEF PrefixInv
  <2> QED BY <2>5, <2>8
<1> QED BY <1>1, <1>3, <1>4 DEF IInv

\* The loop returns when there is no frame left.
LEMMA ReturnsAtEnd ==
  ASSUME IInv, Return, Fits(file)
  PROVE  ~Another
<1>1. /\ ReadSoFar(file, nframes_read, nsamples_flat_read_total, unread)
      /\ nframes_read <= NFrames(file)
      /\ enc_readlen(nsamples_flat_read_total, file.decpcm_size) = 0
  BY DEF IInv, ReadInv, Return, Goes, readlen
<1>2. /\ nframes_read \in Nat /\ nsamples_flat_read_total \in Nat
      /\ unread \in Nat /\ file \in File /\ NFrames(file) \in Nat
  BY ReadTypes DEF IInv, Types
<1>3. nframes_read = NFrames(file) \/ nframes_read = NFrames(file) + 1
  BY <1>1, <1>2, ReadEnds
<1> QED BY <1>1, <1>2, <1>3 DEF Another

LEMMA InvStep == IInv /\ [Next]_vars => IInv'
<1> SUFFICES ASSUME IInv, [Next]_vars PROVE IInv'
  OBVIOUS
<1>1. CASE Setup
  BY <1>1 DEF Setup, Goes, IInv, Types, ReadInv, PrefixInv, Another
<1>2. CASE Read
  BY <1>2, ReadPreserves
<1>3. CASE Encode
  BY <1>3, EncodePreserves
<1>4. CASE Write
  BY <1>4, WritePreserves
<1>5. CASE Reject
  BY <1>5 DEF Reject, Goes, IInv, Types, ReadInv, PrefixInv, Another
<1>6. CASE Return
  <2>1. Fits(file) => ~Another
    BY <1>6, ReturnsAtEnd
  <2> QED BY <1>6, <2>1 DEF Return, Goes, IInv, Types, ReadInv, PrefixInv,
             Another
<1>7. CASE ErrorExit
  BY <1>7 DEF ErrorExit, IInv, Types, ReadInv, PrefixInv, Another
<1>8. CASE Terminated \/ UNCHANGED vars
  BY <1>8 DEF Terminated, vars, IInv, Types, ReadInv, PrefixInv, Another
<1> QED BY <1>1, <1>2, <1>3, <1>4, <1>5, <1>6, <1>7, <1>8 DEF Next

\* What encst_loop keeps at every turn: it has read the frames it has written,
\* or one more, and written the first frames of the input.
THEOREM EncSTInvariant == Spec => []IInv
  BY InvInit, InvStep, PTL DEF Spec

LEMMA InvRejectsOnlyCut == FilesFit /\ IInv => RejectsOnlyCut
<1> SUFFICES ASSUME FilesFit, IInv, process = "rejected"
             PROVE  CutAtFrameBoundary(file)
  BY DEF RejectsOnlyCut
<1>1. Fits(file)
  BY DEF FilesFit, IInv, Types
<1> QED BY <1>1 DEF IInv, ReadInv

\* An unexpected encode status is met only by a file that is cut at the end of
\* a frame, if the sizes of the files do not wrap.
THEOREM EncSTRejectsOnlyCut == FilesFit => (Spec => []RejectsOnlyCut)
<1> SUFFICES ASSUME FilesFit PROVE Spec => []RejectsOnlyCut
  OBVIOUS
<1>1. IInv => RejectsOnlyCut
  BY InvRejectsOnlyCut
<1> QED BY <1>1, EncSTInvariant, PTL

-----------------------------------------------------------------------------
(* The refinement                                                          *)

LEMMA StreamInit == Init => Stream!Init
  BY DEF Init, Stream!Init

LEMMA StreamStep ==
  FilesFit /\ IInv /\ [Next]_vars => [Stream!Next]_(Stream!vars)
<1> SUFFICES ASSUME FilesFit, IInv, [Next]_vars
             PROVE  Stream!Next \/ UNCHANGED Stream!vars
  OBVIOUS
<1>1. /\ file \in File /\ Fits(file) /\ NFrames(file) \in Nat
      /\ nframes_read \in Nat /\ outfile \in Seq(Frame)
  BY ReadTypes DEF FilesFit, IInv, Types
<1>2. CASE Setup \/ Read \/ Encode
  BY <1>2 DEF Setup, Read, Encode, Goes, Stream!vars
<1>3. CASE Write
  <2>1. /\ Another /\ Len(outfile) = nframes_read
        /\ ttabuf = InputFrames(file)[Len(outfile) + 1]
    BY <1>1, <1>3, WritesNext
  <2>2. Len(outfile) < Len(InputFrames(file))
    BY <1>1, <2>1, InputFramesType DEF Another
  <2>3. Stream!Deliver
    BY <1>3, <2>1, <2>2 DEF Write, Goes, Stream!Deliver
  <2> QED BY <2>3 DEF Stream!Next
<1>4. CASE Return
  <2>1. ~Another /\ ReadInv /\ PrefixInv
    BY <1>1, <1>4, ReturnsAtEnd DEF IInv
  <2>2. nframes_read = NFrames(file)
    BY <1>1, <2>1 DEF Another, ReadInv
  <2>3. outfile = InputFrames(file)
    BY <1>1, <2>1, <2>2, InputFramesType DEF PrefixInv
  <2>4. Stream!Close
    BY <1>4, <2>3 DEF Return, Goes, Stream!Close
  <2> QED BY <2>4 DEF Stream!Next
<1>5. CASE Reject \/ ErrorExit
  <2>1. pc # "returned" /\ process = "running" /\ process' # "running"
        /\ UNCHANGED <<file, outfile>>
    BY <1>5 DEF Reject, ErrorExit, Goes
  <2>2. Stream!Abandon
    BY <2>1 DEF Stream!Abandon
  <2> QED BY <2>2 DEF Stream!Next
<1>6. CASE Terminated \/ UNCHANGED vars
  BY <1>6 DEF Terminated, vars, Stream!vars
<1> QED BY <1>2, <1>3, <1>4, <1>5, <1>6 DEF Next

\* encst_loop implements FrameStream: it writes the frames of its input in
\* their order, each once, and returns only when all are written.
THEOREM EncSTWritesInputInOrder == FilesFit => (Spec => WritesInputInOrder)
<1> SUFFICES ASSUME FilesFit PROVE Spec => WritesInputInOrder
  OBVIOUS
<1>1. IInv /\ [Next]_vars => [Stream!Next]_(Stream!vars)
  BY StreamStep
<1> QED BY <1>1, StreamInit, EncSTInvariant, PTL
        DEF Spec, WritesInputInOrder, Stream!Spec

=============================================================================
