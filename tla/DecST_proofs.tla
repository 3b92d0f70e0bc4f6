---------------------------- MODULE DecST_proofs ----------------------------
(***************************************************************************)
(* The sequential decoder writes the frames of its file, in order, for     *)
(* every PCM format and every set of files, damaged, truncated and         *)
(* malformed ones included.                                                *)
(***************************************************************************)
EXTENDS DecST, Frames_proofs

LEMMA FileFacts ==
  ASSUME Types
  PROVE  /\ IsFile(file) /\ file.avail \in Nat /\ NFramesFound(file) \in Nat
         /\ DecodedFrames(file) \in Seq(PcmFrame)
         /\ Len(DecodedFrames(file)) = NFramesFound(file)
         /\ Len(outfile) \in Nat
<1>1. IsFile(file)
  BY TTAFilesAssumption DEF Types
<1> QED BY <1>1, FileType, FramesFound, DecodedFramesType DEF Types

LEMMA InvInit == Init => IInv
<1> SUFFICES ASSUME Init PROVE IInv
  OBVIOUS
<1>1. IsFile(file)
  BY TTAFilesAssumption DEF Init
<1>2. /\ file.avail \in Nat /\ Len(file.table) \in Nat
      /\ NFramesFound(file) \in Nat
  BY <1>1, FileType, FramesFound
<1>3. Types
  BY <1>2 DEF Init, Types, NoPCM, PCM, NoCrc
<1>4. TakenSoFar(file, nframes_read, nframes_target,
                nsamples_perchan_dec_total, unread)
  BY <1>1, SoFarInit DEF Init
<1>5. Len(outfile) = 0
  BY DEF Init
<1> QED BY <1>2, <1>3, <1>4, <1>5 DEF Init, IInv, ReadInv, PrefixInv

\* dec_frame_read of the next frame.
LEMMA ReadPreserves == IInv /\ Read => IInv'
<1> SUFFICES ASSUME IInv, Read PROVE IInv'
  OBVIOUS
<1> DEFINE n     == nframes_read
           size  == file.table[n + 1] - CrcSize
           whole == size + CrcSize <= unread
<1>1. /\ Types /\ ReadInv /\ PrefixInv
  BY DEF IInv
<1>2. /\ process = "running" /\ pc = "read" /\ pc' = "decode"
      /\ nframes_target' = (IF whole THEN nframes_target - 1 ELSE 0)
      /\ nframes_read' = n + 1
      /\ nsamples_perchan_dec_total'
           = nsamples_perchan_dec_total + next_ni32 \div NChan
      /\ unread' = (IF whole THEN unread - size - CrcSize ELSE 0)
      /\ ni32_perframe' = next_ni32
      /\ nbytes_tta_perframe' = fread_bytes(size, unread)
      /\ crc_read' = (IF whole THEN Crc(n + 1) ELSE NoCrc)
      /\ UNCHANGED <<file, process, outfile, pcmbuf, dec_retval>>
  BY DEF Read, Goes
<1>3. /\ nframes_target # 0 /\ ~Malformed(file, n + 1)
      /\ IsFile(file) /\ n \in Nat /\ unread \in Nat
      /\ nframes_target \in Nat /\ nsamples_perchan_dec_total \in Nat
      /\ CrcSize \in Nat
  BY <1>1, FileFacts, FormatAssumption, CrcAssumption DEF Types, Read, MoreFrames
<1>4. n = Len(outfile)
  BY <1>1, <1>2 DEF ReadInv
<1>5. /\ TakenSoFar(file, n + 1, nframes_target', nsamples_perchan_dec_total',
                   unread')
      /\ size \in Nat /\ next_ni32 \in Nat /\ next_ni32 # 0
      /\ fread_bytes(size, unread) \in Nat
      /\ fread_bytes(size, unread) # 0 <=> n < NFramesFound(file)
      /\ n < NFramesFound(file) \/ (n = NFramesFound(file) /\ CutBetweenFrames(file))
      /\ n < NFramesFound(file) =>
           DecodedFrames(file)[n + 1] =
             [frame |-> n + 1, ni32 |-> next_ni32,
              corrupted |-> n + 1 \in file.damaged \/ ~whole]
      /\ whole => fread_bytes(size, unread) = size
  BY <1>1, <1>2, <1>3, TakeStep DEF ReadInv, next_ni32
<1>6. Types'
  <2>1. unread' \in Nat /\ nframes_target' \in Nat
    <3> HIDE DEF size
    <3> QED BY <1>2, <1>3, <1>5
  <2>2. nsamples_perchan_dec_total' \in Nat
    BY <1>3, <1>5, SoFarCounts
  <2>3. crc_read' \in Nat /\ nframes_read' \in Nat
    BY <1>2, <1>3 DEF Crc, NoCrc
  <2>4. ni32_perframe' \in Nat /\ nbytes_tta_perframe' \in Nat
    BY <1>2, <1>5
  <2> QED BY <1>1, <1>2, <2>1, <2>2, <2>3, <2>4 DEF Types
<1>7. Intact' <=> n + 1 \notin file.damaged /\ fread_bytes(size, unread) = size
  BY <1>2 DEF Intact
<1>8. (Decoded.crc)' # crc_read' <=> n + 1 \in file.damaged \/ ~whole
  <2>1. /\ Decoded' = [frame |-> n + 1, ni32 |-> next_ni32,
                       crc |-> IF Intact' THEN Crc(n + 1) ELSE BadCrc]
    BY <1>2 DEF Decoded
  <2> HIDE DEF size, whole
  <2> QED BY <1>2, <1>3, <1>5, <1>7, <2>1 DEF Crc, BadCrc, NoCrc
<1>9. Written(Decoded)'
        = [frame |-> n + 1, ni32 |-> next_ni32,
           corrupted |-> n + 1 \in file.damaged \/ ~whole]
  <2>1. Written(Decoded)' = [frame |-> n + 1, ni32 |-> next_ni32,
                             corrupted |-> (Decoded.crc)' # crc_read']
    BY <1>2 DEF Decoded, Written
  <2> QED BY <1>8, <2>1
<1>10. ReadInv'
  <2>1. Another' <=> n < NFramesFound(file)
    BY <1>2, <1>4 DEF Another
  <2>2. Another' \/ CutBetweenFrames(file)
    BY <1>5, <2>1
  <2>3. nbytes_tta_perframe' # 0 <=> Another'
    BY <1>2, <1>5, <2>1
  <2>4. Another' => Written(Decoded)' = DecodedFrames(file)[n + 1]
    BY <1>5, <1>9, <2>1
  <2>5. /\ TakenSoFar(file, n + 1, nframes_target', nsamples_perchan_dec_total',
                     unread')
    BY <1>5
  <2> HIDE DEF size, whole
  <2> QED BY <1>2, <1>4, <2>2, <2>3, <2>4, <2>5 DEF ReadInv
<1> QED BY <1>1, <1>2, <1>6, <1>10 DEF IInv, PrefixInv

\* dec_frame_decode, which refuses a frame of no bytes.
LEMMA DecodePreserves == IInv /\ Decode => IInv'
<1> SUFFICES ASSUME IInv, Decode PROVE IInv'
  OBVIOUS
<1>1. /\ process = "running" /\ pc = "decode" /\ pc' = "write"
      /\ UNCHANGED <<file, process, unread, outfile, nframes_target,
                     nframes_read, nsamples_perchan_dec_total, ni32_perframe,
                     nbytes_tta_perframe, crc_read>>
  BY DEF Decode, Goes, count_vars, frame_vars
<1>2. /\ dec_retval' # "INVAL_RANGE" <=> nbytes_tta_perframe # 0
      /\ pcmbuf' = IF nbytes_tta_perframe = 0 THEN NoPCM ELSE Decoded
  BY DEF Decode, Decoded
<1>3. UNCHANGED <<Another, Decoded>>
      /\ (Written(Decoded))' = Written(Decoded)
  BY <1>1 DEF Another, Decoded, Written, Intact
<1>4. Types'
  <2>1. pcmbuf' \in PCM
    BY <1>2 DEF IInv, Types, PCM, NoPCM, Decoded, Crc, NoCrc, BadCrc
  <2> QED BY <1>1, <2>1 DEF IInv, Types
<1>5. ReadInv'
  BY <1>1, <1>2, <1>3 DEF IInv, ReadInv
<1> QED BY <1>1, <1>4, <1>5 DEF IInv, PrefixInv

\* Where the next frame is written it is the next of the file.
LEMMA WritesNext ==
  ASSUME IInv, Write
  PROVE  /\ Another /\ nframes_read = Len(outfile) + 1
         /\ Written(pcmbuf) = DecodedFrames(file)[Len(outfile) + 1]
         /\ outfile' = Append(outfile, Written(pcmbuf))
  BY DEF IInv, ReadInv, Write, Goes, Written

\* dec_frame_write
LEMMA WritePreserves == IInv /\ Write => IInv'
<1> SUFFICES ASSUME IInv, Write PROVE IInv'
  OBVIOUS
<1> DEFINE n == Len(outfile)
<1>1. /\ process = "running" /\ pc = "write" /\ pc' = "read"
      /\ UNCHANGED <<file, process, unread, nframes_target,
                     nframes_read, nsamples_perchan_dec_total, ni32_perframe,
                     nbytes_tta_perframe, crc_read, pcmbuf, dec_retval>>
  BY DEF Write, Goes, count_vars, frame_vars
<1>2. /\ n < NFramesFound(file) /\ nframes_read = n + 1
      /\ Written(pcmbuf) = DecodedFrames(file)[n + 1]
      /\ outfile' = Append(outfile, Written(pcmbuf))
  BY WritesNext DEF Another
<1>3. /\ n \in Nat /\ NFramesFound(file) \in Nat /\ outfile \in Seq(PcmFrame)
      /\ Written(pcmbuf) \in PcmFrame
  BY FileFacts DEF IInv, Types, Written, PCM, PcmFrame
<1>4. Types'
  <2>1. outfile' \in Seq(PcmFrame)
    BY <1>2, <1>3
  <2> QED BY <1>1, <2>1 DEF IInv, Types
<1>5. Len(outfile') = n + 1
  BY <1>2, <1>3
<1>6. ReadInv'
  BY <1>1, <1>2, <1>5 DEF IInv, ReadInv
<1>7. PrefixInv'
  <2>1. Len(outfile') <= NFramesFound(file)
    BY <1>2, <1>3, <1>5
  <2>2. ASSUME NEW i \in 1..(n + 1)
        PROVE  outfile'[i] = DecodedFrames(file)[i]
    <3>1. CASE i = n + 1
      BY <1>2, <1>3, <3>1
    <3>2. CASE i # n + 1
      <4>1. i \in 1..n
        BY <1>3, <3>2
      <4>2. outfile'[i] = outfile[i]
        BY <1>2, <1>3, <4>1
      <4> QED BY <4>1, <4>2 DEF IInv, PrefixInv
    <3> QED BY <3>1, <3>2
  <2> QED BY <1>1, <1>5, <2>1, <2>2 DEF PrefixInv
<1> QED BY <1>1, <1>4, <1>6, <1>7 DEF IInv

\* The loop returns when there is no frame left.
LEMMA ReturnsAtEnd == IInv /\ Return => ~Another
<1> SUFFICES ASSUME IInv, Return PROVE ~Another
  OBVIOUS
<1>1. /\ TakenSoFar(file, nframes_read, nframes_target,
                   nsamples_perchan_dec_total, unread)
      /\ nframes_read = Len(outfile)
  BY DEF IInv, ReadInv, Return, Goes
<1>2. /\ nframes_read \in Nat /\ unread \in Nat
      /\ IsFile(file) /\ NFramesFound(file) \in Nat
  BY FileFacts DEF IInv, Types
<1>3. nframes_read = NFramesFound(file) \/ nframes_read = NFramesFound(file) + 1
  BY <1>1, <1>2, TakingEnds DEF Return, MoreFrames, next_ni32
<1> QED BY <1>1, <1>2, <1>3 DEF Another

LEMMA InvStep == IInv /\ [Next]_vars => IInv'
<1> USE DEF IInv, Types, ReadInv, PrefixInv, Another, Decoded, Written, Intact,
            count_vars, frame_vars
<1> SUFFICES ASSUME IInv, [Next]_vars PROVE IInv'
  OBVIOUS
<1>1. CASE Setup
  BY <1>1 DEF Setup, Goes
<1>2. CASE Read
  BY <1>2, ReadPreserves
<1>3. CASE Decode
  BY <1>3, DecodePreserves
<1>4. CASE Write
  BY <1>4, WritePreserves
<1>5. CASE Reject
  BY <1>5 DEF Reject, Goes
<1>6. CASE Return
  <2>1. ~Another
    BY <1>6, ReturnsAtEnd
  <2> QED BY <1>6, <2>1 DEF Return, Goes
<1>7. CASE ErrorExit
  BY <1>7 DEF ErrorExit
<1>8. CASE Terminated \/ UNCHANGED vars
  BY <1>8 DEF Terminated, vars
<1> QED BY <1>1, <1>2, <1>3, <1>4, <1>5, <1>6, <1>7, <1>8 DEF Next

\* What decst_loop keeps at every turn: it has read the frames it has written,
\* or one more, and written the first frames of its file.
THEOREM DecSTInvariant == Spec => []IInv
  BY InvInit, InvStep, PTL DEF Spec

\* An unexpected decode status is met only by a file that is cut between two
\* frames.
THEOREM DecSTRejectsOnlyCut == Spec => []RejectsOnlyCut
<1>1. IInv => RejectsOnlyCut
  BY DEF IInv, ReadInv, RejectsOnlyCut
<1> QED BY <1>1, DecSTInvariant, PTL

-----------------------------------------------------------------------------
(* The refinement                                                          *)

LEMMA StreamInit == Init => Stream!Init
  BY DEF Init, Stream!Init

LEMMA StreamStep == IInv /\ [Next]_vars => [Stream!Next]_(Stream!vars)
<1> SUFFICES ASSUME IInv, [Next]_vars
             PROVE  Stream!Next \/ UNCHANGED Stream!vars
  OBVIOUS
<1>1. /\ NFramesFound(file) \in Nat /\ Len(outfile) \in Nat
      /\ DecodedFrames(file) \in Seq(PcmFrame) /\ outfile \in Seq(PcmFrame)
      /\ Len(DecodedFrames(file)) = NFramesFound(file)
  BY FileFacts DEF IInv, Types
<1>2. CASE Setup \/ Read \/ Decode
  BY <1>2 DEF Setup, Read, Decode, Goes, Stream!vars
<1>3. CASE Write
  <2>1. /\ Another
        /\ outfile' = Append(outfile, DecodedFrames(file)[Len(outfile) + 1])
    BY <1>3, WritesNext
  <2>2. Len(outfile) < Len(DecodedFrames(file))
    BY <1>1, <2>1 DEF Another
  <2>3. Stream!Deliver
    BY <1>3, <2>1, <2>2 DEF Write, Goes, Stream!Deliver
  <2> QED BY <2>3 DEF Stream!Next
<1>4. CASE Return
  <2>1. ~Another /\ PrefixInv
    BY <1>4, ReturnsAtEnd DEF IInv
  <2>2. Len(outfile) = NFramesFound(file)
    BY <1>1, <2>1 DEF Another, PrefixInv
  <2>3. outfile = DecodedFrames(file)
    BY <1>1, <2>1, <2>2 DEF PrefixInv
  <2>4. Stream!Close
    BY <1>4, <2>3 DEF Return, Goes, Stream!Close
  <2> QED BY <2>4 DEF Stream!Next
<1>5. CASE Reject \/ ErrorExit
  <2>1. pc # "returned" /\ process = "running" /\ process' # "running"
        /\ UNCHANGED <<file, outfile>>
    BY <1>5 DEF Reject, ErrorExit, Goes
  <2>2. Stream!Abandon
    BY <2>1 DEF Stream!Abandon
  <2> QED BY <2>2 DEF Stream!Next
<1>6. CASE Terminated \/ UNCHANGED vars
  BY <1>6 DEF Terminated, vars, Stream!vars
<1> QED BY <1>2, <1>3, <1>4, <1>5, <1>6 DEF Next

\* decst_loop implements FrameStream: it writes the frames of its file in
\* their order, each once and at its full length, reports exactly the damaged
\* and the truncated ones, and returns only when all are written.
THEOREM DecSTWritesFramesInOrder == Spec => WritesFramesInOrder
<1>1. IInv /\ [Next]_vars => [Stream!Next]_(Stream!vars)
  BY StreamStep
<1> QED BY <1>1, StreamInit, DecSTInvariant, PTL
        DEF Spec, WritesFramesInOrder, Stream!Spec

=============================================================================
