------------------------------- MODULE DecST --------------------------------
(***************************************************************************)
(* The single-threaded decoder, decst_loop                                 *)
(* (src/src/cli/modes/mode_decode_loop.c): read the next frame the         *)
(* seektable names, decode it, write its PCM, until there is no next one.  *)
(***************************************************************************)
EXTENDS DecFrames

VARIABLES
  process,    \* "running", "exited" through error_sys or error_tta after a
              \* failed call, or "rejected" for an unexpected decode status
  file,       \* the input file
  unread,     \* bytes of it not yet read
  outfile,    \* the frames of PCM written
  pc,         \* "setup", "read", "decode", "write" or "returned"
  nframes_target, nframes_read,
  nsamples_perchan_dec_total,
  ni32_perframe, nbytes_tta_perframe,
  crc_read,
  pcmbuf,     \* decoded frame, with its user state
  dec_retval

frame_vars == <<ni32_perframe, nbytes_tta_perframe, crc_read>>
count_vars == <<nframes_target, nframes_read, nsamples_perchan_dec_total>>
vars == <<process, file, unread, outfile, pc, count_vars, frame_vars, pcmbuf,
          dec_retval>>

NoPCM == [frame |-> 0, ni32 |-> 0, crc |-> NoCrc]

Init ==
  /\ process = "running"
  /\ file \in TTAFiles
  /\ unread = file.avail
  /\ outfile = <<>>
  /\ pc = "setup"
  /\ nframes_target = Len(file.table)
  /\ nframes_read = 0
  /\ nsamples_perchan_dec_total = 0
  /\ ni32_perframe = 0
  /\ nbytes_tta_perframe = 0
  /\ crc_read = NoCrc
  /\ pcmbuf = NoPCM
  /\ dec_retval = "OK_DONE"

Goes(from, to) ==
  /\ process = "running"
  /\ pc = from
  /\ pc' = to
  /\ UNCHANGED file

\* decbuf_init, priv_alloc
Setup ==
  /\ Goes("setup", "read")
  /\ UNCHANGED <<process, unread, outfile, count_vars, frame_vars, pcmbuf,
                 dec_retval>>

\* The samples of the next frame.
next_ni32 == dec_ni32_perframe(nsamples_perchan_dec_total, file.nsamples_enc)

\* There is a next frame and its seektable entry is not malformed.
MoreFrames == /\ nframes_target # 0
              /\ ~Malformed(file, nframes_read + 1)
              /\ next_ni32 # 0

\* Mutant of Read: a truncated frame does not end the loop.
ReadOn ==
  LET framesize_tta == file.table[nframes_read + 1] - CrcSize
      whole         == framesize_tta + CrcSize <= unread
  IN
  /\ MoreFrames
  /\ Goes("read", "decode")
  /\ nframes_target' = nframes_target - 1
  /\ nframes_read' = nframes_read + 1
  /\ nsamples_perchan_dec_total' =
       nsamples_perchan_dec_total + next_ni32 \div NChan
  /\ unread' = IF whole THEN unread - framesize_tta - CrcSize ELSE 0
  /\ ni32_perframe' = next_ni32
  /\ nbytes_tta_perframe' = fread_bytes(framesize_tta, unread)
  /\ crc_read' = IF whole THEN Crc(nframes_read + 1) ELSE NoCrc
  /\ UNCHANGED <<process, outfile, pcmbuf, dec_retval>>

\* Read the next frame and its checksum.  A truncated one is the last.
Read ==
  LET framesize_tta == file.table[nframes_read + 1] - CrcSize
      whole         == framesize_tta + CrcSize <= unread
  IN
  /\ MoreFrames
  /\ Goes("read", "decode")
  /\ nframes_target' = IF whole THEN nframes_target - 1 ELSE 0
  /\ nframes_read' = nframes_read + 1
  /\ nsamples_perchan_dec_total' =
       nsamples_perchan_dec_total + next_ni32 \div NChan
  /\ unread' = IF whole THEN unread - framesize_tta - CrcSize ELSE 0
  /\ ni32_perframe' = next_ni32
  /\ nbytes_tta_perframe' = fread_bytes(framesize_tta, unread)
  /\ crc_read' = IF whole THEN Crc(nframes_read + 1) ELSE NoCrc
  /\ UNCHANGED <<process, outfile, pcmbuf, dec_retval>>

\* The bytes in the buffer are those of the frame that was encoded.
Intact ==
  /\ nframes_read \notin file.damaged
  /\ nbytes_tta_perframe = file.table[nframes_read] - CrcSize

\* Mutant of Decode: a frame that does not decode to its end is not padded.
DecodeUnpadded ==
  /\ Goes("decode", "write")
  /\ dec_retval' = IF Intact THEN "OK_DONE" ELSE "FAIL_DECODE"
  /\ pcmbuf' = [frame |-> nframes_read,
                ni32  |-> IF Intact THEN ni32_perframe
                          ELSE ni32_perframe - NChan,
                crc   |-> IF Intact THEN Crc(nframes_read) ELSE BadCrc]
  /\ UNCHANGED <<process, unread, outfile, count_vars, frame_vars>>

\* dec_frame_decode: libttaR_tta_decode refuses a frame of no bytes; any other
\* that cannot be decoded to its end is padded.  Bytes that are not those of
\* the frame may or may not decode, and have another checksum.
Decode ==
  /\ Goes("decode", "write")
  /\ IF nbytes_tta_perframe = 0
     THEN dec_retval' = "INVAL_RANGE" /\ pcmbuf' = NoPCM
     ELSE /\ dec_retval' \in IF Intact THEN {"OK_DONE"}
                             ELSE {"OK_DONE", "FAIL_DECODE"}
          /\ pcmbuf' = [frame |-> nframes_read,
                        ni32  |-> ni32_perframe,
                        crc   |-> IF Intact THEN Crc(nframes_read)
                                  ELSE BadCrc]
  /\ UNCHANGED <<process, unread, outfile, count_vars, frame_vars>>

\* dec_frame_write of a frame that was decoded, at least in part
Write ==
  /\ dec_retval # "INVAL_RANGE"
  /\ Goes("write", "read")
  /\ outfile' = Append(outfile, [frame     |-> pcmbuf.frame,
                                 ni32      |-> pcmbuf.ni32,
                                 corrupted |-> pcmbuf.crc # crc_read])
  /\ UNCHANGED <<process, unread, count_vars, frame_vars, pcmbuf, dec_retval>>

\* and of one that was not: error_tta, "unexpected decode status"
Reject ==
  /\ dec_retval = "INVAL_RANGE"
  /\ Goes("write", "write")
  /\ process' = "rejected"
  /\ UNCHANGED <<unread, outfile, count_vars, frame_vars, pcmbuf, dec_retval>>

Return ==
  /\ ~MoreFrames
  /\ Goes("read", "returned")
  /\ UNCHANGED <<process, unread, outfile, count_vars, frame_vars, pcmbuf,
                 dec_retval>>

\* An allocation, fread or fwrite fails.
ErrorExit ==
  /\ process = "running"
  /\ \/ pc = "setup"
     \/ pc = "read" /\ MoreFrames
     \/ pc = "write" /\ dec_retval # "INVAL_RANGE"
  /\ process' = "exited"
  /\ UNCHANGED <<file, unread, outfile, pc, count_vars, frame_vars, pcmbuf,
                 dec_retval>>

Finished == process # "running" \/ pc = "returned"

Terminated == Finished /\ UNCHANGED vars

Next == Setup \/ Read \/ Decode \/ Write \/ Reject \/ Return \/ ErrorExit
        \/ Terminated

Spec == Init /\ [][Next]_vars

-----------------------------------------------------------------------------
\* The sequential loop does what decmt_loop has to do on every interleaving, of
\* all files: it returns only with the PCM of the frames written in order, each
\* at its full length, exactly the damaged and the truncated ones reported.
Stream == INSTANCE FrameStream WITH
            source <- DecodedFrames(file),
            stream <- outfile,
            status <- IF process # "running" THEN "abandoned"
                      ELSE IF pc = "returned" THEN "closed"
                      ELSE "open"

WritesFramesInOrder == Stream!Spec

\* Only a file that is cut between two frames ends with an unexpected decode
\* status; one cut inside a frame or its checksum is decoded as far as it goes.
RejectsOnlyCut == process = "rejected" => CutBetweenFrames(file)

-----------------------------------------------------------------------------
(* Why it is so: the inductive invariant                                   *)

PCM == [frame : Nat, ni32 : Nat, crc : Nat]

\* Each variable has its type.
Types ==
  /\ process \in {"running", "exited", "rejected"}
  /\ file \in TTAFiles
  /\ unread \in Nat
  /\ outfile \in Seq(PcmFrame)
  /\ pc \in {"setup", "read", "decode", "write", "returned"}
  /\ nframes_target \in Nat
  /\ nframes_read \in Nat
  /\ nsamples_perchan_dec_total \in Nat
  /\ ni32_perframe \in Nat
  /\ nbytes_tta_perframe \in Nat
  /\ crc_read \in Nat
  /\ pcmbuf \in PCM

\* A frame as dec_frame_write will report it.
Written(pcm) == [frame     |-> pcm.frame,
                 ni32      |-> pcm.ni32,
                 corrupted |-> pcm.crc # crc_read]

\* What decodes from the frame that was read.
Decoded == [frame |-> nframes_read,
            ni32  |-> ni32_perframe,
            crc   |-> IF Intact THEN Crc(nframes_read) ELSE BadCrc]

\* There is a frame after those written.
Another == Len(outfile) < NFramesFound(file)

\* The loop has read what it wrote, or one frame more, and it gets no bytes to
\* decode only from a file that is cut there.
ReadInv ==
  /\ TakenSoFar(file, nframes_read, nframes_target,
               nsamples_perchan_dec_total, unread)
  /\ pc \in {"setup", "read"} => nframes_read = Len(outfile)
  /\ pc \in {"decode", "write"} =>
       /\ nframes_read = Len(outfile) + 1
       /\ Another \/ CutBetweenFrames(file)
       /\ nbytes_tta_perframe # 0 <=> Another
       /\ Another => Written(Decoded) = DecodedFrames(file)[nframes_read]
  /\ pc = "write" => /\ dec_retval # "INVAL_RANGE" <=> Another
                     /\ Another => pcmbuf = Decoded
  /\ pc = "returned" => ~Another

\* What is written are the first frames of the file.
PrefixInv ==
  /\ Len(outfile) <= NFramesFound(file)
  /\ \A i \in 1..Len(outfile) : outfile[i] = DecodedFrames(file)[i]

IInv ==
  /\ Types
  /\ process = "rejected" => pc = "write" /\ dec_retval = "INVAL_RANGE"
  /\ ReadInv
  /\ PrefixInv

=============================================================================
