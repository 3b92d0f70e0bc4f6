------------------------------- MODULE EncST --------------------------------
(***************************************************************************)
(* The single-threaded encoder, encst_loop                                 *)
(* (src/src/cli/modes/mode_encode_loop.c): read a frame, encode it, write  *)
(* it, until enc_readlen says that the PCM is read.                        *)
(***************************************************************************)
EXTENDS EncFrames

CONSTANT Files       \* the input files to start from

ASSUME FilesAssumption == Files \subseteq File

VARIABLES
  process,    \* "running", "exited" through error_sys or error_tta after a
              \* failed call, or "rejected" for an unexpected encode status
  file,       \* the input file
  unread,     \* bytes of it not yet read
  outfile,    \* the frames written
  pc,         \* "setup", "read", "encode", "write" or "returned"
  nframes_read,
  nsamples_flat_read_total,
  ni32_perframe,
  pcmbuf,     \* number of the frame whose PCM the buffer holds
  ttabuf,     \* encoded frame, with its user state
  enc_retval

vars == <<process, file, unread, outfile, pc, nframes_read,
          nsamples_flat_read_total, ni32_perframe, pcmbuf, ttabuf, enc_retval>>

NoFrame == [frame |-> 0, ni32 |-> 0]

Init ==
  /\ process = "running"
  /\ file \in Files
  /\ unread = file.avail
  /\ outfile = <<>>
  /\ pc = "setup"
  /\ nframes_read = 0
  /\ nsamples_flat_read_total = 0
  /\ ni32_perframe = 0
  /\ pcmbuf = 0
  /\ ttabuf = NoFrame
  /\ enc_retval = "OK_DONE"

Goes(from, to) ==
  /\ process = "running"
  /\ pc = from
  /\ pc' = to
  /\ UNCHANGED file

\* encbuf_init, priv_alloc
Setup ==
  /\ Goes("setup", "read")
  /\ UNCHANGED <<process, unread, outfile, nframes_read,
                 nsamples_flat_read_total, ni32_perframe, pcmbuf, ttabuf,
                 enc_retval>>

readlen == enc_readlen(nsamples_flat_read_total, file.decpcm_size)

Read ==
  LET nmemb_read == fread(readlen, unread) IN
  /\ readlen # 0
  /\ Goes("read", "encode")
  /\ unread' = IF nmemb_read < readlen THEN 0
               ELSE unread - nmemb_read * SampleBytes
  /\ nsamples_flat_read_total' =
       TotalAfter(nsamples_flat_read_total, nmemb_read, readlen)
  /\ ni32_perframe' = nmemb_read + enc_frame_zeropad(nmemb_read)
  /\ pcmbuf' = IF nmemb_read = 0 THEN pcmbuf ELSE nframes_read + 1
  /\ UNCHANGED <<process, outfile, nframes_read, ttabuf, enc_retval>>

\* enc_frame_encode: libttaR_tta_encode refuses a frame of no samples.
Encode ==
  /\ Goes("encode", "write")
  /\ IF ni32_perframe # 0
     THEN /\ enc_retval' = "OK_DONE"
          /\ ttabuf' = [frame |-> pcmbuf, ni32 |-> ni32_perframe]
     ELSE enc_retval' = "INVAL_RANGE" /\ ttabuf' = NoFrame
  /\ UNCHANGED <<process, unread, outfile, nframes_read,
                 nsamples_flat_read_total, ni32_perframe, pcmbuf>>

\* enc_frame_write of a frame that was encoded
Write ==
  /\ enc_retval = "OK_DONE"
  /\ Goes("write", "read")
  /\ outfile' = Append(outfile, ttabuf)
  /\ nframes_read' = nframes_read + 1
  /\ UNCHANGED <<process, unread, nsamples_flat_read_total, ni32_perframe,
                 pcmbuf, ttabuf, enc_retval>>

\* and of one that was not: error_tta, "unexpected encode status"
Reject ==
  /\ enc_retval # "OK_DONE"
  /\ Goes("write", "write")
  /\ process' = "rejected"
  /\ UNCHANGED <<unread, outfile, nframes_read, nsamples_flat_read_total,
                 ni32_perframe, pcmbuf, ttabuf, enc_retval>>

Return ==
  /\ readlen = 0
  /\ Goes("read", "returned")
  /\ UNCHANGED <<process, unread, outfile, nframes_read,
                 nsamples_flat_read_total, ni32_perframe, pcmbuf, ttabuf,
                 enc_retval>>

\* An allocation, fread or fwrite fails.
ErrorExit ==
  /\ process = "running"
  /\ \/ pc \in {"setup", "encode"}
     \/ pc = "read" /\ readlen # 0
     \/ pc = "write" /\ enc_retval = "OK_DONE"
  /\ process' = "exited"
  /\ UNCHANGED <<file, unread, outfile, pc, nframes_read,
                 nsamples_flat_read_total, ni32_perframe, pcmbuf, ttabuf,
                 enc_retval>>

Finished == process # "running" \/ pc = "returned"

Terminated == Finished /\ UNCHANGED vars

Next == Setup \/ Read \/ Encode \/ Write \/ Reject \/ Return \/ ErrorExit
        \/ Terminated

Spec == Init /\ [][Next]_vars

-----------------------------------------------------------------------------
\* The sequential loop does what encmt_loop has to do on every interleaving,
\* of all files: it returns only with the frames of the input written in
\* order.
Stream == INSTANCE FrameStream WITH
            source <- InputFrames(file),
            stream <- outfile,
            status <- IF process # "running" THEN "abandoned"
                      ELSE IF pc = "returned" THEN "closed"
                      ELSE "open"

WritesInputInOrder == Stream!Spec

\* Only a file that is cut at the end of a frame ends with an unexpected
\* encode status; one cut inside a frame or a sample is padded and encoded.
RejectsOnlyCut == process = "rejected" => CutAtFrameBoundary(file)

-----------------------------------------------------------------------------
(* Why it is so: the inductive invariant                                   *)

\* The sizes of every file can be computed.
FilesFit == \A f \in Files : Fits(f)

\* Each variable has its type.
Types ==
  /\ process \in {"running", "exited", "rejected"}
  /\ file \in Files
  /\ unread \in Nat
  /\ outfile \in Seq(Frame)
  /\ pc \in {"setup", "read", "encode", "write", "returned"}
  /\ nframes_read \in Nat
  /\ nsamples_flat_read_total \in Nat
  /\ ni32_perframe \in Nat
  /\ pcmbuf \in Nat
  /\ ttabuf \in Frame

\* There is a frame after those written.
Another == nframes_read < NFrames(file)

\* The loop has read what it wrote, or one frame more, and it gets nothing to
\* encode only from a file that is cut there.
ReadInv ==
  /\ nframes_read <= NFrames(file)
  /\ pc \in {"setup", "read"} =>
       ReadSoFar(file, nframes_read, nsamples_flat_read_total, unread)
  /\ pc \in {"encode", "write"} =>
       /\ ReadSoFar(file, nframes_read + 1, nsamples_flat_read_total, unread)
       /\ Another \/ CutAtFrameBoundary(file)
       /\ ni32_perframe # 0 <=> Another
       /\ Another => InputFrames(file)[nframes_read + 1]
                       = [frame |-> pcmbuf, ni32 |-> ni32_perframe]
  /\ pc = "write" => /\ enc_retval = "OK_DONE" <=> Another
                     /\ Another => ttabuf = InputFrames(file)[nframes_read + 1]
  /\ pc = "returned" => ~Another

\* What is written are the first frames of the input.
PrefixInv ==
  /\ Len(outfile) = nframes_read
  /\ \A i \in 1..nframes_read : outfile[i] = InputFrames(file)[i]

IInv ==
  /\ Types
  /\ process = "rejected" => pc = "write" /\ enc_retval # "OK_DONE"
  /\ Fits(file) => ReadInv /\ PrefixInv

=============================================================================
