----------------------------- MODULE EncodeMode -----------------------------
(***************************************************************************)
(* enc_loop, what encode mode does with each file                          *)
(* (src/src/cli/modes/mode_encode.c): room for the header and the          *)
(* seektable, the frames, then header and seektable.                       *)
(* A source is [kind |-> "pcm", id |-> its first name, file |-> a File].   *)
(***************************************************************************)
EXTENDS ModeLoop, EncFrames, Seektable

\* "setup seektable"
SetupSeektable ==
  /\ i <= Len(argv)
  /\ Goes("setup", "open")
  /\ seektable' = seektable_init(
       seektable_nframes(fstat.decpcm_size, FullFrame, SampleBytes))
  /\ UNCHANGED <<process, given, disk, openedfiles, nerrors_file, outfile,
                 g_rm_on_sigint, g_nwarnings, rm_failed, i, ignore_seektable>>

\* prewrite_tta1_header_seektable, and the seek to the start of the PCM
Reserve ==
  /\ Goes("reserve", "code")
  /\ data' = [data EXCEPT ![outfile].start = ReservedSize(seektable)]
  /\ UNCHANGED <<process, given, entry, openedfiles, nerrors_file, outfile,
                 g_rm_on_sigint, g_nwarnings, rm_failed, i, local>>

\* The PCM that the loop reads.  From an infile that is an outfile, too, it is
\* whatever has been written there.
PCMRead ==
  IF data[infile].kind = "pcm"
  THEN {[of |-> data[infile].id, file |-> data[infile].file]}
  ELSE {[of |-> NULL, file |-> [fstat EXCEPT !.avail = a]] :
          a \in 0..fstat.decpcm_size}

\* encst_loop and encmt_loop warn of a short read and of an incomplete sample.
WarnsOf(f) ==
  \/ NSamples(f) < f.decpcm_size \div SampleBytes
  \/ NSamples(f) % NChan # 0

\* The loop returns: every frame is written and has its entry.  The
\* multi-threaded one does not return if there is none, as EncMT shows.
Code ==
  /\ Goes("code", "header")
  /\ \E pcm \in PCMRead :
       /\ ~CutAtFrameBoundary(pcm.file)
       /\ g_flag.threadmode = "single" \/ NFrames(pcm.file) > 0
       /\ seektable' = AfterFrames(seektable, NFrames(pcm.file))
       /\ data' = [data EXCEPT ![outfile].of = pcm.of,
                               ![outfile].whole = ~WarnsOf(pcm.file)]
       /\ Warned(WarnsOf(pcm.file))
  /\ UNCHANGED <<process, given, entry, openedfiles, nerrors_file, outfile,
                 g_rm_on_sigint, rm_failed, i, ignore_seektable>>

\* Mutant of CodeRejects: error_tta_nf, which returns.
CodeRejectsAndGoesOn ==
  /\ Goes("code", "header")
  /\ g_flag.threadmode = "single"
  /\ \E pcm \in PCMRead : CutAtFrameBoundary(pcm.file)
  /\ Warned(TRUE)
  /\ UNCHANGED <<process, given, disk, openedfiles, nerrors_file, outfile,
                 g_rm_on_sigint, rm_failed, i, local>>

\* A file that ends between two frames: the single-threaded loop gets an
\* unexpected encode status.  The multi-threaded one does not return, as EncMT
\* shows, and only a signal ends it.
CodeRejects ==
  /\ pc = "code"
  /\ g_flag.threadmode = "single"
  /\ \E pcm \in PCMRead : CutAtFrameBoundary(pcm.file)
  /\ FatalError
  /\ UNCHANGED <<pc, i, local>>

\* write_tta1_header, write_tta_seektable
WriteHeaderAndSeektable ==
  /\ Goes("header", "close")
  /\ seektable' = [seektable EXCEPT !.off = HeaderSize]
  /\ data' = [data EXCEPT ![outfile].header = TRUE,
                          ![outfile].table = TableEnd(seektable')]
  /\ UNCHANGED <<process, given, entry, openedfiles, nerrors_file, outfile,
                 g_rm_on_sigint, g_nwarnings, rm_failed, i, ignore_seektable>>

\* A seek, a read, a write or an allocation fails, or fopen for writing.
EncErrorExit ==
  /\ \/ pc = "setup" /\ i <= Len(argv)
     \/ pc \in {"open", "reserve", "code", "header"}
  /\ FatalError
  /\ UNCHANGED <<pc, i, local>>

EncodeStep ==
  \/ SetupSeektable \/ Reserve \/ Code \/ CodeRejects
  \/ WriteHeaderAndSeektable \/ EncErrorExit

=============================================================================
