----------------------------- MODULE DecodeMode -----------------------------
(***************************************************************************)
(* dec_loop, what decode mode does with each file                          *)
(* (src/src/cli/modes/mode_decode.c): read the seektable, room for the     *)
(* header, the PCM, then the header.                                       *)
(* A source is [kind |-> "tta", id |-> its first name, file |-> a TTAFile].*)
(***************************************************************************)
EXTENDS ModeLoop

\* How the seektable reads, and what is wrong with the frames: "cut" inside a
\* frame, or "boundary", cut between two.
TTAFile == [table  : {"ok", "corrupted", "malformed"},
            frames : {"intact", "damaged", "cut", "boundary"}]

\* Sizes of the headers that are written, by suffix
DecHeaderSize == ".raw" :> 0 @@ ".wav" :> 68 @@ ".w64" :> 128

\* The file that is read.  An infile that is an outfile, too, may be anything.
TTARead ==
  IF data[infile].kind = "tta"
  THEN {[of |-> data[infile].id, file |-> data[infile].file]}
  ELSE {[of |-> NULL, file |-> f] : f \in TTAFile}

\* filecheck_tta_seektable: a table whose checksum is wrong is used all the
\* same.
CheckSeektable ==
  /\ i <= Len(argv)
  /\ Goes("setup", "open")
  /\ \E tta \in TTARead :
       /\ tta.file.table # "malformed"
       /\ ignore_seektable' = (tta.file.table = "corrupted")
       /\ Warned(tta.file.table = "corrupted")
  /\ UNCHANGED <<process, given, disk, openedfiles, nerrors_file, outfile,
                 g_rm_on_sigint, rm_failed, i, seektable>>

\* A table that does not end: error_filecheck and exit
RefuseSeektable ==
  /\ pc = "setup"
  /\ i <= Len(argv)
  /\ \E tta \in TTARead : tta.file.table = "malformed"
  /\ FatalError
  /\ UNCHANGED <<pc, i, local>>

\* prewrite_wav_header, prewrite_w64_header
ReserveHeader ==
  /\ Goes("reserve", "code")
  /\ data' = [data EXCEPT ![outfile].start = DecHeaderSize[g_flag.decfmt]]
  /\ UNCHANGED <<process, given, entry, openedfiles, nerrors_file, outfile,
                 g_rm_on_sigint, g_nwarnings, rm_failed, i, local>>

\* What may come of decoding f: frames that are bad, frames that are missing.
\* A table that is corrupted may cut the file into frames in any way.
Decoded(f) ==
  IF f.table = "corrupted" THEN [bad : BOOLEAN, missing : BOOLEAN]
  ELSE CASE f.frames = "intact"  -> [bad : {FALSE}, missing : {FALSE}]
         [] f.frames = "damaged" -> [bad : {TRUE}, missing : {FALSE}]
         [] f.frames = "cut"     -> [bad : {TRUE}, missing : BOOLEAN]
         [] OTHER                -> {}

\* decst_loop or decmt_loop returns.  Its warnings are counted as one.
Decode ==
  /\ Goes("code", "header")
  /\ \E tta \in TTARead : \E d \in Decoded(tta.file) :
       /\ data' = [data EXCEPT ![outfile].of = tta.of,
                               ![outfile].whole = ~d.bad /\ ~d.missing]
       /\ Warned(d.bad \/ (~ignore_seektable /\ d.missing))
  /\ UNCHANGED <<process, given, entry, openedfiles, nerrors_file, outfile,
                 g_rm_on_sigint, rm_failed, i, local>>

\* A file that ends between two frames: the single-threaded loop gets an
\* unexpected decode status.  The multi-threaded one does not return, as DecMT
\* shows, and only a signal ends it.
DecodeRejects ==
  /\ pc = "code"
  /\ g_flag.threadmode = "single"
  /\ \E tta \in TTARead :
       tta.file.frames = "boundary" \/ tta.file.table = "corrupted"
  /\ FatalError
  /\ UNCHANGED <<pc, i, local>>

\* write_wav_header, write_w64_header
WriteHeader ==
  /\ Goes("header", "close")
  /\ data' = [data EXCEPT ![outfile].header = TRUE,
                          ![outfile].table = DecHeaderSize[g_flag.decfmt]]
  /\ UNCHANGED <<process, given, entry, openedfiles, nerrors_file, outfile,
                 g_rm_on_sigint, g_nwarnings, rm_failed, i, local>>

\* A read, a write or an allocation fails, or fopen for writing.  A raw outfile
\* has no header to fail on.
DecErrorExit ==
  /\ \/ pc = "setup" /\ i <= Len(argv)
     \/ pc \in {"open", "code"}
     \/ pc \in {"reserve", "header"} /\ g_flag.decfmt # ".raw"
  /\ FatalError
  /\ UNCHANGED <<pc, i, local>>

DecodeStep ==
  \/ CheckSeektable \/ RefuseSeektable \/ ReserveHeader \/ Decode
  \/ DecodeRejects \/ WriteHeader \/ DecErrorExit

=============================================================================
