------------------------------ MODULE ModeLoop ------------------------------
(***************************************************************************)
(* What mode_encode and mode_decode have in common                         *)
(* (src/src/cli/modes/mode_encode.c, mode_decode.c): check every infile,   *)
(* then for each open and note an outfile, close and forget it when it is  *)
(* written, and remove the infile if that was asked for.  Any call may     *)
(* fail and a signal may arrive between any two.                           *)
(***************************************************************************)
EXTENDS CliFiles

VARIABLES
  pc,                \* the next call
  i,                 \* index of the file at hand
  seektable,         \* of enc_loop
  ignore_seektable   \* of dec_loop

local == <<seektable, ignore_seektable>>

vars == <<process, mode, g_flag, argv, entry, data, openedfiles, nerrors_file,
          outfile, g_rm_on_sigint, g_nwarnings, rm_failed, pc, i, seektable,
          ignore_seektable>>

infile       == openedfiles[i].infile
infile_name  == openedfiles[i].infile_name
fstat        == openedfiles[i].fstat

\* Of g_flag.decfmt the model keeps the suffix.
OutName(k) ==
  get_outfile_name(argv[k], IF mode = "encode" THEN ".tta" ELSE g_flag.decfmt)

outfile_name == OutName(i)

Goes(from, to) == process = "running" /\ pc = from /\ pc' = to

\* optargs_process
ProcessArg == OpenInfile /\ pc = "args" /\ UNCHANGED <<pc, i, local>>

ArgsDone ==
  /\ Len(openedfiles) = Len(argv)
  /\ Goes("args", "stat")
  /\ UNCHANGED <<process, given, disk, openedfiles, nerrors_file, outfile,
                 g_rm_on_sigint, g_nwarnings, rm_failed, i, local>>

\* What the mode takes for a source
SourceKind == IF mode = "encode" THEN "pcm" ELSE "tta"

\* filestats_get of each infile that is open: its stats, or one more error
\* and no stats.
GetStats ==
  /\ process = "running"
  /\ pc = "stat"
  /\ i <= Len(argv)
  /\ i' = i + 1
  /\ IF infile = NULL
     THEN UNCHANGED <<openedfiles, nerrors_file, g_nwarnings>>
     ELSE \E ok \in IF data[infile].kind = SourceKind THEN BOOLEAN
                   ELSE {FALSE} :
            /\ openedfiles' =
                 IF ok THEN [openedfiles EXCEPT ![i].fstat = data[infile].file]
                 ELSE openedfiles
            /\ nerrors_file' = nerrors_file + (IF ok THEN 0 ELSE 1)
            /\ Warned(~ok)
  /\ UNCHANGED <<process, given, disk, outfile, g_rm_on_sigint, rm_failed, pc,
                 local>>

\* Mutant of StatsDone: the last infile is not looked at.
StatsDoneButLast == process = "running" /\ pc = "stat" /\ i >= Len(argv)

\* The loop over the infiles has ended.
StatsDone == process = "running" /\ pc = "stat" /\ i = Len(argv) + 1

\* That there is nothing to do is an error, too.
Errors == nerrors_file # 0 \/ argv = <<>>

\* "additional error check(s)": these are warned about, and the second counted.
ChecksWarn ==
  \/ Len(argv) > 1 /\ g_flag.outfile # NULL /\ ~g_flag.outfile_is_dir
  \/ argv = <<>>

\* "exit if any errors"
ExitIfErrors ==
  /\ StatsDone
  /\ Errors
  /\ Exit
  /\ Warned(ChecksWarn)
  /\ UNCHANGED <<given, data, openedfiles, nerrors_file, outfile,
                 g_rm_on_sigint, pc, i, local>>

\* "encode each file"
StartCoding ==
  /\ StatsDone
  /\ ~Errors
  /\ pc' = "setup"
  /\ i' = 1
  /\ Warned(ChecksWarn)
  /\ UNCHANGED <<process, given, disk, openedfiles, nerrors_file, outfile,
                 g_rm_on_sigint, rm_failed, local>>

-----------------------------------------------------------------------------
(* enc_loop and dec_loop                                                   *)

\* "open outfile"
Open ==
  /\ Goes("open", "note")
  /\ OpenOutfile(outfile_name)
  /\ UNCHANGED <<i, local>>

\* Mutant of Note: the name of the infile is noted.
NoteInfile ==
  /\ Goes("note", "reserve")
  /\ g_rm_on_sigint' = infile_name
  /\ UNCHANGED <<process, given, disk, openedfiles, nerrors_file, outfile,
                 g_nwarnings, rm_failed, i, local>>

\* Until now an exit or a signal leaves the outfile.
Note ==
  /\ Goes("note", "reserve")
  /\ g_rm_on_sigint' = outfile_name
  /\ UNCHANGED <<process, given, disk, openedfiles, nerrors_file, outfile,
                 g_nwarnings, rm_failed, i, local>>

\* "close outfile": if that fails, some of it may be lost, and the program
\* goes on.
CloseOutfile ==
  /\ Goes("close", "forget")
  /\ \E closed \in {"ok", "failed"} :
       /\ data' = [data EXCEPT ![outfile].closed = closed]
       /\ Warned(closed = "failed")
  /\ outfile' = NULL
  /\ UNCHANGED <<process, given, entry, openedfiles, nerrors_file,
                 g_rm_on_sigint, rm_failed, i, local>>

\* Mutant of Forget: the name stays noted.
ForgetNothing ==
  /\ Goes("forget", "next")
  /\ UNCHANGED <<process, given, disk, openedfiles, nerrors_file, outfile,
                 g_rm_on_sigint, g_nwarnings, rm_failed, i, local>>

\* g_rm_on_sigint = NULL: the outfile is no longer removed.
Forget ==
  /\ Goes("forget", "next")
  /\ g_rm_on_sigint' = NULL
  /\ UNCHANGED <<process, given, disk, openedfiles, nerrors_file, outfile,
                 g_nwarnings, rm_failed, i, local>>

\* fclose of the infile; its removal, which may fail.
FinishFile ==
  /\ Goes("next", "setup")
  /\ openedfiles' = [openedfiles EXCEPT ![i].infile = NULL]
  /\ i' = i + 1
  /\ \E removed \in IF infile_name \in DOMAIN entry THEN BOOLEAN ELSE {FALSE} :
       /\ entry' = IF g_flag.delete_src /\ removed THEN Without(infile_name)
                   ELSE entry
       /\ Warned(g_flag.delete_src /\ ~removed)
  /\ UNCHANGED <<process, given, data, nerrors_file, outfile, g_rm_on_sigint,
                 rm_failed, local>>

\* The mode and main return, and what is to be done at an exit is done.
Return ==
  /\ process = "running"
  /\ pc = "setup"
  /\ i > Len(argv)
  /\ process' = "returned"
  /\ RemoveIncomplete
  /\ UNCHANGED <<given, data, openedfiles, nerrors_file, outfile,
                 g_rm_on_sigint, g_nwarnings, pc, i, local>>

Signal == SignalExit /\ UNCHANGED <<pc, i, local>>

\* An allocation or a seek fails, or an option is bad.
EarlyErrorExit ==
  /\ pc \in {"args", "stat"}
  /\ FatalError
  /\ UNCHANGED <<pc, i, local>>

ModeStep ==
  \/ ProcessArg \/ ArgsDone \/ GetStats \/ ExitIfErrors \/ StartCoding
  \/ Open \/ Note \/ CloseOutfile \/ Forget \/ FinishFile
  \/ Return \/ EarlyErrorExit \/ Signal

=============================================================================
