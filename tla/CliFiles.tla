------------------------------ MODULE CliFiles ------------------------------
(***************************************************************************)
(* The files of a run of the program: the names on the command line, the   *)
(* files they name, the streams that are open, and what becomes of them    *)
(* when the program returns, exits or is stopped by a signal               *)
(* (src/src/cli/open.c, main.c, debug.c, opts/optsget.c, system.posix.h).  *)
(*                                                                         *)
(* A path is [dir, base, sfx], all strings: "a/b.wav" has dir "a/" and sfx *)
(* ".wav".  A file is an inode: a stream keeps the inode that it opened,   *)
(* whatever its name comes to name.                                        *)
(***************************************************************************)
EXTENDS Integers, Sequences, TLC

CONSTANTS NULL,
          UINT8_MAX,     \* largest count of warnings
          BeforeDot,     \* [directories with a dot -> what precedes the last]
          Starts         \* command lines and disks to start from

Path == [dir : STRING, base : STRING, sfx : STRING]

\* True of strings, but not known to the provers.
ASSUME StringsAssumption == {"", ".tta"} \subseteq STRING
ASSUME NullAssumption == NULL \notin Nat \cup Path
ASSUME WarningsAssumption == UINT8_MAX \in Nat \ {0}
ASSUME BeforeDotAssumption == \A d \in DOMAIN BeforeDot : BeforeDot[d] \in STRING

VARIABLES
  process,        \* "running", "returned", "exited" or "killed"
  mode,           \* "encode" or "decode"
  g_flag,         \* [outfile, outfile_is_dir, delete_src, threadmode, decfmt]
  argv,           \* the names of the infiles
  entry,          \* [names of existing files -> inode]
  data,           \* [inode -> content]
  openedfiles,    \* of each infile: its name, its stream, its stats
  nerrors_file,   \* errors met before the first file is coded
  outfile,        \* the stream of the outfile, or NULL
  g_rm_on_sigint, \* the name to remove at an exit or a signal, or NULL
  g_nwarnings,    \* number of warnings and errors, the exit status
  rm_failed       \* the last removal at an exit or a signal failed

disk  == <<entry, data>>
given == <<mode, g_flag, argv>>

FilesInit ==
  /\ process = "running"
  /\ \E s \in Starts : /\ mode = s.mode
                       /\ g_flag = s.g_flag
                       /\ argv = s.argv
                       /\ entry = s.entry
                       /\ data = s.data
  /\ openedfiles = <<>>
  /\ nerrors_file = 0
  /\ outfile = NULL
  /\ g_rm_on_sigint = NULL
  /\ g_nwarnings = 0
  /\ rm_failed = FALSE

-----------------------------------------------------------------------------

\* A file that fopen(name, "wb") has emptied: of is the name of the infile
\* whose frames it holds, all of them if it is whole, start where they start,
\* table where the header and the seektable end once header says that they are
\* written.
Empty == [kind |-> "output", of |-> NULL, start |-> 0, table |-> 0,
          header |-> FALSE, whole |-> FALSE, closed |-> "no"]

\* fopen(name, "wb"): an existing file is truncated, not replaced.
Truncate(name) ==
  IF name \in DOMAIN entry
  THEN /\ outfile' = entry[name]
       /\ data' = [data EXCEPT ![entry[name]] = Empty]
       /\ UNCHANGED entry
  ELSE /\ outfile' = Len(data) + 1
       /\ data' = Append(data, Empty)
       /\ entry' = [n \in DOMAIN entry \cup {name} |->
                     IF n = name THEN Len(data) + 1 ELSE entry[n]]

Without(name) == [n \in DOMAIN entry \ {name} |-> entry[n]]

\* Mutant of inc_nwarnings: it is not kept from passing its largest value.
inc_nwarnings_past(n) == n + 1

\* g_nwarnings after one more: it stays at its largest value.
inc_nwarnings(n) == IF n < UINT8_MAX THEN n + 1 ELSE n

Warned(warned) ==
  g_nwarnings' = IF warned THEN inc_nwarnings(g_nwarnings) ELSE g_nwarnings

\* The name of the outfile.  The last dot of the name that is kept is looked
\* for in the whole name: without -o DIR/ it may be one of the directory.
outfile_name_fmt(dir, name, sfx) ==
  IF name.sfx = "" /\ dir = "" /\ name.dir \in DOMAIN BeforeDot
  THEN [dir |-> "", base |-> BeforeDot[name.dir], sfx |-> sfx]
  ELSE [dir |-> IF dir # "" THEN dir ELSE name.dir,
        base |-> name.base,
        sfx |-> sfx]

get_outfile_name(infile_name, sfx) ==
  IF g_flag.outfile = NULL THEN outfile_name_fmt("", infile_name, sfx)
  ELSE IF g_flag.outfile_is_dir
       THEN outfile_name_fmt(g_flag.outfile.dir, infile_name, sfx)
  ELSE g_flag.outfile

-----------------------------------------------------------------------------

\* atexit_cleanup and sighand_cleanup_exit: the file named g_rm_on_sigint is
\* removed, or its removal fails.
RemoveIncomplete ==
  \/ /\ g_rm_on_sigint = NULL
     /\ UNCHANGED <<entry, rm_failed>>
  \/ /\ g_rm_on_sigint \in DOMAIN entry
     /\ entry' = Without(g_rm_on_sigint)
     /\ UNCHANGED rm_failed
  \/ /\ g_rm_on_sigint # NULL
     /\ rm_failed' = TRUE
     /\ UNCHANGED entry

\* exit, which print_error_sys calls for a fatal error.  The status is given
\* before the removal, so that a failed one no longer counts.
Exit ==
  /\ process' = "exited"
  /\ RemoveIncomplete

\* A signal that is handled arrives.
SignalExit ==
  /\ process = "running"
  /\ process' = "killed"
  /\ RemoveIncomplete
  /\ UNCHANGED <<given, data, openedfiles, nerrors_file, outfile,
                 g_rm_on_sigint, g_nwarnings>>

\* openedfiles_add for the next name of the command line: the infile is opened,
\* or counted as an error.
OpenInfile ==
  LET k == Len(openedfiles) + 1 IN
  /\ process = "running"
  /\ k <= Len(argv)
  /\ \E opened \in IF argv[k] \in DOMAIN entry THEN BOOLEAN ELSE {FALSE} :
       /\ openedfiles' = Append(openedfiles,
            [infile_name |-> argv[k],
             infile      |-> IF opened THEN entry[argv[k]] ELSE NULL,
             fstat       |-> NULL])
       /\ nerrors_file' = nerrors_file + (IF opened THEN 0 ELSE 1)
       /\ Warned(~opened)
  /\ UNCHANGED <<process, given, disk, outfile, g_rm_on_sigint, rm_failed>>

\* fopen_check(outfile_name, "wb", FATAL) succeeds: the file is open, and not
\* yet noted.
OpenOutfile(name) ==
  /\ process = "running"
  /\ Truncate(name)
  /\ UNCHANGED <<process, given, openedfiles, nerrors_file, g_rm_on_sigint,
                 g_nwarnings, rm_failed>>

\* A call fails for which error_sys or error_tta is called.
FatalError ==
  /\ process = "running"
  /\ Exit
  /\ Warned(TRUE)
  /\ UNCHANGED <<given, data, openedfiles, nerrors_file, outfile,
                 g_rm_on_sigint>>

=============================================================================
