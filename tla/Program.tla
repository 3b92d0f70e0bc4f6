------------------------------ MODULE Program -------------------------------
(***************************************************************************)
(* The program: main (src/src/cli/main.c) enters one of the two modes.     *)
(***************************************************************************)
EXTENDS EncodeMode, DecodeMode

Source ==
  [kind : {"pcm"}, id : Path, file : File]
  \cup [kind : {"tta"}, id : Path, file : TTAFile]

\* A command line and the disk it meets.  The files on it are sources, of which
\* no two names name the same.
IsStart(s) ==
  /\ s.mode \in {"encode", "decode"}
  /\ s.argv \in Seq(Path)
  /\ s.g_flag.outfile \in Path \cup {NULL}
  /\ s.g_flag.outfile_is_dir \in BOOLEAN
  /\ s.g_flag.outfile_is_dir => s.g_flag.outfile # NULL
  /\ s.g_flag.delete_src \in BOOLEAN
  /\ s.g_flag.decfmt \in STRING
  /\ s.data \in Seq(Source)
  /\ \A n \in DOMAIN s.entry :
       n \in Path /\ s.entry[n] \in DOMAIN s.data /\ s.data[s.entry[n]].id = n

ASSUME NoStatsAssumption == NULL \notin File \cup TTAFile
ASSUME StartsAssumption == \A s \in Starts : IsStart(s)

Init ==
  /\ FilesInit
  /\ pc = "args"
  /\ i = 1
  /\ seektable = seektable_init(0)
  /\ ignore_seektable = FALSE

Terminated == process # "running" /\ UNCHANGED vars

Next ==
  \/ ModeStep
  \/ mode = "encode" /\ EncodeStep
  \/ mode = "decode" /\ DecodeStep
  \/ Terminated

Spec == Init /\ [][Next]_vars

-----------------------------------------------------------------------------

\* Every variable keeps its type: what is open exists, and has a name unless
\* that was removed.
TypeOK ==
  /\ process \in {"running", "returned", "exited", "killed"}
  /\ \A n \in DOMAIN entry : n \in Path /\ entry[n] \in DOMAIN data
  /\ \A f \in DOMAIN data : data[f].kind \in {"pcm", "tta", "output"}
  /\ \A k \in DOMAIN openedfiles :
       /\ openedfiles[k].infile_name = argv[k]
       /\ openedfiles[k].infile \in DOMAIN data \cup {NULL}
       /\ openedfiles[k].fstat \in File \cup TTAFile \cup {NULL}
  /\ nerrors_file \in 0..Len(argv)
  /\ outfile \in DOMAIN data \cup {NULL}
  /\ g_rm_on_sigint \in {NULL} \cup {OutName(k) : k \in DOMAIN argv}
  /\ g_nwarnings \in 0..UINT8_MAX
  /\ rm_failed \in BOOLEAN
  /\ pc \in {"args", "stat", "setup", "open", "note", "reserve", "code",
             "header", "close", "forget", "next"}
  /\ i \in 1..Len(argv) + 1
  /\ seektable \in SeekTable
  /\ ignore_seektable \in BOOLEAN

\* Two infiles have the same outfile, or one is the outfile of another.
Clash ==
  \E j, k \in DOMAIN argv :
    OutName(j) = argv[k] \/ (j # k /\ OutName(j) = OutName(k))

SourceKept(k) ==
  argv[k] \in DOMAIN entry /\ data[entry[argv[k]]].kind = SourceKind

\* All that the program wrote for infile k is in its outfile.
Coded(k) ==
  /\ OutName(k) \in DOMAIN entry
  /\ LET d == data[entry[OutName(k)]] IN
       d.kind = "output" /\ d.of = argv[k] /\ d.header /\ d.closed = "ok"

CloseFailed(k) ==
  /\ OutName(k) \in DOMAIN entry
  /\ LET d == data[entry[OutName(k)]] IN
       d.kind = "output" /\ d.of = argv[k] /\ d.closed = "failed"

\* No file is opened for writing before every infile is open and checked.
ChecksBeforeWriting ==
  (\E f \in DOMAIN data : data[f].kind = "output") =>
    \A k \in DOMAIN argv : openedfiles[k].fstat # NULL

\* Whatever fails and whenever a signal arrives, an infile is as it was or its
\* coding is on the disk, unless names clash or fclose has failed for it.
NoSourceLost ==
  ~Clash => \A k \in DOMAIN openedfiles :
    openedfiles[k].fstat # NULL =>
      SourceKept(k) \/ Coded(k) \/ CloseFailed(k)

\* The program leaves no outfile that it did not close, except one that a
\* signal found open and not yet noted, or could not remove.
NoIncompleteLeft ==
  process \in {"exited", "killed"} /\ ~rm_failed =>
    \A n \in DOMAIN entry :
      data[entry[n]].kind = "output" /\ data[entry[n]].closed = "no" =>
        process = "killed" /\ pc = "note"

\* A removal takes an infile that is coded or an outfile that is not complete;
\* only a signal between fclose and the next assignment takes one that is.
RemovesOnlyIncomplete ==
  [][\A n \in DOMAIN entry \ DOMAIN entry' :
       \/ /\ pc = "next"
          /\ n = infile_name
          /\ process' = "running"
       \/ /\ data[entry[n]].kind = "output"
          /\ data[entry[n]].closed # "ok" \/ pc = "forget"]_vars

\* The table that is written ends where the frames start.
FramesFollowTable ==
  \A f \in DOMAIN data :
    data[f].kind = "output" /\ data[f].closed = "ok" =>
      data[f].table = data[f].start

\* The PCM that infile k announces ends with a part of a sample right after a
\* frame, or is empty: the seektable has room for a frame that does not come.
EndsInSample(k) ==
  LET size == openedfiles[k].fstat.decpcm_size IN
  /\ mode = "encode"
  /\ size = 0 \/ size % SampleBytes # 0
  /\ (size \div SampleBytes) % FullFrame = 0

\* If the program returns 0, every infile is coded and exactly what was to be
\* deleted is; the outfiles are laid out as the format asks, unless the PCM of
\* one ends in a part of a sample where a frame would begin.
CleanReturnMeansCoded ==
  process = "returned" /\ g_nwarnings = 0 /\ ~Clash =>
    /\ \A k \in DOMAIN argv :
         /\ Coded(k)
         /\ data[entry[OutName(k)]].whole
         /\ SourceKept(k) <=> ~g_flag.delete_src
    /\ (\A k \in DOMAIN argv : ~EndsInSample(k)) => FramesFollowTable

=============================================================================
