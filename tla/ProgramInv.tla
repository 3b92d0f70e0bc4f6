----------------------------- MODULE ProgramInv -----------------------------
(***************************************************************************)
(* What holds at every step of Program about the names on the disk, the    *)
(* files they name and the stream being written: the inductive invariant   *)
(* from which its properties follow.                                       *)
(***************************************************************************)
EXTENDS Program, FiniteSets

\* An outfile with content that is not told apart.
IsOutput(d) ==
  d \in [kind : {"output"}, of : {d.of}, start : {d.start}, table : {d.table},
         header : BOOLEAN, whole : {d.whole}, closed : {"no", "ok", "failed"}]

IsContent(d) == d \in Source \/ IsOutput(d)

IsSeq(s) == s \in Seq({s[k] : k \in DOMAIN s})

\* The disk.  A name names one file, a source only its own.
DiskInv ==
  /\ IsSeq(data)
  /\ \A f \in DOMAIN data : IsContent(data[f])
  /\ \A n \in DOMAIN entry :
       /\ n \in Path
       /\ entry[n] \in DOMAIN data
       /\ data[entry[n]].kind # "output" => data[entry[n]].id = n
  /\ \A m, n \in DOMAIN entry : entry[m] = entry[n] => m = n

GivenInv ==
  /\ mode \in {"encode", "decode"}
  /\ argv \in Seq(Path)
  /\ g_flag.outfile \in Path \cup {NULL}
  /\ g_flag.outfile_is_dir \in BOOLEAN
  /\ g_flag.outfile_is_dir => g_flag.outfile # NULL
  /\ g_flag.delete_src \in BOOLEAN
  /\ g_flag.decfmt \in STRING

OpenedFile ==
  [infile_name : Path, infile : Nat \cup {NULL},
   fstat : File \cup TTAFile \cup {NULL}]

OpenedInv ==
  /\ openedfiles \in Seq(OpenedFile)
  /\ Len(openedfiles) <= Len(argv)
  /\ \A k \in DOMAIN openedfiles : openedfiles[k].infile_name = argv[k]

CodingPcs == {"setup", "open", "note", "reserve", "code", "header", "close",
              "forget", "next"}

\* Where the stream of the outfile is open, and where its name is noted.
OpenPcs == {"note", "reserve", "code", "header", "close"}
NotedPcs == {"reserve", "code", "header", "close", "forget"}

\* What is read of infile k is what its name names: the source that was checked.
Kept(k) ==
  /\ SourceKept(k)
  /\ openedfiles[k].infile = entry[argv[k]]
  /\ openedfiles[k].fstat = data[entry[argv[k]]].file

NoOutput == \A f \in DOMAIN data : data[f].kind # "output"

\* The arguments are being opened, then looked at: no error so far says that
\* all were.
ChecksInv ==
  pc \in {"args", "stat"} =>
    /\ NoOutput
    /\ nerrors_file \in Nat
    /\ g_rm_on_sigint = NULL
    /\ pc = "stat" => Len(openedfiles) = Len(argv)
    /\ pc = "args" => i = 1
    /\ \A k \in DOMAIN openedfiles :
         /\ nerrors_file = 0 => openedfiles[k].infile # NULL
         /\ openedfiles[k].infile # NULL =>
              /\ argv[k] \in DOMAIN entry
              /\ openedfiles[k].infile = entry[argv[k]]
         /\ nerrors_file = 0 /\ k < i => openedfiles[k].fstat # NULL
         /\ openedfiles[k].fstat # NULL => Kept(k)

\* One outfile at most is open, and the name it has is the one that is noted.
OutfileInv ==
  /\ \A f \in DOMAIN data :
       data[f].kind = "output" /\ data[f].closed = "no" =>
         pc \in OpenPcs /\ f = outfile
  /\ pc \in OpenPcs =>
       /\ i \in DOMAIN argv
       /\ OutName(i) \in DOMAIN entry
       /\ entry[OutName(i)] = outfile
       /\ data[outfile].kind = "output"
       /\ data[outfile].closed = "no"
  /\ pc = "forget" =>
       /\ i \in DOMAIN argv
       /\ OutName(i) \in DOMAIN entry
       /\ data[entry[OutName(i)]].kind = "output"
  /\ g_rm_on_sigint = IF pc \in NotedPcs THEN OutName(i) ELSE NULL

\* What is behind is written, what is ahead is not touched.
ProgressInv ==
  /\ \A k \in DOMAIN argv :
       /\ k < i => SourceKept(k) \/ Coded(k) \/ CloseFailed(k)
       /\ k >= i => Kept(k)
  /\ pc \in {"header", "close"} => data[outfile].of = argv[i]
  /\ pc = "close" => data[outfile].header
  /\ pc \in {"forget", "next"} => Coded(i) \/ CloseFailed(i)

CodingInv ==
  pc \in CodingPcs =>
    /\ Len(openedfiles) = Len(argv)
    /\ \A k \in DOMAIN argv : openedfiles[k].fstat # NULL
    /\ pc \in {"open", "next"} => i \in DOMAIN argv
    /\ ~Clash => ProgressInv

RunningInv ==
  process = "running" =>
    /\ i \in Nat \ {0}
    /\ pc \in {"args", "stat"} \cup CodingPcs
    /\ rm_failed = FALSE
    /\ ChecksInv
    /\ OutfileInv
    /\ CodingInv

IInv ==
  /\ DiskInv
  /\ GivenInv
  /\ OpenedInv
  /\ RunningInv
  /\ ChecksBeforeWriting
  /\ process # "running" => NoSourceLost /\ NoIncompleteLeft

-----------------------------------------------------------------------------
(* The types, and what they rest on.                                       *)

StatsType == IF mode = "encode" THEN File ELSE TTAFile

\* What was found out about an infile stays true of the file that is open,
\* unless it has become an outfile.
StatsInv ==
  \A k \in DOMAIN openedfiles :
    LET o == openedfiles[k] IN
    /\ o.infile \in DOMAIN data \cup {NULL}
    /\ o.fstat \in StatsType \cup {NULL}
    /\ o.infile # NULL /\ o.fstat # NULL =>
         data[o.infile].kind = "output" \/ data[o.infile].file = o.fstat

\* The infiles that could not be opened, or are not what they should be.
Bad ==
  {k \in DOMAIN openedfiles :
     openedfiles[k].infile = NULL \/ (k < i /\ openedfiles[k].fstat = NULL)}

\* Every infile is counted once at most.
ErrorsInv ==
  pc \in {"args", "stat"} =>
    /\ nerrors_file = Cardinality(Bad)
    /\ \A k \in DOMAIN openedfiles : k >= i => openedfiles[k].fstat = NULL

\* The seektable is made for the infile at hand, which is open.
StreamsInv ==
  pc \in CodingPcs =>
    /\ \A k \in DOMAIN argv : k >= i => openedfiles[k].infile # NULL
    /\ mode = "encode" /\ pc \in {"open", "note", "reserve", "code"} =>
         seektable = seektable_init(
           seektable_nframes(fstat.decpcm_size, FullFrame, SampleBytes))

TypeInv ==
  /\ TypeOK
  /\ StatsInv
  /\ process = "running" => ErrorsInv /\ StreamsInv

-----------------------------------------------------------------------------
(* What a run without a warning has done so far.                           *)

Done(k) == Coded(k) /\ data[entry[OutName(k)]].whole

\* Infile k is coded, and removed if that was asked for.
Finished(k) ==
  /\ Done(k)
  /\ IF g_flag.delete_src THEN argv[k] \notin DOMAIN entry ELSE SourceKept(k)

NoneEndsInSample == \A k \in DOMAIN argv : ~EndsInSample(k)

FinishedInv ==
  /\ \A k \in DOMAIN argv : k < i => Finished(k)
  /\ mode = "decode" /\ pc \in {"open", "note", "reserve", "code"} =>
       ~ignore_seektable
  /\ pc \in {"header", "close"} => data[outfile].whole
  /\ pc \in {"forget", "next"} => Done(i)

\* Where the frames of the outfile start is where its table will end.
LayoutInv ==
  /\ FramesFollowTable
  /\ pc = "code" =>
       data[outfile].start = IF mode = "encode" THEN ReservedSize(seektable)
                             ELSE DecHeaderSize[g_flag.decfmt]
  /\ pc = "header" =>
       data[outfile].start = IF mode = "encode"
                             THEN HeaderSize + TableSize(seektable.nmemb)
                             ELSE DecHeaderSize[g_flag.decfmt]
  /\ pc = "close" => data[outfile].table = data[outfile].start

CleanRun == FinishedInv /\ (NoneEndsInSample => LayoutInv)

CleanInv ==
  /\ process = "running" /\ pc \in CodingPcs /\ g_nwarnings = 0 /\ ~Clash =>
       CleanRun
  /\ CleanReturnMeansCoded

=============================================================================
