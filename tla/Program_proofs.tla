--------------------------- MODULE Program_proofs ---------------------------
(***************************************************************************)
(* What Program promises about the files of a user, for every command line *)
(* and every disk: every failure and every signal at every call.           *)
(***************************************************************************)
EXTENDS ProgramInv, FileCheckInv, Frames_proofs, SequenceTheorems, FiniteSetTheorems,
        WellFoundedInduction, TLAPS

-----------------------------------------------------------------------------
(* The disk                                                                *)

LEMMA SeqOfItself ==
  ASSUME NEW S, NEW s \in Seq(S)
  PROVE  IsSeq(s)
<1> DEFINE T == {s[k] : k \in DOMAIN s}
<1>1. Len(s) \in Nat /\ DOMAIN s = 1..Len(s) /\ s \in [1..Len(s) -> S]
  BY LenProperties
<1>2. s \in [1..Len(s) -> T]
  BY <1>1
<1> QED
  BY <1>1, <1>2, SeqDef DEF IsSeq

LEMMA SeqUpdated ==
  ASSUME NEW s, IsSeq(s), NEW j \in DOMAIN s, NEW e,
         NEW t, t = [s EXCEPT ![j] = e]
  PROVE  /\ IsSeq(t)
         /\ DOMAIN t = DOMAIN s
         /\ Len(t) = Len(s)
         /\ t[j] = e
         /\ \A k \in DOMAIN s \ {j} : t[k] = s[k]
<1> DEFINE S == {s[k] : k \in DOMAIN s} \cup {e}
<1>1. Len(s) \in Nat /\ DOMAIN s = 1..Len(s)
        /\ s \in [1..Len(s) -> {s[k] : k \in DOMAIN s}]
  BY LenProperties DEF IsSeq
<1>2. s \in [1..Len(s) -> S]
  BY <1>1
<1>3. t \in [1..Len(s) -> S]
  BY <1>1, <1>2
<1>4. t \in Seq(S)
  BY <1>1, <1>3, SeqDef
<1>5. DOMAIN t = DOMAIN s
  BY <1>1, <1>3
<1>6. Len(t) = Len(s)
  BY <1>1, <1>4, <1>5, LenProperties
<1> QED
  BY <1>1, <1>4, <1>5, <1>6, SeqOfItself

LEMMA SeqAppended ==
  ASSUME NEW s, IsSeq(s), NEW e
  PROVE  LET t == Append(s, e) IN
         /\ IsSeq(t)
         /\ Len(s) \in Nat
         /\ Len(t) = Len(s) + 1
         /\ DOMAIN s = 1..Len(s)
         /\ DOMAIN t = 1..(Len(s) + 1)
         /\ t[Len(s) + 1] = e
         /\ \A k \in DOMAIN s : t[k] = s[k]
<1> DEFINE t == Append(s, e)
<1> DEFINE S == {s[k] : k \in DOMAIN s} \cup {e}
<1>1. Len(s) \in Nat /\ DOMAIN s = 1..Len(s)
        /\ s \in [1..Len(s) -> {s[k] : k \in DOMAIN s}]
  BY LenProperties DEF IsSeq
<1>2. s \in [1..Len(s) -> S]
  BY <1>1
<1>3. s \in Seq(S) /\ e \in S
  BY <1>1, <1>2, SeqDef
<1> HIDE DEF S
<1>4. /\ t \in Seq(S)
      /\ Len(t) = Len(s) + 1
      /\ \A k \in 1..Len(s) : t[k] = s[k]
      /\ t[Len(s) + 1] = e
  BY <1>3, AppendProperties
<1> HIDE DEF t
<1>5. DOMAIN t = 1..(Len(s) + 1)
  BY <1>4, LenProperties
<1>6. IsSeq(t)
  BY <1>4, SeqOfItself
<1> QED
  BY <1>1, <1>4, <1>5, <1>6 DEF t

LEMMA ContentKinds ==
  ASSUME NEW d, IsContent(d)
  PROVE  /\ d.kind \in {"pcm", "tta", "output"}
         /\ d.kind = "output" => IsOutput(d)
         /\ d.kind # "output" =>
              d.id \in Path /\ d.file \in File \cup TTAFile /\ d.file # NULL
BY NoStatsAssumption DEF IsContent, IsOutput, Source

LEMMA EmptyIsOutput == IsOutput(Empty) /\ Empty.kind = "output" /\ Empty.closed = "no"
BY DEF IsOutput, Empty

\* A write to an outfile.
LEMMA DiskWritten ==
  ASSUME DiskInv, NEW f \in DOMAIN data, data[f].kind = "output",
         NEW d, IsOutput(d), data' = [data EXCEPT ![f] = d], entry' = entry
  PROVE  /\ DiskInv'
         /\ DOMAIN data' = DOMAIN data
         /\ data'[f] = d
         /\ d.kind = "output"
         /\ \A g \in DOMAIN data \ {f} : data'[g] = data[g]
<1>1. /\ IsSeq(data')
      /\ DOMAIN data' = DOMAIN data
      /\ data'[f] = d
      /\ \A g \in DOMAIN data \ {f} : data'[g] = data[g]
  BY SeqUpdated DEF DiskInv
<1>2. d.kind = "output"
  BY DEF IsOutput
<1>3. \A g \in DOMAIN data' : IsContent(data'[g])
  BY <1>1 DEF DiskInv, IsContent
<1>4. \A n \in DOMAIN entry' :
        /\ n \in Path
        /\ entry'[n] \in DOMAIN data'
        /\ data'[entry'[n]].kind # "output" => data'[entry'[n]].id = n
  BY <1>1, <1>2 DEF DiskInv
<1>5. \A m, n \in DOMAIN entry' : entry'[m] = entry'[n] => m = n
  BY DEF DiskInv
<1> QED
  BY <1>1, <1>2, <1>3, <1>4, <1>5 DEF DiskInv

\* An outfile opened.
LEMMA DiskTruncated ==
  ASSUME DiskInv, NEW name \in Path, Truncate(name)
  PROVE  /\ DiskInv'
         /\ name \in DOMAIN entry'
         /\ entry'[name] = outfile'
         /\ outfile' \in DOMAIN data'
         /\ data'[outfile'] = Empty
         /\ DOMAIN data \subseteq DOMAIN data'
         /\ \A g \in DOMAIN data' \ {outfile'} :
              g \in DOMAIN data /\ data'[g] = data[g]
         /\ \A n \in DOMAIN entry : n \in DOMAIN entry' /\ entry'[n] = entry[n]
         /\ \A n \in DOMAIN entry : entry[n] = outfile' => n = name
<1> USE EmptyIsOutput
<1>1. CASE name \in DOMAIN entry
  <2>1. /\ outfile' = entry[name]
        /\ data' = [data EXCEPT ![entry[name]] = Empty]
        /\ entry' = entry
    BY <1>1 DEF Truncate
  <2>2. entry[name] \in DOMAIN data
    BY <1>1 DEF DiskInv
  <2>3. /\ IsSeq(data')
        /\ DOMAIN data' = DOMAIN data
        /\ data'[entry[name]] = Empty
        /\ \A g \in DOMAIN data \ {entry[name]} : data'[g] = data[g]
    BY <2>1, <2>2, SeqUpdated DEF DiskInv
  <2>4. \A g \in DOMAIN data' : IsContent(data'[g])
    BY <2>3 DEF DiskInv, IsContent
  <2>5. \A n \in DOMAIN entry' :
          /\ n \in Path
          /\ entry'[n] \in DOMAIN data'
          /\ data'[entry'[n]].kind # "output" => data'[entry'[n]].id = n
    BY <2>1, <2>3 DEF DiskInv
  <2>6. \A m, n \in DOMAIN entry' : entry'[m] = entry'[n] => m = n
    BY <2>1 DEF DiskInv
  <2>7. DiskInv'
    BY <2>3, <2>4, <2>5, <2>6 DEF DiskInv
  <2> QED
    BY <1>1, <2>1, <2>2, <2>3, <2>6, <2>7
<1>2. CASE name \notin DOMAIN entry
  <2> DEFINE new == Len(data) + 1
  <2>1. /\ outfile' = new
        /\ data' = Append(data, Empty)
        /\ entry' = [n \in DOMAIN entry \cup {name} |->
                     IF n = name THEN new ELSE entry[n]]
    BY <1>2 DEF Truncate
  <2>2. /\ IsSeq(data')
        /\ Len(data) \in Nat
        /\ DOMAIN data = 1..Len(data)
        /\ DOMAIN data' = 1..(Len(data) + 1)
        /\ data'[Len(data) + 1] = Empty
        /\ \A g \in DOMAIN data : data'[g] = data[g]
    <3>1. IsSeq(data) /\ data' = Append(data, Empty)
      BY <2>1 DEF DiskInv
    <3> QED
      BY <3>1, SeqAppended
  <2>3. /\ DOMAIN entry' = DOMAIN entry \cup {name}
        /\ entry'[name] = new
        /\ \A n \in DOMAIN entry : entry'[n] = entry[n]
    BY <1>2, <2>1
  <2>4. /\ new \in DOMAIN data' /\ new \notin DOMAIN data
        /\ DOMAIN data' = DOMAIN data \cup {new}
        /\ data'[new] = Empty
    BY <2>2
  <2> HIDE DEF new
  <2>5. \A g \in DOMAIN data' : IsContent(data'[g])
    BY <2>2, <2>4 DEF DiskInv, IsContent
  <2>6. \A n \in DOMAIN entry' :
          /\ n \in Path
          /\ entry'[n] \in DOMAIN data'
          /\ data'[entry'[n]].kind # "output" => data'[entry'[n]].id = n
    BY <2>2, <2>3, <2>4 DEF DiskInv
  <2>7. \A m, n \in DOMAIN entry' : entry'[m] = entry'[n] => m = n
    BY <2>3, <2>4 DEF DiskInv
  <2>8. DiskInv'
    BY <2>2, <2>5, <2>6, <2>7 DEF DiskInv
  <2>9. \A n \in DOMAIN entry : entry[n] # new
    BY <2>4 DEF DiskInv
  <2> QED
    BY <2>1, <2>2, <2>3, <2>4, <2>8, <2>9
<1> QED
  BY <1>1, <1>2

\* A name removed.
LEMMA DiskWithout ==
  ASSUME DiskInv, data' = data,
         entry' = entry \/ \E name : entry' = Without(name)
  PROVE  DiskInv'
BY DEF DiskInv, Without

-----------------------------------------------------------------------------
(* The names                                                               *)

LEMMA OutNamePath ==
  ASSUME GivenInv, NEW k \in DOMAIN argv
  PROVE  OutName(k) \in Path /\ OutName(k) # NULL
<1>1. argv[k] \in Path
  BY DEF GivenInv
<1> DEFINE sfx == IF mode = "encode" THEN ".tta" ELSE g_flag.decfmt
<1>2. sfx \in STRING /\ "" \in STRING
  BY StringsAssumption DEF GivenInv
<1> HIDE DEF sfx
<1>3. \A dir \in STRING : outfile_name_fmt(dir, argv[k], sfx) \in Path
  BY <1>1, <1>2, BeforeDotAssumption DEF outfile_name_fmt, Path
<1>4. g_flag.outfile # NULL => g_flag.outfile \in Path /\ g_flag.outfile.dir \in STRING
  BY DEF GivenInv, Path
<1>5. get_outfile_name(argv[k], sfx) \in Path
  BY <1>2, <1>3, <1>4 DEF get_outfile_name, GivenInv
<1> QED
  BY <1>5, NullAssumption DEF OutName, sfx

LEMMA GivenSame ==
  ASSUME UNCHANGED given
  PROVE  /\ UNCHANGED <<mode, g_flag, argv>>
         /\ GivenInv => GivenInv'
         /\ SourceKind' = SourceKind
         /\ \A k : OutName(k)' = OutName(k)
         /\ Clash' = Clash
<1>1. UNCHANGED <<mode, g_flag, argv>>
  BY DEF given
<1>2. \A k : OutName(k)' = OutName(k)
  BY <1>1 DEF OutName, get_outfile_name
<1>3. Clash' = Clash
  BY <1>1, <1>2 DEF Clash
<1> QED
  BY <1>1, <1>2, <1>3 DEF GivenInv, SourceKind

LEMMA SourceKinds == SourceKind \in {"pcm", "tta"} /\ SourceKind # "output"
BY DEF SourceKind

-----------------------------------------------------------------------------
(* Initial states, exits and signals                                       *)

LEMMA InitIInv == Init => IInv
<1> SUFFICES ASSUME Init PROVE IInv
  OBVIOUS
<1>1. PICK s \in Starts :
        /\ mode = s.mode /\ g_flag = s.g_flag /\ argv = s.argv
        /\ entry = s.entry /\ data = s.data
  BY DEF Init, FilesInit
<1>2. IsStart(s)
  BY StartsAssumption
<1>3. /\ process = "running" /\ openedfiles = <<>> /\ nerrors_file = 0
      /\ outfile = NULL /\ g_rm_on_sigint = NULL /\ rm_failed = FALSE
      /\ pc = "args" /\ i = 1
  BY DEF Init, FilesInit
<1>4. data \in Seq(Source) /\ IsSeq(data)
  BY <1>1, <1>2, SeqOfItself DEF IsStart
<1>5. \A f \in DOMAIN data : data[f] \in Source
  BY <1>4
<1>6. \A f \in DOMAIN data : IsContent(data[f]) /\ data[f].kind # "output"
  BY <1>5 DEF IsContent, Source
<1>7. DiskInv
  <2>1. \A n \in DOMAIN entry :
          n \in Path /\ entry[n] \in DOMAIN data /\ data[entry[n]].id = n
    BY <1>1, <1>2 DEF IsStart
  <2> QED
    BY <1>4, <1>6, <2>1 DEF DiskInv
<1>8. GivenInv
  BY <1>1, <1>2 DEF GivenInv, IsStart
<1>9. /\ openedfiles \in Seq(OpenedFile)
      /\ Len(openedfiles) = 0
      /\ DOMAIN openedfiles = {}
  BY <1>3
<1>10. OpenedInv
  BY <1>8, <1>9 DEF OpenedInv, GivenInv
<1>11. ChecksBeforeWriting
  BY <1>6 DEF ChecksBeforeWriting
<1>12. ChecksInv
  BY <1>3, <1>6, <1>9 DEF ChecksInv, NoOutput
<1>13. OutfileInv
  BY <1>3, <1>6 DEF OutfileInv, OpenPcs, NotedPcs
<1>14. CodingInv
  BY <1>3 DEF CodingInv, CodingPcs
<1> QED
  BY <1>3, <1>7, <1>8, <1>10, <1>11, <1>12, <1>13, <1>14 DEF IInv, RunningInv

\* At every step every source is safe, whatever is noted being removed.
LEMMA RunningKeeps ==
  ASSUME IInv, process = "running", ~Clash,
         NEW k \in DOMAIN openedfiles, openedfiles[k].fstat # NULL
  PROVE  /\ k \in DOMAIN argv
         /\ SourceKept(k) \/ Coded(k) \/ CloseFailed(k)
         /\ k = i /\ pc \in NotedPcs => SourceKept(k)
<1>1. k \in DOMAIN argv
  BY DEF IInv, OpenedInv, GivenInv
<1>2. CASE pc \in {"args", "stat"}
  <2>1. Kept(k)
    BY <1>2 DEF IInv, RunningInv, ChecksInv
  <2> QED
    BY <1>1, <2>1 DEF Kept
<1>3. CASE pc \in CodingPcs
  <2>1. ProgressInv
    BY <1>3 DEF IInv, RunningInv, CodingInv
  <2>2. i \in Nat /\ k \in Nat
    BY <1>1 DEF IInv, RunningInv, GivenInv
  <2>3. k < i \/ k >= i
    BY <2>2
  <2>4. k = i => k >= i
    BY <2>2
  <2> QED
    BY <1>1, <2>1, <2>3, <2>4 DEF ProgressInv, Kept
<1> QED
  BY <1>2, <1>3 DEF IInv, RunningInv

\* What an exit or a signal removes is the outfile, which no infile is.
LEMMA Removed ==
  ASSUME IInv, process = "running", RemoveIncomplete
  PROVE  \/ entry' = entry
         \/ /\ pc \in NotedPcs
            /\ i \in DOMAIN argv
            /\ g_rm_on_sigint = OutName(i)
            /\ OutName(i) \in DOMAIN entry
            /\ entry' = Without(OutName(i))
<1>1. g_rm_on_sigint = IF pc \in NotedPcs THEN OutName(i) ELSE NULL
  BY DEF IInv, RunningInv, OutfileInv
<1>2. NULL \notin DOMAIN entry
  BY NullAssumption DEF IInv, DiskInv
<1>3. pc \in NotedPcs => i \in DOMAIN argv
  BY DEF IInv, RunningInv, OutfileInv, NotedPcs, OpenPcs
<1> QED
  BY <1>1, <1>2, <1>3 DEF RemoveIncomplete

LEMMA ExitIInv ==
  ASSUME IInv, process = "running", RemoveIncomplete,
         UNCHANGED <<given, data, openedfiles, pc, i>>,
         process' \in {"exited", "killed", "returned"},
         process' = "exited" => pc # "note"
  PROVE  IInv'
<1>1. DiskInv'
  <2>1. entry' = entry \/ \E name : entry' = Without(name)
    BY DEF RemoveIncomplete
  <2> QED
    BY <2>1, DiskWithout DEF IInv
<1>2. GivenInv'
  BY GivenSame DEF IInv
<1>3. OpenedInv'
  BY GivenSame DEF IInv, OpenedInv
<1>4. RunningInv'
  BY DEF RunningInv
<1>5. ChecksBeforeWriting'
  BY GivenSame DEF IInv, ChecksBeforeWriting
<1>6. NoSourceLost'
  <2> SUFFICES ASSUME ~Clash', NEW k \in DOMAIN openedfiles',
                      (openedfiles[k].fstat # NULL)'
               PROVE  (SourceKept(k) \/ Coded(k) \/ CloseFailed(k))'
    BY DEF NoSourceLost
  <2>1. ~Clash /\ k \in DOMAIN openedfiles /\ openedfiles[k].fstat # NULL
    BY GivenSame
  <2>2. /\ k \in DOMAIN argv
        /\ SourceKept(k) \/ Coded(k) \/ CloseFailed(k)
        /\ k = i /\ pc \in NotedPcs => SourceKept(k)
    BY <2>1, RunningKeeps
  <2>3. UNCHANGED <<argv, SourceKind, data>> /\ OutName(k)' = OutName(k)
    BY GivenSame
  <2>4. CASE entry' = entry
    BY <2>2, <2>3, <2>4 DEF SourceKept, Coded, CloseFailed
  <2>5. CASE /\ pc \in NotedPcs
             /\ i \in DOMAIN argv
             /\ entry' = Without(OutName(i))
    <3>1. argv[k] # OutName(i)
      BY <2>1, <2>2, <2>5 DEF Clash
    <3>2. k # i => OutName(k) # OutName(i)
      BY <2>1, <2>2, <2>5 DEF Clash
    <3>3. \A n \in DOMAIN entry : n # OutName(i) =>
            n \in DOMAIN entry' /\ entry'[n] = entry[n]
      BY <2>5 DEF Without
    <3>4. SourceKept(k) => SourceKept(k)'
      BY <2>3, <3>1, <3>3 DEF SourceKept
    <3>5. k # i => /\ Coded(k) => Coded(k)'
                   /\ CloseFailed(k) => CloseFailed(k)'
      BY <2>3, <3>2, <3>3 DEF Coded, CloseFailed
    <3> QED
      BY <2>2, <2>5, <3>4, <3>5
  <2> QED
    BY <2>4, <2>5, Removed
<1>7. NoIncompleteLeft'
  <2> SUFFICES ASSUME process' \in {"exited", "killed"}, ~rm_failed',
                      NEW n \in DOMAIN entry',
                      (data[entry[n]].kind = "output")',
                      (data[entry[n]].closed = "no")'
               PROVE  process' = "killed" /\ pc' = "note"
    BY DEF NoIncompleteLeft
  <2>1. n \in DOMAIN entry /\ entry'[n] = entry[n]
    BY DEF RemoveIncomplete, Without
  <2>2. entry[n] \in DOMAIN data
    BY <2>1 DEF IInv, DiskInv
  <2>3. pc \in OpenPcs /\ entry[n] = outfile
    BY <2>1, <2>2 DEF IInv, RunningInv, OutfileInv
  <2>4. CASE pc = "note"
    BY <2>4
  <2>5. CASE pc \in NotedPcs
    <3>1. /\ i \in DOMAIN argv
          /\ OutName(i) \in DOMAIN entry
          /\ entry[OutName(i)] = outfile
          /\ g_rm_on_sigint = OutName(i)
      BY <2>3, <2>5 DEF IInv, RunningInv, OutfileInv
    <3>2. n = OutName(i)
      BY <2>1, <2>3, <3>1 DEF IInv, DiskInv
    <3>3. g_rm_on_sigint # NULL
      BY <3>1, OutNamePath DEF IInv
    <3>4. entry' = Without(g_rm_on_sigint)
      BY <3>3 DEF RemoveIncomplete
    <3> QED
      BY <3>1, <3>2, <3>4 DEF Without
  <2> QED
    BY <2>3, <2>4, <2>5 DEF OpenPcs, NotedPcs
<1> QED
  BY <1>1, <1>2, <1>3, <1>4, <1>5, <1>6, <1>7 DEF IInv

-----------------------------------------------------------------------------
(* What a step that leaves the disk as it is keeps                         *)

LEMMA SameDisk ==
  ASSUME IInv, UNCHANGED <<given, disk>>
  PROVE  /\ DiskInv' /\ GivenInv'
         /\ UNCHANGED <<mode, g_flag, argv, entry, data, SourceKind, Clash>>
         /\ \A k : /\ OutName(k)' = OutName(k)
                   /\ SourceKept(k) => SourceKept(k)'
                   /\ Coded(k) => Coded(k)'
                   /\ CloseFailed(k) => CloseFailed(k)'
<1>1. UNCHANGED <<entry, data>>
  BY DEF disk
<1>2. DiskInv'
  BY <1>1, DiskWithout DEF IInv
<1>3. /\ UNCHANGED <<mode, g_flag, argv, SourceKind, Clash>>
      /\ GivenInv'
      /\ \A k : OutName(k)' = OutName(k)
  BY GivenSame DEF IInv
<1>4. \A k : /\ SourceKept(k) => SourceKept(k)'
             /\ Coded(k) => Coded(k)'
             /\ CloseFailed(k) => CloseFailed(k)'
  BY <1>1, <1>3 DEF SourceKept, Coded, CloseFailed
<1> QED
  BY <1>1, <1>2, <1>3, <1>4

-----------------------------------------------------------------------------
(* The arguments                                                           *)

\* What a step that opens infile k0, or cannot, has done.
InfileTried(k0, opened) ==
  /\ opened => argv[k0] \in DOMAIN entry
  /\ nerrors_file' = nerrors_file + (IF opened THEN 0 ELSE 1)
  /\ k0 \in DOMAIN argv /\ k0 \notin DOMAIN openedfiles
  /\ openedfiles' \in Seq(OpenedFile)
  /\ Len(openedfiles') = k0
  /\ DOMAIN openedfiles' = DOMAIN openedfiles \cup {k0}
  /\ \A k \in DOMAIN openedfiles : openedfiles'[k] = openedfiles[k]
  /\ openedfiles'[k0].infile_name = argv[k0]
  /\ openedfiles'[k0].fstat = NULL
  /\ openedfiles'[k0].infile # NULL <=> opened
  /\ opened => openedfiles'[k0].infile = entry[argv[k0]]

\* The next infile is opened, or is not.
LEMMA InfileOpened ==
  ASSUME IInv, ProcessArg, NEW k0, k0 = Len(openedfiles) + 1
  PROVE  \E opened \in BOOLEAN : InfileTried(k0, opened)
<1>1. k0 <= Len(argv)
  BY DEF ProcessArg, OpenInfile
<1>2. PICK opened \in BOOLEAN :
        /\ opened => argv[k0] \in DOMAIN entry
        /\ openedfiles' = Append(openedfiles,
             [infile_name |-> argv[k0],
              infile      |-> IF opened THEN entry[argv[k0]] ELSE NULL,
              fstat       |-> NULL])
        /\ nerrors_file' = nerrors_file + (IF opened THEN 0 ELSE 1)
  BY DEF ProcessArg, OpenInfile
<1> DEFINE new == [infile_name |-> argv[k0],
                   infile      |-> IF opened THEN entry[argv[k0]] ELSE NULL,
                   fstat       |-> NULL]
<1>3. /\ openedfiles \in Seq(OpenedFile)
      /\ Len(openedfiles) \in Nat
      /\ DOMAIN openedfiles = 1..Len(openedfiles)
      /\ argv \in Seq(Path)
      /\ Len(argv) \in Nat
  BY DEF IInv, OpenedInv, GivenInv
<1>4. k0 \in DOMAIN argv /\ argv[k0] \in Path /\ k0 \notin DOMAIN openedfiles
  BY <1>1, <1>3
<1>5. opened => entry[argv[k0]] \in Nat /\ entry[argv[k0]] # NULL
  <2>1. opened => entry[argv[k0]] \in DOMAIN data
    BY <1>2 DEF IInv, DiskInv
  <2>2. DOMAIN data \subseteq Nat
    BY DEF IInv, DiskInv, IsSeq
  <2> QED
    BY <2>1, <2>2, NullAssumption
<1>6. new \in OpenedFile
  BY <1>4, <1>5 DEF OpenedFile
<1>7. /\ new.infile_name = argv[k0] /\ new.fstat = NULL
      /\ new.infile # NULL <=> opened
      /\ opened => new.infile = entry[argv[k0]]
  BY <1>5
<1>8. openedfiles' = Append(openedfiles, new)
  BY <1>2
<1> HIDE DEF new
<1>9. /\ openedfiles' \in Seq(OpenedFile)
      /\ Len(openedfiles') = Len(openedfiles) + 1
      /\ DOMAIN openedfiles' = DOMAIN openedfiles \cup {k0}
      /\ openedfiles'[k0] = new
      /\ \A k \in DOMAIN openedfiles : openedfiles'[k] = openedfiles[k]
  BY <1>3, <1>6, <1>8
<1> QED
  BY <1>2, <1>4, <1>7, <1>9 DEF InfileTried

LEMMA ProcessArgIInv == IInv /\ ProcessArg => IInv'
<1> SUFFICES ASSUME IInv, ProcessArg PROVE IInv'
  OBVIOUS
<1> DEFINE k0 == Len(openedfiles) + 1
<1>1. /\ process = "running" /\ process' = "running" /\ pc = "args"
      /\ UNCHANGED <<given, disk, g_rm_on_sigint, rm_failed, pc, i, outfile>>
      /\ k0 <= Len(argv)
  BY DEF ProcessArg, OpenInfile
<1>2. DOMAIN openedfiles \subseteq Nat \ {0} /\ Len(openedfiles) \in Nat
  BY DEF IInv, OpenedInv
<1>3. PICK opened \in BOOLEAN : InfileTried(k0, opened)
  BY InfileOpened
<1> USE DEF InfileTried
<1>4. k0 \in Nat \ {0}
  BY <1>2
<1> HIDE DEF k0
<1>10. /\ DiskInv' /\ GivenInv'
       /\ UNCHANGED <<mode, g_flag, argv, entry, data, SourceKind>>
       /\ \A k : OutName(k)' = OutName(k)
  BY <1>1, SameDisk
<1>11. OpenedInv'
  BY <1>1, <1>3, <1>10 DEF IInv, OpenedInv
<1>12. ChecksInv
  BY <1>1 DEF IInv, RunningInv
<1>13. i = 1 /\ nerrors_file \in Nat
  BY <1>1, <1>12 DEF ChecksInv
<1>14. nerrors_file' \in Nat /\ (nerrors_file' = 0 => nerrors_file = 0 /\ opened)
  BY <1>3, <1>13
<1>15. ChecksInv'
  <2>1. \A k \in DOMAIN openedfiles' : ~(k < 1)
    BY <1>2, <1>3, <1>4
  <2>2. \A k \in DOMAIN openedfiles :
          /\ nerrors_file = 0 => openedfiles[k].infile # NULL
          /\ openedfiles[k].infile # NULL =>
               /\ argv[k] \in DOMAIN entry
               /\ openedfiles[k].infile = entry[argv[k]]
          /\ openedfiles[k].fstat = NULL \/ Kept(k)
    BY <1>1, <1>12 DEF ChecksInv
  <2>3. \A k \in DOMAIN openedfiles : Kept(k) => Kept(k)'
    BY <1>3, <1>10 DEF Kept, SourceKept
  <2>4. \A k \in DOMAIN openedfiles' :
          /\ nerrors_file' = 0 => openedfiles'[k].infile # NULL
          /\ openedfiles'[k].infile # NULL =>
               /\ argv[k] \in DOMAIN entry
               /\ openedfiles'[k].infile = entry[argv[k]]
          /\ openedfiles'[k].fstat = NULL \/ Kept(k)'
    BY <1>3, <1>14, <2>2, <2>3
  <2>5. NoOutput' /\ g_rm_on_sigint' = NULL /\ pc' = "args" /\ i' = 1
    BY <1>1, <1>10, <1>12, <1>13 DEF ChecksInv, NoOutput
  <2> QED
    BY <1>10, <1>14, <2>1, <2>4, <2>5 DEF ChecksInv
<1>16. OutfileInv'
  BY <1>1, <1>10 DEF IInv, RunningInv, OutfileInv, OpenPcs, NotedPcs
<1>17. CodingInv'
  BY <1>1 DEF CodingInv, CodingPcs
<1>18. RunningInv'
  BY <1>1, <1>13, <1>15, <1>16, <1>17 DEF IInv, RunningInv
<1>19. ChecksBeforeWriting'
  BY <1>1, <1>10, <1>12 DEF ChecksInv, NoOutput, ChecksBeforeWriting
<1> QED
  BY <1>1, <1>10, <1>11, <1>18, <1>19 DEF IInv

LEMMA ArgsDoneIInv == IInv /\ ArgsDone => IInv'
<1> SUFFICES ASSUME IInv, ArgsDone PROVE IInv'
  OBVIOUS
<1>1. /\ process = "running" /\ process' = "running"
      /\ pc = "args" /\ pc' = "stat"
      /\ Len(openedfiles) = Len(argv)
      /\ UNCHANGED <<given, disk, openedfiles, nerrors_file, g_rm_on_sigint,
                     rm_failed, i, outfile>>
  BY DEF ArgsDone, Goes
<1>2. /\ DiskInv' /\ GivenInv'
      /\ UNCHANGED <<mode, g_flag, argv, entry, data, SourceKind>>
      /\ \A k : OutName(k)' = OutName(k)
  BY <1>1, SameDisk
<1>3. OpenedInv'
  BY <1>1, <1>2 DEF IInv, OpenedInv
<1>4. ChecksInv
  BY <1>1 DEF IInv, RunningInv
<1>5. NoOutput /\ NoOutput'
  BY <1>1, <1>2, <1>4 DEF ChecksInv, NoOutput
<1>6. ChecksInv'
  <2>1. \A k \in DOMAIN openedfiles : Kept(k) => Kept(k)'
    BY <1>1, <1>2 DEF Kept, SourceKept
  <2> QED
    BY <1>1, <1>2, <1>4, <1>5, <2>1 DEF ChecksInv
<1>7. OutfileInv'
  BY <1>1, <1>4, <1>5 DEF ChecksInv, OutfileInv, NoOutput, OpenPcs, NotedPcs
<1>8. CodingInv'
  BY <1>1 DEF CodingInv, CodingPcs
<1>9. ChecksBeforeWriting'
  BY <1>5 DEF NoOutput, ChecksBeforeWriting
<1> QED
  BY <1>1, <1>2, <1>3, <1>6, <1>7, <1>8, <1>9 DEF IInv, RunningInv

\* What a step that gets the stats of infile i, or does not, has done.
StatsTried(ok) ==
  /\ ok => /\ infile # NULL /\ infile \in DOMAIN data
           /\ data[infile].kind = SourceKind
           /\ openedfiles'[i].fstat # NULL
           /\ openedfiles'[i].fstat = data[infile].file
  /\ nerrors_file' =
       nerrors_file + (IF ok \/ infile = NULL THEN 0 ELSE 1)
  /\ openedfiles' \in Seq(OpenedFile)
  /\ Len(openedfiles') = Len(openedfiles)
  /\ DOMAIN openedfiles' = DOMAIN openedfiles
  /\ \A k \in DOMAIN openedfiles :
       /\ openedfiles'[k].infile_name = openedfiles[k].infile_name
       /\ openedfiles'[k].infile = openedfiles[k].infile
       /\ k # i \/ ~ok => openedfiles'[k].fstat = openedfiles[k].fstat
  /\ i \in DOMAIN openedfiles
  /\ infile # NULL => infile = entry[argv[i]] /\ argv[i] \in DOMAIN entry

\* The stats of infile i are got, or it is not what it should be.
LEMMA StatsGot ==
  ASSUME IInv, GetStats
  PROVE  \E ok \in BOOLEAN : StatsTried(ok)
<1>1. /\ process = "running" /\ pc = "stat"
      /\ i <= Len(argv)
      /\ UNCHANGED <<given, disk>>
  BY DEF GetStats
<1>2. ChecksInv
  BY <1>1 DEF IInv, RunningInv
<1>3. /\ openedfiles \in Seq(OpenedFile)
      /\ Len(openedfiles) \in Nat
      /\ DOMAIN openedfiles = 1..Len(openedfiles)
      /\ Len(openedfiles) = Len(argv)
      /\ i \in Nat \ {0}
      /\ nerrors_file \in Nat
  BY <1>1, <1>2 DEF IInv, OpenedInv, RunningInv, ChecksInv
<1>4. i \in DOMAIN openedfiles
  BY <1>1, <1>3
<1>5. PICK ok \in BOOLEAN :
        /\ ok => infile # NULL /\ data[infile].kind = SourceKind
        /\ openedfiles' =
             IF ok THEN [openedfiles EXCEPT ![i].fstat = data[infile].file]
             ELSE openedfiles
        /\ nerrors_file' =
             nerrors_file + (IF ok \/ infile = NULL THEN 0 ELSE 1)
  <2>1. CASE infile = NULL
    <3>1. UNCHANGED <<openedfiles, nerrors_file>>
      BY <2>1 DEF GetStats
    <3>2. nerrors_file' = nerrors_file + 0
      BY <1>3, <3>1
    <3> QED
      BY <2>1, <3>1, <3>2
  <2>2. CASE infile # NULL
    BY <2>2 DEF GetStats
  <2> QED
    BY <2>1, <2>2
<1>6. openedfiles[i] \in OpenedFile
  BY <1>3, <1>4
<1>7. /\ argv[i] \in DOMAIN entry /\ infile = entry[argv[i]]
      /\ infile \in DOMAIN data
      \/ infile = NULL
  BY <1>1, <1>2, <1>4 DEF ChecksInv, infile, IInv, DiskInv
<1>8. ok => data[infile].file \in File \cup TTAFile /\ data[infile].file # NULL
  BY <1>5, <1>7, ContentKinds, SourceKinds DEF IInv, DiskInv
<1>9. /\ openedfiles' \in Seq(OpenedFile)
      /\ Len(openedfiles') = Len(openedfiles)
      /\ DOMAIN openedfiles' = DOMAIN openedfiles
      /\ \A k \in DOMAIN openedfiles :
           /\ openedfiles'[k].infile_name = openedfiles[k].infile_name
           /\ openedfiles'[k].infile = openedfiles[k].infile
           /\ k # i \/ ~ok => openedfiles'[k].fstat = openedfiles[k].fstat
      /\ ok => /\ openedfiles'[i].fstat # NULL
               /\ openedfiles'[i].fstat = data[infile].file
  <2>1. CASE ~ok
    BY <1>3, <1>5, <2>1
  <2>2. CASE ok
    <3> DEFINE new == [openedfiles[i] EXCEPT !.fstat = data[infile].file]
    <3>1. openedfiles' = [openedfiles EXCEPT ![i] = new]
      BY <1>5, <2>2
    <3>2. /\ new \in OpenedFile
          /\ new.infile_name = openedfiles[i].infile_name
          /\ new.infile = openedfiles[i].infile
          /\ new.fstat # NULL
          /\ new.fstat = data[infile].file
      BY <1>6, <1>8, <2>2 DEF OpenedFile
    <3> HIDE DEF new
    <3> QED
      BY <1>3, <1>4, <2>2, <3>1, <3>2
  <2> QED
    BY <2>1, <2>2
<1> QED
  BY <1>4, <1>5, <1>7, <1>9 DEF StatsTried

LEMMA GetStatsIInv == IInv /\ GetStats => IInv'
<1> SUFFICES ASSUME IInv, GetStats PROVE IInv'
  OBVIOUS
<1>1. /\ process = "running" /\ process' = "running"
      /\ pc = "stat" /\ pc' = "stat"
      /\ i <= Len(argv) /\ i' = i + 1
      /\ UNCHANGED <<given, disk, g_rm_on_sigint, rm_failed, outfile>>
  BY DEF GetStats
<1>2. ChecksInv
  BY <1>1 DEF IInv, RunningInv
<1>3. /\ openedfiles \in Seq(OpenedFile)
      /\ Len(openedfiles) \in Nat
      /\ DOMAIN openedfiles = 1..Len(openedfiles)
      /\ Len(openedfiles) = Len(argv)
      /\ i \in Nat \ {0}
      /\ nerrors_file \in Nat
  BY <1>1, <1>2 DEF IInv, OpenedInv, RunningInv, ChecksInv
<1>4. i \in DOMAIN openedfiles
  BY <1>1, <1>3
<1>5. PICK ok \in BOOLEAN : StatsTried(ok)
  BY StatsGot
<1> USE DEF StatsTried
<1>10. /\ DiskInv' /\ GivenInv'
       /\ UNCHANGED <<mode, g_flag, argv, entry, data, SourceKind>>
  BY <1>1, SameDisk
<1>11. OpenedInv'
  BY <1>5, <1>10 DEF IInv, OpenedInv
<1>12. /\ nerrors_file' \in Nat
       /\ nerrors_file' = 0 => nerrors_file = 0 /\ (ok \/ infile = NULL)
  BY <1>3, <1>5
<1>13. ChecksInv'
  <2>1. NoOutput' /\ g_rm_on_sigint' = NULL
    BY <1>1, <1>2, <1>10 DEF ChecksInv, NoOutput
  <2>2. \A k \in DOMAIN openedfiles :
          /\ nerrors_file = 0 => openedfiles[k].infile # NULL
          /\ openedfiles[k].infile # NULL =>
               /\ argv[k] \in DOMAIN entry
               /\ openedfiles[k].infile = entry[argv[k]]
          /\ nerrors_file = 0 /\ k < i => openedfiles[k].fstat # NULL
          /\ openedfiles[k].fstat # NULL => Kept(k)
    BY <1>1, <1>2 DEF ChecksInv
  <2>3. \A k \in DOMAIN openedfiles : k < i' => k < i \/ k = i
    BY <1>1, <1>3
  <2>4. \A k \in DOMAIN openedfiles : k # i \/ ~ok =>
          (Kept(k) => Kept(k)')
    BY <1>5, <1>10 DEF Kept, SourceKept
  <2>5. \A k \in DOMAIN openedfiles : k = i /\ ok => Kept(k)'
    BY <1>4, <1>5, <1>10 DEF Kept, SourceKept, infile
  <2>6. nerrors_file' = 0 => ok
    BY <1>4, <1>12, <2>2 DEF infile
  <2>7. \A k \in DOMAIN openedfiles' :
          /\ nerrors_file' = 0 => openedfiles'[k].infile # NULL
          /\ openedfiles'[k].infile # NULL =>
               /\ argv[k] \in DOMAIN entry
               /\ openedfiles'[k].infile = entry[argv[k]]
          /\ nerrors_file' = 0 /\ k < i' => openedfiles'[k].fstat # NULL
          /\ openedfiles'[k].fstat # NULL => Kept(k)'
    <3> SUFFICES ASSUME NEW k \in DOMAIN openedfiles
                 PROVE  /\ nerrors_file' = 0 => openedfiles'[k].infile # NULL
                        /\ openedfiles'[k].infile # NULL =>
                             /\ argv[k] \in DOMAIN entry
                             /\ openedfiles'[k].infile = entry[argv[k]]
                        /\ nerrors_file' = 0 /\ k < i' =>
                             openedfiles'[k].fstat # NULL
                        /\ openedfiles'[k].fstat # NULL => Kept(k)'
      BY <1>5
    <3>1. CASE k = i /\ ok
      BY <1>5, <1>12, <2>2, <2>5, <3>1
    <3>2. CASE k # i \/ ~ok
      BY <1>5, <1>12, <2>2, <2>3, <2>4, <2>6, <3>2
    <3> QED
      BY <3>1, <3>2
  <2> QED
    BY <1>1, <1>3, <1>5, <1>10, <1>12, <2>1, <2>7 DEF ChecksInv
<1>14. OutfileInv'
  BY <1>1, <1>13 DEF ChecksInv, NoOutput, OutfileInv, OpenPcs, NotedPcs
<1>15. CodingInv'
  BY <1>1 DEF CodingInv, CodingPcs
<1>16. ChecksBeforeWriting'
  BY <1>1, <1>13 DEF ChecksInv, NoOutput, ChecksBeforeWriting
<1>17. i' \in Nat \ {0}
  BY <1>1, <1>3
<1> QED
  BY <1>1, <1>10, <1>11, <1>13, <1>14, <1>15, <1>16, <1>17
     DEF IInv, RunningInv

LEMMA StartCodingIInv == IInv /\ StartCoding => IInv'
<1> SUFFICES ASSUME IInv, StartCoding PROVE IInv'
  OBVIOUS
<1>1. /\ process = "running" /\ process' = "running"
      /\ pc = "stat" /\ pc' = "setup"
      /\ i = Len(argv) + 1 /\ i' = 1
      /\ nerrors_file = 0
      /\ UNCHANGED <<given, disk, openedfiles, nerrors_file, g_rm_on_sigint,
                     rm_failed, outfile>>
  BY DEF StartCoding, StatsDone, Errors
<1>2. /\ DiskInv' /\ GivenInv'
      /\ UNCHANGED <<mode, g_flag, argv, entry, data, SourceKind>>
  BY <1>1, SameDisk
<1>3. OpenedInv'
  BY <1>1, <1>2 DEF IInv, OpenedInv
<1>4. ChecksInv
  BY <1>1 DEF IInv, RunningInv
<1>5. NoOutput'
  BY <1>1, <1>2, <1>4 DEF ChecksInv, NoOutput
<1>6. /\ Len(openedfiles) = Len(argv)
      /\ Len(argv) \in Nat
      /\ DOMAIN openedfiles = 1..Len(argv)
      /\ DOMAIN argv = 1..Len(argv)
  BY <1>1, <1>4 DEF ChecksInv, IInv, OpenedInv, GivenInv
<1>7. \A k \in DOMAIN argv : openedfiles[k].fstat # NULL /\ Kept(k)
  <2>1. \A k \in DOMAIN argv : k < i
    BY <1>1, <1>6
  <2> QED
    BY <1>1, <1>4, <1>6, <2>1 DEF ChecksInv
<1>8. OutfileInv'
  BY <1>1, <1>4, <1>5 DEF ChecksInv, NoOutput, OutfileInv, OpenPcs, NotedPcs
<1>9. CodingInv'
  <2>1. \A k \in DOMAIN argv : Kept(k)'
    BY <1>1, <1>2, <1>7 DEF Kept, SourceKept
  <2>2. \A k \in DOMAIN argv : ~(k < 1)
    BY <1>6
  <2>3. ProgressInv'
    BY <1>1, <1>2, <2>1, <2>2 DEF ProgressInv
  <2> QED
    BY <1>1, <1>2, <1>6, <1>7, <2>3 DEF CodingInv
<1>10. ChecksInv'
  BY <1>1 DEF ChecksInv
<1>11. ChecksBeforeWriting'
  BY <1>5 DEF NoOutput, ChecksBeforeWriting
<1> QED
  BY <1>1, <1>2, <1>3, <1>8, <1>9, <1>10, <1>11
     DEF IInv, RunningInv, CodingPcs

-----------------------------------------------------------------------------
(* Coding an infile                                                        *)

\* What is known while files are coded.
LEMMA Coding ==
  ASSUME IInv, process = "running", pc \in CodingPcs
  PROVE  /\ i \in Nat \ {0}
         /\ DOMAIN argv = 1..Len(argv) /\ Len(argv) \in Nat
         /\ DOMAIN openedfiles = DOMAIN argv
         /\ \A k \in DOMAIN argv : openedfiles[k].infile_name = argv[k]
         /\ \A k \in DOMAIN argv : openedfiles[k].fstat # NULL
         /\ ~Clash => ProgressInv
BY DEF IInv, RunningInv, CodingInv, OpenedInv, GivenInv

\* The steps that change neither the disk nor the stream of the outfile.
LEMMA BetweenIInv ==
  ASSUME IInv, process = "running",
         UNCHANGED <<process, given, disk, openedfiles, outfile, rm_failed, i>>,
         \/ pc = "setup" /\ pc' = "open" /\ i <= Len(argv)
              /\ UNCHANGED g_rm_on_sigint
         \/ pc = "note" /\ pc' = "reserve" /\ g_rm_on_sigint' = OutName(i)
         \/ pc = "forget" /\ pc' = "next" /\ g_rm_on_sigint' = NULL
  PROVE  IInv'
<1>1. pc \in CodingPcs /\ pc' \in CodingPcs
  BY DEF CodingPcs
<1>2. /\ DiskInv' /\ GivenInv'
      /\ UNCHANGED <<mode, g_flag, argv, entry, data, SourceKind, Clash>>
      /\ \A k : /\ OutName(k)' = OutName(k)
                /\ SourceKept(k) => SourceKept(k)'
                /\ Coded(k) => Coded(k)'
                /\ CloseFailed(k) => CloseFailed(k)'
  BY SameDisk
<1>3. OpenedInv' /\ ChecksBeforeWriting'
  BY <1>2 DEF IInv, OpenedInv, ChecksBeforeWriting
<1>4. OutfileInv
  BY DEF IInv, RunningInv
<1>5. OutName(i)' = OutName(i)
  BY <1>2 DEF OutName, get_outfile_name
<1>6. pc = "setup" => i \in DOMAIN argv
  BY <1>1, Coding
<1>7. OutfileInv'
  <2>1. CASE pc = "setup"
    BY <1>2, <1>4, <2>1 DEF OutfileInv, OpenPcs, NotedPcs
  <2>2. CASE pc = "note"
    BY <1>2, <1>4, <1>5, <2>2 DEF OutfileInv, OpenPcs, NotedPcs
  <2>3. CASE pc = "forget"
    BY <1>2, <1>4, <2>3 DEF OutfileInv, OpenPcs, NotedPcs
  <2> QED
    BY <2>1, <2>2, <2>3
<1>8. CodingInv'
  <2>1. ASSUME ~Clash PROVE ProgressInv'
    <3>1. ProgressInv
      BY <1>1, <2>1, Coding
    <3>2. \A k \in DOMAIN argv : Kept(k) => Kept(k)'
      BY <1>2 DEF Kept
    <3>3. pc = "forget" => Coded(i)' \/ CloseFailed(i)'
      BY <1>2, <1>5, <3>1 DEF ProgressInv, Coded, CloseFailed
    <3>4. \A k \in DOMAIN argv' :
            /\ k < i' => SourceKept(k)' \/ Coded(k)' \/ CloseFailed(k)'
            /\ k >= i' => Kept(k)'
      BY <1>2, <3>1, <3>2 DEF ProgressInv
    <3> QED
      BY <3>3, <3>4 DEF ProgressInv
  <2>2. pc' \in {"open", "next"} => i' \in DOMAIN argv'
    BY <1>2, <1>4, <1>6 DEF OutfileInv
  <2>3. Len(openedfiles') = Len(argv')
    BY <1>1, <1>2 DEF IInv, RunningInv, CodingInv
  <2> QED
    BY <1>1, <1>2, <2>1, <2>2, <2>3, Coding DEF CodingInv
<1>9. ChecksInv'
  BY DEF ChecksInv
<1> QED
  BY <1>1, <1>2, <1>3, <1>7, <1>8, <1>9, Coding DEF IInv, RunningInv

LEMMA OpenIInv == IInv /\ Open => IInv'
<1> SUFFICES ASSUME IInv, Open PROVE IInv'
  OBVIOUS
<1>1. /\ process = "running" /\ process' = "running"
      /\ pc = "open" /\ pc' = "note"
      /\ Truncate(OutName(i))
      /\ UNCHANGED <<given, openedfiles, g_rm_on_sigint, rm_failed, i>>
  BY DEF Open, Goes, OpenOutfile, outfile_name
<1>2. /\ pc \in CodingPcs /\ pc' \in CodingPcs
      /\ i \in DOMAIN argv
  BY <1>1 DEF CodingPcs, IInv, RunningInv, CodingInv
<1>3. OutName(i) \in Path
  BY <1>2, OutNamePath DEF IInv
<1>4. /\ DiskInv'
      /\ OutName(i) \in DOMAIN entry'
      /\ entry'[OutName(i)] = outfile'
      /\ outfile' \in DOMAIN data'
      /\ data'[outfile'] = Empty
      /\ DOMAIN data \subseteq DOMAIN data'
      /\ \A g \in DOMAIN data' \ {outfile'} :
           g \in DOMAIN data /\ data'[g] = data[g]
      /\ \A n \in DOMAIN entry : n \in DOMAIN entry' /\ entry'[n] = entry[n]
      /\ \A n \in DOMAIN entry : entry[n] = outfile' => n = OutName(i)
  BY <1>1, <1>3, DiskTruncated DEF IInv
<1>5. /\ GivenInv'
      /\ UNCHANGED <<mode, g_flag, argv, SourceKind, Clash>>
      /\ \A k : OutName(k)' = OutName(k)
  BY <1>1, GivenSame DEF IInv
<1>6. OutName(i)' = OutName(i)
  BY <1>1, <1>5 DEF OutName, get_outfile_name
<1>7. OutfileInv'
  <2>1. OutfileInv
    BY <1>1 DEF IInv, RunningInv
  <2>2. \A f \in DOMAIN data' :
          data'[f].kind = "output" /\ data'[f].closed = "no" => f = outfile'
    BY <1>1, <1>4, <2>1 DEF OutfileInv, OpenPcs
  <2>3. g_rm_on_sigint = NULL
    BY <1>1, <2>1 DEF OutfileInv, NotedPcs
  <2> QED
    BY <1>1, <1>2, <1>4, <1>5, <1>6, <2>2, <2>3, EmptyIsOutput
       DEF OutfileInv, OpenPcs, NotedPcs
<1>8. ASSUME ~Clash PROVE ProgressInv'
  <2>1. ProgressInv
    BY <1>2, <1>1, <1>8, Coding
  <2>2. \A n \in DOMAIN entry : n # OutName(i) =>
          /\ n \in DOMAIN entry' /\ entry'[n] = entry[n]
          /\ data'[entry[n]] = data[entry[n]]
    <3>1. \A n \in DOMAIN entry : entry[n] \in DOMAIN data
      BY DEF IInv, DiskInv
    <3> QED
      BY <1>4, <3>1
  <2>3. \A k \in DOMAIN argv : argv[k] # OutName(i)
    BY <1>2, <1>8 DEF Clash
  <2>4. \A k \in DOMAIN argv : k # i => OutName(k) # OutName(i)
    BY <1>2, <1>8 DEF Clash
  <2>5. \A k \in DOMAIN argv : SourceKept(k) => SourceKept(k)'
    BY <1>5, <2>2, <2>3 DEF SourceKept
  <2>6. \A k \in DOMAIN argv : Kept(k) => Kept(k)'
    BY <1>1, <1>5, <2>2, <2>3, <2>5 DEF Kept, SourceKept
  <2>7. \A k \in DOMAIN argv : k # i => /\ Coded(k) => Coded(k)'
                                        /\ CloseFailed(k) => CloseFailed(k)'
    BY <1>5, <2>2, <2>4 DEF Coded, CloseFailed
  <2>8. \A k \in DOMAIN argv : k < i => k # i
    BY <1>2, <1>1, Coding
  <2>9. \A k \in DOMAIN argv' :
          /\ k < i' => SourceKept(k)' \/ Coded(k)' \/ CloseFailed(k)'
          /\ k >= i' => Kept(k)'
    BY <1>1, <1>5, <2>1, <2>5, <2>6, <2>7, <2>8 DEF ProgressInv
  <2> QED
    BY <1>1, <2>9 DEF ProgressInv
<1>9. CodingInv'
  <2>1. Len(openedfiles') = Len(argv')
    BY <1>1, <1>2, <1>5 DEF IInv, RunningInv, CodingInv
  <2> QED
    BY <1>1, <1>2, <1>5, <1>8, <2>1, Coding DEF CodingInv
<1>10. OpenedInv' /\ ChecksBeforeWriting'
  BY <1>1, <1>2, <1>5, Coding DEF IInv, OpenedInv, ChecksBeforeWriting
<1>11. ChecksInv'
  BY <1>1 DEF ChecksInv
<1> QED
  BY <1>1, <1>2, <1>4, <1>5, <1>7, <1>9, <1>10, <1>11, Coding
     DEF IInv, RunningInv

\* The steps that write to the outfile.
LEMMA WriteIInv ==
  ASSUME IInv, process = "running",
         UNCHANGED <<process, given, entry, openedfiles, outfile,
                     g_rm_on_sigint, rm_failed, i>>,
         NEW d, IsOutput(d), d.closed = "no",
         data' = [data EXCEPT ![outfile] = d],
         \/ pc = "reserve" /\ pc' = "code"
         \/ pc = "code" /\ pc' = "header"
              /\ (~Clash => d.of = argv[i])
         \/ pc = "header" /\ pc' = "close"
              /\ d.of = data[outfile].of /\ d.header
  PROVE  IInv'
<1>1. pc \in CodingPcs /\ pc' \in CodingPcs
  BY DEF CodingPcs
<1>2. OutfileInv
  BY DEF IInv, RunningInv
<1>3. /\ i \in DOMAIN argv
      /\ OutName(i) \in DOMAIN entry
      /\ entry[OutName(i)] = outfile
      /\ data[outfile].kind = "output"
      /\ g_rm_on_sigint = OutName(i)
  BY <1>2 DEF OutfileInv, OpenPcs, NotedPcs
<1>4. outfile \in DOMAIN data
  BY <1>3 DEF IInv, DiskInv
<1>5. /\ DiskInv'
      /\ DOMAIN data' = DOMAIN data
      /\ data'[outfile] = d
      /\ d.kind = "output"
      /\ \A g \in DOMAIN data \ {outfile} : data'[g] = data[g]
  BY <1>3, <1>4, DiskWritten DEF IInv
<1>6. /\ GivenInv'
      /\ UNCHANGED <<mode, g_flag, argv, SourceKind, Clash>>
      /\ \A k : OutName(k)' = OutName(k)
  BY GivenSame DEF IInv
<1>7. OutName(i)' = OutName(i)
  BY <1>6 DEF OutName, get_outfile_name
<1>8. OutfileInv'
  <2>1. \A f \in DOMAIN data' :
          data'[f].kind = "output" /\ data'[f].closed = "no" => f = outfile'
    BY <1>2, <1>5 DEF OutfileInv
  <2> QED
    BY <1>3, <1>5, <1>6, <1>7, <2>1 DEF OutfileInv, OpenPcs, NotedPcs
<1>9. ASSUME ~Clash PROVE ProgressInv'
  <2>1. ProgressInv
    BY <1>1, <1>9, Coding
  <2>2. \A n \in DOMAIN entry : entry[n] # outfile =>
          data'[entry[n]] = data[entry[n]]
    BY <1>5 DEF IInv, DiskInv
  <2>3. \A n \in DOMAIN entry : entry[n] = outfile => n = OutName(i)
    BY <1>3 DEF IInv, DiskInv
  <2>4. \A k \in DOMAIN argv : SourceKept(k) => SourceKept(k)'
    BY <1>3, <1>6, <2>2, SourceKinds DEF SourceKept
  <2>5. \A k \in DOMAIN argv : Kept(k) => Kept(k)'
    BY <1>6, <2>4, <1>3, <2>2, SourceKinds DEF Kept, SourceKept
  <2>6. \A k \in DOMAIN argv : k # i => /\ Coded(k) => Coded(k)'
                                        /\ CloseFailed(k) => CloseFailed(k)'
    <3>1. \A k \in DOMAIN argv : k # i => OutName(k) # OutName(i)
      BY <1>3, <1>9 DEF Clash
    <3> QED
      BY <1>6, <2>2, <2>3, <3>1 DEF Coded, CloseFailed
  <2>7. \A k \in DOMAIN argv : k < i => k # i
    BY <1>1, Coding
  <2>8. \A k \in DOMAIN argv' :
          /\ k < i' => SourceKept(k)' \/ Coded(k)' \/ CloseFailed(k)'
          /\ k >= i' => Kept(k)'
    BY <1>6, <2>1, <2>4, <2>5, <2>6, <2>7 DEF ProgressInv
  <2>9. pc' \in {"header", "close"} => data'[outfile'].of = argv'[i']
    BY <1>5, <1>6, <1>9, <2>1 DEF ProgressInv
  <2>10. pc' = "close" => data'[outfile'].header
    BY <1>5
  <2> QED
    BY <2>8, <2>9, <2>10 DEF ProgressInv
<1>10. CodingInv'
  <2>1. Len(openedfiles') = Len(argv')
    BY <1>1, <1>6 DEF IInv, RunningInv, CodingInv
  <2> QED
    BY <1>1, <1>6, <1>9, <2>1, Coding DEF CodingInv
<1>11. OpenedInv' /\ ChecksBeforeWriting'
  BY <1>1, <1>6, Coding DEF IInv, OpenedInv, ChecksBeforeWriting
<1>12. ChecksInv'
  BY DEF ChecksInv
<1> QED
  BY <1>1, <1>5, <1>6, <1>8, <1>10, <1>11, <1>12, Coding DEF IInv, RunningInv

\* The stream of the outfile while it is written.
LEMMA Writing ==
  ASSUME IInv, process = "running", pc \in {"reserve", "code", "header", "close"}
  PROVE  /\ outfile \in DOMAIN data
         /\ IsOutput(data[outfile])
         /\ data[outfile].closed = "no"
         /\ i \in DOMAIN argv
<1>1. /\ i \in DOMAIN argv
      /\ OutName(i) \in DOMAIN entry
      /\ entry[OutName(i)] = outfile
      /\ data[outfile].kind = "output"
      /\ data[outfile].closed = "no"
  BY DEF IInv, RunningInv, OutfileInv, OpenPcs
<1>2. outfile \in DOMAIN data
  BY <1>1 DEF IInv, DiskInv
<1> QED
  BY <1>1, <1>2, ContentKinds DEF IInv, DiskInv

LEMMA ReserveIInv == IInv /\ (Reserve \/ ReserveHeader) => IInv'
<1> SUFFICES ASSUME IInv, Reserve \/ ReserveHeader PROVE IInv'
  OBVIOUS
<1>1. /\ process = "running" /\ pc = "reserve" /\ pc' = "code"
      /\ UNCHANGED <<process, given, entry, openedfiles, outfile,
                     g_rm_on_sigint, rm_failed, i>>
  BY DEF Reserve, ReserveHeader, Goes
<1>2. PICK x : data' = [data EXCEPT ![outfile].start = x]
  BY DEF Reserve, ReserveHeader
<1> DEFINE d == [data[outfile] EXCEPT !.start = x]
<1>3. outfile \in DOMAIN data /\ IsOutput(data[outfile])
        /\ data[outfile].closed = "no"
  BY <1>1, Writing
<1>4. IsOutput(d) /\ d.closed = "no"
  BY <1>3 DEF IsOutput
<1>5. data' = [data EXCEPT ![outfile] = d]
  BY <1>2
<1> HIDE DEF d
<1> QED
  BY <1>1, <1>4, <1>5, WriteIInv

LEMMA CodeIInv == IInv /\ mode = "encode" /\ Code => IInv'
<1> SUFFICES ASSUME IInv, mode = "encode", Code PROVE IInv'
  OBVIOUS
<1>1. /\ process = "running" /\ pc = "code" /\ pc' = "header"
      /\ UNCHANGED <<process, given, entry, openedfiles, outfile,
                     g_rm_on_sigint, rm_failed, i>>
  BY DEF Code, Goes
<1>2. PICK pcm \in PCMRead :
        data' = [data EXCEPT ![outfile].of = pcm.of,
                             ![outfile].whole = ~WarnsOf(pcm.file)]
  BY DEF Code
<1> DEFINE w == ~WarnsOf(pcm.file)
<1> DEFINE d == [data[outfile] EXCEPT !.of = pcm.of, !.whole = w]
<1>3. outfile \in DOMAIN data /\ IsOutput(data[outfile])
        /\ data[outfile].closed = "no" /\ i \in DOMAIN argv
  BY <1>1, Writing
<1>4. data' = [data EXCEPT ![outfile] = d]
  BY <1>2
<1> HIDE DEF w
<1>5. IsOutput(d) /\ d.closed = "no" /\ d.of = pcm.of
  BY <1>3 DEF IsOutput
<1>6. ASSUME ~Clash PROVE pcm.of = argv[i]
  <2>1. Kept(i)
    BY <1>1, <1>3, <1>6, Coding DEF ProgressInv, CodingPcs
  <2>2. data[infile].kind = "pcm" /\ data[infile].id = argv[i]
    BY <2>1 DEF Kept, SourceKept, SourceKind, infile, IInv, DiskInv
  <2> QED
    BY <2>2 DEF PCMRead
<1> HIDE DEF d
<1> QED
  BY <1>1, <1>4, <1>5, <1>6, WriteIInv

LEMMA DecodeIInv == IInv /\ mode = "decode" /\ Decode => IInv'
<1> SUFFICES ASSUME IInv, mode = "decode", Decode PROVE IInv'
  OBVIOUS
<1>1. /\ process = "running" /\ pc = "code" /\ pc' = "header"
      /\ UNCHANGED <<process, given, entry, openedfiles, outfile,
                     g_rm_on_sigint, rm_failed, i>>
  BY DEF Decode, Goes
<1>2. PICK tta \in TTARead, w \in BOOLEAN :
        data' = [data EXCEPT ![outfile].of = tta.of, ![outfile].whole = w]
  BY DEF Decode
<1> DEFINE d == [data[outfile] EXCEPT !.of = tta.of, !.whole = w]
<1>3. outfile \in DOMAIN data /\ IsOutput(data[outfile])
        /\ data[outfile].closed = "no" /\ i \in DOMAIN argv
  BY <1>1, Writing
<1>4. data' = [data EXCEPT ![outfile] = d]
  BY <1>2
<1>5. IsOutput(d) /\ d.closed = "no" /\ d.of = tta.of
  BY <1>3 DEF IsOutput
<1>6. ASSUME ~Clash PROVE tta.of = argv[i]
  <2>1. Kept(i)
    BY <1>1, <1>3, <1>6, Coding DEF ProgressInv, CodingPcs
  <2>2. data[infile].kind = "tta" /\ data[infile].id = argv[i]
    BY <2>1 DEF Kept, SourceKept, SourceKind, infile, IInv, DiskInv
  <2> QED
    BY <2>2 DEF TTARead
<1> HIDE DEF d
<1> QED
  BY <1>1, <1>4, <1>5, <1>6, WriteIInv

LEMMA WriteHeaderIInv ==
  IInv /\ (WriteHeaderAndSeektable \/ WriteHeader) => IInv'
<1> SUFFICES ASSUME IInv, WriteHeaderAndSeektable \/ WriteHeader PROVE IInv'
  OBVIOUS
<1>1. /\ process = "running" /\ pc = "header" /\ pc' = "close"
      /\ UNCHANGED <<process, given, entry, openedfiles, outfile,
                     g_rm_on_sigint, rm_failed, i>>
  BY DEF WriteHeaderAndSeektable, WriteHeader, Goes
<1>2. PICK x : data' = [data EXCEPT ![outfile].header = TRUE,
                                    ![outfile].table = x]
  BY DEF WriteHeaderAndSeektable, WriteHeader
<1> DEFINE d == [data[outfile] EXCEPT !.header = TRUE, !.table = x]
<1>3. outfile \in DOMAIN data /\ IsOutput(data[outfile])
        /\ data[outfile].closed = "no"
  BY <1>1, Writing
<1>4. /\ IsOutput(d) /\ d.closed = "no"
      /\ d.of = data[outfile].of /\ d.header
  BY <1>3 DEF IsOutput
<1>5. data' = [data EXCEPT ![outfile] = d]
  BY <1>2
<1> HIDE DEF d
<1> QED
  BY <1>1, <1>4, <1>5, WriteIInv

LEMMA CloseIInv == IInv /\ CloseOutfile => IInv'
<1> SUFFICES ASSUME IInv, CloseOutfile PROVE IInv'
  OBVIOUS
<1>1. /\ process = "running" /\ process' = "running"
      /\ pc = "close" /\ pc' = "forget"
      /\ UNCHANGED <<given, entry, openedfiles, g_rm_on_sigint, rm_failed, i>>
  BY DEF CloseOutfile, Goes
<1>2. PICK c \in {"ok", "failed"} : data' = [data EXCEPT ![outfile].closed = c]
  BY DEF CloseOutfile
<1> DEFINE d == [data[outfile] EXCEPT !.closed = c]
<1>3. pc \in CodingPcs /\ pc' \in CodingPcs
  BY <1>1 DEF CodingPcs
<1>4. outfile \in DOMAIN data /\ IsOutput(data[outfile]) /\ i \in DOMAIN argv
  BY <1>1, Writing
<1>5. /\ IsOutput(d) /\ d.closed = c
      /\ d.of = data[outfile].of /\ d.header = data[outfile].header
  BY <1>4 DEF IsOutput
<1>6. data' = [data EXCEPT ![outfile] = d]
  BY <1>2
<1> HIDE DEF d
<1>7. OutfileInv
  BY <1>1 DEF IInv, RunningInv
<1>8. /\ OutName(i) \in DOMAIN entry
      /\ entry[OutName(i)] = outfile
      /\ data[outfile].kind = "output"
      /\ g_rm_on_sigint = OutName(i)
  BY <1>1, <1>7 DEF OutfileInv, OpenPcs, NotedPcs
<1>9. /\ DiskInv'
      /\ DOMAIN data' = DOMAIN data
      /\ data'[outfile] = d
      /\ d.kind = "output"
      /\ \A g \in DOMAIN data \ {outfile} : data'[g] = data[g]
  BY <1>1, <1>4, <1>5, <1>6, <1>8, DiskWritten DEF IInv
<1>10. /\ GivenInv'
       /\ UNCHANGED <<mode, g_flag, argv, SourceKind, Clash>>
       /\ \A k : OutName(k)' = OutName(k)
  BY <1>1, GivenSame DEF IInv
<1>11. OutName(i)' = OutName(i)
  BY <1>1, <1>10 DEF OutName, get_outfile_name
<1>12. OutfileInv'
  <2>1. \A f \in DOMAIN data' :
          ~(data'[f].kind = "output" /\ data'[f].closed = "no")
    BY <1>5, <1>7, <1>9 DEF OutfileInv
  <2> QED
    BY <1>1, <1>4, <1>8, <1>9, <1>10, <1>11, <2>1
       DEF OutfileInv, OpenPcs, NotedPcs
<1>13. ASSUME ~Clash PROVE ProgressInv'
  <2>1. ProgressInv
    BY <1>3, <1>1, <1>13, Coding
  <2>2. \A n \in DOMAIN entry : entry[n] # outfile =>
          data'[entry[n]] = data[entry[n]]
    BY <1>9 DEF IInv, DiskInv
  <2>3. \A n \in DOMAIN entry : entry[n] = outfile => n = OutName(i)
    BY <1>8 DEF IInv, DiskInv
  <2>4. \A k \in DOMAIN argv : SourceKept(k) => SourceKept(k)'
    BY <1>1, <1>8, <1>10, <2>2, SourceKinds DEF SourceKept
  <2>5. \A k \in DOMAIN argv : Kept(k) => Kept(k)'
    BY <1>1, <1>10, <2>4, <1>8, <2>2, SourceKinds DEF Kept, SourceKept
  <2>6. \A k \in DOMAIN argv : k # i => /\ Coded(k) => Coded(k)'
                                        /\ CloseFailed(k) => CloseFailed(k)'
    <3>1. \A k \in DOMAIN argv : k # i => OutName(k) # OutName(i)
      BY <1>4, <1>13 DEF Clash
    <3> QED
      BY <1>1, <1>10, <2>2, <2>3, <3>1 DEF Coded, CloseFailed
  <2>7. \A k \in DOMAIN argv : k < i => k # i
    BY <1>1, <1>3, Coding
  <2>8. \A k \in DOMAIN argv' :
          /\ k < i' => SourceKept(k)' \/ Coded(k)' \/ CloseFailed(k)'
          /\ k >= i' => Kept(k)'
    BY <1>1, <1>10, <2>1, <2>4, <2>5, <2>6, <2>7 DEF ProgressInv
  <2>9. d.of = argv[i] /\ d.header
    BY <1>1, <1>5, <2>1 DEF ProgressInv
  <2>10. Coded(i)' \/ CloseFailed(i)'
    BY <1>1, <1>5, <1>8, <1>9, <1>10, <1>11, <2>9 DEF Coded, CloseFailed
  <2> QED
    BY <1>1, <2>8, <2>10 DEF ProgressInv
<1>14. CodingInv'
  <2>1. Len(openedfiles') = Len(argv')
    BY <1>1, <1>3, <1>10 DEF IInv, RunningInv, CodingInv
  <2> QED
    BY <1>1, <1>3, <1>4, <1>10, <1>13, <2>1, Coding DEF CodingInv
<1>15. OpenedInv' /\ ChecksBeforeWriting'
  BY <1>1, <1>3, <1>10, Coding DEF IInv, OpenedInv, ChecksBeforeWriting
<1>16. ChecksInv'
  BY <1>1 DEF ChecksInv
<1> QED
  BY <1>1, <1>3, <1>9, <1>10, <1>12, <1>14, <1>15, <1>16, Coding
     DEF IInv, RunningInv

\* fclose of the infile.
LEMMA InfileClosed ==
  ASSUME IInv, FinishFile
  PROVE  /\ openedfiles' \in Seq(OpenedFile)
         /\ Len(openedfiles') = Len(openedfiles)
         /\ DOMAIN openedfiles' = DOMAIN openedfiles
         /\ i \in DOMAIN openedfiles
         /\ openedfiles'[i].infile = NULL
         /\ \A k \in DOMAIN openedfiles :
              /\ openedfiles'[k].infile_name = openedfiles[k].infile_name
              /\ openedfiles'[k].fstat = openedfiles[k].fstat
              /\ k # i => openedfiles'[k] = openedfiles[k]
<1>1. /\ process = "running" /\ pc = "next"
      /\ openedfiles' = [openedfiles EXCEPT ![i].infile = NULL]
  BY DEF FinishFile, Goes
<1>2. i \in DOMAIN openedfiles
  BY <1>1, Coding DEF IInv, RunningInv, CodingInv, CodingPcs
<1> DEFINE new == [openedfiles[i] EXCEPT !.infile = NULL]
<1>3. openedfiles \in Seq(OpenedFile) /\ openedfiles[i] \in OpenedFile
  BY <1>2 DEF IInv, OpenedInv
<1>4. openedfiles' = [openedfiles EXCEPT ![i] = new]
  BY <1>1
<1>5. /\ new \in OpenedFile
      /\ new.infile_name = openedfiles[i].infile_name
      /\ new.fstat = openedfiles[i].fstat
      /\ new.infile = NULL
  BY <1>3 DEF OpenedFile
<1> HIDE DEF new
<1> QED
  BY <1>2, <1>3, <1>4, <1>5

LEMMA FinishFileIInv == IInv /\ FinishFile => IInv'
<1> SUFFICES ASSUME IInv, FinishFile PROVE IInv'
  OBVIOUS
<1>1. /\ process = "running" /\ process' = "running"
      /\ pc = "next" /\ pc' = "setup"
      /\ i' = i + 1
      /\ openedfiles' = [openedfiles EXCEPT ![i].infile = NULL]
      /\ entry' = entry \/ entry' = Without(infile_name)
      /\ UNCHANGED <<given, data, outfile, g_rm_on_sigint, rm_failed>>
  BY DEF FinishFile, Goes
<1>2. pc \in CodingPcs /\ pc' \in CodingPcs
  BY <1>1 DEF CodingPcs
<1>3. /\ i \in DOMAIN argv /\ i \in Nat \ {0}
      /\ DOMAIN argv = 1..Len(argv)
      /\ DOMAIN openedfiles = DOMAIN argv
      /\ infile_name = argv[i]
  BY <1>1, <1>2, Coding DEF IInv, RunningInv, CodingInv, infile_name
<1>4. DiskInv'
  BY <1>1, DiskWithout DEF IInv
<1>5. /\ GivenInv'
      /\ UNCHANGED <<mode, g_flag, argv, SourceKind, Clash>>
      /\ \A k : OutName(k)' = OutName(k)
  BY <1>1, GivenSame DEF IInv
<1>6. /\ openedfiles' \in Seq(OpenedFile)
      /\ Len(openedfiles') = Len(openedfiles)
      /\ DOMAIN openedfiles' = DOMAIN openedfiles
      /\ \A k \in DOMAIN openedfiles :
           /\ openedfiles'[k].infile_name = openedfiles[k].infile_name
           /\ openedfiles'[k].fstat = openedfiles[k].fstat
           /\ k # i => openedfiles'[k] = openedfiles[k]
  BY InfileClosed
<1>7. OpenedInv'
  BY <1>5, <1>6 DEF IInv, OpenedInv
<1>8. OutfileInv
  BY <1>1 DEF IInv, RunningInv
<1>9. OutfileInv'
  BY <1>1, <1>8 DEF OutfileInv, OpenPcs, NotedPcs
<1>10. ASSUME ~Clash PROVE ProgressInv'
  <2>1. ProgressInv
    BY <1>2, <1>1, <1>10, Coding
  <2>2. \A n \in DOMAIN entry : n # argv[i] =>
          n \in DOMAIN entry' /\ entry'[n] = entry[n]
    BY <1>1, <1>3 DEF Without
  <2>3. \A k \in DOMAIN argv : OutName(k) # argv[i]
    BY <1>3, <1>10 DEF Clash
  <2>4. \A k \in DOMAIN argv : k # i => argv[k] # argv[i]
    <3> SUFFICES ASSUME NEW k \in DOMAIN argv, k # i, argv[k] = argv[i]
                 PROVE  FALSE
      OBVIOUS
    <3>1. OutName(k) = OutName(i)
      BY DEF OutName
    <3> QED
      BY <1>3, <1>10, <3>1 DEF Clash
  <2>5. \A k \in DOMAIN argv : k # i => /\ SourceKept(k) => SourceKept(k)'
                                        /\ Kept(k) => Kept(k)'
    BY <1>1, <1>3, <1>5, <1>6, <2>2, <2>4 DEF SourceKept, Kept
  <2>6. \A k \in DOMAIN argv : /\ Coded(k) => Coded(k)'
                               /\ CloseFailed(k) => CloseFailed(k)'
    BY <1>1, <1>5, <2>2, <2>3 DEF Coded, CloseFailed
  <2>7. \A k \in DOMAIN argv : /\ k < i + 1 => k = i \/ (k < i /\ k # i)
                               /\ k >= i + 1 => k # i /\ k >= i
    BY <1>3
  <2>8. \A k \in DOMAIN argv : k = i => Coded(k) \/ CloseFailed(k)
    BY <1>1, <2>1 DEF ProgressInv
  <2>9. \A k \in DOMAIN argv' :
          /\ k < i' => SourceKept(k)' \/ Coded(k)' \/ CloseFailed(k)'
          /\ k >= i' => Kept(k)'
    BY <1>1, <1>5, <2>1, <2>5, <2>6, <2>7, <2>8 DEF ProgressInv
  <2> QED
    BY <1>1, <2>9 DEF ProgressInv
<1>11. CodingInv'
  <2>1. Len(openedfiles') = Len(argv')
    BY <1>1, <1>2, <1>5, <1>6 DEF IInv, RunningInv, CodingInv
  <2>2. \A k \in DOMAIN argv' : openedfiles'[k].fstat # NULL
    BY <1>1, <1>2, <1>3, <1>5, <1>6, Coding
  <2> QED
    BY <1>1, <1>5, <1>10, <2>1, <2>2 DEF CodingInv
<1>12. ChecksBeforeWriting'
  BY <1>1, <1>2, <1>3, <1>5, <1>6, Coding DEF ChecksBeforeWriting
<1>13. ChecksInv'
  BY <1>1 DEF ChecksInv
<1>14. i' \in Nat \ {0}
  BY <1>1, <1>3
<1> QED
  BY <1>1, <1>2, <1>4, <1>5, <1>7, <1>9, <1>11, <1>12, <1>13, <1>14
     DEF IInv, RunningInv

-----------------------------------------------------------------------------
(* Every step                                                              *)

\* The steps after which the program no longer runs.
LEMMA ExitSteps ==
  ASSUME \/ ExitIfErrors \/ Return \/ EarlyErrorExit \/ Signal
         \/ CodeRejects \/ EncErrorExit
         \/ RefuseSeektable \/ DecodeRejects \/ DecErrorExit
  PROVE  /\ process = "running"
         /\ RemoveIncomplete
         /\ UNCHANGED <<given, data, openedfiles, pc, i>>
         /\ process' \in {"exited", "killed", "returned"}
         /\ process' = "exited" => pc # "note"
<1>1. CASE ExitIfErrors
  BY <1>1 DEF ExitIfErrors, StatsDone, Exit
<1>2. CASE Return
  BY <1>2 DEF Return
<1>3. CASE Signal
  BY <1>3 DEF Signal, SignalExit
<1>4. CASE EarlyErrorExit
  BY <1>4 DEF EarlyErrorExit, FatalError, Exit
<1>5. CASE CodeRejects
  BY <1>5 DEF CodeRejects, FatalError, Exit
<1>6. CASE EncErrorExit
  BY <1>6 DEF EncErrorExit, FatalError, Exit
<1>7. CASE RefuseSeektable
  BY <1>7 DEF RefuseSeektable, FatalError, Exit
<1>8. CASE DecodeRejects
  BY <1>8 DEF DecodeRejects, FatalError, Exit
<1>9. CASE DecErrorExit
  BY <1>9 DEF DecErrorExit, FatalError, Exit
<1> QED
  BY <1>1, <1>2, <1>3, <1>4, <1>5, <1>6, <1>7, <1>8, <1>9

\* The steps that only go on.
LEMMA BetweenSteps ==
  ASSUME SetupSeektable \/ CheckSeektable \/ Note \/ Forget
  PROVE  /\ process = "running"
         /\ UNCHANGED <<process, given, disk, openedfiles, outfile, rm_failed,
                        i>>
         /\ \/ pc = "setup" /\ pc' = "open" /\ i <= Len(argv)
                 /\ UNCHANGED g_rm_on_sigint
            \/ pc = "note" /\ pc' = "reserve" /\ g_rm_on_sigint' = OutName(i)
            \/ pc = "forget" /\ pc' = "next" /\ g_rm_on_sigint' = NULL
<1>1. CASE SetupSeektable
  BY <1>1 DEF SetupSeektable, Goes
<1>2. CASE CheckSeektable
  BY <1>2 DEF CheckSeektable, Goes
<1>3. CASE Note
  BY <1>3 DEF Note, Goes, outfile_name
<1>4. CASE Forget
  BY <1>4 DEF Forget, Goes
<1> QED
  BY <1>1, <1>2, <1>3, <1>4

LEMMA StutterIInv == IInv /\ UNCHANGED vars => IInv'
<1> SUFFICES ASSUME IInv, UNCHANGED vars PROVE IInv'
  OBVIOUS
<1>1. /\ UNCHANGED <<given, disk>>
      /\ UNCHANGED <<process, openedfiles, nerrors_file, outfile,
                     g_rm_on_sigint, rm_failed, pc, i>>
  BY DEF vars, given, disk
<1>2. /\ DiskInv' /\ GivenInv'
      /\ UNCHANGED <<mode, g_flag, argv, entry, data, SourceKind, Clash>>
      /\ \A k : OutName(k)' = OutName(k)
  BY <1>1, SameDisk
<1>3. \A k : /\ SourceKept(k)' <=> SourceKept(k)
             /\ Kept(k)' <=> Kept(k)
             /\ Coded(k)' <=> Coded(k)
             /\ CloseFailed(k)' <=> CloseFailed(k)
  BY <1>1, <1>2 DEF SourceKept, Kept, Coded, CloseFailed
<1>4. /\ OutName(i)' = OutName(i)
      /\ Coded(i)' <=> Coded(i)
      /\ CloseFailed(i)' <=> CloseFailed(i)
  BY <1>1, <1>2 DEF OutName, get_outfile_name, Coded, CloseFailed
<1>5. OpenedInv' /\ ChecksBeforeWriting'
  BY <1>1, <1>2 DEF IInv, OpenedInv, ChecksBeforeWriting
<1>6. ChecksInv => ChecksInv'
  BY <1>1, <1>2, <1>3 DEF ChecksInv, NoOutput
<1>7. OutfileInv => OutfileInv'
  BY <1>1, <1>2, <1>4 DEF OutfileInv
<1>8. ProgressInv => ProgressInv'
  BY <1>1, <1>2, <1>3, <1>4 DEF ProgressInv
<1>9. CodingInv => CodingInv'
  BY <1>1, <1>2, <1>8 DEF CodingInv
<1>10. RunningInv'
  BY <1>1, <1>6, <1>7, <1>9 DEF IInv, RunningInv
<1>11. NoSourceLost => NoSourceLost'
  BY <1>1, <1>2, <1>3 DEF NoSourceLost
<1>12. NoIncompleteLeft => NoIncompleteLeft'
  BY <1>1, <1>2 DEF NoIncompleteLeft
<1> QED
  BY <1>1, <1>2, <1>5, <1>10, <1>11, <1>12 DEF IInv

LEMMA NextIInv == IInv /\ [Next]_vars => IInv'
<1> SUFFICES ASSUME IInv, [Next]_vars PROVE IInv'
  OBVIOUS
<1>1. CASE \/ ExitIfErrors \/ Return \/ EarlyErrorExit \/ Signal
           \/ CodeRejects \/ EncErrorExit
           \/ RefuseSeektable \/ DecodeRejects \/ DecErrorExit
  BY <1>1, ExitSteps, ExitIInv
<1>2. CASE SetupSeektable \/ CheckSeektable \/ Note \/ Forget
  BY <1>2, BetweenSteps, BetweenIInv
<1>3. CASE ProcessArg \/ ArgsDone \/ GetStats \/ StartCoding
  BY <1>3, ProcessArgIInv, ArgsDoneIInv, GetStatsIInv, StartCodingIInv
<1>4. CASE Open \/ CloseOutfile \/ FinishFile
  BY <1>4, OpenIInv, CloseIInv, FinishFileIInv
<1>5. CASE Reserve \/ ReserveHeader \/ WriteHeaderAndSeektable \/ WriteHeader
  BY <1>5, ReserveIInv, WriteHeaderIInv
<1>6. CASE mode = "encode" /\ Code
  BY <1>6, CodeIInv
<1>7. CASE mode = "decode" /\ Decode
  BY <1>7, DecodeIInv
<1>8. CASE UNCHANGED vars
  BY <1>8, StutterIInv
<1> QED
  BY <1>1, <1>2, <1>3, <1>4, <1>5, <1>6, <1>7, <1>8
     DEF Next, ModeStep, EncodeStep, DecodeStep, Terminated

-----------------------------------------------------------------------------
(* The seektable                                                           *)

\* Any set of numbers has a least one.
LEMMA LeastNumber ==
  ASSUME NEW T, T \subseteq Nat, T # {}
  PROVE  \E m \in T : \A k \in T : m <= k
<1> DEFINE R == {ss \in Nat \X Nat : ss[1] < ss[2]}
<1>1. R = OpToRel(<, Nat)
  BY DEF OpToRel
<1>2. IsWellFoundedOn(R, Nat)
  BY NatLessThanWellFounded DEF OpToRel
<1>3. \E m \in T : \A k \in T : ~(<<k, m>> \in R)
  BY <1>2, WFMin
<1>4. \A k, m \in T : ~(<<k, m>> \in R) => m <= k
  OBVIOUS
<1> QED
  BY <1>3, <1>4

\* n frames that there is room for give n entries.
LEMMA AfterFramesIs ==
  ASSUME NEW st \in SeekTable, NEW n \in Nat, st.nmemb + n <= st.limit
  PROVE  AfterFrames(st, n) = [st EXCEPT !.nmemb = st.nmemb + n]
<1> DEFINE F(f, k) == IF k = 0 THEN st ELSE seektable_add(f[k - 1])
           at(k) == [st EXCEPT !.nmemb = st.nmemb + k]
           g == [k \in 0..n |-> at(k)]
<1>1. st = [off |-> st.off, nmemb |-> st.nmemb, limit |-> st.limit]
        /\ st.nmemb \in Nat /\ st.limit \in Nat
  BY DEF SeekTable
<1>2. at(0) = st
  BY <1>1
<1>3. \A k \in 1..n : seektable_add(at(k - 1)) = at(k)
  <2> SUFFICES ASSUME NEW k \in 1..n PROVE seektable_add(at(k - 1)) = at(k)
    OBVIOUS
  <2>1. at(k - 1).nmemb = st.nmemb + (k - 1) /\ at(k - 1).limit = st.limit
    BY <1>1
  <2>2. st.nmemb + (k - 1) # st.limit /\ st.nmemb + (k - 1) + 1 = st.nmemb + k
    BY <1>1
  <2>3. seektable_add(at(k - 1))
          = [at(k - 1) EXCEPT !.nmemb = st.nmemb + k, !.limit = st.limit]
    BY <2>1, <2>2 DEF seektable_add
  <2> QED
    BY <1>1, <2>3
<1> HIDE DEF at
<1>4. g = [k \in 0..n |-> F(g, k)]
  <2>1. \A k \in 0..n : g[k] = F(g, k)
    <3> SUFFICES ASSUME NEW k \in 0..n PROVE g[k] = F(g, k)
      OBVIOUS
    <3>1. CASE k = 0
      BY <1>2, <3>1
    <3>2. CASE k # 0
      <4>1. k \in 1..n /\ k - 1 \in 0..n
        BY <3>2
      <4> QED
        BY <1>3, <3>2, <4>1
    <3> QED
      BY <3>1, <3>2
  <2> QED
    BY <2>1
<1>5. ASSUME NEW f, f = [k \in 0..n |-> F(f, k)]
      PROVE  f[n] = at(n)
  <2> DEFINE T == {k \in 0..n : f[k] # at(k)}
  <2>1. \A k \in 0..n : f[k] = F(f, k)
    BY <1>5
  <2>2. SUFFICES ASSUME T # {} PROVE FALSE
    OBVIOUS
  <2>3. PICK m \in T : \A k \in T : m <= k
    <3>1. T \subseteq Nat
      OBVIOUS
    <3> QED
      BY <2>2, <3>1, LeastNumber
  <2>4. m # 0
    BY <1>2, <2>1
  <2>5. m \in 1..n /\ m - 1 \in 0..n /\ m - 1 \notin T
    BY <2>3, <2>4
  <2>6. f[m] = seektable_add(at(m - 1))
    BY <2>1, <2>4, <2>5
  <2> QED
    BY <1>3, <2>5, <2>6
<1>6. AfterFrames(st, n) = at(n)
  <2> DEFINE after == CHOOSE f : f = [k \in 0..n |-> F(f, k)]
  <2>1. after = [k \in 0..n |-> F(after, k)]
    BY <1>4
  <2>2. AfterFrames(st, n) = after[n]
    BY DEF AfterFrames
  <2> HIDE DEF after
  <2> QED
    BY <1>5, <2>1, <2>2
<1> QED
  BY <1>6 DEF at

LEMMA RoundedUpIs ==
  ASSUME NEW n \in Nat, NEW d \in Nat \ {0}
  PROVE  /\ RoundedUp(n, d) \in Nat
         /\ \A m \in Nat : /\ m * d \in Nat
                           /\ m < RoundedUp(n, d) <=> m * d < n
<1> DEFINE q == n \div d
           r == n % d
           c == IF r # 0 THEN q + 1 ELSE q
<1>1. q \in Nat /\ r \in 0..(d - 1) /\ n = d * q + r
  BY DivMod
<1>2. RoundedUp(n, d) = c
  BY <1>1 DEF RoundedUp
<1> HIDE DEF q, r
<1>3. c \in Nat
  BY <1>1
<1>4. \A m \in Nat : /\ m * d \in Nat /\ m * d = d * m
                     /\ d * m \in Nat
                     /\ m < q <=> d * m < d * q
                     /\ q < m <=> d * q < d * m
                     /\ m < q + 1 <=> d * m < d * (q + 1)
                     /\ m = q => d * m = d * q
  BY <1>1, MultLess, MultNat
<1>5. d * (q + 1) = d * q + d /\ d * q \in Nat
  BY <1>1, MultNat
<1>6. \A m \in Nat : m < c <=> m * d < n
  <2> SUFFICES ASSUME NEW m \in Nat PROVE m < c <=> m * d < n
    OBVIOUS
  <2> DEFINE x == d * m
             y == d * q
  <2>1. /\ m * d = x /\ x \in Nat /\ y \in Nat
        /\ m < q <=> x < y
        /\ q < m <=> y < x
        /\ m < q + 1 <=> x < y + d
        /\ m = q => x = y
    BY <1>4, <1>5
  <2>2. n = y + r
    BY <1>1
  <2> HIDE DEF x, y
  <2> QED
    BY <1>1, <2>1, <2>2
<1> QED
  BY <1>2, <1>3, <1>4, <1>6

Reserved(f) == seektable_nframes(f.decpcm_size, FullFrame, SampleBytes)

LEMMA NamesOfCounts ==
  ASSUME NEW f \in File
  PROVE  /\ f.decpcm_size \in Nat
         /\ Announced(f) \in Nat
         /\ NSamples(f) \in Nat
         /\ NSamples(f) <= Announced(f)
         /\ RoundedUp(f.decpcm_size, SampleBytes)
              = Announced(f) + (IF f.decpcm_size % SampleBytes # 0 THEN 1 ELSE 0)
         /\ Announced(f) = f.decpcm_size \div SampleBytes
BY SamplesAre DEF Announced, RoundedUp, File

\* There is room in the seektable for every frame that is read.
LEMMA FramesFitTable ==
  ASSUME NEW f \in File
  PROVE  /\ Reserved(f) \in Nat
         /\ NFrames(f) \in Nat
         /\ NFrames(f) <= Reserved(f)
<1> DEFINE R == RoundedUp(f.decpcm_size, SampleBytes)
<1>1. R \in Nat /\ NSamples(f) \in Nat /\ NSamples(f) <= R
  BY NamesOfCounts
<1>2. Reserved(f) = RoundedUp(R, FullFrame)
  BY DEF Reserved, seektable_nframes
<1> HIDE DEF R
<1>3. /\ Reserved(f) \in Nat
      /\ \A m \in Nat : /\ m * FullFrame \in Nat
                        /\ m < Reserved(f) <=> m * FullFrame < R
  BY <1>1, <1>2, FullFrameType, RoundedUpIs
<1>4. /\ NFrames(f) \in Nat
      /\ \A m \in Nat : m < NFrames(f) <=> m * FullFrame < NSamples(f)
  BY FramesAre
<1>5. ~(Reserved(f) < NFrames(f))
  <2> DEFINE x == Reserved(f) * FullFrame
  <2>1. x \in Nat /\ ~(x < R)
    BY <1>3
  <2>2. Reserved(f) < NFrames(f) => x < NSamples(f)
    BY <1>3, <1>4
  <2> HIDE DEF x
  <2> QED
    BY <1>1, <2>1, <2>2
<1> QED
  BY <1>3, <1>4, <1>5

\* If nothing is missing and no part of a sample is left where a frame would
\* begin, they fill it.
LEMMA FramesFillTable ==
  ASSUME NEW f \in File, ~WarnsOf(f),
         ~(f.decpcm_size = 0 \/ f.decpcm_size % SampleBytes # 0)
           \/ (f.decpcm_size \div SampleBytes) % FullFrame # 0
  PROVE  NFrames(f) = Reserved(f) /\ NFrames(f) # 0
<1> DEFINE R == RoundedUp(f.decpcm_size, SampleBytes)
           A == f.decpcm_size \div SampleBytes
<1>1. /\ A \in Nat /\ NSamples(f) = A
      /\ R = A + (IF f.decpcm_size % SampleBytes # 0 THEN 1 ELSE 0)
      /\ f.decpcm_size \in Nat
  BY NamesOfCounts DEF WarnsOf
<1>2. Reserved(f) = RoundedUp(R, FullFrame)
  BY DEF Reserved, seektable_nframes
<1>3. A = 0 => A % FullFrame = 0 /\ (f.decpcm_size = 0 \/ f.decpcm_size % SampleBytes # 0)
  <2>1. 0 % FullFrame = 0
    BY FullFrameType, ModSmall
  <2>2. SampleBytes \in Nat \ {0}
    BY FormatAssumption, SizeAssumption
  <2>3. f.decpcm_size = SampleBytes * A + (f.decpcm_size % SampleBytes)
    BY <1>1, <2>2, DivMod
  <2>4. A = 0 /\ f.decpcm_size % SampleBytes = 0 => f.decpcm_size = 0
    <3> DEFINE s == f.decpcm_size
    <3>1. A = 0 => SampleBytes * A = 0
      BY <2>2
    <3> QED
      BY <2>3, <3>1
  <2> QED
    BY <2>1, <2>4
<1>4. A # 0
  BY <1>3
<1> HIDE DEF A, R
<1>5. /\ Reserved(f) \in Nat /\ NFrames(f) \in Nat
      /\ NFrames(f) <= Reserved(f)
  BY FramesFitTable
<1>6. /\ R \in Nat
      /\ \A m \in Nat : m < Reserved(f) <=> m * FullFrame < R
  BY <1>1, <1>2, FullFrameType, RoundedUpIs
<1>7. \A m \in Nat : /\ m * FullFrame \in Nat
                     /\ m < NFrames(f) <=> m * FullFrame < A
  BY <1>1, FramesAre
<1>8. NFrames(f) # 0
  <2>1. 0 * FullFrame = 0
    BY FullFrameType
  <2> QED
    BY <1>1, <1>4, <1>5, <1>7, <2>1
<1>9. ~(NFrames(f) < Reserved(f))
  <2> SUFFICES ASSUME NFrames(f) < Reserved(f) PROVE FALSE
    OBVIOUS
  <2> DEFINE x == NFrames(f) * FullFrame
  <2>1. x \in Nat /\ x < R /\ ~(x < A)
    BY <1>5, <1>6, <1>7
  <2> HIDE DEF x
  <2>2. x = A /\ f.decpcm_size % SampleBytes # 0
    BY <1>1, <1>6, <2>1
  <2>3. A = FullFrame * NFrames(f) + 0
    BY <1>5, <2>2, FullFrameType, MultNat DEF x
  <2>4. A % FullFrame = 0
    BY <1>1, <1>5, <2>3, FullFrameType, ModUnique
  <2> QED
    BY <2>2, <2>4 DEF A
<1> QED
  BY <1>5, <1>8, <1>9

-----------------------------------------------------------------------------
(* Types                                                                   *)

LEMMA InitTypeInv == Init => TypeInv
<1> SUFFICES ASSUME Init PROVE TypeInv
  OBVIOUS
<1>1. PICK s \in Starts :
        /\ mode = s.mode /\ g_flag = s.g_flag /\ argv = s.argv
        /\ entry = s.entry /\ data = s.data
  BY DEF Init, FilesInit
<1>2. IsStart(s)
  BY StartsAssumption
<1>3. /\ process = "running" /\ openedfiles = <<>> /\ nerrors_file = 0
      /\ outfile = NULL /\ g_rm_on_sigint = NULL /\ rm_failed = FALSE
      /\ g_nwarnings = 0 /\ pc = "args" /\ i = 1
      /\ seektable = seektable_init(0) /\ ignore_seektable = FALSE
  BY DEF Init, FilesInit
<1>4. /\ DOMAIN openedfiles = {}
      /\ Len(argv) \in Nat
  BY <1>1, <1>2, <1>3 DEF IsStart
<1>5. /\ \A f \in DOMAIN data : data[f] \in Source
      /\ \A n \in DOMAIN entry : n \in Path /\ entry[n] \in DOMAIN data
  BY <1>1, <1>2 DEF IsStart
<1>6. seektable_init(0) \in SeekTable
  BY SeektableAssumption DEF seektable_init, SeekTable
<1>7. 0 \in 0..UINT8_MAX
  BY WarningsAssumption
<1>8. TypeOK
  <2>1. \A f \in DOMAIN data : data[f].kind \in {"pcm", "tta", "output"}
    BY <1>5 DEF Source
  <2>2. i \in 1..Len(argv) + 1 /\ 0 \in 0..Len(argv)
    BY <1>3, <1>4
  <2> QED
    BY <1>3, <1>4, <1>5, <1>6, <1>7, <2>1, <2>2 DEF TypeOK
<1>9. StatsInv
  BY <1>4 DEF StatsInv
<1>10. ErrorsInv
  <2>1. Bad = {}
    BY <1>4 DEF Bad
  <2> QED
    BY <1>3, <2>1, FS_EmptySet DEF ErrorsInv
<1>11. StreamsInv
  BY <1>3 DEF StreamsInv, CodingPcs
<1> QED
  BY <1>8, <1>9, <1>10, <1>11 DEF TypeInv

LEMMA NextGiven == [Next]_vars => UNCHANGED given
<1> SUFFICES ASSUME [Next]_vars PROVE UNCHANGED given
  OBVIOUS
<1>1. CASE \/ ProcessArg \/ ArgsDone \/ GetStats \/ ExitIfErrors \/ StartCoding
           \/ Open \/ Note \/ CloseOutfile \/ Forget \/ FinishFile
           \/ Return \/ EarlyErrorExit \/ Signal
  BY <1>1 DEF ProcessArg, OpenInfile, ArgsDone, GetStats, ExitIfErrors,
       StartCoding, Open, OpenOutfile, Note, CloseOutfile, Forget, FinishFile,
       Return, EarlyErrorExit, FatalError, Signal, SignalExit
<1>2. CASE EncodeStep
  BY <1>2 DEF EncodeStep, SetupSeektable, Reserve, Code, CodeRejects,
       WriteHeaderAndSeektable, EncErrorExit, FatalError
<1>3. CASE DecodeStep
  BY <1>3 DEF DecodeStep, CheckSeektable, RefuseSeektable, ReserveHeader,
       Decode, DecodeRejects, WriteHeader, DecErrorExit, FatalError
<1>4. CASE UNCHANGED vars
  BY <1>4 DEF vars, given
<1> QED
  BY <1>1, <1>2, <1>3, <1>4 DEF Next, ModeStep, Terminated

\* What every step does to the count of warnings.
LEMMA NextWarns ==
  [Next]_vars => g_nwarnings' \in {g_nwarnings, inc_nwarnings(g_nwarnings)}
<1> SUFFICES ASSUME [Next]_vars
             PROVE  g_nwarnings' \in {g_nwarnings, inc_nwarnings(g_nwarnings)}
  OBVIOUS
<1> USE DEF Warned
<1>1. CASE \/ ProcessArg \/ ArgsDone \/ GetStats \/ ExitIfErrors \/ StartCoding
           \/ Open \/ Note \/ CloseOutfile \/ Forget \/ FinishFile
           \/ Return \/ EarlyErrorExit \/ Signal
  BY <1>1 DEF ProcessArg, OpenInfile, ArgsDone, GetStats, ExitIfErrors,
       StartCoding, Open, OpenOutfile, Note, CloseOutfile, Forget, FinishFile,
       Return, EarlyErrorExit, FatalError, Signal, SignalExit
<1>2. CASE EncodeStep
  BY <1>2 DEF EncodeStep, SetupSeektable, Reserve, Code, CodeRejects,
       WriteHeaderAndSeektable, EncErrorExit, FatalError
<1>3. CASE DecodeStep
  BY <1>3 DEF DecodeStep, CheckSeektable, RefuseSeektable, ReserveHeader,
       Decode, DecodeRejects, WriteHeader, DecErrorExit, FatalError
<1>4. CASE UNCHANGED vars
  BY <1>4 DEF vars
<1> QED
  BY <1>1, <1>2, <1>3, <1>4 DEF Next, ModeStep, Terminated

LEMMA WarningsType ==
  ASSUME TypeOK, g_nwarnings' \in {g_nwarnings, inc_nwarnings(g_nwarnings)}
  PROVE  g_nwarnings' \in 0..UINT8_MAX
BY WarningsAssumption DEF TypeOK, inc_nwarnings

\* A warning is never forgotten.
LEMMA WarnedCleanly ==
  ASSUME TypeOK, NEW w, Warned(w), g_nwarnings' = 0
  PROVE  g_nwarnings = 0 /\ ~w
BY WarningsAssumption DEF TypeOK, Warned, inc_nwarnings

\* A file stays what it is, or is an outfile.
LEMMA NextData ==
  ASSUME IInv, [Next]_vars
  PROVE  /\ DOMAIN data \subseteq DOMAIN data'
         /\ \A f \in DOMAIN data :
              data'[f] = data[f] \/ data'[f].kind = "output"
<1>1. CASE UNCHANGED data
  BY <1>1
<1>2. CASE Open
  <2>1. i \in DOMAIN argv /\ Truncate(OutName(i))
    BY <1>2 DEF Open, Goes, OpenOutfile, outfile_name, IInv, RunningInv,
                CodingInv, CodingPcs
  <2>2. OutName(i) \in Path
    BY <2>1, OutNamePath DEF IInv
  <2>3. /\ data'[outfile'] = Empty
        /\ DOMAIN data \subseteq DOMAIN data'
        /\ \A g \in DOMAIN data' \ {outfile'} :
             g \in DOMAIN data /\ data'[g] = data[g]
    BY <2>1, <2>2, DiskTruncated DEF IInv
  <2> QED
    BY <2>3, EmptyIsOutput
<1>3. ASSUME process = "running", pc \in {"reserve", "code", "header", "close"},
             NEW d, d.kind = "output", data' = [data EXCEPT ![outfile] = d]
      PROVE  /\ DOMAIN data \subseteq DOMAIN data'
             /\ \A f \in DOMAIN data :
                  data'[f] = data[f] \/ data'[f].kind = "output"
  BY <1>3
<1>4. CASE Reserve \/ ReserveHeader
  <2>1. process = "running" /\ pc = "reserve"
    BY <1>4 DEF Reserve, ReserveHeader, Goes
  <2>2. PICK x : data' = [data EXCEPT ![outfile].start = x]
    BY <1>4 DEF Reserve, ReserveHeader
  <2> DEFINE d == [data[outfile] EXCEPT !.start = x]
  <2>3. d.kind = "output"
    BY <2>1, Writing DEF IsOutput
  <2>4. data' = [data EXCEPT ![outfile] = d]
    BY <2>2
  <2> HIDE DEF d
  <2> QED
    BY <1>3, <2>1, <2>3, <2>4
<1>5. CASE Code \/ Decode
  <2>1. process = "running" /\ pc = "code"
    BY <1>5 DEF Code, Decode, Goes
  <2>2. PICK x, y : data' = [data EXCEPT ![outfile].of = x, ![outfile].whole = y]
    <3>1. CASE Code
      BY <3>1 DEF Code
    <3>2. CASE Decode
      BY <3>2 DEF Decode
    <3> QED
      BY <1>5, <3>1, <3>2
  <2> DEFINE d == [data[outfile] EXCEPT !.of = x, !.whole = y]
  <2>3. d.kind = "output"
    BY <2>1, Writing DEF IsOutput
  <2>4. data' = [data EXCEPT ![outfile] = d]
    BY <2>2
  <2> HIDE DEF d
  <2> QED
    BY <1>3, <2>1, <2>3, <2>4
<1>6. CASE WriteHeaderAndSeektable \/ WriteHeader
  <2>1. process = "running" /\ pc = "header"
    BY <1>6 DEF WriteHeaderAndSeektable, WriteHeader, Goes
  <2>2. PICK x : data' = [data EXCEPT ![outfile].header = TRUE,
                                      ![outfile].table = x]
    BY <1>6 DEF WriteHeaderAndSeektable, WriteHeader
  <2> DEFINE d == [data[outfile] EXCEPT !.header = TRUE, !.table = x]
  <2>3. d.kind = "output"
    BY <2>1, Writing DEF IsOutput
  <2>4. data' = [data EXCEPT ![outfile] = d]
    BY <2>2
  <2> HIDE DEF d
  <2> QED
    BY <1>3, <2>1, <2>3, <2>4
<1>7. CASE CloseOutfile
  <2>1. process = "running" /\ pc = "close"
    BY <1>7 DEF CloseOutfile, Goes
  <2>2. PICK x : data' = [data EXCEPT ![outfile].closed = x]
    BY <1>7 DEF CloseOutfile
  <2> DEFINE d == [data[outfile] EXCEPT !.closed = x]
  <2>3. d.kind = "output"
    BY <2>1, Writing DEF IsOutput
  <2>4. data' = [data EXCEPT ![outfile] = d]
    BY <2>2
  <2> HIDE DEF d
  <2> QED
    BY <1>3, <2>1, <2>3, <2>4
<1>8. \/ UNCHANGED data \/ Open \/ Reserve \/ ReserveHeader \/ Code \/ Decode
      \/ WriteHeaderAndSeektable \/ WriteHeader \/ CloseOutfile
  <2>1. CASE \/ ExitIfErrors \/ Return \/ EarlyErrorExit \/ Signal
             \/ CodeRejects \/ EncErrorExit
             \/ RefuseSeektable \/ DecodeRejects \/ DecErrorExit
    BY <2>1, ExitSteps
  <2>2. CASE \/ ProcessArg \/ ArgsDone \/ GetStats \/ StartCoding
             \/ SetupSeektable \/ CheckSeektable \/ Note \/ Forget
             \/ FinishFile \/ UNCHANGED vars
    BY <2>2 DEF ProcessArg, OpenInfile, ArgsDone, GetStats, StartCoding,
         SetupSeektable, CheckSeektable, Note, Forget, FinishFile, disk, vars
  <2> QED
    BY <2>1, <2>2 DEF Next, ModeStep, EncodeStep, DecodeStep, Terminated
<1> QED
  BY <1>1, <1>2, <1>4, <1>5, <1>6, <1>7, <1>8

\* Where the program is, and at which infile.
LEMMA NextPlace ==
  ASSUME IInv, TypeOK, [Next]_vars
  PROVE  /\ process' \in {"running", "returned", "exited", "killed"}
         /\ rm_failed' \in BOOLEAN
         /\ pc' \in {"args", "stat", "setup", "open", "note", "reserve",
                     "code", "header", "close", "forget", "next"}
         /\ i' \in 1..Len(argv) + 1
         /\ ignore_seektable' \in BOOLEAN
<1>1. CASE \/ ExitIfErrors \/ Return \/ EarlyErrorExit \/ Signal
           \/ CodeRejects \/ EncErrorExit
           \/ RefuseSeektable \/ DecodeRejects \/ DecErrorExit
  <2>1. /\ RemoveIncomplete
        /\ UNCHANGED <<pc, i>>
        /\ process' \in {"exited", "killed", "returned"}
    BY <1>1, ExitSteps
  <2>2. UNCHANGED ignore_seektable
    BY <1>1 DEF ExitIfErrors, Return, EarlyErrorExit, Signal, CodeRejects,
         EncErrorExit, RefuseSeektable, DecodeRejects, DecErrorExit, local
  <2>3. rm_failed' \in {rm_failed, TRUE}
    BY <2>1 DEF RemoveIncomplete
  <2> QED
    BY <2>1, <2>2, <2>3 DEF TypeOK
<1>2. CASE \/ ProcessArg \/ ArgsDone \/ StartCoding
           \/ SetupSeektable \/ CheckSeektable \/ Note \/ Forget
           \/ Open \/ Reserve \/ ReserveHeader \/ Code \/ Decode
           \/ WriteHeaderAndSeektable \/ WriteHeader \/ CloseOutfile
           \/ UNCHANGED vars
  <2>1. /\ UNCHANGED process
        /\ UNCHANGED rm_failed
        /\ UNCHANGED i \/ i' = 1
    BY <1>2 DEF ProcessArg, OpenInfile, ArgsDone, StartCoding,
         SetupSeektable, CheckSeektable, Note, Forget, Open, OpenOutfile,
         Reserve, ReserveHeader, Code, Decode, WriteHeaderAndSeektable,
         WriteHeader, CloseOutfile, vars
  <2>2. pc' \in {pc, "stat", "setup", "open", "note", "reserve",
                 "code", "header", "close", "forget", "next"}
    BY <1>2 DEF ProcessArg, ArgsDone, StartCoding,
         SetupSeektable, CheckSeektable, Note, Forget, Open,
         Reserve, ReserveHeader, Code, Decode, WriteHeaderAndSeektable,
         WriteHeader, CloseOutfile, vars, Goes
  <2>3. ignore_seektable' \in {ignore_seektable, TRUE, FALSE}
    BY <1>2 DEF ProcessArg, ArgsDone, StartCoding,
         SetupSeektable, CheckSeektable, Note, Forget, Open,
         Reserve, ReserveHeader, Code, Decode, WriteHeaderAndSeektable,
         WriteHeader, CloseOutfile, vars, local
  <2>4. Len(argv) \in Nat
    BY DEF IInv, GivenInv
  <2>5. i' \in 1..Len(argv) + 1
    BY <2>1, <2>4 DEF TypeOK
  <2> QED
    BY <2>1, <2>2, <2>3, <2>5 DEF TypeOK
<1>3. CASE GetStats
  BY <1>3 DEF GetStats, TypeOK, IInv, GivenInv, local
<1>4. CASE FinishFile
  <2>1. i \in DOMAIN argv /\ argv \in Seq(Path)
    BY <1>4 DEF FinishFile, Goes, IInv, GivenInv, RunningInv, CodingInv,
         CodingPcs
  <2> QED
    BY <1>4, <2>1 DEF FinishFile, Goes, TypeOK, local
<1> QED
  BY <1>1, <1>2, <1>3, <1>4
     DEF Next, ModeStep, EncodeStep, DecodeStep, Terminated

\* The stream that is open, and the name that is noted.
LEMMA NextStream ==
  ASSUME IInv, TypeOK, [Next]_vars
  PROVE  /\ outfile' \in DOMAIN data' \cup {NULL}
         /\ g_rm_on_sigint' \in {NULL} \cup {OutName(k) : k \in DOMAIN argv}
<1>1. CASE UNCHANGED <<outfile, g_rm_on_sigint>>
  BY <1>1, NextData DEF TypeOK
<1>2. CASE Open
  <2>1. i \in DOMAIN argv /\ Truncate(OutName(i)) /\ UNCHANGED g_rm_on_sigint
    BY <1>2 DEF Open, Goes, OpenOutfile, outfile_name, IInv, RunningInv,
                CodingInv, CodingPcs
  <2>2. OutName(i) \in Path
    BY <2>1, OutNamePath DEF IInv
  <2>3. outfile' \in DOMAIN data'
    BY <2>1, <2>2, DiskTruncated DEF IInv
  <2> QED
    BY <2>1, <2>3 DEF TypeOK
<1>3. CASE CloseOutfile
  BY <1>3 DEF CloseOutfile, TypeOK
<1>4. CASE Note
  <2>1. i \in DOMAIN argv /\ g_rm_on_sigint' = OutName(i) /\ UNCHANGED outfile
    BY <1>4 DEF Note, Goes, outfile_name, IInv, RunningInv, OutfileInv, OpenPcs
  <2> QED
    BY <2>1, NextData DEF TypeOK
<1>5. CASE Forget
  <2>1. g_rm_on_sigint' = NULL /\ UNCHANGED outfile
    BY <1>5 DEF Forget
  <2> QED
    BY <2>1, NextData DEF TypeOK
<1>6. \/ UNCHANGED <<outfile, g_rm_on_sigint>>
      \/ Open \/ CloseOutfile \/ Note \/ Forget
  <2>1. CASE \/ ExitIfErrors \/ Return \/ EarlyErrorExit \/ Signal
             \/ CodeRejects \/ EncErrorExit
             \/ RefuseSeektable \/ DecodeRejects \/ DecErrorExit
    BY <2>1 DEF ExitIfErrors, Return, EarlyErrorExit, Signal, SignalExit,
         CodeRejects, EncErrorExit, RefuseSeektable, DecodeRejects,
         DecErrorExit, FatalError
  <2>2. CASE \/ ProcessArg \/ ArgsDone \/ GetStats \/ StartCoding
             \/ SetupSeektable \/ CheckSeektable
             \/ Reserve \/ ReserveHeader \/ Code \/ Decode
             \/ WriteHeaderAndSeektable \/ WriteHeader
             \/ FinishFile \/ UNCHANGED vars
    BY <2>2 DEF ProcessArg, OpenInfile, ArgsDone, GetStats, StartCoding,
         SetupSeektable, CheckSeektable, Reserve, ReserveHeader, Code, Decode,
         WriteHeaderAndSeektable, WriteHeader, FinishFile, vars
  <2> QED
    BY <2>1, <2>2 DEF Next, ModeStep, EncodeStep, DecodeStep, Terminated
<1> QED
  BY <1>1, <1>2, <1>3, <1>4, <1>5, <1>6

\* Which steps touch what is known of the infiles.
LEMMA NextOpened ==
  ASSUME [Next]_vars
  PROVE  \/ ProcessArg \/ GetStats \/ FinishFile
         \/ UNCHANGED <<openedfiles, nerrors_file>>
<1>1. CASE \/ ExitIfErrors \/ Return \/ EarlyErrorExit \/ Signal
           \/ CodeRejects \/ EncErrorExit
           \/ RefuseSeektable \/ DecodeRejects \/ DecErrorExit
  BY <1>1 DEF ExitIfErrors, Return, EarlyErrorExit, Signal, SignalExit,
       CodeRejects, EncErrorExit, RefuseSeektable, DecodeRejects,
       DecErrorExit, FatalError
<1>2. CASE \/ ArgsDone \/ StartCoding
           \/ SetupSeektable \/ CheckSeektable \/ Note \/ Forget
           \/ Open \/ Reserve \/ ReserveHeader \/ Code \/ Decode
           \/ WriteHeaderAndSeektable \/ WriteHeader \/ CloseOutfile
           \/ UNCHANGED vars
  BY <1>2 DEF ArgsDone, StartCoding, SetupSeektable, CheckSeektable, Note,
       Forget, Open, OpenOutfile, Reserve, ReserveHeader, Code, Decode,
       WriteHeaderAndSeektable, WriteHeader, CloseOutfile, vars
<1> QED
  BY <1>1, <1>2 DEF Next, ModeStep, EncodeStep, DecodeStep, Terminated

LEMMA NextStats ==
  ASSUME IInv, StatsInv, [Next]_vars
  PROVE  StatsInv'
<1>1. /\ DOMAIN data \subseteq DOMAIN data'
      /\ \A f \in DOMAIN data : data'[f] = data[f] \/ data'[f].kind = "output"
      /\ UNCHANGED <<mode, argv, StatsType>>
      /\ NULL \notin DOMAIN data
  BY NextData, NextGiven, NullAssumption
     DEF given, StatsType, IInv, DiskInv, IsSeq
<1>2. ASSUME NEW o, /\ o.infile \in DOMAIN data \cup {NULL}
                    /\ o.fstat \in StatsType \cup {NULL}
                    /\ o.infile # NULL /\ o.fstat # NULL =>
                         \/ data[o.infile].kind = "output"
                         \/ data[o.infile].file = o.fstat
      PROVE  /\ o.infile \in DOMAIN data' \cup {NULL}
             /\ o.fstat \in StatsType' \cup {NULL}
             /\ o.infile # NULL /\ o.fstat # NULL =>
                  \/ data'[o.infile].kind = "output"
                  \/ data'[o.infile].file = o.fstat
  BY <1>1, <1>2
<1>3. \A k \in DOMAIN openedfiles :
        k \in DOMAIN openedfiles' /\ openedfiles'[k] = openedfiles[k] =>
          /\ openedfiles'[k].infile \in DOMAIN data' \cup {NULL}
          /\ openedfiles'[k].fstat \in StatsType' \cup {NULL}
          /\ openedfiles'[k].infile # NULL /\ openedfiles'[k].fstat # NULL =>
               \/ data'[openedfiles'[k].infile].kind = "output"
               \/ data'[openedfiles'[k].infile].file = openedfiles'[k].fstat
  BY <1>2 DEF StatsInv
<1>4. CASE UNCHANGED openedfiles
  BY <1>3, <1>4 DEF StatsInv
<1>5. CASE ProcessArg
  <2> DEFINE k0 == Len(openedfiles) + 1
  <2>1. PICK opened \in BOOLEAN : InfileTried(k0, opened)
    BY <1>5, InfileOpened
  <2> HIDE DEF k0
  <2>2. /\ openedfiles'[k0].infile \in DOMAIN data' \cup {NULL}
        /\ openedfiles'[k0].fstat = NULL
    BY <1>1, <2>1 DEF InfileTried, IInv, DiskInv
  <2> QED
    BY <1>3, <2>1, <2>2 DEF InfileTried, StatsInv
<1>6. CASE GetStats
  <2>1. PICK ok \in BOOLEAN : StatsTried(ok)
    BY <1>6, StatsGot
  <2>2. UNCHANGED data
    BY <1>6 DEF GetStats, disk
  <2>3. ok => openedfiles'[i].fstat \in StatsType
    <3>1. ok => data[infile] \in Source /\ data[infile].kind = SourceKind
      BY <2>1, SourceKinds DEF StatsTried, IInv, DiskInv, IsContent, IsOutput
    <3>2. mode \in {"encode", "decode"}
      BY DEF IInv, GivenInv
    <3>3. ok => data[infile].file \in StatsType
      BY <3>1, <3>2 DEF Source, SourceKind, StatsType
    <3> QED
      BY <2>1, <3>3 DEF StatsTried
  <2>4. SUFFICES ASSUME NEW k \in DOMAIN openedfiles
        PROVE  /\ openedfiles'[k].infile \in DOMAIN data \cup {NULL}
               /\ openedfiles'[k].fstat \in StatsType \cup {NULL}
               /\ openedfiles'[k].infile # NULL /\ openedfiles'[k].fstat # NULL =>
                    \/ data[openedfiles'[k].infile].kind = "output"
                    \/ data[openedfiles'[k].infile].file = openedfiles'[k].fstat
    BY <1>1, <2>1, <2>2 DEF StatsTried, StatsInv
  <2>5. CASE k = i /\ ok
    BY <2>1, <2>3, <2>5 DEF StatsTried, StatsInv, infile
  <2>6. CASE k # i \/ ~ok
    <3>1. /\ openedfiles'[k].infile = openedfiles[k].infile
          /\ openedfiles'[k].fstat = openedfiles[k].fstat
      BY <2>1, <2>6 DEF StatsTried
    <3> QED
      BY <3>1 DEF StatsInv
  <2> QED
    BY <2>5, <2>6
<1>7. CASE FinishFile
  <2>1. /\ DOMAIN openedfiles' = DOMAIN openedfiles
        /\ openedfiles'[i].infile = NULL
        /\ \A k \in DOMAIN openedfiles :
              /\ openedfiles'[k].fstat = openedfiles[k].fstat
              /\ k # i => openedfiles'[k] = openedfiles[k]
    BY <1>7, InfileClosed
  <2>2. \A k \in DOMAIN openedfiles : openedfiles'[k].fstat \in StatsType' \cup {NULL}
    BY <1>1, <2>1 DEF StatsInv
  <2> QED
    BY <1>3, <2>1, <2>2 DEF StatsInv
<1> QED
  BY <1>4, <1>5, <1>6, <1>7, NextOpened

\* The infiles that are bad are some of those opened so far.
LEMMA BadIsFinite ==
  ASSUME IInv
  PROVE  /\ IsFiniteSet(Bad)
         /\ Cardinality(Bad) \in 0..Len(argv)
<1>1. /\ Len(openedfiles) \in Nat /\ Len(argv) \in Nat
      /\ Len(openedfiles) <= Len(argv)
      /\ DOMAIN openedfiles = 1..Len(openedfiles)
  BY DEF IInv, OpenedInv, GivenInv
<1>2. Bad \subseteq 1..Len(argv)
  BY <1>1 DEF Bad
<1>3. IsFiniteSet(1..Len(argv)) /\ Cardinality(1..Len(argv)) = Len(argv)
  <2>1. CASE Len(argv) = 0
    BY <2>1, FS_EmptySet
  <2>2. CASE Len(argv) # 0
    <3> DEFINE n == Len(argv)
    <3>1. n \in Int /\ 1 \in Int /\ ~(1 > n) /\ n - 1 + 1 = n
      BY <1>1, <2>2
    <3> HIDE DEF n
    <3>2. IsFiniteSet(1..n) /\ Cardinality(1..n) = n
      BY <3>1, FS_Interval
    <3> QED
      BY <3>2 DEF n
  <2> QED
    BY <2>1, <2>2
<1>4. IsFiniteSet(Bad) /\ Cardinality(Bad) <= Cardinality(1..Len(argv))
  BY <1>2, <1>3, FS_Subset
<1>5. Cardinality(Bad) \in Nat
  BY <1>4, FS_CardinalityType
<1> QED
  BY <1>1, <1>3, <1>4, <1>5

LEMMA NextErrors ==
  ASSUME IInv, IInv', TypeOK, process = "running" => ErrorsInv, [Next]_vars
  PROVE  /\ nerrors_file' \in 0..Len(argv)
         /\ process' = "running" => ErrorsInv'
<1>1. nerrors_file \in 0..Len(argv)
  BY DEF TypeOK
<1>2. UNCHANGED argv
  BY NextGiven DEF given
<1>3. ASSUME process' = "running", ErrorsInv', pc' \in {"args", "stat"}
      PROVE  nerrors_file' \in 0..Len(argv)
  <2>1. (Cardinality(Bad) \in 0..Len(argv))'
    BY BadIsFinite, PTL
  <2> QED
    BY <1>2, <1>3, <2>1 DEF ErrorsInv
<1>4. CASE ProcessArg
  <2> DEFINE k0 == Len(openedfiles) + 1
  <2>1. PICK opened \in BOOLEAN : InfileTried(k0, opened)
    BY <1>4, InfileOpened
  <2>2. /\ process = "running" /\ process' = "running"
        /\ pc = "args" /\ pc' = "args" /\ UNCHANGED i
    BY <1>4 DEF ProcessArg, OpenInfile
  <2>3. i = 1 /\ k0 \in Nat \ {0}
    BY <2>2 DEF IInv, RunningInv, ChecksInv, OpenedInv
  <2> HIDE DEF k0
  <2>4. \A k \in DOMAIN openedfiles' : ~(k < 1)
    BY <2>1, <2>3 DEF InfileTried
  <2>5. Bad' = IF opened THEN Bad ELSE Bad \cup {k0}
    BY <2>1, <2>2, <2>3, <2>4 DEF Bad, InfileTried
  <2>6. k0 \notin Bad
    BY <2>1 DEF Bad, InfileTried
  <2>7. Cardinality(Bad \cup {k0}) = Cardinality(Bad) + 1
    BY <2>6, BadIsFinite, FS_AddElement
  <2>8. nerrors_file = Cardinality(Bad)
    BY <2>2 DEF ErrorsInv
  <2>9. ErrorsInv'
    <3>1. \A k \in DOMAIN openedfiles' : openedfiles'[k].fstat = NULL
      <4>1. \A k \in DOMAIN openedfiles : k >= i
        BY <2>3 DEF IInv, OpenedInv
      <4> QED
        BY <2>1, <2>2, <4>1 DEF InfileTried, ErrorsInv
    <3>2. nerrors_file' = Cardinality(Bad')
      <4>1. CASE opened
        BY <1>1, <2>1, <2>5, <2>8, <4>1 DEF InfileTried
      <4>2. CASE ~opened
        BY <1>1, <2>1, <2>5, <2>7, <2>8, <4>2 DEF InfileTried
      <4> QED
        BY <4>1, <4>2
    <3> QED
      BY <3>1, <3>2 DEF ErrorsInv
  <2> QED
    BY <1>3, <2>2, <2>9
<1>5. CASE GetStats
  <2>1. PICK ok \in BOOLEAN : StatsTried(ok)
    BY <1>5, StatsGot
  <2>2. /\ process = "running" /\ process' = "running"
        /\ pc = "stat" /\ pc' = "stat" /\ i' = i + 1
    BY <1>5 DEF GetStats
  <2>3. i \in Nat /\ DOMAIN openedfiles \subseteq Nat
    BY <2>2 DEF IInv, RunningInv, OpenedInv
  <2>4. \A k \in DOMAIN openedfiles : k < i' <=> k < i \/ k = i
    BY <2>2, <2>3
  <2>5. /\ nerrors_file = Cardinality(Bad)
        /\ \A k \in DOMAIN openedfiles : k >= i => openedfiles[k].fstat = NULL
    BY <2>2 DEF ErrorsInv
  <2>6. i \in DOMAIN openedfiles /\ openedfiles[i].fstat = NULL
    BY <2>1, <2>3, <2>5 DEF StatsTried
  <2>7. \A k \in DOMAIN openedfiles : k # i =>
          (k \in Bad' <=> k \in Bad)
    BY <2>1, <2>4 DEF Bad, StatsTried
  <2>8. /\ i \in Bad' <=> ~ok
        /\ i \in Bad <=> infile = NULL
    BY <2>1, <2>3, <2>4, <2>6 DEF Bad, StatsTried, infile
  <2>9. Bad \subseteq DOMAIN openedfiles /\ Bad' \subseteq DOMAIN openedfiles
    BY <2>1 DEF Bad, StatsTried
  <2>10. ok => infile # NULL
    BY <2>1 DEF StatsTried
  <2>11. Bad' = IF ok \/ infile = NULL THEN Bad ELSE Bad \cup {i}
    BY <2>6, <2>7, <2>8, <2>9, <2>10
  <2>12. infile # NULL => Cardinality(Bad \cup {i}) = Cardinality(Bad) + 1
    BY <2>8, BadIsFinite, FS_AddElement
  <2>13. nerrors_file' = Cardinality(Bad')
    <3>1. CASE ok \/ infile = NULL
      BY <1>1, <2>1, <2>5, <2>11, <3>1 DEF StatsTried
    <3>2. CASE ~(ok \/ infile = NULL)
      BY <1>1, <2>1, <2>5, <2>11, <2>12, <3>2 DEF StatsTried
    <3> QED
      BY <3>1, <3>2
  <2>14. \A k \in DOMAIN openedfiles' : k >= i' => openedfiles'[k].fstat = NULL
    <3>1. \A k \in DOMAIN openedfiles : k >= i' => k >= i /\ k # i
      BY <2>2, <2>3
    <3> QED
      BY <2>1, <2>5, <3>1 DEF StatsTried
  <2> QED
    BY <1>3, <2>2, <2>13, <2>14 DEF ErrorsInv
<1>6. CASE FinishFile
  <2>1. pc' = "setup" /\ UNCHANGED nerrors_file
    BY <1>6 DEF FinishFile, Goes
  <2> QED
    BY <1>1, <2>1 DEF ErrorsInv
<1>7. CASE UNCHANGED <<openedfiles, nerrors_file>>
  <2>1. nerrors_file' \in 0..Len(argv)
    BY <1>1, <1>7
  <2>2. ASSUME process' = "running", pc' \in {"args", "stat"}
        PROVE  /\ process = "running" /\ pc \in {"args", "stat"}
               /\ UNCHANGED i \/ GetStats
    <3>1. CASE \/ ExitIfErrors \/ Return \/ EarlyErrorExit \/ Signal
               \/ CodeRejects \/ EncErrorExit
               \/ RefuseSeektable \/ DecodeRejects \/ DecErrorExit
      BY <2>2, <3>1, ExitSteps
    <3>2. CASE \/ ProcessArg \/ ArgsDone \/ StartCoding
               \/ SetupSeektable \/ CheckSeektable \/ Note \/ Forget
               \/ Open \/ Reserve \/ ReserveHeader \/ Code \/ Decode
               \/ WriteHeaderAndSeektable \/ WriteHeader \/ CloseOutfile
               \/ FinishFile \/ UNCHANGED vars
      BY <2>2, <3>2 DEF ProcessArg, OpenInfile, ArgsDone, StartCoding,
         SetupSeektable, CheckSeektable, Note, Forget, Open,
         Reserve, ReserveHeader, Code, Decode, WriteHeaderAndSeektable,
         WriteHeader, CloseOutfile, FinishFile, vars, Goes
    <3>3. CASE GetStats
      BY <2>2, <3>3 DEF GetStats
    <3> QED
      BY <3>1, <3>2, <3>3
         DEF Next, ModeStep, EncodeStep, DecodeStep, Terminated
  <2>3. CASE GetStats
    BY <1>5, <2>3
  <2>4. CASE ~GetStats
    BY <1>7, <2>1, <2>2, <2>4 DEF ErrorsInv, Bad
  <2> QED
    BY <2>3, <2>4
<1> QED
  BY <1>4, <1>5, <1>6, <1>7, NextOpened

LEMMA TableType ==
  ASSUME NEW n \in Nat
  PROVE  /\ seektable_init(n) \in SeekTable
         /\ seektable_init(n).nmemb = 0
         /\ seektable_init(n).off = 0
         /\ seektable_init(n).limit = IF n # 0 THEN n ELSE SEEKTABLE_INIT_DEFAULT
         /\ seektable_init(n).limit >= n
BY SeektableAssumption DEF seektable_init, SeekTable

\* The stats of the infile at hand.
LEMMA StatsOfInfile ==
  ASSUME IInv, TypeInv, process = "running", pc \in CodingPcs, i \in DOMAIN argv
  PROVE  /\ fstat \in StatsType
         /\ infile \in DOMAIN data
         /\ data[infile].kind = "output" \/ data[infile].file = fstat
<1>1. i \in DOMAIN openedfiles /\ fstat # NULL
  BY Coding DEF fstat
<1>2. infile # NULL
  <2>1. i >= i
    BY Coding
  <2> QED
    BY <2>1 DEF TypeInv, StreamsInv, infile
<1> QED
  BY <1>1, <1>2 DEF TypeInv, StatsInv, infile, fstat

\* What is read is as long as the stats of the infile say, or shorter.
LEMMA PCMReadIs ==
  ASSUME IInv, TypeInv, process = "running", pc = "code", mode = "encode",
         NEW pcm \in PCMRead
  PROVE  /\ fstat \in File
         /\ pcm.file \in File
         /\ pcm.file.decpcm_size = fstat.decpcm_size
<1>1. i \in DOMAIN argv /\ pc \in CodingPcs
  BY Writing DEF CodingPcs
<1>2. /\ fstat \in File
      /\ data[infile].kind = "output" \/ data[infile].file = fstat
  BY <1>1, StatsOfInfile DEF StatsType
<1>3. CASE data[infile].kind = "pcm"
  BY <1>2, <1>3 DEF PCMRead
<1>4. CASE data[infile].kind # "pcm"
  <2>1. PICK a \in 0..fstat.decpcm_size : pcm.file = [fstat EXCEPT !.avail = a]
    BY <1>4 DEF PCMRead
  <2>2. fstat.decpcm_size \in Nat /\ a \in Nat
    BY <1>2 DEF File
  <2> QED
    BY <1>2, <2>1, <2>2 DEF File
<1> QED
  BY <1>3, <1>4

\* The loop fills the table that was made for the infile, and never makes it
\* larger.
LEMMA TableFilled ==
  ASSUME IInv, TypeInv, process = "running", pc = "code", mode = "encode",
         NEW pcm \in PCMRead
  PROVE  AfterFrames(seektable, NFrames(pcm.file))
           = [seektable EXCEPT !.nmemb = NFrames(pcm.file)]
<1> DEFINE n == NFrames(pcm.file)
<1>1. /\ fstat \in File /\ pcm.file \in File
      /\ pcm.file.decpcm_size = fstat.decpcm_size
  BY PCMReadIs
<1>2. n \in Nat /\ Reserved(fstat) \in Nat /\ n <= Reserved(fstat)
  BY <1>1, FramesFitTable DEF Reserved
<1>3. seektable = seektable_init(Reserved(fstat))
  BY DEF TypeInv, StreamsInv, CodingPcs, Reserved
<1> HIDE DEF n
<1>4. /\ seektable \in SeekTable /\ seektable.nmemb = 0
      /\ seektable.limit >= Reserved(fstat) /\ seektable.limit \in Nat
  BY <1>2, <1>3, TableType DEF SeekTable
<1>5. seektable.nmemb + n <= seektable.limit /\ seektable.nmemb + n = n
  BY <1>2, <1>4
<1>6. AfterFrames(seektable, n) = [seektable EXCEPT !.nmemb = n]
  BY <1>2, <1>4, <1>5, AfterFramesIs
<1> QED
  BY <1>6 DEF n

LEMMA NextTable ==
  ASSUME IInv, TypeInv, [Next]_vars
  PROVE  seektable' \in SeekTable
<1>1. seektable \in SeekTable
  BY DEF TypeInv, TypeOK
<1>2. CASE UNCHANGED seektable
  BY <1>1, <1>2
<1>3. CASE mode = "encode" /\ SetupSeektable
  <2>1. /\ process = "running" /\ pc = "setup" /\ i <= Len(argv)
        /\ seektable' = seektable_init(Reserved(fstat))
    BY <1>3 DEF SetupSeektable, Goes, Reserved
  <2>2. i \in DOMAIN argv /\ pc \in CodingPcs
    BY <2>1, Coding DEF CodingPcs
  <2>3. fstat \in File
    BY <1>3, <2>1, <2>2, StatsOfInfile DEF StatsType
  <2> QED
    BY <2>1, <2>3, FramesFitTable, TableType
<1>4. CASE mode = "encode" /\ Code
  <2>1. /\ process = "running" /\ pc = "code"
        /\ \E pcm \in PCMRead :
             seektable' = AfterFrames(seektable, NFrames(pcm.file))
    BY <1>4 DEF Code, Goes
  <2>2. PICK pcm \in PCMRead :
          seektable' = [seektable EXCEPT !.nmemb = NFrames(pcm.file)]
    BY <1>4, <2>1, TableFilled
  <2>3. NFrames(pcm.file) \in Nat
    BY <1>4, <2>1, PCMReadIs, FramesFitTable
  <2> QED
    BY <1>1, <2>2, <2>3 DEF SeekTable
<1>5. CASE WriteHeaderAndSeektable
  BY <1>1, <1>5, SeektableAssumption DEF WriteHeaderAndSeektable, SeekTable
<1>6. \/ UNCHANGED seektable
      \/ mode = "encode" /\ (SetupSeektable \/ Code \/ WriteHeaderAndSeektable)
  <2>1. CASE \/ ExitIfErrors \/ Return \/ EarlyErrorExit \/ Signal
             \/ CodeRejects \/ EncErrorExit
             \/ RefuseSeektable \/ DecodeRejects \/ DecErrorExit
    BY <2>1 DEF ExitIfErrors, Return, EarlyErrorExit, Signal, CodeRejects,
         EncErrorExit, RefuseSeektable, DecodeRejects, DecErrorExit, local
  <2>2. CASE \/ ProcessArg \/ ArgsDone \/ GetStats \/ StartCoding
             \/ CheckSeektable \/ Note \/ Forget \/ Open
             \/ Reserve \/ ReserveHeader \/ Decode
             \/ WriteHeader \/ CloseOutfile \/ FinishFile \/ UNCHANGED vars
    BY <2>2 DEF ProcessArg, ArgsDone, GetStats, StartCoding,
         CheckSeektable, Note, Forget, Open, Reserve, ReserveHeader, Decode,
         WriteHeader, CloseOutfile, FinishFile, vars, local
  <2> QED
    BY <2>1, <2>2 DEF Next, ModeStep, EncodeStep, DecodeStep, Terminated
<1> QED
  BY <1>2, <1>3, <1>4, <1>5, <1>6

LEMMA NextStreams ==
  ASSUME IInv, TypeInv, [Next]_vars, process' = "running"
  PROVE  StreamsInv'
<1> SUFFICES ASSUME pc' \in CodingPcs PROVE StreamsInv'
  BY DEF StreamsInv
<1>1. UNCHANGED <<mode, argv>>
  BY NextGiven DEF given
<1>2. CASE StartCoding
  <2>1. /\ process = "running" /\ pc = "stat" /\ nerrors_file = 0
        /\ pc' = "setup" /\ UNCHANGED openedfiles
    BY <1>2 DEF StartCoding, StatsDone, Errors
  <2>2. \A k \in DOMAIN argv : openedfiles[k].infile # NULL
    BY <2>1 DEF IInv, RunningInv, ChecksInv, OpenedInv, GivenInv
  <2> QED
    BY <1>1, <2>1, <2>2 DEF StreamsInv
<1>3. CASE FinishFile
  <2>1. /\ process = "running" /\ pc = "next" /\ pc' = "setup" /\ i' = i + 1
    BY <1>3 DEF FinishFile, Goes
  <2>2. /\ \A k \in DOMAIN argv : k >= i => openedfiles[k].infile # NULL
        /\ DOMAIN openedfiles = DOMAIN argv
        /\ i \in Nat /\ DOMAIN argv \subseteq Nat
    BY <2>1, Coding DEF TypeInv, StreamsInv, CodingPcs
  <2>3. \A k \in DOMAIN argv : k >= i + 1 => k >= i /\ k # i
    BY <2>2
  <2>4. \A k \in DOMAIN argv : k # i => openedfiles'[k] = openedfiles[k]
    BY <1>3, <2>2, InfileClosed
  <2> QED
    BY <1>1, <2>1, <2>2, <2>3, <2>4 DEF StreamsInv
<1>4. CASE SetupSeektable
  BY <1>1, <1>4 DEF SetupSeektable, Goes, TypeInv, StreamsInv, CodingPcs, fstat
<1>5. CASE /\ process = "running" /\ pc \in CodingPcs
           /\ UNCHANGED <<openedfiles, i>>
           /\ pc' \in {"open", "note", "reserve", "code"} /\ mode = "encode" =>
                /\ pc \in {"open", "note", "reserve", "code"}
                /\ UNCHANGED seektable
  BY <1>1, <1>5 DEF TypeInv, StreamsInv, fstat
<1>6. CASE /\ mode = "encode"
           /\ \/ Open \/ Note \/ Reserve \/ Code \/ WriteHeaderAndSeektable
              \/ CloseOutfile \/ Forget
  BY <1>5, <1>6 DEF Open, OpenOutfile, Note, Reserve, Code,
       WriteHeaderAndSeektable, CloseOutfile, Forget, Goes, CodingPcs, local
<1>7. CASE /\ mode = "decode"
           /\ \/ CheckSeektable \/ Open \/ Note \/ ReserveHeader \/ Decode
              \/ WriteHeader \/ CloseOutfile \/ Forget
  BY <1>5, <1>7 DEF CheckSeektable, Open, OpenOutfile, Note, ReserveHeader,
       Decode, WriteHeader, CloseOutfile, Forget, Goes, CodingPcs, local
<1>8. CASE UNCHANGED vars
  BY <1>5, <1>8 DEF vars
<1>9. CASE ProcessArg \/ ArgsDone \/ GetStats
  BY <1>9 DEF ProcessArg, OpenInfile, ArgsDone, GetStats, Goes, CodingPcs
<1>10. CASE \/ ExitIfErrors \/ Return \/ EarlyErrorExit \/ Signal
            \/ CodeRejects \/ EncErrorExit
            \/ RefuseSeektable \/ DecodeRejects \/ DecErrorExit
  BY <1>10, ExitSteps
<1>11. mode \in {"encode", "decode"}
  BY DEF IInv, GivenInv
<1> QED
  BY <1>2, <1>3, <1>4, <1>6, <1>7, <1>8, <1>9, <1>10, <1>11
     DEF Next, ModeStep, EncodeStep, DecodeStep, Terminated

LEMMA NextTypeInv == IInv /\ IInv' /\ TypeInv /\ [Next]_vars => TypeInv'
<1> SUFFICES ASSUME IInv, IInv', TypeInv, [Next]_vars PROVE TypeInv'
  OBVIOUS
<1>1. TypeOK /\ StatsInv /\ (process = "running" => ErrorsInv)
  BY DEF TypeInv
<1>2. UNCHANGED <<mode, g_flag, argv>> /\ \A k : OutName(k)' = OutName(k)
  BY NextGiven, GivenSame DEF given
<1>3. StatsInv'
  BY <1>1, NextStats
<1>4. /\ nerrors_file' \in 0..Len(argv)
      /\ process' = "running" => ErrorsInv'
  BY <1>1, NextErrors
<1>5. process' = "running" => StreamsInv'
  BY NextStreams
<1>6. TypeOK'
  <2>1. \A n \in DOMAIN entry' : n \in Path /\ entry'[n] \in DOMAIN data'
    BY DEF IInv, DiskInv
  <2>2. \A f \in DOMAIN data' : data'[f].kind \in {"pcm", "tta", "output"}
    BY ContentKinds DEF IInv, DiskInv
  <2>3. \A k \in DOMAIN openedfiles' :
          /\ openedfiles'[k].infile_name = argv'[k]
          /\ openedfiles'[k].fstat \in File \cup TTAFile \cup {NULL}
    <3> SUFFICES ASSUME NEW k \in DOMAIN openedfiles'
                 PROVE  /\ openedfiles'[k].infile_name = argv'[k]
                        /\ openedfiles'[k].fstat \in File \cup TTAFile \cup {NULL}
      OBVIOUS
    <3>1. openedfiles' \in Seq(OpenedFile)
      BY DEF IInv, OpenedInv
    <3>2. openedfiles'[k] \in OpenedFile
      BY <3>1
    <3>3. openedfiles'[k].fstat \in File \cup TTAFile \cup {NULL}
      BY <3>2 DEF OpenedFile
    <3>4. openedfiles'[k].infile_name = argv'[k]
      BY DEF IInv, OpenedInv
    <3> QED
      BY <3>3, <3>4
  <2>4. \A k \in DOMAIN openedfiles' :
          openedfiles'[k].infile \in DOMAIN data' \cup {NULL}
    BY <1>3 DEF StatsInv
  <2>5. g_nwarnings' \in 0..UINT8_MAX
    BY <1>1, NextWarns, WarningsType
  <2>6. /\ process' \in {"running", "returned", "exited", "killed"}
        /\ rm_failed' \in BOOLEAN
        /\ pc' \in {"args", "stat", "setup", "open", "note", "reserve",
                    "code", "header", "close", "forget", "next"}
        /\ i' \in 1..Len(argv) + 1
        /\ ignore_seektable' \in BOOLEAN
    BY <1>1, NextPlace
  <2>7. /\ outfile' \in DOMAIN data' \cup {NULL}
        /\ g_rm_on_sigint' \in {NULL} \cup {OutName(k) : k \in DOMAIN argv}
    BY <1>1, NextStream
  <2>8. {OutName(k) : k \in DOMAIN argv}' = {OutName(k) : k \in DOMAIN argv}
    BY <1>2
  <2>9. seektable' \in SeekTable
    BY NextTable
  <2> QED
    BY <1>2, <1>4, <2>1, <2>2, <2>3, <2>4, <2>5, <2>6, <2>7, <2>8, <2>9
       DEF TypeOK
<1> QED
  BY <1>3, <1>4, <1>5, <1>6 DEF TypeInv

-----------------------------------------------------------------------------
(* A run without a warning                                                 *)

\* What is not about the outfile at hand.
LEMMA SameSources ==
  ASSUME UNCHANGED <<given, openedfiles>>
  PROVE  NoneEndsInSample' = NoneEndsInSample
<1>1. UNCHANGED <<mode, argv>>
  BY DEF given
<1>2. \A k : EndsInSample(k)' = EndsInSample(k)
  BY <1>1 DEF EndsInSample
<1> QED
  BY <1>1, <1>2 DEF NoneEndsInSample

\* The steps that do not change the disk.
LEMMA BetweenClean ==
  ASSUME IInv, UNCHANGED <<given, disk, openedfiles, i>>
  PROVE  /\ UNCHANGED <<mode, g_flag, argv, entry, data, NoneEndsInSample>>
         /\ \A k : Done(k) => Done(k)'
         /\ Done(i) => Done(i)'
         /\ \A k : Finished(k) => Finished(k)'
         /\ FramesFollowTable => FramesFollowTable'
<1>1. /\ UNCHANGED <<mode, g_flag, argv, entry, data>>
      /\ \A k : /\ OutName(k)' = OutName(k)
                /\ SourceKept(k) => SourceKept(k)'
                /\ Coded(k) => Coded(k)'
  BY SameDisk DEF IInv, GivenInv
<1>2. \A k : Done(k) => Done(k)'
  BY <1>1 DEF Done
<1>3. \A k : Finished(k) => Finished(k)'
  BY <1>1, <1>2 DEF Finished
<1>4. FramesFollowTable => FramesFollowTable'
  BY <1>1 DEF FramesFollowTable
<1>5. i' = i
  OBVIOUS
<1> QED
  BY <1>1, <1>2, <1>3, <1>4, <1>5, SameSources

LEMMA NoteClean ==
  ASSUME IInv, CleanRun, Note \/ Forget
  PROVE  CleanRun'
<1>1. /\ UNCHANGED <<given, disk, openedfiles, i, local>>
      /\ \/ pc = "note" /\ pc' = "reserve"
         \/ pc = "forget" /\ pc' = "next"
  BY DEF Note, Forget, Goes
<1>2. /\ UNCHANGED <<mode, g_flag, argv, entry, data, NoneEndsInSample>>
      /\ \A k : Finished(k) => Finished(k)'
      /\ Done(i) => Done(i)'
      /\ FramesFollowTable => FramesFollowTable'
  BY <1>1, BetweenClean
<1>3. FinishedInv'
  BY <1>1, <1>2 DEF CleanRun, FinishedInv, local
<1>4. NoneEndsInSample' => LayoutInv'
  BY <1>1, <1>2 DEF CleanRun, LayoutInv
<1> QED
  BY <1>3, <1>4 DEF CleanRun

LEMMA SetupClean ==
  ASSUME IInv, TypeInv, CleanRun, g_nwarnings' = 0,
         \/ mode = "encode" /\ SetupSeektable
         \/ mode = "decode" /\ CheckSeektable
  PROVE  CleanRun'
<1>1. /\ UNCHANGED <<given, disk, openedfiles, i>>
      /\ pc = "setup" /\ pc' = "open"
  BY DEF SetupSeektable, CheckSeektable, Goes
<1>2. /\ UNCHANGED <<mode, g_flag, argv, entry, data, NoneEndsInSample>>
      /\ \A k : Finished(k) => Finished(k)'
      /\ FramesFollowTable => FramesFollowTable'
  BY <1>1, BetweenClean
<1>3. mode = "decode" => ignore_seektable' = FALSE
  <2> SUFFICES ASSUME mode = "decode" PROVE ignore_seektable' = FALSE
    OBVIOUS
  <2>1. PICK tta \in TTARead :
          /\ ignore_seektable' = (tta.file.table = "corrupted")
          /\ Warned(tta.file.table = "corrupted")
    BY DEF CheckSeektable
  <2> DEFINE w == tta.file.table = "corrupted"
  <2>2. Warned(w) /\ ignore_seektable' = w /\ w \in BOOLEAN
    BY <2>1
  <2> HIDE DEF w
  <2>3. ~w
    BY <2>2, WarnedCleanly DEF TypeInv
  <2> QED
    BY <2>2, <2>3
<1>4. FinishedInv'
  BY <1>1, <1>2, <1>3 DEF CleanRun, FinishedInv
<1>5. NoneEndsInSample' => LayoutInv'
  BY <1>1, <1>2 DEF CleanRun, LayoutInv
<1> QED
  BY <1>4, <1>5 DEF CleanRun

\* What a write to the outfile at hand leaves alone.
LEMMA WriteClean ==
  ASSUME IInv, process = "running", ~Clash, FinishedInv,
         pc \in {"reserve", "code", "header", "close"},
         UNCHANGED <<given, entry, openedfiles, i>>,
         NEW d, IsOutput(d), data' = [data EXCEPT ![outfile] = d]
  PROVE  /\ UNCHANGED <<mode, g_flag, argv, NoneEndsInSample>>
         /\ \A k \in DOMAIN argv : k < i => Finished(k)'
         /\ data'[outfile] = d
         /\ OutName(i)' = OutName(i)
         /\ OutName(i) \in DOMAIN entry
         /\ entry[OutName(i)] = outfile
         /\ FramesFollowTable /\ (d.closed = "ok" => d.table = d.start) =>
              FramesFollowTable'
<1>1. /\ i \in DOMAIN argv
      /\ OutName(i) \in DOMAIN entry
      /\ entry[OutName(i)] = outfile
      /\ data[outfile].kind = "output"
  BY DEF IInv, RunningInv, OutfileInv, OpenPcs
<1>2. /\ UNCHANGED <<mode, g_flag, argv, NoneEndsInSample, SourceKind>>
      /\ \A k : OutName(k)' = OutName(k)
  BY GivenSame, SameSources
<1>3. /\ DOMAIN data' = DOMAIN data
      /\ data'[outfile] = d
      /\ d.kind = "output"
      /\ \A g \in DOMAIN data \ {outfile} : data'[g] = data[g]
  <2>1. outfile \in DOMAIN data
    BY <1>1 DEF IInv, DiskInv
  <2>2. DiskInv /\ entry' = entry
    BY DEF IInv
  <2> QED
    BY <1>1, <2>1, <2>2, DiskWritten
<1>4. \A n \in DOMAIN entry : n # OutName(i) =>
        entry[n] \in DOMAIN data /\ data'[entry[n]] = data[entry[n]]
  BY <1>1, <1>3 DEF IInv, DiskInv
<1>5. \A k \in DOMAIN argv : k < i => k # i
  BY Coding DEF CodingPcs
<1>6. \A k \in DOMAIN argv : /\ k < i => OutName(k) # OutName(i)
                             /\ argv[k] # OutName(i)
  BY <1>1, <1>5 DEF Clash
<1>7. \A k \in DOMAIN argv : k < i /\ Done(k) => Done(k)'
  BY <1>2, <1>4, <1>6 DEF Done, Coded
<1>8. \A k \in DOMAIN argv : SourceKept(k) => SourceKept(k)'
  BY <1>2, <1>4, <1>6 DEF SourceKept
<1>9. \A k \in DOMAIN argv : k < i => Finished(k)'
  BY <1>2, <1>7, <1>8 DEF FinishedInv, Finished
<1>10. FramesFollowTable /\ (d.closed = "ok" => d.table = d.start) =>
         FramesFollowTable'
  BY <1>3 DEF FramesFollowTable
<1>11. OutName(i)' = OutName(i)
  BY <1>2 DEF OutName, get_outfile_name
<1> QED
  BY <1>1, <1>2, <1>3, <1>9, <1>10, <1>11

LEMMA ReserveClean ==
  ASSUME IInv, ~Clash, CleanRun,
         \/ mode = "encode" /\ Reserve
         \/ mode = "decode" /\ ReserveHeader
  PROVE  CleanRun'
<1>1. /\ process = "running" /\ pc = "reserve" /\ pc' = "code"
      /\ UNCHANGED <<given, entry, openedfiles, outfile, i, local>>
  BY DEF Reserve, ReserveHeader, Goes
<1> DEFINE x == IF mode = "encode" THEN ReservedSize(seektable)
                ELSE DecHeaderSize[g_flag.decfmt]
           d == [data[outfile] EXCEPT !.start = x]
<1>2. data' = [data EXCEPT ![outfile] = d]
  BY DEF Reserve, ReserveHeader
<1> HIDE DEF x
<1>3. IsOutput(d) /\ d.start = x /\ d.closed = "no"
  BY <1>1, Writing DEF IsOutput
<1> HIDE DEF d
<1>4. /\ UNCHANGED <<mode, g_flag, argv, NoneEndsInSample>>
      /\ \A k \in DOMAIN argv : k < i => Finished(k)'
      /\ data'[outfile] = d
      /\ FramesFollowTable => FramesFollowTable'
  BY <1>1, <1>2, <1>3, WriteClean DEF CleanRun
<1>5. FinishedInv'
  BY <1>1, <1>4 DEF CleanRun, FinishedInv, local
<1>6. NoneEndsInSample' => LayoutInv'
  <2>1. ReservedSize(seektable)' = ReservedSize(seektable)
    BY <1>1 DEF local, ReservedSize
  <2> QED
    BY <1>1, <1>3, <1>4, <2>1 DEF CleanRun, LayoutInv, x
<1> QED
  BY <1>5, <1>6 DEF CleanRun

LEMMA HeaderClean ==
  ASSUME IInv, TypeInv, ~Clash, CleanRun,
         \/ mode = "encode" /\ WriteHeaderAndSeektable
         \/ mode = "decode" /\ WriteHeader
  PROVE  CleanRun'
<1>1. /\ process = "running" /\ pc = "header" /\ pc' = "close"
      /\ UNCHANGED <<given, entry, openedfiles, outfile, i>>
  BY DEF WriteHeaderAndSeektable, WriteHeader, Goes
<1> DEFINE x == IF mode = "encode" THEN HeaderSize + TableSize(seektable.nmemb)
                ELSE DecHeaderSize[g_flag.decfmt]
           d == [data[outfile] EXCEPT !.header = TRUE, !.table = x]
<1>2. data' = [data EXCEPT ![outfile] = d]
  <2>1. CASE mode = "encode"
    <3>1. seektable' = [seektable EXCEPT !.off = HeaderSize]
      BY <2>1 DEF WriteHeaderAndSeektable, WriteHeader
    <3>2. seektable'.off = HeaderSize /\ seektable'.nmemb = seektable.nmemb
      BY <3>1 DEF TypeInv, TypeOK, SeekTable
    <3>3. TableEnd(seektable') = x
      BY <2>1, <3>2 DEF TableEnd
    <3> QED
      BY <2>1, <3>3 DEF WriteHeaderAndSeektable, WriteHeader
  <2>2. CASE mode = "decode"
    BY <2>2 DEF WriteHeaderAndSeektable, WriteHeader
  <2> QED
    BY <2>1, <2>2
<1> HIDE DEF x
<1>3. /\ IsOutput(d) /\ d.table = x /\ d.closed = "no"
      /\ d.whole = data[outfile].whole /\ d.start = data[outfile].start
  BY <1>1, Writing DEF IsOutput
<1> HIDE DEF d
<1>4. /\ UNCHANGED <<mode, g_flag, argv, NoneEndsInSample>>
      /\ \A k \in DOMAIN argv : k < i => Finished(k)'
      /\ data'[outfile] = d
      /\ FramesFollowTable => FramesFollowTable'
  BY <1>1, <1>2, <1>3, WriteClean DEF CleanRun
<1>5. FinishedInv'
  BY <1>1, <1>3, <1>4 DEF CleanRun, FinishedInv
<1>6. NoneEndsInSample' => LayoutInv'
  BY <1>1, <1>3, <1>4 DEF CleanRun, LayoutInv, x
<1> QED
  BY <1>5, <1>6 DEF CleanRun

LEMMA CloseClean ==
  ASSUME IInv, TypeInv, ~Clash, CleanRun, CloseOutfile, g_nwarnings' = 0
  PROVE  CleanRun'
<1>1. /\ process = "running" /\ pc = "close" /\ pc' = "forget"
      /\ UNCHANGED <<given, entry, openedfiles, i>>
  BY DEF CloseOutfile, Goes
<1>2. PICK c \in {"ok", "failed"} :
        /\ data' = [data EXCEPT ![outfile].closed = c]
        /\ Warned(c = "failed")
  BY DEF CloseOutfile
<1>3. c = "ok"
  <2> DEFINE w == c = "failed"
  <2>1. Warned(w)
    BY <1>2
  <2> HIDE DEF w
  <2>2. ~w
    BY <2>1, WarnedCleanly DEF TypeInv
  <2> QED
    BY <2>2 DEF w
<1> DEFINE d == [data[outfile] EXCEPT !.closed = "ok"]
<1>4. data' = [data EXCEPT ![outfile] = d]
  BY <1>2, <1>3
<1>5. /\ IsOutput(d) /\ d.closed = "ok" /\ d.kind = "output"
      /\ d.of = data[outfile].of /\ d.header = data[outfile].header
      /\ d.whole = data[outfile].whole
      /\ d.table = data[outfile].table /\ d.start = data[outfile].start
  BY <1>1, Writing DEF IsOutput
<1> HIDE DEF d
<1>6. /\ UNCHANGED <<mode, g_flag, argv, NoneEndsInSample>>
      /\ \A k \in DOMAIN argv : k < i => Finished(k)'
      /\ data'[outfile] = d
      /\ OutName(i)' = OutName(i)
      /\ OutName(i) \in DOMAIN entry
      /\ entry[OutName(i)] = outfile
      /\ FramesFollowTable /\ d.table = d.start => FramesFollowTable'
  BY <1>1, <1>4, <1>5, WriteClean DEF CleanRun
<1>7. d.of = argv[i] /\ d.header
  BY <1>1, <1>5, Coding DEF CodingPcs, ProgressInv
<1>8. Done(i)'
  BY <1>1, <1>5, <1>6, <1>7 DEF CleanRun, FinishedInv, Done, Coded
<1>9. FinishedInv'
  BY <1>1, <1>6, <1>8 DEF FinishedInv
<1>10. NoneEndsInSample' => LayoutInv'
  BY <1>1, <1>5, <1>6 DEF CleanRun, LayoutInv
<1> QED
  BY <1>9, <1>10 DEF CleanRun

\* What decode reads is the infile that was checked.
LEMMA DecodeClean ==
  ASSUME IInv, TypeInv, ~Clash, CleanRun, mode = "decode", Decode,
         g_nwarnings' = 0
  PROVE  CleanRun'
<1>1. /\ process = "running" /\ pc = "code" /\ pc' = "header"
      /\ UNCHANGED <<given, entry, openedfiles, outfile, i, local>>
  BY DEF Decode, Goes
<1>2. PICK tta, y :
        /\ data' = [data EXCEPT ![outfile].of = tta.of,
                                ![outfile].whole = ~y.bad /\ ~y.missing]
        /\ Warned(y.bad \/ (~ignore_seektable /\ y.missing))
  BY DEF Decode
<1>3. ~y.bad /\ ~y.missing
  <2> DEFINE w == y.bad \/ (~ignore_seektable /\ y.missing)
  <2>1. Warned(w)
    BY <1>2
  <2> HIDE DEF w
  <2>2. ~w
    BY <2>1, WarnedCleanly DEF TypeInv
  <2>3. ~ignore_seektable
    BY <1>1 DEF CleanRun, FinishedInv
  <2> QED
    BY <2>2, <2>3 DEF w
<1> DEFINE d == [data[outfile] EXCEPT !.of = tta.of, !.whole = TRUE]
<1>4. data' = [data EXCEPT ![outfile] = d]
  BY <1>2, <1>3
<1>5. /\ IsOutput(d) /\ d.closed = "no" /\ d.whole
      /\ d.start = data[outfile].start
  BY <1>1, Writing DEF IsOutput
<1> HIDE DEF d
<1>6. /\ UNCHANGED <<mode, g_flag, argv, NoneEndsInSample>>
      /\ \A k \in DOMAIN argv : k < i => Finished(k)'
      /\ data'[outfile] = d
      /\ FramesFollowTable => FramesFollowTable'
  BY <1>1, <1>4, <1>5, WriteClean DEF CleanRun
<1>7. FinishedInv'
  BY <1>1, <1>5, <1>6 DEF FinishedInv
<1>8. NoneEndsInSample' => LayoutInv'
  BY <1>1, <1>5, <1>6 DEF CleanRun, LayoutInv
<1> QED
  BY <1>7, <1>8 DEF CleanRun

\* The frames that encode writes without a warning fill the table.
LEMMA CodeClean ==
  ASSUME IInv, TypeInv, ~Clash, CleanRun, mode = "encode", Code,
         g_nwarnings' = 0
  PROVE  CleanRun'
<1>1. /\ process = "running" /\ pc = "code" /\ pc' = "header"
      /\ UNCHANGED <<given, entry, openedfiles, outfile, i, ignore_seektable>>
  BY DEF Code, Goes
<1>2. PICK pcm \in PCMRead :
        /\ seektable' = AfterFrames(seektable, NFrames(pcm.file))
        /\ data' = [data EXCEPT ![outfile].of = pcm.of,
                                ![outfile].whole = ~WarnsOf(pcm.file)]
        /\ Warned(WarnsOf(pcm.file))
  BY DEF Code
<1>3. ~WarnsOf(pcm.file)
  <2> DEFINE w == WarnsOf(pcm.file)
  <2>1. Warned(w)
    BY <1>2
  <2> HIDE DEF w
  <2>2. ~w
    BY <2>1, WarnedCleanly DEF TypeInv
  <2> QED
    BY <2>2 DEF w
<1> DEFINE d == [data[outfile] EXCEPT !.of = pcm.of, !.whole = TRUE]
<1>4. data' = [data EXCEPT ![outfile] = d]
  BY <1>2, <1>3
<1>5. /\ IsOutput(d) /\ d.closed = "no" /\ d.whole
      /\ d.start = data[outfile].start
  BY <1>1, Writing DEF IsOutput
<1> HIDE DEF d
<1>6. /\ UNCHANGED <<mode, g_flag, argv, NoneEndsInSample>>
      /\ \A k \in DOMAIN argv : k < i => Finished(k)'
      /\ data'[outfile] = d
      /\ FramesFollowTable => FramesFollowTable'
  BY <1>1, <1>4, <1>5, WriteClean DEF CleanRun
<1>7. FinishedInv'
  BY <1>1, <1>5, <1>6 DEF FinishedInv
<1>8. ASSUME NoneEndsInSample
      PROVE  ReservedSize(seektable) = HeaderSize + TableSize(seektable'.nmemb)
  <2> DEFINE n == NFrames(pcm.file)
  <2>1. /\ fstat \in File /\ pcm.file \in File
        /\ pcm.file.decpcm_size = fstat.decpcm_size
    BY <1>1, PCMReadIs
  <2>2. ~EndsInSample(i)
    BY <1>1, <1>8, Writing DEF NoneEndsInSample
  <2>3. n = Reserved(pcm.file) /\ n # 0
    <3> DEFINE s == pcm.file.decpcm_size
    <3>1. ~(s = 0 \/ s % SampleBytes # 0) \/ (s \div SampleBytes) % FullFrame # 0
      BY <2>1, <2>2 DEF EndsInSample, fstat
    <3> QED
      BY <1>3, <2>1, <3>1, FramesFillTable
  <2>4. n \in Nat /\ n = Reserved(fstat)
    BY <2>1, <2>3, FramesFitTable DEF Reserved
  <2>5. seektable = seektable_init(Reserved(fstat))
    BY <1>1 DEF TypeInv, StreamsInv, CodingPcs, Reserved
  <2>6. seektable' = [seektable EXCEPT !.nmemb = n]
    BY <1>1, <1>2, TableFilled
  <2> HIDE DEF n
  <2>7. seektable \in SeekTable /\ seektable.limit = n
    BY <2>3, <2>4, <2>5, TableType
  <2>8. seektable'.nmemb = n
    BY <2>6, <2>7 DEF SeekTable
  <2> QED
    BY <2>7, <2>8 DEF ReservedSize
<1>9. NoneEndsInSample' => LayoutInv'
  BY <1>1, <1>5, <1>6, <1>8 DEF CleanRun, LayoutInv
<1> QED
  BY <1>7, <1>9 DEF CleanRun

LEMMA OpenClean ==
  ASSUME IInv, ~Clash, CleanRun, Open
  PROVE  CleanRun'
<1>1. /\ process = "running" /\ pc = "open" /\ pc' = "note"
      /\ Truncate(OutName(i))
      /\ UNCHANGED <<given, openedfiles, i, local>>
  BY DEF Open, Goes, OpenOutfile, outfile_name
<1>2. i \in DOMAIN argv
  BY <1>1 DEF CodingPcs, IInv, RunningInv, CodingInv
<1>3. OutName(i) \in Path
  BY <1>2, OutNamePath DEF IInv
<1>4. /\ data'[outfile'] = Empty
      /\ DOMAIN entry' \subseteq DOMAIN entry \cup {OutName(i)}
      /\ \A g \in DOMAIN data' \ {outfile'} :
           g \in DOMAIN data /\ data'[g] = data[g]
      /\ \A n \in DOMAIN entry : n \in DOMAIN entry' /\ entry'[n] = entry[n]
      /\ \A n \in DOMAIN entry : n # OutName(i) =>
           data'[entry[n]] = data[entry[n]]
  <2>1. /\ data'[outfile'] = Empty
        /\ DOMAIN data \subseteq DOMAIN data'
        /\ \A g \in DOMAIN data' \ {outfile'} :
             g \in DOMAIN data /\ data'[g] = data[g]
        /\ \A n \in DOMAIN entry : n \in DOMAIN entry' /\ entry'[n] = entry[n]
        /\ \A n \in DOMAIN entry : entry[n] = outfile' => n = OutName(i)
    BY <1>1, <1>3, DiskTruncated DEF IInv
  <2>2. \A n \in DOMAIN entry : entry[n] \in DOMAIN data
    BY DEF IInv, DiskInv
  <2>3. DOMAIN entry' \subseteq DOMAIN entry \cup {OutName(i)}
    BY <1>1 DEF Truncate
  <2> QED
    BY <2>1, <2>2, <2>3
<1>5. /\ UNCHANGED <<mode, g_flag, argv, NoneEndsInSample, SourceKind>>
      /\ \A k : OutName(k)' = OutName(k)
  BY <1>1, GivenSame, SameSources
<1>6. \A k \in DOMAIN argv : k < i => k # i
  BY <1>1, Coding DEF CodingPcs
<1>7. \A k \in DOMAIN argv : /\ k < i => OutName(k) # OutName(i)
                             /\ argv[k] # OutName(i)
  BY <1>2, <1>6 DEF Clash
<1>8. \A k \in DOMAIN argv : k < i /\ Done(k) => Done(k)'
  BY <1>4, <1>5, <1>7 DEF Done, Coded
<1>9. \A k \in DOMAIN argv : /\ SourceKept(k) => SourceKept(k)'
                             /\ argv[k] \notin DOMAIN entry =>
                                  argv[k] \notin DOMAIN entry'
  BY <1>4, <1>5, <1>7 DEF SourceKept
<1>10. \A k \in DOMAIN argv : k < i => Finished(k)'
  BY <1>5, <1>8, <1>9 DEF CleanRun, FinishedInv, Finished
<1>11. FinishedInv'
  BY <1>1, <1>5, <1>10 DEF CleanRun, FinishedInv, local
<1>12. NoneEndsInSample' => LayoutInv'
  BY <1>1, <1>4, <1>5, EmptyIsOutput DEF CleanRun, LayoutInv, FramesFollowTable
<1> QED
  BY <1>11, <1>12 DEF CleanRun

\* An infile is removed after its outfile is closed, if that was asked for.
LEMMA FinishClean ==
  ASSUME IInv, TypeInv, ~Clash, CleanRun, FinishFile, g_nwarnings' = 0
  PROVE  CleanRun'
<1>1. /\ process = "running" /\ pc = "next" /\ pc' = "setup"
      /\ i' = i + 1
      /\ UNCHANGED <<given, data>>
  BY DEF FinishFile, Goes
<1>2. /\ i \in DOMAIN argv
      /\ Len(openedfiles) = Len(argv)
      /\ DOMAIN openedfiles = DOMAIN argv
      /\ DOMAIN argv = 1..Len(argv) /\ Len(argv) \in Nat
      /\ infile_name = argv[i]
  BY <1>1, Coding DEF IInv, RunningInv, CodingInv, CodingPcs, infile_name
<1>3. entry' = IF g_flag.delete_src THEN Without(argv[i]) ELSE entry
  <2>1. PICK removed \in BOOLEAN :
          /\ entry' = IF g_flag.delete_src /\ removed THEN Without(infile_name)
                      ELSE entry
          /\ Warned(g_flag.delete_src /\ ~removed)
    BY DEF FinishFile
  <2> DEFINE w == g_flag.delete_src /\ ~removed
  <2>2. Warned(w)
    BY <2>1
  <2> HIDE DEF w
  <2>3. ~w
    BY <2>2, WarnedCleanly DEF TypeInv
  <2> QED
    BY <1>2, <2>1, <2>3 DEF w
<1>4. /\ UNCHANGED <<mode, g_flag, argv, SourceKind>>
      /\ \A k : OutName(k)' = OutName(k)
  BY <1>1, GivenSame
<1>5. \A k \in DOMAIN argv : /\ OutName(k) # argv[i]
                             /\ k # i => argv[k] # argv[i]
  <2> SUFFICES ASSUME NEW k \in DOMAIN argv
               PROVE  OutName(k) # argv[i] /\ (k # i => argv[k] # argv[i])
    OBVIOUS
  <2>1. argv[k] = argv[i] => OutName(k) = OutName(i)
    BY DEF OutName
  <2> QED
    BY <1>2, <2>1 DEF Clash
<1>6. \A n \in DOMAIN entry : n # argv[i] => n \in DOMAIN entry' /\ entry'[n] = entry[n]
  BY <1>3 DEF Without
<1>7. \A k \in DOMAIN argv : Done(k) => Done(k)'
  BY <1>1, <1>4, <1>5, <1>6 DEF Done, Coded
<1>8. \A k \in DOMAIN argv : k # i /\ SourceKept(k) => SourceKept(k)'
  BY <1>1, <1>4, <1>5, <1>6 DEF SourceKept
<1>9. \A k \in DOMAIN argv : argv[k] \notin DOMAIN entry => argv[k] \notin DOMAIN entry'
  BY <1>3 DEF Without
<1>10. \A k \in DOMAIN argv : k # i /\ Finished(k) => Finished(k)'
  BY <1>4, <1>7, <1>8, <1>9 DEF Finished
<1>11. \A k \in DOMAIN argv : k = i => Finished(k)'
  <2>1. Done(i) /\ Kept(i)
    <3>1. ProgressInv /\ i >= i
      BY <1>1, Coding DEF CodingPcs
    <3> QED
      BY <1>1, <1>2, <3>1 DEF CleanRun, FinishedInv, ProgressInv
  <2>2. \A k \in DOMAIN argv : k = i => Done(k) /\ SourceKept(k)
    BY <2>1 DEF Kept
  <2>3. g_flag.delete_src => argv[i] \notin DOMAIN entry'
    BY <1>3 DEF Without
  <2>4. ~g_flag.delete_src => \A k \in DOMAIN argv : SourceKept(k) => SourceKept(k)'
    BY <1>1, <1>3, <1>4 DEF SourceKept
  <2> QED
    BY <1>4, <1>7, <2>2, <2>3, <2>4 DEF Finished
<1>12. \A k \in DOMAIN argv : k < i + 1 => k = i \/ (k < i /\ k # i)
  BY <1>2
<1>13. FinishedInv'
  BY <1>1, <1>4, <1>10, <1>11, <1>12 DEF CleanRun, FinishedInv
<1>14. NoneEndsInSample' = NoneEndsInSample
  <2>1. \A k \in DOMAIN argv : openedfiles'[k].fstat = openedfiles[k].fstat
    BY <1>2, InfileClosed
  <2> QED
    BY <1>4, <2>1 DEF NoneEndsInSample, EndsInSample
<1>15. NoneEndsInSample' => LayoutInv'
  BY <1>1, <1>14 DEF CleanRun, LayoutInv, FramesFollowTable
<1> QED
  BY <1>13, <1>15 DEF CleanRun

LEMMA StartClean ==
  ASSUME IInv, StartCoding
  PROVE  CleanRun'
<1>1. /\ process = "running" /\ pc = "stat" /\ pc' = "setup" /\ i' = 1
      /\ UNCHANGED <<given, disk>>
  BY DEF StartCoding, StatsDone
<1>2. NoOutput /\ DOMAIN argv = 1..Len(argv) /\ Len(argv) \in Nat
  BY <1>1 DEF IInv, RunningInv, ChecksInv, GivenInv
<1>3. UNCHANGED <<data, argv>>
  BY <1>1 DEF disk, given
<1>4. \A k \in DOMAIN argv' : ~(k < i')
  BY <1>1, <1>2, <1>3
<1>5. FinishedInv'
  BY <1>1, <1>4 DEF FinishedInv
<1>6. LayoutInv'
  BY <1>1, <1>2, <1>3 DEF LayoutInv, FramesFollowTable, NoOutput
<1> QED
  BY <1>5, <1>6 DEF CleanRun

LEMMA ReturnClean ==
  ASSUME IInv, ~Clash, CleanRun, Return
  PROVE  CleanReturnMeansCoded'
<1>1. /\ process = "running" /\ pc = "setup" /\ i > Len(argv)
      /\ RemoveIncomplete
      /\ UNCHANGED <<given, data, openedfiles>>
  BY DEF Return
<1>2. entry' = entry
  BY <1>1, Removed DEF NotedPcs
<1>3. /\ UNCHANGED <<mode, g_flag, argv, NoneEndsInSample, SourceKind>>
      /\ \A k : OutName(k)' = OutName(k)
  BY <1>1, GivenSame, SameSources
<1>4. \A k \in DOMAIN argv : k < i
  BY <1>1, Coding DEF CodingPcs
<1>5. \A k \in DOMAIN argv : Finished(k)
  BY <1>4 DEF CleanRun, FinishedInv
<1>6. \A k \in DOMAIN argv :
        /\ Coded(k)
        /\ data[entry[OutName(k)]].whole
        /\ SourceKept(k) <=> ~g_flag.delete_src
  BY <1>5 DEF Finished, Done, SourceKept
<1>7. \A k : /\ Coded(k)' = Coded(k)
             /\ SourceKept(k)' = SourceKept(k)
  BY <1>1, <1>2, <1>3 DEF Coded, SourceKept
<1>8. \A k \in DOMAIN argv' :
        /\ Coded(k)'
        /\ data'[entry'[OutName(k)']].whole
        /\ SourceKept(k)' <=> ~g_flag'.delete_src
  BY <1>1, <1>2, <1>3, <1>6, <1>7
<1>9. NoneEndsInSample' => FramesFollowTable'
  BY <1>1, <1>3 DEF CleanRun, LayoutInv, FramesFollowTable
<1> QED
  BY <1>8, <1>9 DEF CleanReturnMeansCoded, NoneEndsInSample

LEMMA InitCleanInv == Init => CleanInv
BY DEF Init, FilesInit, CleanInv, CodingPcs, CleanReturnMeansCoded

\* No warning means that there was none before.
LEMMA CleanBefore ==
  ASSUME TypeInv, [Next]_vars, g_nwarnings' = 0
  PROVE  g_nwarnings = 0
BY NextWarns, WarningsAssumption DEF TypeInv, TypeOK, inc_nwarnings

LEMMA NextCleanInv == IInv /\ IInv' /\ TypeInv /\ CleanInv /\ [Next]_vars => CleanInv'
<1> SUFFICES ASSUME IInv, IInv', TypeInv, CleanInv, [Next]_vars PROVE CleanInv'
  OBVIOUS
<1>1. /\ mode \in {"encode", "decode"}
      /\ Clash' = Clash
  BY NextGiven, GivenSame DEF IInv, GivenInv
<1>2. CASE UNCHANGED vars
  <2>1. /\ UNCHANGED <<process, pc, g_nwarnings, entry, data, openedfiles, i,
                       given, local, outfile>>
    BY <1>2 DEF vars, given, local
  <2>2. CleanRun => CleanRun'
    <3>1. UNCHANGED disk
      BY <2>1 DEF disk
    <3>2. /\ UNCHANGED <<mode, g_flag, argv, entry, data, NoneEndsInSample>>
          /\ \A k : Finished(k) => Finished(k)'
          /\ Done(i) => Done(i)'
          /\ FramesFollowTable => FramesFollowTable'
      BY <2>1, <3>1, BetweenClean
    <3>3. FinishedInv => FinishedInv'
      BY <2>1, <3>2 DEF FinishedInv, local
    <3>4. LayoutInv => LayoutInv'
      <4>1. ReservedSize(seektable)' = ReservedSize(seektable)
        BY <2>1 DEF local, ReservedSize
      <4> QED
        BY <2>1, <3>2, <4>1 DEF LayoutInv, local
    <3> QED
      BY <3>2, <3>3, <3>4 DEF CleanRun
  <2>3. CleanReturnMeansCoded => CleanReturnMeansCoded'
    <3>1. /\ UNCHANGED <<mode, g_flag, argv, NoneEndsInSample, SourceKind>>
          /\ \A k : OutName(k)' = OutName(k)
      BY <2>1, GivenSame, SameSources
    <3>2. \A k : /\ Coded(k)' = Coded(k)
                 /\ SourceKept(k)' = SourceKept(k)
      BY <2>1, <3>1 DEF Coded, SourceKept
    <3>3. FramesFollowTable' = FramesFollowTable
      BY <2>1 DEF FramesFollowTable
    <3> QED
      BY <1>1, <2>1, <3>1, <3>2, <3>3
         DEF CleanReturnMeansCoded, NoneEndsInSample
  <2> QED
    BY <1>1, <2>1, <2>2, <2>3 DEF CleanInv
<1>3. CASE \/ ExitIfErrors \/ EarlyErrorExit \/ Signal
           \/ CodeRejects \/ EncErrorExit
           \/ RefuseSeektable \/ DecodeRejects \/ DecErrorExit
  <2>1. process' \in {"exited", "killed"}
    BY <1>3 DEF ExitIfErrors, EarlyErrorExit, Signal, CodeRejects,
         EncErrorExit, RefuseSeektable, DecodeRejects, DecErrorExit,
         FatalError, Exit, SignalExit
  <2> QED
    BY <2>1 DEF CleanInv, CleanReturnMeansCoded
<1>4. CASE Return
  <2>1. /\ process = "running" /\ pc = "setup" /\ process' = "returned"
        /\ UNCHANGED g_nwarnings
    BY <1>4 DEF Return
  <2>2. g_nwarnings = 0 /\ ~Clash => CleanReturnMeansCoded'
    BY <1>4, <2>1, ReturnClean DEF CleanInv, CodingPcs
  <2> QED
    BY <1>1, <2>1, <2>2 DEF CleanInv, CleanReturnMeansCoded
<1>5. CASE process' = "running" /\ (pc' \in CodingPcs /\ g_nwarnings' = 0 /\ ~Clash
                                      => CleanRun')
  BY <1>1, <1>5 DEF CleanInv, CleanReturnMeansCoded
<1>6. CASE ProcessArg \/ ArgsDone \/ GetStats
  BY <1>5, <1>6 DEF ProcessArg, OpenInfile, ArgsDone, GetStats, Goes, CodingPcs
<1>7. CASE StartCoding
  <2>1. process' = "running"
    BY <1>7 DEF StartCoding, StatsDone
  <2> QED
    BY <1>5, <1>7, <2>1, StartClean
<1>8. ASSUME process = "running", pc \in CodingPcs, process' = "running",
             g_nwarnings' = 0 /\ ~Clash /\ CleanRun => CleanRun'
      PROVE  CleanInv'
  BY <1>5, <1>8, CleanBefore DEF CleanInv
<1>9. CASE \/ Open \/ Note \/ CloseOutfile \/ Forget \/ FinishFile
  <2>1. process = "running" /\ pc \in CodingPcs /\ process' = "running"
    BY <1>9 DEF Open, OpenOutfile, Note, CloseOutfile, Forget, FinishFile,
         Goes, CodingPcs
  <2>2. g_nwarnings' = 0 /\ ~Clash /\ CleanRun => CleanRun'
    BY <1>9, OpenClean, NoteClean, CloseClean, FinishClean
  <2> QED
    BY <1>8, <2>1, <2>2
<1>10. CASE /\ mode = "encode"
            /\ SetupSeektable \/ Reserve \/ Code \/ WriteHeaderAndSeektable
  <2>1. process = "running" /\ pc \in CodingPcs /\ process' = "running"
    BY <1>10 DEF SetupSeektable, Reserve, Code, WriteHeaderAndSeektable, Goes,
         CodingPcs
  <2>2. g_nwarnings' = 0 /\ ~Clash /\ CleanRun => CleanRun'
    BY <1>10, SetupClean, ReserveClean, CodeClean, HeaderClean
  <2> QED
    BY <1>8, <2>1, <2>2
<1>11. CASE /\ mode = "decode"
            /\ CheckSeektable \/ ReserveHeader \/ Decode \/ WriteHeader
  <2>1. process = "running" /\ pc \in CodingPcs /\ process' = "running"
    BY <1>11 DEF CheckSeektable, ReserveHeader, Decode, WriteHeader, Goes,
         CodingPcs
  <2>2. g_nwarnings' = 0 /\ ~Clash /\ CleanRun => CleanRun'
    BY <1>11, SetupClean, ReserveClean, DecodeClean, HeaderClean
  <2> QED
    BY <1>8, <2>1, <2>2
<1> QED
  BY <1>2, <1>3, <1>4, <1>6, <1>7, <1>9, <1>10, <1>11
     DEF Next, ModeStep, EncodeStep, DecodeStep, Terminated

-----------------------------------------------------------------------------
(* The theorems                                                            *)

\* The inductive invariant of the program holds at every step, for any command
\* line and any disk on which no two names name the same file.
THEOREM ProgramInvariant == Spec => []IInv
<1> QED
  BY InitIInv, NextIInv, PTL DEF Spec

\* Every variable of the program keeps its type: a stream is of a file that
\* exists, every error is counted once, and the seektable is one.
THEOREM ProgramTypeOK == Spec => []TypeOK
<1>1. Init => TypeInv
  BY InitTypeInv
<1>2. IInv /\ IInv' /\ TypeInv /\ [Next]_vars => TypeInv'
  BY NextTypeInv
<1>3. TypeInv => TypeOK
  BY DEF TypeInv
<1> QED
  BY <1>1, <1>2, <1>3, ProgramInvariant, PTL DEF Spec

\* No file is opened for writing before every infile is open and checked:
\* mode_encode and mode_decode exit before the first enc_loop or dec_loop if
\* anything is wrong with any infile.
THEOREM ProgramChecksBeforeWriting == Spec => []ChecksBeforeWriting
<1>1. IInv => ChecksBeforeWriting
  BY DEF IInv
<1> QED
  BY <1>1, ProgramInvariant, PTL

\* Whatever fails and whenever a signal arrives, an infile is as it was or its
\* coding is on the disk, unless names clash or fclose has failed for it.
THEOREM ProgramNoSourceLost == Spec => []NoSourceLost
<1>1. IInv => NoSourceLost
  <2>1. CASE process = "running"
    BY <2>1, RunningKeeps DEF NoSourceLost
  <2>2. CASE process # "running"
    BY <2>2 DEF IInv
  <2> QED
    BY <2>1, <2>2
<1> QED
  BY <1>1, ProgramInvariant, PTL

\* When the program exits or a signal ends it, no outfile that it did not close
\* is left, but the one that a signal found not yet noted in g_rm_on_sigint or
\* that could not be removed.
THEOREM ProgramNoIncompleteLeft == Spec => []NoIncompleteLeft
<1>1. IInv => NoIncompleteLeft
  <2>1. CASE process = "running"
    BY <2>1 DEF NoIncompleteLeft
  <2>2. CASE process # "running"
    BY <2>2 DEF IInv
  <2> QED
    BY <2>1, <2>2
<1> QED
  BY <1>1, ProgramInvariant, PTL

\* remove is called for an infile that is coded, if the program goes on, and
\* for an outfile that is not complete, if it does not: of a complete one only
\* between its fclose and the assignment to g_rm_on_sigint.
THEOREM ProgramRemovesOnlyIncomplete == Spec => RemovesOnlyIncomplete
<1> DEFINE Allowed ==
      \A n \in DOMAIN entry \ DOMAIN entry' :
        \/ /\ pc = "next"
           /\ n = infile_name
           /\ process' = "running"
        \/ /\ data[entry[n]].kind = "output"
           /\ data[entry[n]].closed # "ok" \/ pc = "forget"
<1>1. ASSUME IInv, Next PROVE Allowed
  <2> SUFFICES ASSUME NEW n \in DOMAIN entry \ DOMAIN entry'
               PROVE  \/ /\ pc = "next"
                         /\ n = infile_name
                         /\ process' = "running"
                      \/ /\ data[entry[n]].kind = "output"
                         /\ data[entry[n]].closed # "ok" \/ pc = "forget"
    OBVIOUS
  <2>1. CASE \/ ExitIfErrors \/ Return \/ EarlyErrorExit \/ Signal
             \/ CodeRejects \/ EncErrorExit
             \/ RefuseSeektable \/ DecodeRejects \/ DecErrorExit
    <3>1. process = "running" /\ RemoveIncomplete
      BY <2>1, ExitSteps
    <3>2. /\ pc \in NotedPcs
          /\ n = OutName(i)
      BY <1>1, <3>1, Removed DEF Without
    <3>3. OutfileInv
      BY <1>1, <3>1 DEF IInv, RunningInv
    <3>4. CASE pc = "forget"
      BY <3>2, <3>3, <3>4 DEF OutfileInv
    <3>5. CASE pc # "forget"
      BY <3>2, <3>3, <3>5 DEF OutfileInv, NotedPcs, OpenPcs
    <3> QED
      BY <3>4, <3>5
  <2>2. CASE FinishFile
    BY <2>2 DEF FinishFile, Goes, Without
  <2>3. CASE Open
    <3>1. DOMAIN entry \subseteq DOMAIN entry'
      BY <2>3 DEF Open, OpenOutfile, Truncate
    <3> QED
      BY <3>1
  <2>4. CASE UNCHANGED entry
    BY <2>4
  <2>5. \/ ExitIfErrors \/ Return \/ EarlyErrorExit \/ Signal
        \/ CodeRejects \/ EncErrorExit
        \/ RefuseSeektable \/ DecodeRejects \/ DecErrorExit
        \/ FinishFile \/ Open \/ UNCHANGED entry
    <3>1. CASE ProcessArg \/ ArgsDone \/ GetStats \/ StartCoding
      BY <3>1 DEF ProcessArg, OpenInfile, ArgsDone, GetStats, StartCoding, disk
    <3>2. CASE SetupSeektable \/ CheckSeektable \/ Note \/ Forget
      BY <3>2, BetweenSteps DEF disk
    <3>3. CASE Reserve \/ ReserveHeader \/ Code \/ Decode
                 \/ WriteHeaderAndSeektable \/ WriteHeader \/ CloseOutfile
      BY <3>3 DEF Reserve, ReserveHeader, Code, Decode,
                  WriteHeaderAndSeektable, WriteHeader, CloseOutfile
    <3>4. CASE Terminated
      BY <3>4 DEF Terminated, vars
    <3> QED
      BY <1>1, <3>1, <3>2, <3>3, <3>4
         DEF Next, ModeStep, EncodeStep, DecodeStep
  <2> QED
    BY <2>1, <2>2, <2>3, <2>4, <2>5
<1>2. IInv /\ [Next]_vars => [Allowed]_vars
  BY <1>1
<1>3. [][Allowed]_vars => RemovesOnlyIncomplete
  BY PTL DEF RemovesOnlyIncomplete
<1> QED
  BY <1>2, <1>3, ProgramInvariant, PTL DEF Spec

\* A run that returns without a warning has coded every infile whole, removed
\* those that it was asked to and no other, and left no gap in an outfile, unless
\* names clash or the PCM of one ends in a part of a sample where a frame would
\* begin.
THEOREM ProgramCleanReturn == Spec => []CleanReturnMeansCoded
<1>1. Init => TypeInv /\ CleanInv
  BY InitTypeInv, InitCleanInv
<1>2. IInv /\ IInv' /\ TypeInv /\ CleanInv /\ [Next]_vars => TypeInv' /\ CleanInv'
  BY NextTypeInv, NextCleanInv
<1>3. CleanInv => CleanReturnMeansCoded
  BY DEF CleanInv
<1> QED
  BY <1>1, <1>2, <1>3, ProgramInvariant, PTL DEF Spec

-----------------------------------------------------------------------------
(* Cells *)

\* A field of n bytes.
LEMMA CellsIs ==
  ASSUME NEW k0, NEW v, NEW n \in Nat, \A k \in Nat : <<k0, v, k, n>> \in Cell
  PROVE  /\ Cells(k0, v, n) \in Seq(Cell) /\ Len(Cells(k0, v, n)) = n
         /\ \A k \in 1..n : Cells(k0, v, n)[k] = <<k0, v, k, n>>
<1> DEFINE f == Cells(k0, v, n)
<1>1. f = [k \in 1..n |-> <<k0, v, k, n>>]
  BY DEF Cells
<1>2. f \in [1..n -> Cell]
  BY <1>1
<1>3. f \in Seq(Cell) /\ Len(f) = n
  BY <1>2, SeqDef, LenProperties
<1> QED
  BY <1>1, <1>3

LEMMA IdIs ==
  ASSUME NEW s \in Ids, NEW n \in Nat
  PROVE  /\ Id(s, n) \in Seq(Cell) /\ Len(Id(s, n)) = n
         /\ \A k \in 1..n : Id(s, n)[k] = <<"id", s, k, n>>
<1>1. \A k \in Nat : <<"id", s, k, n>> \in Cell
  BY DEF Cell, PlainCell
<1> QED
  BY <1>1, CellsIs DEF Id

LEMMA NumIs ==
  ASSUME NEW v \in Nat, NEW n \in Nat
  PROVE  /\ Num(v, n) \in Seq(Cell) /\ Len(Num(v, n)) = n
         /\ \A k \in 1..n : Num(v, n)[k] = <<"num", v, k, n>>
<1>1. \A k \in Nat : <<"num", v, k, n>> \in Cell
  BY DEF Cell, PlainCell
<1> QED
  BY <1>1, CellsIs DEF Num

LEMMA RawIs ==
  ASSUME NEW n \in Nat
  PROVE  /\ Raw(n) \in Seq(Cell) /\ Len(Raw(n)) = n
         /\ \A k \in 1..n : Raw(n)[k] = <<"raw", 0, k, n>>
<1>1. \A k \in Nat : <<"raw", 0, k, n>> \in Cell
  BY DEF Cell, PlainCell
<1> QED
  BY <1>1, CellsIs DEF Raw

LEMMA ZeroIs ==
  ASSUME NEW n \in Nat
  PROVE  /\ Zero(n) \in Seq(Cell) /\ Len(Zero(n)) = n
         /\ \A k \in 1..n : Zero(n)[k] = <<"zero", 0, k, n>>
<1>1. \A k \in Nat : <<"zero", 0, k, n>> \in Cell
  BY DEF Cell, PlainCell
<1> QED
  BY <1>1, CellsIs DEF Zero

\* Bytes one after the other.
LEMMA Joined ==
  ASSUME NEW a \in Seq(Cell), NEW b \in Seq(Cell)
  PROVE  /\ a \o b \in Seq(Cell) /\ Len(a \o b) = Len(a) + Len(b)
         /\ Len(a) \in Nat /\ Len(b) \in Nat
         /\ \A z \in 1..Len(a) : (a \o b)[z] = a[z]
         /\ \A z \in 1..Len(b) : (a \o b)[Len(a) + z] = b[z]
  BY ConcatProperties, LenProperties

LEMMA JoinedLen ==
  ASSUME NEW a \in Seq(Cell), NEW b \in Seq(Cell)
  PROVE  a \o b \in Seq(Cell) /\ Len(a \o b) = Len(a) + Len(b)
  BY ConcatProperties

\* Three parts, one after the other.
LEMMA ThreeParts ==
  ASSUME NEW t \in Seq(Cell), NEW d \in Seq(Cell), NEW r \in Seq(Cell), NEW f, f = t \o d \o r
  PROVE  /\ f \in Seq(Cell) /\ Len(f) = Len(t) + Len(d) + Len(r)
         /\ Len(t) \in Nat /\ Len(d) \in Nat /\ Len(r) \in Nat
         /\ \A z \in 1..Len(t) : f[z] = t[z]
         /\ \A z \in 1..Len(d) : f[Len(t) + z] = d[z]
         /\ \A z \in 1..Len(r) : f[Len(t) + Len(d) + z] = r[z]
<1> DEFINE u == t \o d
           g == u \o r
<1>1. /\ u \in Seq(Cell) /\ Len(u) = Len(t) + Len(d) /\ Len(t) \in Nat /\ Len(d) \in Nat
      /\ \A z \in 1..Len(t) : u[z] = t[z]
      /\ \A z \in 1..Len(d) : u[Len(t) + z] = d[z]
  BY Joined
<1> HIDE DEF u
<1>2. /\ g \in Seq(Cell) /\ Len(g) = Len(u) + Len(r) /\ Len(r) \in Nat
      /\ \A z \in 1..Len(u) : g[z] = u[z]
      /\ \A z \in 1..Len(r) : g[Len(u) + z] = r[z]
  BY <1>1, Joined
<1>3. f = g
  BY DEF u
<1> HIDE DEF g
<1>4. \A z \in 1..Len(t) : g[z] = t[z]
  <2>1. \A z \in 1..Len(t) : z \in 1..Len(u)
    BY <1>1
  <2> QED
    BY <1>1, <1>2, <2>1
<1>5. \A z \in 1..Len(d) : g[Len(t) + z] = d[z]
  <2>1. \A z \in 1..Len(d) : Len(t) + z \in 1..Len(u)
    BY <1>1
  <2> QED
    BY <1>1, <1>2, <2>1
<1>6. \A z \in 1..Len(r) : g[Len(t) + Len(d) + z] = r[z]
  BY <1>1, <1>2
<1>7. Len(g) = Len(t) + Len(d) + Len(r)
  BY <1>1, <1>2
<1> QED
  BY <1>1, <1>2, <1>3, <1>4, <1>5, <1>6, <1>7

\* What a file has of two parts it has of each.
LEMMA HasParts ==
  ASSUME NEW f \in Seq(Cell), NEW p \in Nat, NEW a \in Seq(Cell), NEW b \in Seq(Cell),
         Has(f, p, a \o b)
  PROVE  Has(f, p, a) /\ Has(f, p + Len(a), b) /\ p + Len(a) \in Nat
<1>1. /\ Len(a \o b) = Len(a) + Len(b) /\ Len(a) \in Nat /\ Len(b) \in Nat /\ Len(f) \in Nat
      /\ \A z \in 1..Len(a) : (a \o b)[z] = a[z]
      /\ \A z \in 1..Len(b) : (a \o b)[Len(a) + z] = b[z]
  BY Joined, LenProperties
<1>2. p + Len(a \o b) <= Len(f) /\ \A z \in 1..Len(a \o b) : f[p + z] = (a \o b)[z]
  BY DEF Has
<1>3. Has(f, p, a)
  BY <1>1, <1>2 DEF Has
<1>4. ASSUME NEW z \in 1..Len(b) PROVE f[p + Len(a) + z] = b[z]
  <2>1. Len(a) + z \in 1..Len(a \o b) /\ p + (Len(a) + z) = p + Len(a) + z
    BY <1>1
  <2> QED
    BY <1>1, <1>2, <2>1
<1> QED
  BY <1>1, <1>2, <1>3, <1>4 DEF Has

\* A file has itself.
LEMMA HasAll ==
  ASSUME NEW f \in Seq(Cell)
  PROVE  Has(f, 0, f)
<1>1. Len(f) \in Nat
  BY LenProperties
<1> QED
  BY <1>1 DEF Has

\* What a file has it still has when bytes are put before and behind.
LEMMA HasWithin ==
  ASSUME NEW a \in Seq(Cell), NEW b \in Seq(Cell), NEW p \in Nat, NEW g, Len(g) \in Nat
  PROVE  /\ Has(a, p, g) => Has(a \o b, p, g)
         /\ Has(b, p, g) => Has(a \o b, Len(a) + p, g)
<1>1. /\ Len(a \o b) = Len(a) + Len(b) /\ Len(a) \in Nat /\ Len(b) \in Nat
      /\ \A z \in 1..Len(a) : (a \o b)[z] = a[z]
      /\ \A z \in 1..Len(b) : (a \o b)[Len(a) + z] = b[z]
  BY Joined
<1>2. ASSUME Has(a, p, g) PROVE Has(a \o b, p, g)
  <2>1. ASSUME NEW z \in 1..Len(g) PROVE (a \o b)[p + z] = g[z]
    <3>1. p + z \in 1..Len(a)
      BY <1>1, <1>2 DEF Has
    <3> QED
      BY <1>1, <1>2, <3>1 DEF Has
  <2> QED
    BY <1>1, <1>2, <2>1 DEF Has
<1>3. ASSUME Has(b, p, g) PROVE Has(a \o b, Len(a) + p, g)
  <2>1. ASSUME NEW z \in 1..Len(g) PROVE (a \o b)[Len(a) + p + z] = g[z]
    <3>1. p + z \in 1..Len(b) /\ Len(a) + p + z = Len(a) + (p + z)
      BY <1>1, <1>3 DEF Has
    <3> QED
      BY <1>1, <1>3, <3>1 DEF Has
  <2> QED
    BY <1>1, <1>3, <2>1 DEF Has
<1> QED
  BY <1>2, <1>3

\* What is read where a field is.
LEMMA HasAt ==
  ASSUME NEW f \in Seq(Cell), NEW p \in Nat, NEW g \in Seq(Cell), Has(f, p, g)
  PROVE  At(f, p, Len(g)) = g
<1> DEFINE h == SubSeq(f, p + 1, p + Len(g))
<1>1. Len(f) \in Nat /\ Len(g) \in Nat /\ p + Len(g) <= Len(f)
  BY LenProperties DEF Has
<1>2. h \in Seq(Cell) /\ Len(h) = Len(g)
  BY <1>1, SubSeqProperties
<1>3. \A z \in 1..Len(g) : h[z] = g[z]
  BY <1>1, SubSeqProperties DEF Has
<1>4. h = g
  BY <1>2, <1>3, SeqEqual
<1> QED
  BY <1>4 DEF At

\* What is read of n bytes.
LEMMA AtIs ==
  ASSUME NEW f \in Seq(Cell), NEW p \in Nat, NEW n \in Nat, p + n <= Len(f)
  PROVE  /\ At(f, p, n) \in Seq(Cell) /\ Len(At(f, p, n)) = n
         /\ \A z \in 1..n : At(f, p, n)[z] = f[p + z]
<1>1. Len(f) \in Nat
  BY LenProperties
<1> QED
  BY <1>1, SubSeqProperties DEF At

\* An id is found where it is, and no other.
LEMMA IdFound ==
  ASSUME NEW f \in Seq(Cell), NEW p \in Nat, NEW s \in Ids, NEW n \in Nat \ {0}
  PROVE  /\ Has(f, p, Id(s, n)) => HasId(f, p, s, n)
         /\ HasId(f, p, s, n) /\ p + n <= Len(f) => Has(f, p, Id(s, n))
<1>1. Id(s, n) \in Seq(Cell) /\ Len(Id(s, n)) = n
  BY IdIs
<1>2. Has(f, p, Id(s, n)) => HasId(f, p, s, n)
  BY <1>1, HasAt DEF HasId
<1>3. ASSUME HasId(f, p, s, n), p + n <= Len(f) PROVE Has(f, p, Id(s, n))
  <2>1. At(f, p, n) = Id(s, n)
    BY <1>3 DEF HasId
  <2>2. \A z \in 1..n : At(f, p, n)[z] = f[p + z]
    BY <1>3, AtIs
  <2>3. \A z \in 1..n : f[p + z] = Id(s, n)[z]
    BY <2>1, <2>2
  <2> QED
    BY <1>1, <1>3, <2>3 DEF Has
<1> QED
  BY <1>2, <1>3

LEMMA OtherId ==
  ASSUME NEW f \in Seq(Cell), NEW p \in Nat, NEW s \in Ids, NEW n \in Nat \ {0},
         Has(f, p, Id(s, n)), NEW t \in Ids, NEW m \in Nat \ {0}, p + m <= Len(f),
         <<s, n>> # <<t, m>>
  PROVE  ~HasId(f, p, t, m)
<1>1. SUFFICES ASSUME HasId(f, p, t, m) PROVE FALSE
  OBVIOUS
<1>2. Has(f, p, Id(t, m))
  BY <1>1, IdFound
<1>3. f[p + 1] = <<"id", s, 1, n>> /\ f[p + 1] = <<"id", t, 1, m>>
  <2>1. 1 \in 1..n /\ 1 \in 1..m
    OBVIOUS
  <2>2. Len(Id(s, n)) = n /\ Id(s, n)[1] = <<"id", s, 1, n>>
    BY <2>1, IdIs
  <2>3. Len(Id(t, m)) = m /\ Id(t, m)[1] = <<"id", t, 1, m>>
    BY <2>1, IdIs
  <2> QED
    BY <1>2, <2>1, <2>2, <2>3 DEF Has
<1> QED
  BY <1>3

\* A number is read where it is,
LEMMA NumFound ==
  ASSUME NEW f \in Seq(Cell), NEW p \in Nat, NEW v \in Nat, NEW n \in Nat \ {0},
         Has(f, p, Num(v, n))
  PROVE  NumsAt(f, p, n) = {v}
<1> DEFINE c == At(f, p, n)
<1>1. Num(v, n) \in Seq(Cell) /\ Len(Num(v, n)) = n /\ Num(v, n)[1] = <<"num", v, 1, n>>
  <2>1. 1 \in 1..n
    OBVIOUS
  <2> QED
    BY <2>1, NumIs
<1>2. c = Num(v, n)
  BY <1>1, HasAt
<1>3. c[1][1] = "num" /\ c[1][2] = v
  BY <1>1, <1>2
<1> QED
  BY <1>2, <1>3 DEF NumsAt

\* and where none is, some number.
LEMMA NumsType ==
  ASSUME NEW f \in Seq(Cell), NEW p \in Nat, NEW n \in Nat \ {0}, p + n <= Len(f)
  PROVE  NumsAt(f, p, n) \subseteq Nat /\ NumsAt(f, p, n) # {}
<1> DEFINE c == At(f, p, n)
<1>1. c[1] \in Cell
  <2>1. c \in Seq(Cell) /\ Len(c) = n
    BY AtIs
  <2> QED
    BY <2>1
<1>2. c[1][1] = "num" => c[1][2] \in Nat
  BY <1>1 DEF Cell, PlainCell
<1> HIDE DEF c
<1>3. JunkNumbers(n) \subseteq Nat /\ JunkNumbers(n) # {}
  BY U64Assumption DEF JunkNumbers
<1>4. CASE c[1][1] = "num" /\ c = Num(c[1][2], n)
  <2>1. NumsAt(f, p, n) = {c[1][2]}
    BY <1>4 DEF NumsAt, c
  <2> QED
    BY <1>2, <1>4, <2>1
<1>5. CASE ~(c[1][1] = "num" /\ c = Num(c[1][2], n)) /\ c[1][1] = "zero"
  <2>1. NumsAt(f, p, n) = {0}
    BY <1>5 DEF NumsAt, c
  <2> QED
    BY <2>1
<1>6. CASE ~(c[1][1] = "num" /\ c = Num(c[1][2], n)) /\ c[1][1] # "zero"
  <2>1. NumsAt(f, p, n) = JunkNumbers(n)
    BY <1>6 DEF NumsAt, c
  <2> QED
    BY <1>3, <2>1
<1> QED
  BY <1>4, <1>5, <1>6

LEMMA Induction ==
  ASSUME NEW T, 0 \in T, \A n \in Nat : n \in T => n + 1 \in T
  PROVE  Nat \subseteq T
<1> DEFINE bad == Nat \ T
<1>1. SUFFICES ASSUME bad # {} PROVE FALSE
  OBVIOUS
<1>2. PICK m \in bad : \A k \in bad : m <= k
  BY <1>1, LeastNumber
<1>3. m - 1 \in Nat /\ m - 1 \notin bad
  BY <1>2
<1>4. (m - 1) + 1 \in T
  BY <1>3
<1> QED
  BY <1>2, <1>4

\* The values that a recursive function over 0..n starts and goes on with.
Iterates(A, a, n, step) ==
  \E f \in [0..n -> A] : f[0] = a /\ \A z \in 1..n : f[z] = step[z][f[z - 1]]

LEMMA Recursion ==
  ASSUME NEW A, NEW a \in A, NEW n \in Nat, NEW step \in [1..n -> [A -> A]]
  PROVE  Iterates(A, a, n, step)
<1> DEFINE Upto(m, f) == f[0] = a /\ \A z \in 1..m : f[z] = step[z][f[z - 1]]
           T == {m \in Nat : m <= n => \E f \in [0..m -> A] : Upto(m, f)}
<1>1. 0 \in T
  <2>1. [z \in 0..0 |-> a] \in [0..0 -> A] /\ Upto(0, [z \in 0..0 |-> a])
    OBVIOUS
  <2> QED
    BY <2>1
<1>2. ASSUME NEW m \in Nat, m \in T PROVE m + 1 \in T
  <2>1. SUFFICES ASSUME m + 1 <= n
                 PROVE  \E f \in [0..(m + 1) -> A] : Upto(m + 1, f)
    OBVIOUS
  <2>2. PICK f \in [0..m -> A] : Upto(m, f)
    BY <1>2, <2>1
  <2> DEFINE b == step[m + 1][f[m]]
             g == [z \in 0..(m + 1) |-> IF z = m + 1 THEN b ELSE f[z]]
  <2>3. m + 1 \in 1..n /\ f[m] \in A
    BY <2>1, <2>2
  <2>4. b \in A
    BY <2>3
  <2>5. g \in [0..(m + 1) -> A]
    BY <2>2, <2>4
  <2>6. g[0] = a /\ g[m] = f[m] /\ g[m + 1] = b
    BY <2>2
  <2>7. \A z \in 1..m : g[z] = step[z][g[z - 1]]
    BY <2>2
  <2>8. Upto(m + 1, g)
    <3>1. ASSUME NEW z \in 1..(m + 1) PROVE g[z] = step[z][g[z - 1]]
      <4>1. CASE z \in 1..m
        BY <2>7, <4>1
      <4>2. CASE z = m + 1
        BY <2>6, <4>2
      <4> QED
        BY <4>1, <4>2
    <3> QED
      BY <2>6, <3>1
  <2> QED
    BY <2>5, <2>8
<1> HIDE DEF T
<1>3. n \in T
  BY <1>1, <1>2, Induction
<1> QED
  BY <1>3 DEF T, Iterates

-----------------------------------------------------------------------------
(* The ids of a file *)

\* The cells with no id but those in S, without and with checksums.
Fields(S)  == {c \in PlainCell : c[1] = "id" => c[2] \in S}
Headed(S)  == Fields(S) \cup ({"crc"} \X Seq(PlainCell) \X Nat \X Nat)

LEMMA SeqWider ==
  ASSUME NEW A, NEW B, A \subseteq B
  PROVE  Seq(A) \subseteq Seq(B)
<1> SUFFICES ASSUME NEW t \in Seq(A) PROVE t \in Seq(B)
  OBVIOUS
<1>1. Len(t) \in Nat /\ t \in [1..Len(t) -> A]
  BY LenProperties
<1>2. t \in [1..Len(t) -> B]
  BY <1>1
<1> QED
  BY <1>1, <1>2, SeqDef

LEMMA FieldsWider ==
  ASSUME NEW A, NEW B, A \subseteq B
  PROVE  /\ Seq(Fields(A)) \subseteq Seq(Fields(B)) /\ Seq(Fields(A)) \subseteq Seq(Headed(B))
         /\ Seq(Headed(A)) \subseteq Seq(Headed(B)) /\ Seq(Headed(A)) \subseteq Seq(Cell)
         /\ Seq(Fields(A)) \subseteq Seq(Cell) /\ Seq(Fields(A)) \subseteq Seq(PlainCell)
<1>1. Fields(A) \subseteq Fields(B) /\ Fields(A) \subseteq PlainCell
  BY DEF Fields
<1>2. Fields(A) \subseteq Headed(B) /\ Headed(A) \subseteq Headed(B)
  BY <1>1 DEF Headed
<1>3. Headed(A) \subseteq Cell /\ Fields(A) \subseteq Cell
  BY <1>1 DEF Headed, Cell
<1> QED
  BY <1>1, <1>2, <1>3, SeqWider

LEMMA FieldsOf ==
  ASSUME NEW k0 \in {"num", "raw", "zero"}, NEW v \in Nat, NEW n \in Nat, NEW S
  PROVE  Cells(k0, v, n) \in Seq(Fields(S))
<1>1. \A k \in Nat : <<k0, v, k, n>> \in Fields(S)
  BY DEF Fields, PlainCell
<1>2. Cells(k0, v, n) \in [1..n -> Fields(S)]
  BY <1>1 DEF Cells
<1> QED
  BY <1>2, SeqDef

LEMMA NumFields ==
  ASSUME NEW v \in Nat, NEW n \in Nat, NEW S
  PROVE  Num(v, n) \in Seq(Fields(S))
  BY FieldsOf DEF Num

LEMMA RawFields ==
  ASSUME NEW n \in Nat, NEW S
  PROVE  Raw(n) \in Seq(Fields(S)) /\ Zero(n) \in Seq(Fields(S))
<1>1. 0 \in Nat
  OBVIOUS
<1> QED
  BY <1>1, FieldsOf DEF Raw, Zero

LEMMA IdFields ==
  ASSUME NEW S, NEW s \in S, s \in Ids, NEW n \in Nat
  PROVE  Id(s, n) \in Seq(Fields(S))
<1>1. \A k \in Nat : <<"id", s, k, n>> \in Fields(S)
  BY DEF Fields, PlainCell
<1>2. Id(s, n) \in [1..n -> Fields(S)]
  BY <1>1 DEF Cells, Id
<1> QED
  BY <1>2, SeqDef

LEMMA JoinedFields ==
  ASSUME NEW A, NEW a \in Seq(A), NEW b \in Seq(A)
  PROVE  a \o b \in Seq(A)
  BY ConcatProperties

\* What is not among the ids of a file is not in it.
LEMMA HeadedFree ==
  ASSUME NEW S, NEW f \in Seq(Headed(S)), NEW s, s \notin S
  PROVE  Free(f, s)
<1> SUFFICES ASSUME NEW z \in 1..Len(f), f[z][1] = "id", f[z][2] = s PROVE FALSE
  BY DEF Free
<1>1. f[z] \in Headed(S)
  BY ElementOfSeq, LenProperties
<1>2. f[z] \in Fields(S)
  BY <1>1 DEF Headed
<1> QED
  BY <1>2 DEF Fields

-----------------------------------------------------------------------------
(* The headers that are written *)

LEMMA IdsAre ==
  /\ \A s \in {"RIFF", "WAVE", "fmt", "PCM", "data", "LIST"} : s \in Ids /\ s \in WaveIds
  /\ \A s \in {"APETAGEX", "ID3"} : s \in Ids /\ s \in TagIds
  /\ "TTA1" \in Ids
  BY DEF Ids, WaveIds, TagIds

LEMMA SizesAre ==
  ASSUME NEW x \in Stats, NEW size \in Nat
  PROVE  /\ samplebytes(x) \in Nat
         /\ (x.samplerate * x.nchan * samplebytes(x)) % (U32MAX + 1) \in Nat
         /\ x.nchan * samplebytes(x) \in Nat
         /\ riff_size(size) \in Nat /\ data_field(size) \in Nat
         /\ x.nchan \in Nat /\ x.samplebits \in Nat /\ x.samplerate \in Nat
<1>1. x.nchan \in Nat /\ x.samplebits \in Nat /\ x.samplerate \in Nat
  BY DEF Stats
<1>2. samplebytes(x) \in Nat
  BY <1>1 DEF samplebytes
<1>3. \A a, b \in Nat : a * b \in Nat
  OBVIOUS
<1>4. \A a \in Nat : a % (U32MAX + 1) \in Nat
  BY U32Assumption
<1>5. x.samplerate * x.nchan \in Nat /\ x.nchan * samplebytes(x) \in Nat
  BY <1>1, <1>2, <1>3
<1>6. x.samplerate * x.nchan * samplebytes(x) \in Nat
  BY <1>2, <1>3, <1>5
<1>7. data_field(size) \in Nat
  BY U32Assumption DEF data_field
<1>8. riff_size(size) \in Nat
  <2>1. WriteTemplate("wav") = 68 /\ RiffHeader("wav") = 8
    BY DEF WriteTemplate, RiffChunk, RiffHeader, FmtBody, WfxTail
  <2>2. (size + 68 - 8) % (U32MAX + 1) \in Nat
    BY <1>4
  <2> QED
    BY U32Assumption, <2>1, <2>2 DEF riff_size
<1> QED
  BY <1>1, <1>2, <1>4, <1>5, <1>6, <1>7, <1>8

\* Headers of chunks.
LEMMA ChunkHeaderFields ==
  ASSUME NEW S, NEW k \in {"wav", "w64"}, NEW s \in S, s \in Ids, NEW n \in Nat
  PROVE  /\ ChunkHeader(k, s, n) \in Seq(Fields(S))
         /\ SizeField(k, n) \in Nat
         /\ ChunkHeader(k, s, n) = Id(s, idlen(k)) \o Num(SizeField(k, n), RiffHeader(k) - idlen(k))
<1>1. SizeField(k, n) \in Nat
  BY DEF SizeField, RiffHeader
<1>2. k = "wav" \/ k = "w64"
  OBVIOUS
<1>3. ChunkHeader(k, s, n) = Id(s, idlen(k)) \o Num(SizeField(k, n), RiffHeader(k) - idlen(k))
  BY <1>2 DEF ChunkHeader, idlen, RiffHeader
<1>4. idlen(k) \in Nat /\ RiffHeader(k) - idlen(k) \in Nat
  BY DEF idlen, RiffHeader
<1> QED
  BY <1>1, <1>3, <1>4, IdFields, NumFields, JoinedFields

LEMMA WaveHeaderFields ==
  ASSUME NEW k \in {"wav", "w64"}, NEW n \in Nat
  PROVE  /\ WaveHeader(k, n) \in Seq(Fields(WaveIds \ {"fmt"}))
         /\ WaveHeader(k, n) \in Seq(Fields(WaveIds))
<1> DEFINE W == WaveIds \ {"fmt"}
<1>1. "RIFF" \in W /\ "WAVE" \in W
  BY DEF WaveIds
<1>2. WaveHeader(k, n) = Id("RIFF", idlen(k)) \o Num(n, RiffHeader(k) - idlen(k)) \o Id("WAVE", idlen(k))
  <2>1. k = "wav" \/ k = "w64"
    OBVIOUS
  <2> QED
    BY <2>1 DEF WaveHeader, idlen, RiffHeader
<1>3. idlen(k) \in Nat /\ RiffHeader(k) - idlen(k) \in Nat
  BY DEF idlen, RiffHeader
<1> HIDE DEF W
<1>4. WaveHeader(k, n) \in Seq(Fields(W))
  <2>1. Id("RIFF", idlen(k)) \in Seq(Fields(W)) /\ Id("WAVE", idlen(k)) \in Seq(Fields(W))
    BY <1>1, <1>3, IdsAre, IdFields
  <2>2. Num(n, RiffHeader(k) - idlen(k)) \in Seq(Fields(W))
    BY <1>3, NumFields
  <2> QED
    BY <1>2, <2>1, <2>2, JoinedFields
<1> QED
  BY <1>4, FieldsWider DEF W

\* The structs of a fmt chunk.
LEMMA BodyFields ==
  ASSUME NEW x \in Stats, NEW v \in Nat, NEW S
  PROVE  fill_waveformatex_body(x, v) \in Seq(Fields(S))
<1>1. 0 \in Nat
  OBVIOUS
<1>2. /\ samplebytes(x) \in Nat
      /\ (x.samplerate * x.nchan * samplebytes(x)) % (U32MAX + 1) \in Nat
      /\ x.nchan * samplebytes(x) \in Nat
      /\ x.nchan \in Nat /\ x.samplebits \in Nat /\ x.samplerate \in Nat
  BY <1>1, SizesAre
<1> QED
  BY <1>2, NumFields, JoinedFields DEF fill_waveformatex_body

LEMMA TailFields ==
  ASSUME NEW x \in Stats, NEW n \in Nat, NEW S, "PCM" \in S
  PROVE  fill_waveformatextensible(x, n) \in Seq(Fields(S))
<1>1. x.samplebits \in Nat
  BY DEF Stats
<1> QED
  <2>1. Id("PCM", 16) \in Seq(Fields(S))
    BY IdsAre, IdFields
  <2>2. /\ Num(n, 2) \in Seq(Fields(S)) /\ Num(x.samplebits, 2) \in Seq(Fields(S))
        /\ Num(0, 4) \in Seq(Fields(S))
    BY <1>1, NumFields
  <2> QED
    BY <2>1, <2>2, JoinedFields DEF fill_waveformatextensible

LEMMA WavFields ==
  ASSUME NEW x \in Stats, NEW size \in Nat
  PROVE  write_wav_header(x, size) \in Seq(Fields(WaveIds))
<1>1. "fmt" \in WaveIds /\ "PCM" \in WaveIds /\ "data" \in WaveIds
  BY DEF WaveIds
<1>2. riff_size(size) \in Nat /\ data_field(size) \in Nat
  BY SizesAre
<1>3. WaveHeader("wav", riff_size(size)) \in Seq(Fields(WaveIds))
  BY <1>2, WaveHeaderFields
<1>4. ChunkHeader("wav", "fmt", FmtBody + WfxTail) \in Seq(Fields(WaveIds))
  BY <1>1, IdsAre, ChunkHeaderFields DEF FmtBody, WfxTail
<1>5. fill_waveformatex_body(x, FMT_EXTENSIBLE) \in Seq(Fields(WaveIds))
  BY BodyFields DEF FMT_EXTENSIBLE
<1>6. fill_waveformatextensible(x, WfxTail - 2) \in Seq(Fields(WaveIds))
  BY <1>1, TailFields DEF WfxTail
<1>7. Id("data", 4) \in Seq(Fields(WaveIds)) /\ Num(data_field(size), 4) \in Seq(Fields(WaveIds))
  BY <1>1, <1>2, IdsAre, IdFields, NumFields
<1> QED
  BY <1>3, <1>4, <1>5, <1>6, <1>7, JoinedFields DEF write_wav_header

LEMMA W64Fields ==
  ASSUME NEW x \in Stats, NEW size \in Nat
  PROVE  write_w64_header(x, size) \in Seq(Fields(WaveIds))
<1>1. "fmt" \in WaveIds /\ "PCM" \in WaveIds /\ "data" \in WaveIds
  BY DEF WaveIds
<1>2. WriteTemplate("w64") \in Nat
  BY DEF WriteTemplate, RiffChunk, RiffHeader, FmtBody, WfxTail
<1>3. WaveHeader("w64", size + WriteTemplate("w64")) \in Seq(Fields(WaveIds))
  BY <1>2, WaveHeaderFields
<1>4. ChunkHeader("w64", "fmt", FmtBody + WfxTail) \in Seq(Fields(WaveIds))
  BY <1>1, IdsAre, ChunkHeaderFields DEF FmtBody, WfxTail
<1>5. fill_waveformatex_body(x, FMT_EXTENSIBLE) \in Seq(Fields(WaveIds))
  BY BodyFields DEF FMT_EXTENSIBLE
<1>6. fill_waveformatextensible(x, WfxTail - 2) \in Seq(Fields(WaveIds))
  BY <1>1, TailFields DEF WfxTail
<1>7. ChunkHeader("w64", "data", size) \in Seq(Fields(WaveIds))
  BY <1>1, IdsAre, ChunkHeaderFields
<1> QED
  BY <1>3, <1>4, <1>5, <1>6, <1>7, JoinedFields DEF write_w64_header

\* The header of TTA1 but its checksum.
TTA1Body(x, n) ==
  Id("TTA1", 4) \o Num(FMT_PCM, 2) \o Num(x.nchan, 2)
    \o Num(x.samplebits, 2) \o Num(x.samplerate, 4)
    \o Num(IF n > U32MAX THEN U32MAX ELSE n, 4)

LEMMA TTA1BodyFields ==
  ASSUME NEW x \in Stats, NEW n \in Nat
  PROVE  /\ TTA1Body(x, n) \in Seq(Fields({"TTA1"})) /\ Len(TTA1Body(x, n)) = 18
         /\ write_tta1_header(x, n) = TTA1Body(x, n) \o Cells("crc", TTA1Body(x, n), 4)
<1>1. x.nchan \in Nat /\ x.samplebits \in Nat /\ x.samplerate \in Nat
  BY DEF Stats
<1> DEFINE m == IF n > U32MAX THEN U32MAX ELSE n
<1>2. m \in Nat
  BY U32Assumption
<1>3. TTA1Body(x, n) = Id("TTA1", 4) \o Num(FMT_PCM, 2) \o Num(x.nchan, 2)
                        \o Num(x.samplebits, 2) \o Num(x.samplerate, 4) \o Num(m, 4)
  BY DEF TTA1Body
<1> HIDE DEF m
<1>4. Id("TTA1", 4) \in Seq(Fields({"TTA1"}))
  BY IdsAre, IdFields
<1>5. \A v \in {FMT_PCM, x.nchan, x.samplebits, x.samplerate, m}, w \in {2, 4} :
        Num(v, w) \in Seq(Fields({"TTA1"}))
  BY <1>1, <1>2, NumFields DEF FMT_PCM
<1>6. TTA1Body(x, n) \in Seq(Fields({"TTA1"}))
  BY <1>3, <1>4, <1>5, JoinedFields
<1>7. Len(TTA1Body(x, n)) = 18
  <2> DEFINE t == Id("TTA1", 4)
             a1 == Num(FMT_PCM, 2)
             a2 == Num(x.nchan, 2)
             a3 == Num(x.samplebits, 2)
             a4 == Num(x.samplerate, 4)
             a5 == Num(m, 4)
  <2>1. t \in Seq(Cell) /\ Len(t) = 4
    BY IdsAre, IdIs
  <2>2. /\ a1 \in Seq(Cell) /\ Len(a1) = 2 /\ a2 \in Seq(Cell) /\ Len(a2) = 2
        /\ a3 \in Seq(Cell) /\ Len(a3) = 2 /\ a4 \in Seq(Cell) /\ Len(a4) = 4
        /\ a5 \in Seq(Cell) /\ Len(a5) = 4
    <3>1. FMT_PCM \in Nat
      BY DEF FMT_PCM
    <3> QED
      BY <1>1, <1>2, <3>1, NumIs
  <2>3. TTA1Body(x, n) = t \o a1 \o a2 \o a3 \o a4 \o a5
    BY <1>3
  <2> HIDE DEF t, a1, a2, a3, a4, a5
  <2>4. Len(t \o a1 \o a2 \o a3 \o a4 \o a5) = Len(t) + Len(a1) + Len(a2) + Len(a3) + Len(a4) + Len(a5)
    <3>1. t \o a1 \in Seq(Cell) /\ Len(t \o a1) = Len(t) + Len(a1)
      BY <2>1, <2>2, JoinedLen
    <3>2. t \o a1 \o a2 \in Seq(Cell) /\ Len(t \o a1 \o a2) = Len(t) + Len(a1) + Len(a2)
      BY <2>2, <3>1, JoinedLen
    <3>3. t \o a1 \o a2 \o a3 \in Seq(Cell) /\ Len(t \o a1 \o a2 \o a3) = Len(t) + Len(a1) + Len(a2) + Len(a3)
      BY <2>2, <3>2, JoinedLen
    <3>4. /\ t \o a1 \o a2 \o a3 \o a4 \in Seq(Cell)
          /\ Len(t \o a1 \o a2 \o a3 \o a4) = Len(t) + Len(a1) + Len(a2) + Len(a3) + Len(a4)
      BY <2>2, <3>3, JoinedLen
    <3> QED
      BY <2>2, <3>4, JoinedLen
  <2> QED
    BY <2>1, <2>2, <2>3, <2>4
<1> QED
  BY <1>6, <1>7 DEF write_tta1_header, TTA1Body

LEMMA CrcFields ==
  ASSUME NEW b \in Seq(PlainCell), NEW n \in Nat, NEW S
  PROVE  /\ Cells("crc", b, n) \in Seq(Headed(S)) /\ Len(Cells("crc", b, n)) = n
         /\ \A k \in 1..n : Cells("crc", b, n)[k] = <<"crc", b, k, n>>
<1>1. \A k \in Nat : <<"crc", b, k, n>> \in Headed(S)
  BY DEF Headed
<1>2. Cells("crc", b, n) = [k \in 1..n |-> <<"crc", b, k, n>>]
  BY DEF Cells
<1>3. Cells("crc", b, n) \in [1..n -> Headed(S)]
  BY <1>1, <1>2
<1>4. Cells("crc", b, n) \in Seq(Headed(S)) /\ Len(Cells("crc", b, n)) = n
  BY <1>3, SeqDef, LenProperties
<1> QED
  BY <1>2, <1>4

LEMMA TTA1Fields ==
  ASSUME NEW x \in Stats, NEW n \in Nat
  PROVE  write_tta1_header(x, n) \in Seq(Headed({"TTA1"})) /\ Len(write_tta1_header(x, n)) = TTA1Header
<1> DEFINE b == TTA1Body(x, n)
           c == Cells("crc", b, 4)
<1>1. /\ b \in Seq(Fields({"TTA1"})) /\ Len(b) = 18
      /\ write_tta1_header(x, n) = b \o c
  BY TTA1BodyFields
<1>2. b \in Seq(PlainCell) /\ b \in Seq(Headed({"TTA1"}))
  BY <1>1, FieldsWider
<1>3. c \in Seq(Headed({"TTA1"})) /\ Len(c) = 4
  BY <1>2, CrcFields
<1> HIDE DEF b, c
<1>4. b \o c \in Seq(Headed({"TTA1"})) /\ Len(b \o c) = Len(b) + Len(c)
  BY <1>2, <1>3, ConcatProperties
<1> QED
  BY <1>1, <1>3, <1>4 DEF TTA1Header

LEMMA TagFields ==
  ASSUME NEW tag \in {"none", "ape", "apes", "id3"}
  PROVE  TagBytes(tag) \in Seq(Fields(TagIds))
<1>1. "APETAGEX" \in TagIds /\ "ID3" \in TagIds
  BY DEF TagIds
<1>2. ASSUME NEW n \in Nat PROVE ApeTag(n) \in Seq(Fields(TagIds))
  <2>1. n + ApeTagHF \in Nat
    BY DEF ApeTagHF
  <2>2. Id("APETAGEX", 8) \in Seq(Fields(TagIds))
    BY <1>1, IdsAre, IdFields
  <2>3. /\ Num(2000, 4) \in Seq(Fields(TagIds)) /\ Num(1, 4) \in Seq(Fields(TagIds))
        /\ Num(0, 4) \in Seq(Fields(TagIds))
    BY NumFields
  <2>5. Num(n + ApeTagHF, 4) \in Seq(Fields(TagIds))
    BY <2>1, NumFields
  <2>4. Zero(8) \in Seq(Fields(TagIds)) /\ Raw(n) \in Seq(Fields(TagIds)) /\ Raw(24) \in Seq(Fields(TagIds))
    BY RawFields
  <2> QED
    BY <2>2, <2>3, <2>4, <2>5, JoinedFields DEF ApeTag
<1>3. ID3Tag(9) \in Seq(Fields(TagIds))
  <2>1. Id("ID3", 3) \in Seq(Fields(TagIds))
    BY <1>1, IdsAre, IdFields
  <2>4. 9 \div 128 = 0 /\ 9 % 128 = 9
    OBVIOUS
  <2>2. /\ Num(3, 2) \in Seq(Fields(TagIds)) /\ Num(0, 1) \in Seq(Fields(TagIds))
        /\ Num(9 \div 128, 1) \in Seq(Fields(TagIds)) /\ Num(9 % 128, 1) \in Seq(Fields(TagIds))
    BY <2>4, NumFields
  <2>3. Raw(9) \in Seq(Fields(TagIds))
    BY RawFields
  <2> QED
    BY <2>1, <2>2, <2>3, <2>4, JoinedFields DEF ID3Tag
<1>4. <<>> \in Seq(Fields(TagIds))
  BY EmptySeq
<1>5. CASE tag = "none"
  BY <1>4, <1>5 DEF TagBytes
<1>6. CASE tag = "ape"
  BY <1>2, <1>6 DEF TagBytes
<1>7. CASE tag = "apes"
  <2>1. ApeTag(0) \o ApeTag(2) \in Seq(Fields(TagIds))
    BY <1>2, JoinedFields
  <2> QED
    BY <1>7, <2>1 DEF TagBytes
<1>8. CASE tag = "id3"
  BY <1>3, <1>8 DEF TagBytes
<1> QED
  BY <1>5, <1>6, <1>7, <1>8

-----------------------------------------------------------------------------
(* Files of other programs *)

ForeignChunks == FmtChunks \cup {"list", "odd", "back"}

\* Chunks by their kind.
LEMMA ForeignIs ==
  ASSUME NEW k, NEW x
  PROVE  /\ ForeignChunk(k, "pcm", x) = ChunkHeader(k, "fmt", FmtBody) \o fill_waveformatex_body(x, FMT_PCM)
         /\ ForeignChunk(k, "ext", x) = ChunkHeader(k, "fmt", FmtBody + WfxTail)
                                       \o fill_waveformatex_body(x, FMT_EXTENSIBLE)
                                       \o fill_waveformatextensible(x, WfxTail - 2)
         /\ ForeignChunk(k, "float", x) = ChunkHeader(k, "fmt", FmtBody) \o fill_waveformatex_body(x, 3)
         /\ ForeignChunk(k, "pcm18", x) = ChunkHeader(k, "fmt", FmtBody + 2)
                                         \o fill_waveformatex_body(x, FMT_PCM) \o Num(0, 2)
         /\ ForeignChunk(k, "ext42", x) = ChunkHeader(k, "fmt", FmtBody + WfxTail + 2)
                                         \o fill_waveformatex_body(x, FMT_EXTENSIBLE)
                                         \o fill_waveformatextensible(x, WfxTail) \o Raw(2)
         /\ ForeignChunk(k, "list", x) = ChunkHeader(k, "LIST", ListBody(k))
                                           \o ChunkHeader(k, "data", 5) \o Raw(ListBody(k) - RiffHeader(k))
         /\ ForeignChunk(k, "odd", x) = ChunkHeader(k, "LIST", 5) \o Raw(6)
         /\ ForeignChunk(k, "back", x) = ChunkHeader(k, "LIST", U64MAX - 79)
  BY DEF ForeignChunk

\* The chunks that are no fmt chunks have no id of one.
LEMMA OtherChunkFields ==
  ASSUME NEW k \in {"wav", "w64"}, NEW x \in Stats, NEW c \in {"list", "odd", "back"}
  PROVE  ForeignChunk(k, c, x) \in Seq(Fields(WaveIds \ {"fmt"}))
<1> DEFINE W == WaveIds \ {"fmt"}
<1>1. "LIST" \in W /\ "data" \in W /\ "LIST" \in Ids /\ "data" \in Ids
  BY IdsAre DEF WaveIds
<1> HIDE DEF W
<1>2. \A n \in Nat : ChunkHeader(k, "LIST", n) \in Seq(Fields(W)) /\ ChunkHeader(k, "data", n) \in Seq(Fields(W))
  BY <1>1, ChunkHeaderFields
<1>3. ListBody(k) \in Nat /\ ListBody(k) - RiffHeader(k) \in Nat /\ U64MAX - 79 \in Nat
  BY U64Assumption DEF ListBody, RiffHeader
<1>4. \A n \in Nat : Raw(n) \in Seq(Fields(W))
  BY RawFields
<1>5. ForeignChunk(k, "list", x) \in Seq(Fields(W))
  <2>1. ForeignChunk(k, "list", x) = ChunkHeader(k, "LIST", ListBody(k))
                                       \o ChunkHeader(k, "data", 5) \o Raw(ListBody(k) - RiffHeader(k))
    BY ForeignIs
  <2>2. ChunkHeader(k, "LIST", ListBody(k)) \o ChunkHeader(k, "data", 5) \in Seq(Fields(W))
    BY <1>2, <1>3, JoinedFields
  <2>3. Raw(ListBody(k) - RiffHeader(k)) \in Seq(Fields(W))
    BY <1>3, <1>4
  <2> QED
    BY <2>1, <2>2, <2>3, JoinedFields
<1>6. ForeignChunk(k, "odd", x) \in Seq(Fields(W))
  <2>1. ForeignChunk(k, "odd", x) = ChunkHeader(k, "LIST", 5) \o Raw(6)
    BY ForeignIs
  <2>2. ChunkHeader(k, "LIST", 5) \in Seq(Fields(W)) /\ Raw(6) \in Seq(Fields(W))
    BY <1>2, <1>4
  <2> QED
    BY <2>1, <2>2, JoinedFields
<1>7. ForeignChunk(k, "back", x) \in Seq(Fields(W))
  BY <1>2, <1>3, ForeignIs
<1> QED
  BY <1>5, <1>6, <1>7 DEF W

LEMMA FmtChunkFields ==
  ASSUME NEW k \in {"wav", "w64"}, NEW x \in Stats, NEW c \in FmtChunks
  PROVE  ForeignChunk(k, c, x) \in Seq(Fields(WaveIds))
<1>1. "fmt" \in WaveIds /\ "PCM" \in WaveIds /\ "fmt" \in Ids
  BY IdsAre
<1>2. \A n \in Nat : ChunkHeader(k, "fmt", n) \in Seq(Fields(WaveIds))
  BY <1>1, ChunkHeaderFields
<1>3. /\ FmtBody \in Nat /\ FmtBody + WfxTail \in Nat /\ FmtBody + 2 \in Nat
      /\ FmtBody + WfxTail + 2 \in Nat /\ WfxTail - 2 \in Nat /\ WfxTail \in Nat
  BY DEF FmtBody, WfxTail
<1>4. /\ fill_waveformatex_body(x, FMT_PCM) \in Seq(Fields(WaveIds))
      /\ fill_waveformatex_body(x, FMT_EXTENSIBLE) \in Seq(Fields(WaveIds))
      /\ fill_waveformatex_body(x, 3) \in Seq(Fields(WaveIds))
  BY BodyFields DEF FMT_PCM, FMT_EXTENSIBLE
<1>5. \A n \in Nat : fill_waveformatextensible(x, n) \in Seq(Fields(WaveIds))
  BY <1>1, TailFields
<1>6. Num(0, 2) \in Seq(Fields(WaveIds)) /\ Raw(2) \in Seq(Fields(WaveIds))
  BY NumFields, RawFields
<1>7. ForeignChunk(k, "pcm", x) \in Seq(Fields(WaveIds)) /\ ForeignChunk(k, "float", x) \in Seq(Fields(WaveIds))
  <2>1. /\ ForeignChunk(k, "pcm", x) = ChunkHeader(k, "fmt", FmtBody) \o fill_waveformatex_body(x, FMT_PCM)
        /\ ForeignChunk(k, "float", x) = ChunkHeader(k, "fmt", FmtBody) \o fill_waveformatex_body(x, 3)
    BY ForeignIs
  <2>2. ChunkHeader(k, "fmt", FmtBody) \in Seq(Fields(WaveIds))
    BY <1>2, <1>3
  <2> QED
    BY <1>4, <2>1, <2>2, JoinedFields
<1>8. ForeignChunk(k, "ext", x) \in Seq(Fields(WaveIds))
  <2>1. ForeignChunk(k, "ext", x) = ChunkHeader(k, "fmt", FmtBody + WfxTail)
                                   \o fill_waveformatex_body(x, FMT_EXTENSIBLE)
                                   \o fill_waveformatextensible(x, WfxTail - 2)
    BY ForeignIs
  <2>2. ChunkHeader(k, "fmt", FmtBody + WfxTail)
         \o fill_waveformatex_body(x, FMT_EXTENSIBLE)
         \o fill_waveformatextensible(x, WfxTail - 2)
          \in Seq(Fields(WaveIds))
    BY <1>2, <1>3, <1>4, <1>5, JoinedFields
  <2> QED
    BY <2>1, <2>2
<1>9. ForeignChunk(k, "pcm18", x) \in Seq(Fields(WaveIds))
  <2>1. ForeignChunk(k, "pcm18", x) = ChunkHeader(k, "fmt", FmtBody + 2)
                                     \o fill_waveformatex_body(x, FMT_PCM) \o Num(0, 2)
    BY ForeignIs
  <2>2. ChunkHeader(k, "fmt", FmtBody + 2)
         \o fill_waveformatex_body(x, FMT_PCM) \o Num(0, 2)
          \in Seq(Fields(WaveIds))
    BY <1>2, <1>3, <1>4, <1>6, JoinedFields
  <2> QED
    BY <2>1, <2>2
<1>10. ForeignChunk(k, "ext42", x) \in Seq(Fields(WaveIds))
  <2>1. ForeignChunk(k, "ext42", x) = ChunkHeader(k, "fmt", FmtBody + WfxTail + 2)
                                     \o fill_waveformatex_body(x, FMT_EXTENSIBLE)
                                     \o fill_waveformatextensible(x, WfxTail) \o Raw(2)
    BY ForeignIs
  <2>2. ChunkHeader(k, "fmt", FmtBody + WfxTail + 2)
         \o fill_waveformatex_body(x, FMT_EXTENSIBLE)
         \o fill_waveformatextensible(x, WfxTail) \o Raw(2)
          \in Seq(Fields(WaveIds))
    BY <1>2, <1>3, <1>4, <1>5, <1>6, JoinedFields
  <2> QED
    BY <2>1, <2>2
<1> QED
  BY <1>7, <1>8, <1>9, <1>10 DEF FmtChunks

LEMMA ForeignFields ==
  ASSUME NEW k \in {"wav", "w64"}, NEW x \in Stats, NEW c \in ForeignChunks
  PROVE  ForeignChunk(k, c, x) \in Seq(Fields(WaveIds))
<1>1. CASE c \in {"list", "odd", "back"}
  BY <1>1, OtherChunkFields, FieldsWider
<1>2. CASE c \in FmtChunks
  BY <1>2, FmtChunkFields
<1> QED
  BY <1>1, <1>2 DEF ForeignChunks

\* The bytes up to a chunk are those up to the one before it, and the chunk.
LEMMA ForeignSteps ==
  ASSUME NEW k \in {"wav", "w64"}, NEW x \in Stats, NEW chunks \in Seq(ForeignChunks)
  PROVE  /\ ForeignUpTo(k, chunks, x)[0] = WaveHeader(k, U32MAX)
         /\ \A z \in 1..Len(chunks) :
              /\ ForeignUpTo(k, chunks, x)[z] = ForeignUpTo(k, chunks, x)[z - 1] \o ForeignChunk(k, chunks[z], x)
              /\ chunks[z] \in ForeignChunks
         /\ \A z \in 0..Len(chunks) : ForeignUpTo(k, chunks, x)[z] \in Seq(Fields(WaveIds))
         /\ Len(chunks) \in Nat
<1> DEFINE A == Seq(Fields(WaveIds))
           n == Len(chunks)
           w == WaveHeader(k, U32MAX)
           step == [z \in 1..n |-> [a \in A |-> a \o ForeignChunk(k, chunks[z], x)]]
           R(f) == f = [z \in 0..n |-> IF z = 0 THEN w ELSE f[z - 1] \o ForeignChunk(k, chunks[z], x)]
           up == CHOOSE f : R(f)
<1>1. n \in Nat /\ \A z \in 1..n : chunks[z] \in ForeignChunks
  BY LenProperties, ElementOfSeq
<1>2. w \in A
  BY WaveHeaderFields, U32Assumption
<1>3. \A z \in 1..n, a \in A : a \o ForeignChunk(k, chunks[z], x) \in A
  BY <1>1, ForeignFields, JoinedFields
<1>4. step \in [1..n -> [A -> A]]
  BY <1>3, Zenon
<1>5. \A z \in 1..n, a \in A : step[z][a] = a \o ForeignChunk(k, chunks[z], x)
  BY Zenon
<1> HIDE DEF A, w, step, n
<1>6. PICK f \in [0..n -> A] : f[0] = w /\ \A z \in 1..n : f[z] = step[z][f[z - 1]]
  <2>1. Iterates(A, w, n, step)
    BY <1>1, <1>2, <1>4, Recursion
  <2> QED
    BY <2>1 DEF Iterates
<1>7. R(f)
  <2>1. ASSUME NEW z \in 1..n PROVE f[z] = f[z - 1] \o ForeignChunk(k, chunks[z], x)
    <3>1. z - 1 \in 0..n
      BY <1>1
    <3>2. f[z - 1] \in A
      BY <3>1
    <3> QED
      BY <1>5, <1>6, <3>2
  <2>2. ASSUME NEW z \in 0..n
        PROVE  f[z] = IF z = 0 THEN w ELSE f[z - 1] \o ForeignChunk(k, chunks[z], x)
    <3>1. CASE z = 0
      BY <1>6, <3>1
    <3>2. CASE z # 0
      <4>1. z \in 1..n
        BY <1>1, <3>2
      <4> QED
        BY <2>1, <3>2, <4>1
    <3> QED
      BY <3>1, <3>2
  <2> QED
    BY <2>2
<1>8. R(up)
  BY <1>7, Zenon
<1>9. ForeignUpTo(k, chunks, x) = up
  BY Zenon DEF ForeignUpTo, n, w
<1> HIDE DEF up
<1>10. up[0] = w /\ \A z \in 1..n : up[z] = up[z - 1] \o ForeignChunk(k, chunks[z], x)
  <2>1. \A z \in 0..n : up[z] = IF z = 0 THEN w ELSE up[z - 1] \o ForeignChunk(k, chunks[z], x)
    BY <1>8, Zenon
  <2>2. 0 \in 0..n /\ \A z \in 1..n : z \in 0..n /\ z # 0
    BY <1>1
  <2> QED
    BY <2>1, <2>2, Zenon
<1> DEFINE T == {z \in Nat : z <= n => up[z] \in A}
<1>11. 0 \in T
  BY <1>2, <1>10
<1>12. ASSUME NEW z \in Nat, z \in T PROVE z + 1 \in T
  <2> SUFFICES ASSUME z + 1 <= n PROVE up[z + 1] \in A
    OBVIOUS
  <2>1. z + 1 \in 1..n /\ (z + 1) - 1 = z /\ z <= n
    BY <1>1
  <2>2. up[z + 1] = up[z] \o ForeignChunk(k, chunks[z + 1], x)
    BY <1>10, <2>1
  <2> QED
    BY <1>3, <1>12, <2>1, <2>2
<1> HIDE DEF T
<1>13. Nat \subseteq T
  BY <1>11, <1>12, Induction
<1>14. \A z \in 0..n : up[z] \in A
  BY <1>1, <1>13 DEF T
<1> QED
  BY <1>1, <1>9, <1>10, <1>14 DEF A, n, w

-----------------------------------------------------------------------------
(* The fmt chunks of a file *)

LEMMA FmtAtWithin ==
  ASSUME NEW a \in Seq(Cell), NEW b \in Seq(Cell), NEW p \in Nat, NEW n \in Nat, NEW v \in Nat
  PROVE  /\ FmtAt(a, p, n, v) => FmtAt(a \o b, p, n, v)
         /\ FmtAt(b, p, n, v) => FmtAt(a \o b, Len(a) + p, n, v)
<1>1. /\ Len(a \o b) = Len(a) + Len(b) /\ Len(a) \in Nat /\ Len(b) \in Nat
  BY Joined
<1>2. HeaderOf(n) \in Nat /\ FmtBody \in Nat
  BY DEF HeaderOf, FmtBody
<1>3. /\ p + HeaderOf(n) \in Nat /\ p + HeaderOf(n) + FmtBody \in Nat
      /\ Len(a) + (p + HeaderOf(n)) = Len(a) + p + HeaderOf(n)
      /\ Len(a) + (p + HeaderOf(n) + FmtBody) = Len(a) + p + HeaderOf(n) + FmtBody
  BY <1>1, <1>2
<1>4. ASSUME NEW w \in Nat PROVE Len(Num(w, 2)) \in Nat
  BY NumIs
<1>5. WfxTail \in Nat /\ WfxTail - 2 \in Nat
  BY DEF WfxTail
<1>6. ASSUME FmtAt(a, p, n, v) PROVE FmtAt(a \o b, p, n, v)
  <2>1. p + HeaderOf(n) + FmtBody <= Len(a \o b)
    BY <1>1, <1>2, <1>6 DEF FmtAt
  <2>2. Has(a \o b, p + HeaderOf(n), Num(v, 2))
    BY <1>3, <1>4, <1>6, HasWithin DEF FmtAt
  <2>3. ASSUME v = FMT_EXTENSIBLE
        PROVE  \E size \in {WfxTail - 2, WfxTail} : Has(a \o b, p + HeaderOf(n) + FmtBody, Num(size, 2))
    <3>1. PICK size \in {WfxTail - 2, WfxTail} : Has(a, p + HeaderOf(n) + FmtBody, Num(size, 2))
      BY <1>6, <2>3 DEF FmtAt
    <3>2. Has(a \o b, p + HeaderOf(n) + FmtBody, Num(size, 2))
      BY <1>3, <1>4, <1>5, <3>1, HasWithin
    <3> QED
      BY <3>2
  <2> QED
    BY <2>1, <2>2, <2>3 DEF FmtAt
<1>7. ASSUME FmtAt(b, p, n, v) PROVE FmtAt(a \o b, Len(a) + p, n, v)
  <2>1. Len(a) + p + HeaderOf(n) + FmtBody <= Len(a \o b)
    BY <1>1, <1>2, <1>7 DEF FmtAt
  <2>2. Has(a \o b, Len(a) + p + HeaderOf(n), Num(v, 2))
    <3>1. Has(a \o b, Len(a) + (p + HeaderOf(n)), Num(v, 2))
      BY <1>3, <1>4, <1>7, HasWithin DEF FmtAt
    <3> QED
      BY <1>3, <3>1
  <2>3. ASSUME v = FMT_EXTENSIBLE
        PROVE  \E size \in {WfxTail - 2, WfxTail} :
                 Has(a \o b, Len(a) + p + HeaderOf(n) + FmtBody, Num(size, 2))
    <3>1. PICK size \in {WfxTail - 2, WfxTail} : Has(b, p + HeaderOf(n) + FmtBody, Num(size, 2))
      BY <1>7, <2>3 DEF FmtAt
    <3>2. Has(a \o b, Len(a) + (p + HeaderOf(n) + FmtBody), Num(size, 2))
      BY <1>3, <1>4, <1>5, <3>1, HasWithin
    <3> QED
      BY <1>3, <3>2
  <2> QED
    BY <2>1, <2>2, <2>3 DEF FmtAt
<1> QED
  BY <1>6, <1>7

LEMMA FmtJoined ==
  ASSUME NEW a \in Seq(Cell), NEW b \in Seq(Cell), NEW V \in SUBSET Nat,
         FmtChunksIn(a, V), FmtChunksIn(b, V)
  PROVE  FmtChunksIn(a \o b, V)
<1> DEFINE f == a \o b
<1>1. /\ f \in Seq(Cell) /\ Len(f) = Len(a) + Len(b) /\ Len(a) \in Nat /\ Len(b) \in Nat
      /\ \A z \in 1..Len(a) : f[z] = a[z]
      /\ \A z \in 1..Len(b) : f[Len(a) + z] = b[z]
  BY Joined
<1> HIDE DEF f
<1>2. SUFFICES ASSUME NEW z \in 1..Len(f), f[z][1] = "id", f[z][2] = "fmt", f[z][3] = 1
               PROVE  \E v \in V : FmtAt(f, z - 1, f[z][4], v)
  BY DEF FmtChunksIn, f
<1>3. f[z] \in Cell /\ f[z][4] \in Nat
  <2>1. f[z] \in Cell
    BY <1>1, <1>2, ElementOfSeq
  <2>2. f[z] \in PlainCell
    BY <1>2, <2>1 DEF Cell
  <2> QED
    BY <2>1, <2>2 DEF PlainCell
<1>4. CASE z <= Len(a)
  <2>1. z \in 1..Len(a) /\ a[z] = f[z] /\ z - 1 \in Nat
    BY <1>1, <1>4
  <2>2. PICK v \in V : FmtAt(a, z - 1, f[z][4], v)
    BY <1>2, <2>1 DEF FmtChunksIn
  <2> QED
    BY <1>3, <2>1, <2>2, FmtAtWithin DEF f
<1>5. CASE z > Len(a)
  <2> DEFINE j == z - Len(a)
  <2>1. j \in 1..Len(b) /\ j - 1 \in Nat /\ Len(a) + j = z /\ Len(a) + (j - 1) = z - 1
    BY <1>1, <1>5
  <2> HIDE DEF j
  <2>2. b[j] = f[z]
    BY <1>1, <2>1
  <2>3. PICK v \in V : FmtAt(b, j - 1, f[z][4], v)
    BY <1>2, <2>1, <2>2 DEF FmtChunksIn
  <2>4. FmtAt(f, Len(a) + (j - 1), f[z][4], v)
    BY <1>3, <2>1, <2>3, FmtAtWithin DEF f
  <2> QED
    BY <2>1, <2>4
<1>6. z <= Len(a) \/ z > Len(a)
  BY <1>1
<1> QED
  BY <1>4, <1>5, <1>6

\* Where no id of a fmt chunk is there is nothing to say.
LEMMA FmtNone ==
  ASSUME NEW f \in Seq(Headed(Ids \ {"fmt"})), NEW V
  PROVE  FmtChunksIn(f, V)
<1>1. Free(f, "fmt")
  BY HeadedFree
<1> QED
  BY <1>1 DEF Free, FmtChunksIn

\* The fields of the first struct of a fmt chunk.
LEMMA BodyIs ==
  ASSUME NEW x \in Stats, NEW v \in Nat
  PROVE  /\ fill_waveformatex_body(x, v) \in Seq(Cell) /\ Len(fill_waveformatex_body(x, v)) = 16
         /\ Has(fill_waveformatex_body(x, v), 0, Num(v, 2))
         /\ Has(fill_waveformatex_body(x, v), 2, Num(x.nchan, 2))
         /\ Has(fill_waveformatex_body(x, v), 4, Num(x.samplerate, 4))
         /\ Has(fill_waveformatex_body(x, v), 14, Num(x.samplebits, 2))
<1> DEFINE t0 == Num(v, 2)
           t1 == Num(x.nchan, 2)
           t2 == Num(x.samplerate, 4)
           t3 == Num((x.samplerate * x.nchan * samplebytes(x)) % (U32MAX + 1), 4)
           t4 == Num(x.nchan * samplebytes(x), 2)
           t5 == Num(x.samplebits, 2)
           f  == fill_waveformatex_body(x, v)
<1>1. f = t0 \o t1 \o t2 \o t3 \o t4 \o t5
  BY DEF fill_waveformatex_body
<1>2. /\ t0 \in Seq(Cell) /\ Len(t0) = 2 /\ t1 \in Seq(Cell) /\ Len(t1) = 2
      /\ t2 \in Seq(Cell) /\ Len(t2) = 4 /\ t3 \in Seq(Cell) /\ Len(t3) = 4
      /\ t4 \in Seq(Cell) /\ Len(t4) = 2 /\ t5 \in Seq(Cell) /\ Len(t5) = 2
  <2>0. 0 \in Nat
    OBVIOUS
  <2>1. /\ (x.samplerate * x.nchan * samplebytes(x)) % (U32MAX + 1) \in Nat
        /\ x.nchan * samplebytes(x) \in Nat
        /\ x.nchan \in Nat /\ x.samplebits \in Nat /\ x.samplerate \in Nat
    BY <2>0, SizesAre
  <2> QED
    BY <2>1, NumIs
<1> HIDE DEF t0, t1, t2, t3, t4, t5, f
<1> DEFINE u1 == t0 \o t1
           u2 == u1 \o t2
           u3 == u2 \o t3
           u4 == u3 \o t4
<1>3. u1 \in Seq(Cell) /\ Len(u1) = Len(t0) + Len(t1)
  BY <1>2, JoinedLen
<1> HIDE DEF u1
<1>4. u2 \in Seq(Cell) /\ Len(u2) = Len(u1) + Len(t2)
  BY <1>2, <1>3, JoinedLen
<1> HIDE DEF u2
<1>5. u3 \in Seq(Cell) /\ Len(u3) = Len(u2) + Len(t3)
  BY <1>2, <1>4, JoinedLen
<1> HIDE DEF u3
<1>6. u4 \in Seq(Cell) /\ Len(u4) = Len(u3) + Len(t4)
  BY <1>2, <1>5, JoinedLen
<1> HIDE DEF u4
<1>7. f = u4 \o t5
  BY <1>1 DEF u1, u2, u3, u4
<1>8. f \in Seq(Cell) /\ Len(f) = Len(u4) + Len(t5)
  BY <1>2, <1>6, <1>7, JoinedLen
<1>9. Len(u1) = 4 /\ Len(u4) = 14 /\ Len(f) = 16
  BY <1>2, <1>3, <1>4, <1>5, <1>6, <1>8
<1>10. Has(f, 0, u4) /\ Has(f, 14, t5)
  <2>1. Has(f, 0, u4 \o t5)
    BY <1>7, <1>8, HasAll
  <2>2. Has(f, 0, u4) /\ Has(f, 0 + Len(u4), t5)
    BY <1>2, <1>6, <1>8, <2>1, HasParts
  <2>3. 0 + Len(u4) = 14
    BY <1>9
  <2> QED
    BY <2>2, <2>3
<1>11. Has(f, 0, u3)
  BY <1>2, <1>5, <1>8, <1>10, HasParts DEF u4
<1>12. Has(f, 0, u2)
  BY <1>2, <1>4, <1>8, <1>11, HasParts DEF u3
<1>13. Has(f, 0, u1) /\ Has(f, 4, t2)
  <2>1. Has(f, 0, u1) /\ Has(f, 0 + Len(u1), t2)
    BY <1>2, <1>3, <1>8, <1>12, HasParts DEF u2
  <2>2. 0 + Len(u1) = 4
    BY <1>9
  <2> QED
    BY <2>1, <2>2
<1>14. Has(f, 0, t0) /\ Has(f, 2, t1)
  <2>1. Has(f, 0, t0) /\ Has(f, 0 + Len(t0), t1)
    BY <1>2, <1>8, <1>13, HasParts DEF u1
  <2>2. 0 + Len(t0) = 2
    BY <1>2
  <2> QED
    BY <2>1, <2>2
<1> QED
  BY <1>8, <1>9, <1>10, <1>13, <1>14 DEF t0, t1, t2, t5, f

\* The header of a chunk.
LEMMA ChunkHeaderIs ==
  ASSUME NEW k \in {"wav", "w64"}, NEW s \in Ids, NEW n \in Nat
  PROVE  /\ ChunkHeader(k, s, n) \in Seq(Cell) /\ Len(ChunkHeader(k, s, n)) = RiffHeader(k)
         /\ Has(ChunkHeader(k, s, n), 0, Id(s, idlen(k)))
         /\ Has(ChunkHeader(k, s, n), idlen(k), Num(SizeField(k, n), RiffHeader(k) - idlen(k)))
<1> DEFINE f == ChunkHeader(k, s, n)
           a == Id(s, idlen(k))
           b == Num(SizeField(k, n), RiffHeader(k) - idlen(k))
           m == RiffHeader(k) - idlen(k)
<1>1. f = a \o b /\ SizeField(k, n) \in Nat
  <2>1. s \in {s}
    OBVIOUS
  <2> QED
    BY <2>1, ChunkHeaderFields
<1>2. idlen(k) \in Nat /\ m \in Nat /\ idlen(k) + m = RiffHeader(k)
  BY DEF idlen, RiffHeader
<1>3. a \in Seq(Cell) /\ Len(a) = idlen(k) /\ b \in Seq(Cell) /\ Len(b) = m
  BY <1>1, <1>2, IdIs, NumIs
<1> HIDE DEF f, a, b, m
<1>4. f \in Seq(Cell) /\ Len(f) = Len(a) + Len(b)
  BY <1>1, <1>3, JoinedLen
<1>5. Has(f, 0, a \o b)
  BY <1>1, <1>4, HasAll
<1>6. Has(f, 0, a) /\ Has(f, 0 + Len(a), b)
  BY <1>3, <1>4, <1>5, HasParts
<1>7. 0 + Len(a) = idlen(k)
  BY <1>2, <1>3
<1> QED
  BY <1>2, <1>3, <1>4, <1>6, <1>7 DEF f, a, b, m

\* A fmt chunk, with the struct of an extensible format behind it.
LEMMA FmtChunk ==
  ASSUME NEW k \in {"wav", "w64"}, NEW n \in Nat, NEW x \in Stats, NEW v \in Nat,
         NEW rest \in Seq(Headed(Ids \ {"fmt"})),
         v = FMT_EXTENSIBLE => \E size \in {WfxTail - 2, WfxTail} : Has(rest, 0, Num(size, 2))
  PROVE  FmtChunksIn(ChunkHeader(k, "fmt", n) \o fill_waveformatex_body(x, v) \o rest, {v})
<1> DEFINE h  == ChunkHeader(k, "fmt", n)
           b  == fill_waveformatex_body(x, v)
           f  == h \o b \o rest
           il == idlen(k)
           hl == RiffHeader(k)
           nl == hl - il
           id == Id("fmt", il)
           no == Num(SizeField(k, n), nl)
<1>1. il \in Nat \ {0} /\ nl \in Nat /\ hl = il + nl /\ HeaderOf(il) = hl /\ hl \in Nat
  BY DEF idlen, RiffHeader, HeaderOf
<1>2. h \in Seq(Cell) /\ Len(h) = hl
  BY IdsAre, ChunkHeaderIs
<1>2a. h = id \o no /\ SizeField(k, n) \in Nat
  <2>1. "fmt" \in {"fmt"}
    OBVIOUS
  <2> QED
    BY <2>1, IdsAre, ChunkHeaderFields
<1>3. b \in Seq(Cell) /\ Len(b) = 16 /\ Has(b, 0, Num(v, 2)) /\ b \in Seq(Fields({}))
  BY BodyIs, BodyFields
<1>4. rest \in Seq(Cell)
  BY FieldsWider
<1>5. /\ id \in Seq(Cell) /\ Len(id) = il /\ \A j \in 1..il : id[j] = <<"id", "fmt", j, il>>
      /\ no \in Seq(Cell) /\ Len(no) = nl /\ \A j \in 1..nl : no[j] = <<"num", SizeField(k, n), j, nl>>
  BY <1>1, <1>2a, IdsAre, IdIs, NumIs
<1> HIDE DEF h, b, f, il, hl, nl, id, no
<1>6. /\ f \in Seq(Cell) /\ Len(f) = Len(h) + Len(b) + Len(rest) /\ Len(rest) \in Nat
      /\ Len(h) \in Nat /\ Len(b) \in Nat
      /\ \A z \in 1..Len(h) : f[z] = h[z]
      /\ \A z \in 1..Len(b) : f[Len(h) + z] = b[z]
      /\ \A z \in 1..Len(rest) : f[Len(h) + Len(b) + z] = rest[z]
  <2>1. f = h \o b \o rest
    BY DEF f
  <2> QED
    <3>1. h \in Seq(Cell) /\ b \in Seq(Cell) /\ rest \in Seq(Cell)
      BY <1>2, <1>3, <1>4
    <3> QED
      BY <2>1, <3>1, ThreeParts
<1>7. /\ \A z \in 1..Len(id) : h[z] = id[z]
      /\ \A z \in 1..Len(no) : h[Len(id) + z] = no[z]
  BY <1>2a, <1>5, Joined
<1>8. SUFFICES FmtChunksIn(f, {v})
  BY Zenon DEF f, h, b
<1>9. SUFFICES ASSUME NEW z \in 1..Len(f), f[z][1] = "id", f[z][2] = "fmt", f[z][3] = 1
               PROVE  FmtAt(f, z - 1, f[z][4], v)
  BY DEF FmtChunksIn
<1>10. z <= Len(h)
  <2>1. ASSUME NEW j \in 1..Len(b), z = Len(h) + j PROVE FALSE
    <3>1. b[j] \in Fields({})
      BY <1>3, ElementOfSeq
    <3>2. b[j] = f[z]
      BY <1>6, <2>1
    <3> QED
      BY <1>9, <3>1, <3>2 DEF Fields
  <2>2. ASSUME NEW j \in 1..Len(rest), z = Len(h) + Len(b) + j PROVE FALSE
    <3>1. Free(rest, "fmt")
      BY HeadedFree
    <3>2. rest[j] = f[z]
      BY <1>6, <2>2
    <3> QED
      BY <1>9, <3>1, <3>2 DEF Free
  <2>3. ASSUME NEW a \in Nat, NEW c \in Nat, NEW e \in Nat, NEW l \in 1..(a + c + e), l > a
        PROVE  (\E j \in 1..c : l = a + j) \/ (\E j \in 1..e : l = a + c + j)
    <3>1. CASE l <= a + c
      <4>1. l - a \in 1..c /\ l = a + (l - a)
        BY <2>3, <3>1
      <4> QED
        BY <4>1
    <3>2. CASE l > a + c
      <4>1. l - (a + c) \in 1..e /\ l = a + c + (l - (a + c))
        BY <2>3, <3>2
      <4> QED
        BY <4>1
    <3> QED
      BY <3>1, <3>2
  <2>4. SUFFICES ASSUME z > Len(h) PROVE FALSE
    BY <1>6
  <2>5. z \in 1..(Len(h) + Len(b) + Len(rest))
    BY <1>6
  <2>6. (\E j \in 1..Len(b) : z = Len(h) + j) \/ (\E j \in 1..Len(rest) : z = Len(h) + Len(b) + j)
    BY <1>6, <2>3, <2>4, <2>5, Zenon
  <2> QED
    BY <2>1, <2>2, <2>6
<1>11. f[z] = <<"id", "fmt", z, il>>
  <2>1. z \in 1..Len(h) /\ f[z] = h[z]
    BY <1>6, <1>10
  <2>2. CASE z <= il
    <3>1. z \in 1..il
      BY <1>1, <2>2
    <3> QED
      BY <1>5, <1>7, <2>1, <3>1
  <2>3. CASE z > il
    <3> DEFINE j == z - il
    <3>1. j \in 1..nl /\ z = il + j
      BY <1>1, <1>2, <2>1, <2>3
    <3> HIDE DEF j
    <3>2. f[z] = <<"num", SizeField(k, n), j, nl>>
      BY <1>5, <1>7, <2>1, <3>1
    <3> QED
      BY <1>9, <3>2
  <2> QED
    BY <1>1, <2>2, <2>3
<1>12. z = 1 /\ f[z][4] = il
  BY <1>9, <1>11
<1>13. FmtAt(f, 0, il, v)
  <2> DEFINE u == h \o b
             num == Num(v, 2)
  <2>1. u \in Seq(Cell) /\ Len(u) = Len(h) + Len(b) /\ f = u \o rest
    BY <1>2, <1>3, JoinedLen DEF f
  <2>2. Len(num) \in Nat
    BY NumIs
  <2> HIDE DEF u, num
  <2>3. 0 \in Nat /\ Len(h) + 0 = hl /\ Len(u) + 0 = hl + 16 /\ hl + 16 \in Nat /\ 0 + hl = hl
    BY <1>1, <1>2, <1>3, <2>1
  <2>4. Has(f, hl, num)
    <3>1. Has(u, Len(h) + 0, num)
      BY <1>2, <1>3, <2>2, <2>3, HasWithin DEF u, num
    <3> QED
      BY <1>1, <1>4, <2>1, <2>2, <2>3, <3>1, HasWithin
  <2>5. ASSUME v = FMT_EXTENSIBLE
        PROVE  \E size \in {WfxTail - 2, WfxTail} : Has(f, hl + 16, Num(size, 2))
    <3>1. PICK size \in {WfxTail - 2, WfxTail} : Has(rest, 0, Num(size, 2))
      BY <2>5
    <3>2. size \in Nat
      BY DEF WfxTail
    <3>3. Len(Num(size, 2)) \in Nat
      BY <3>2, NumIs
    <3>4. Has(f, Len(u) + 0, Num(size, 2))
      BY <1>4, <2>1, <2>3, <3>1, <3>3, HasWithin
    <3> QED
      BY <2>3, <3>4
  <2>6. hl + 16 <= Len(f)
    BY <1>1, <1>2, <1>3, <1>6
  <2> QED
    BY <1>1, <2>3, <2>4, <2>5, <2>6 DEF FmtAt, FmtBody, num
<1>14. z - 1 = 0
  BY <1>12
<1> QED
  BY <1>12, <1>13, <1>14

LEMMA FmtWider ==
  ASSUME NEW f, NEW V, NEW W, V \subseteq W, FmtChunksIn(f, V)
  PROVE  FmtChunksIn(f, W)
  BY DEF FmtChunksIn

\* The struct of an extensible format, its size first.
LEMMA TailIs ==
  ASSUME NEW x \in Stats, NEW n \in Nat
  PROVE  /\ fill_waveformatextensible(x, n) \in Seq(Fields(Ids \ {"fmt"}))
         /\ fill_waveformatextensible(x, n) \in Seq(Cell)
         /\ Len(fill_waveformatextensible(x, n)) = 24
         /\ Has(fill_waveformatextensible(x, n), 0, Num(n, 2))
         /\ Has(fill_waveformatextensible(x, n), 8, Id("PCM", 16))
<1> DEFINE a == Num(n, 2)
           b == Num(x.samplebits, 2)
           c == Num(0, 4)
           d == Id("PCM", 16)
           u == a \o b
           w == u \o c
           f == w \o d
<1>1. f = fill_waveformatextensible(x, n)
  BY DEF fill_waveformatextensible
<1>2. "PCM" \in Ids \ {"fmt"}
  BY IdsAre
<1>3. f \in Seq(Fields(Ids \ {"fmt"}))
  BY <1>1, <1>2, TailFields
<1>4. /\ a \in Seq(Cell) /\ Len(a) = 2 /\ b \in Seq(Cell) /\ Len(b) = 2
      /\ c \in Seq(Cell) /\ Len(c) = 4 /\ d \in Seq(Cell) /\ Len(d) = 16
  <2>1. x.samplebits \in Nat
    BY DEF Stats
  <2> QED
    BY <2>1, IdsAre, NumIs, IdIs
<1> HIDE DEF a, b, c, d
<1>5. u \in Seq(Cell) /\ Len(u) = Len(a) + Len(b)
  BY <1>4, JoinedLen
<1> HIDE DEF u
<1>6. w \in Seq(Cell) /\ Len(w) = Len(u) + Len(c)
  BY <1>4, <1>5, JoinedLen
<1> HIDE DEF w
<1>7. f \in Seq(Cell) /\ Len(f) = Len(w) + Len(d)
  BY <1>4, <1>6, JoinedLen
<1>8. Len(w) = 8 /\ Len(f) = 24 /\ 0 + Len(w) = 8
  BY <1>4, <1>5, <1>6, <1>7
<1>9. Has(f, 0, f)
  BY <1>7, HasAll
<1>10. Has(f, 0, w) /\ Has(f, 0 + Len(w), d)
  BY <1>4, <1>6, <1>7, <1>9, HasParts
<1> HIDE DEF f
<1>11. Has(f, 0, u)
  BY <1>4, <1>5, <1>7, <1>10, HasParts DEF w
<1>12. Has(f, 0, a)
  BY <1>4, <1>7, <1>11, HasParts DEF u
<1> QED
  BY <1>1, <1>3, <1>7, <1>8, <1>10, <1>12 DEF a, d

\* The formats of the files: PCM, floats, and extensible.
Formats == {FMT_PCM, 3, FMT_EXTENSIBLE}

LEMMA FmtPlain ==
  ASSUME NEW k \in {"wav", "w64"}, NEW n \in Nat, NEW x \in Stats, NEW v \in {FMT_PCM, 3}
  PROVE  FmtChunksIn(ChunkHeader(k, "fmt", n) \o fill_waveformatex_body(x, v), {v})
<1> DEFINE f == ChunkHeader(k, "fmt", n) \o fill_waveformatex_body(x, v)
<1>1. v \in Nat /\ v # FMT_EXTENSIBLE
  BY DEF FMT_PCM, FMT_EXTENSIBLE
<1>2. f \in Seq(Cell)
  <2>1. ChunkHeader(k, "fmt", n) \in Seq(Cell)
    BY IdsAre, ChunkHeaderIs
  <2>2. fill_waveformatex_body(x, v) \in Seq(Cell)
    BY <1>1, BodyIs
  <2> QED
    BY <2>1, <2>2, JoinedLen
<1>3. f \o <<>> = f
  BY <1>2, ConcatEmptySeq
<1>4. <<>> \in Seq(Headed(Ids \ {"fmt"}))
  BY EmptySeq
<1>5. FmtChunksIn(f \o <<>>, {v})
  BY <1>1, <1>4, FmtChunk
<1> QED
  BY <1>3, <1>5

LEMMA FmtExtensible ==
  ASSUME NEW k \in {"wav", "w64"}, NEW n \in Nat, NEW x \in Stats, NEW size \in {WfxTail - 2, WfxTail}
  PROVE  FmtChunksIn(ChunkHeader(k, "fmt", n) \o fill_waveformatex_body(x, FMT_EXTENSIBLE)
                       \o fill_waveformatextensible(x, size), {FMT_EXTENSIBLE})
<1>1. size \in Nat /\ FMT_EXTENSIBLE \in Nat
  BY DEF WfxTail, FMT_EXTENSIBLE
<1>2. /\ fill_waveformatextensible(x, size) \in Seq(Fields(Ids \ {"fmt"}))
      /\ Has(fill_waveformatextensible(x, size), 0, Num(size, 2))
  BY <1>1, TailIs
<1>3. fill_waveformatextensible(x, size) \in Seq(Headed(Ids \ {"fmt"}))
  BY <1>2, FieldsWider
<1> QED
  BY <1>1, <1>2, <1>3, FmtChunk

LEMMA FmtFloat ==
  ASSUME NEW k \in {"wav", "w64"}, NEW x \in Stats
  PROVE  FmtChunksIn(ForeignChunk(k, "float", x), {3})
<1>1. FmtChunksIn(ChunkHeader(k, "fmt", FmtBody) \o fill_waveformatex_body(x, 3), {3})
  BY FmtPlain DEF FmtBody
<1> QED
  BY <1>1, ForeignIs

-----------------------------------------------------------------------------
(* The files *)

LEMMA SourceIs ==
  ASSUME NEW x \in Sources
  PROVE  /\ x.stat \in Stats /\ x.size \in Nat
         /\ x.tag \in {"none", "ape", "apes", "id3"}
         /\ x.format \in {"wav", "w64", "tta1"}
         /\ x.state \in {"whole", "unfinished", "damaged"}
         /\ x.maker = "own" \/ x.maker = "foreign"
         /\ x.maker = "foreign" =>
              /\ x.format \in {"wav", "w64"} /\ x.state = "whole" /\ x.chunks \in Seq(ForeignChunks)
              /\ \A z, j \in DOMAIN x.chunks :
                   x.chunks[z] = "float" /\ x.chunks[j] \in FmtChunks => z = j
         /\ x.state = "damaged" => x.format = "tta1" /\ x.at \in 1..TTA1Header
<1>1. IsSource(x)
  BY SourcesAssumption
<1>2. \A t : ChunksIn(t) \subseteq ForeignChunks
  BY DEF ChunksIn, ForeignChunks, FmtChunks
<1>3. \A t : x.chunks \in Seq(ChunksIn(t)) => x.chunks \in Seq(ForeignChunks)
  BY <1>2, SeqWider
<1> QED
  BY <1>1, <1>3, Zenon DEF IsSource

LEMMA HeadIs ==
  ASSUME NEW x \in Sources
  PROVE  /\ x.maker = "foreign" =>
              HeadOf(x) = ForeignUpTo(x.format, x.chunks, x.stat)[Len(x.chunks)] \o ChunkHeader(x.format, "data", x.size)
         /\ x.maker = "own" /\ x.format = "wav"  => HeadOf(x) = write_wav_header(x.stat, x.size)
         /\ x.maker = "own" /\ x.format = "w64"  => HeadOf(x) = write_w64_header(x.stat, x.size)
         /\ x.maker = "own" /\ x.format = "tta1" => HeadOf(x) = write_tta1_header(x.stat, x.size)
<1>1. ASSUME x.maker = "foreign"
      PROVE  HeadOf(x) = ForeignUpTo(x.format, x.chunks, x.stat)[Len(x.chunks)] \o ChunkHeader(x.format, "data", x.size)
  BY <1>1, Zenon DEF HeadOf, ForeignHead
<1>2. ASSUME x.maker = "own", x.format = "wav" PROVE HeadOf(x) = write_wav_header(x.stat, x.size)
  BY <1>2, Zenon DEF HeadOf
<1>3. ASSUME x.maker = "own", x.format = "w64" PROVE HeadOf(x) = write_w64_header(x.stat, x.size)
  BY <1>3, Zenon DEF HeadOf
<1>4. ASSUME x.maker = "own", x.format = "tta1" PROVE HeadOf(x) = write_tta1_header(x.stat, x.size)
  BY <1>4, Zenon DEF HeadOf
<1> QED
  BY <1>1, <1>2, <1>3, <1>4

LEMMA HeadFields ==
  ASSUME NEW x \in Sources
  PROVE  /\ x.format # "tta1" => HeadOf(x) \in Seq(Fields(WaveIds))
         /\ x.format = "tta1" => HeadOf(x) \in Seq(Headed({"TTA1"})) /\ Len(HeadOf(x)) = TTA1Header
         /\ HeadOf(x) \in Seq(Headed(Ids))
<1>1. /\ x.stat \in Stats /\ x.size \in Nat /\ x.format \in {"wav", "w64", "tta1"}
      /\ x.maker = "own" \/ x.maker = "foreign"
      /\ x.maker = "foreign" => x.format \in {"wav", "w64"} /\ x.chunks \in Seq(ForeignChunks)
  BY SourceIs
<1>2. WaveIds \subseteq Ids /\ {"TTA1"} \subseteq Ids
  BY DEF Ids
<1>3. CASE x.maker = "foreign"
  <2> DEFINE up == ForeignUpTo(x.format, x.chunks, x.stat)[Len(x.chunks)]
             d  == ChunkHeader(x.format, "data", x.size)
  <2>1. up \in Seq(Fields(WaveIds))
    <3>1. /\ Len(x.chunks) \in Nat
          /\ \A z \in 0..Len(x.chunks) : ForeignUpTo(x.format, x.chunks, x.stat)[z] \in Seq(Fields(WaveIds))
      BY <1>1, <1>3, ForeignSteps
    <3>2. Len(x.chunks) \in 0..Len(x.chunks)
      BY <3>1
    <3> QED
      BY <3>1, <3>2
  <2>2. d \in Seq(Fields(WaveIds))
    <3>1. "data" \in WaveIds /\ "data" \in Ids /\ x.format \in {"wav", "w64"}
      BY <1>1, <1>3, IdsAre
    <3> QED
      BY <1>1, <3>1, ChunkHeaderFields
  <2>3. HeadOf(x) = up \o d
    BY <1>3, HeadIs
  <2> HIDE DEF up, d
  <2>4. HeadOf(x) \in Seq(Fields(WaveIds))
    BY <2>1, <2>2, <2>3, JoinedFields
  <2> QED
    BY <1>1, <1>2, <1>3, <2>4, FieldsWider
<1>4. CASE x.maker = "own" /\ x.format = "wav"
  <2>1. HeadOf(x) \in Seq(Fields(WaveIds))
    BY <1>1, <1>4, HeadIs, WavFields
  <2> QED
    BY <1>2, <1>4, <2>1, FieldsWider
<1>5. CASE x.maker = "own" /\ x.format = "w64"
  <2>1. HeadOf(x) \in Seq(Fields(WaveIds))
    BY <1>1, <1>5, HeadIs, W64Fields
  <2> QED
    BY <1>2, <1>5, <2>1, FieldsWider
<1>6. CASE x.maker = "own" /\ x.format = "tta1"
  <2>1. HeadOf(x) \in Seq(Headed({"TTA1"})) /\ Len(HeadOf(x)) = TTA1Header
    BY <1>1, <1>6, HeadIs, TTA1Fields
  <2> QED
    BY <1>2, <1>6, <2>1, FieldsWider
<1> QED
  BY <1>1, <1>3, <1>4, <1>5, <1>6

\* What is stored of a header.
KeptHeader(x) ==
  CASE x.state = "whole"      -> HeadOf(x)
    [] x.state = "unfinished" -> Zero(Len(HeadOf(x)))
    [] x.state = "damaged"    -> [HeadOf(x) EXCEPT ![x.at] = <<"raw", 1, 1, 1>>]

LEMMA KeptIs ==
  ASSUME NEW x
  PROVE  /\ x.state = "whole"      => KeptHeader(x) = HeadOf(x)
         /\ x.state = "unfinished" => KeptHeader(x) = Zero(Len(HeadOf(x)))
         /\ x.state = "damaged"    => KeptHeader(x) = [HeadOf(x) EXCEPT ![x.at] = <<"raw", 1, 1, 1>>]
         /\ Image(x) = TagBytes(x.tag) \o KeptHeader(x) \o Raw(x.size)
<1>1. ASSUME x.state = "whole" PROVE KeptHeader(x) = HeadOf(x)
  BY <1>1, Zenon DEF KeptHeader
<1>2. ASSUME x.state = "unfinished" PROVE KeptHeader(x) = Zero(Len(HeadOf(x)))
  BY <1>2, Zenon DEF KeptHeader
<1>3. ASSUME x.state = "damaged" PROVE KeptHeader(x) = [HeadOf(x) EXCEPT ![x.at] = <<"raw", 1, 1, 1>>]
  BY <1>3, Zenon DEF KeptHeader
<1>4. Image(x) = TagBytes(x.tag) \o KeptHeader(x) \o Raw(x.size)
  BY Zenon DEF Image, KeptHeader
<1> QED
  BY <1>1, <1>2, <1>3, <1>4

LEMMA DamagedHead ==
  ASSUME NEW x \in Sources, x.state = "damaged"
  PROVE  /\ KeptHeader(x) \in Seq(Headed({"TTA1"})) /\ Len(KeptHeader(x)) = TTA1Header
         /\ KeptHeader(x)[x.at] = <<"raw", 1, 1, 1>>
         /\ \A z \in 1..TTA1Header : z # x.at => KeptHeader(x)[z] = HeadOf(x)[z]
<1> DEFINE h == HeadOf(x)
           c == <<"raw", 1, 1, 1>>
           d == [h EXCEPT ![x.at] = c]
<1>1. KeptHeader(x) = d /\ h \in Seq(Headed({"TTA1"})) /\ Len(h) = TTA1Header /\ x.at \in 1..TTA1Header
  BY SourceIs, HeadFields, KeptIs
<1>2. c \in Headed({"TTA1"})
  BY DEF Headed, Fields, PlainCell
<1> HIDE DEF h, c
<1>3. TTA1Header \in Nat
  BY DEF TTA1Header
<1>4. h \in [1..TTA1Header -> Headed({"TTA1"})]
  BY <1>1, LenProperties
<1>5. d \in [1..TTA1Header -> Headed({"TTA1"})] /\ d[x.at] = c
  BY <1>1, <1>2, <1>4
<1>6. \A z \in 1..TTA1Header : z # x.at => d[z] = h[z]
  BY <1>4
<1>7. d \in Seq(Headed({"TTA1"})) /\ Len(d) = TTA1Header
  <2> HIDE DEF d
  <2>1. d \in Seq(Headed({"TTA1"}))
    BY <1>3, <1>5, SeqDef
  <2> QED
    BY <1>3, <1>5, <2>1, LenProperties
<1> QED
  BY <1>1, <1>5, <1>6, <1>7 DEF h, c

\* The ids a file can have.
LEMMA ImageFields ==
  ASSUME NEW x \in Sources
  PROVE  /\ Image(x) \in Seq(Cell)
         /\ x.format = "tta1" \/ x.state # "whole"      => Free(Image(x), "RIFF")
         /\ x.format # "tta1" \/ x.state = "unfinished" => Free(Image(x), "TTA1")
         /\ TagBytes(x.tag) \in Seq(Fields(TagIds)) /\ Raw(x.size) \in Seq(Fields({}))
         /\ KeptHeader(x) \in Seq(Cell)
<1> DEFINE t == TagBytes(x.tag)
           k0 == KeptHeader(x)
           r == Raw(x.size)
           W == WaveIds \cup TagIds
           A == {"TTA1"} \cup TagIds
<1>1. /\ x.size \in Nat /\ x.tag \in {"none", "ape", "apes", "id3"}
      /\ x.format \in {"wav", "w64", "tta1"}
      /\ x.state \in {"whole", "unfinished", "damaged"}
      /\ x.state = "damaged" => x.format = "tta1"
  BY SourceIs
<1>2. t \in Seq(Fields(TagIds))
  BY <1>1, TagFields
<1>3. r \in Seq(Fields({}))
  BY <1>1, RawFields
<1>4. Image(x) = t \o k0 \o r
  BY KeptIs
<1>5. /\ x.state = "unfinished" => k0 \in Seq(Fields({}))
      /\ x.format = "tta1" => k0 \in Seq(Headed({"TTA1"}))
      /\ x.state = "whole" /\ x.format # "tta1" => k0 \in Seq(Fields(WaveIds))
  <2>1. ASSUME x.state = "unfinished" PROVE k0 \in Seq(Fields({}))
    <3>1. Len(HeadOf(x)) \in Nat
      BY HeadFields, LenProperties
    <3>2. k0 = Zero(Len(HeadOf(x)))
      BY <2>1, KeptIs
    <3> HIDE DEF k0
    <3> QED
      BY <3>1, <3>2, RawFields
  <2>2. ASSUME x.state = "whole" PROVE k0 = HeadOf(x)
    BY <2>2, KeptIs
  <2>3. ASSUME x.state = "damaged" PROVE k0 \in Seq(Headed({"TTA1"}))
    BY <2>3, DamagedHead
  <2>4. {} \subseteq {"TTA1"}
    OBVIOUS
  <2>5. Seq(Fields({})) \subseteq Seq(Headed({"TTA1"}))
    BY <2>4, FieldsWider
  <2> HIDE DEF k0
  <2> QED
    BY <1>1, <2>1, <2>2, <2>3, <2>5, HeadFields
<1> HIDE DEF t, k0, r
<1>6. /\ TagIds \subseteq W /\ WaveIds \subseteq W /\ {} \subseteq W
      /\ TagIds \subseteq A /\ {"TTA1"} \subseteq A /\ {} \subseteq A /\ {} \subseteq TagIds
      /\ "TTA1" \notin W /\ "RIFF" \notin A /\ "TTA1" \notin TagIds /\ "RIFF" \notin TagIds
  BY DEF WaveIds, TagIds
<1> HIDE DEF W, A
<1>7. CASE x.state = "unfinished"
  <2>1. t \in Seq(Headed(TagIds)) /\ k0 \in Seq(Headed(TagIds)) /\ r \in Seq(Headed(TagIds))
    BY <1>2, <1>3, <1>5, <1>6, <1>7, FieldsWider
  <2>2. Image(x) \in Seq(Headed(TagIds))
    BY <1>4, <2>1, JoinedFields
  <2>3. Free(Image(x), "RIFF") /\ Free(Image(x), "TTA1")
    BY <1>6, <2>2, HeadedFree
  <2>4. Image(x) \in Seq(Cell) /\ k0 \in Seq(Cell)
    BY <2>1, <2>2, FieldsWider
  <2> QED
    BY <1>2, <1>3, <2>3, <2>4 DEF t, r, k0
<1>8. CASE x.state # "unfinished" /\ x.format = "tta1"
  <2>1. t \in Seq(Headed(A)) /\ k0 \in Seq(Headed(A)) /\ r \in Seq(Headed(A))
    BY <1>2, <1>3, <1>5, <1>6, <1>8, FieldsWider
  <2>2. Image(x) \in Seq(Headed(A))
    BY <1>4, <2>1, JoinedFields
  <2>3. Free(Image(x), "RIFF")
    BY <1>6, <2>2, HeadedFree
  <2>4. Image(x) \in Seq(Cell) /\ k0 \in Seq(Cell)
    BY <2>1, <2>2, FieldsWider
  <2> QED
    BY <1>2, <1>3, <1>8, <2>3, <2>4 DEF t, r, k0
<1>9. CASE x.state # "unfinished" /\ x.format # "tta1"
  <2>1. t \in Seq(Headed(W)) /\ k0 \in Seq(Headed(W)) /\ r \in Seq(Headed(W))
    BY <1>1, <1>2, <1>3, <1>5, <1>6, <1>9, FieldsWider
  <2>2. Image(x) \in Seq(Headed(W))
    BY <1>4, <2>1, JoinedFields
  <2>3. Free(Image(x), "TTA1")
    BY <1>6, <2>2, HeadedFree
  <2>4. Image(x) \in Seq(Cell) /\ k0 \in Seq(Cell)
    BY <2>1, <2>2, FieldsWider
  <2> QED
    BY <1>1, <1>2, <1>3, <1>9, <2>3, <2>4 DEF t, r, k0
<1> QED
  BY <1>7, <1>8, <1>9

\* What has no id of a fmt chunk has fmt chunks of any format.
LEMMA FmtNoneOf ==
  ASSUME NEW V \in SUBSET Nat, NEW f,
         f \in Seq(Fields(WaveIds \ {"fmt"})) \/ f \in Seq(Headed({"TTA1"}))
           \/ f \in Seq(Fields(TagIds)) \/ f \in Seq(Fields({}))
  PROVE  f \in Seq(Cell) /\ FmtChunksIn(f, V)
<1> DEFINE N == Ids \ {"fmt"}
<1>1. WaveIds \ {"fmt"} \subseteq N /\ TagIds \subseteq N /\ {} \subseteq N /\ {"TTA1"} \subseteq N
  BY DEF WaveIds, TagIds, Ids
<1> HIDE DEF N
<1>2. f \in Seq(Headed(N)) /\ f \in Seq(Cell)
  BY <1>1, FieldsWider
<1> QED
  BY <1>2, FmtNone DEF N

\* The fmt chunks of a file of another program are those of its chunks.
LEMMA ForeignFmt ==
  ASSUME NEW x \in Sources, x.maker = "foreign", NEW V \in SUBSET Nat,
         \A z \in 1..Len(x.chunks) : FmtChunksIn(ForeignChunk(x.format, x.chunks[z], x.stat), V)
  PROVE  FmtChunksIn(Image(x), V)
<1> DEFINE n == Len(x.chunks)
           up == ForeignUpTo(x.format, x.chunks, x.stat)
           ch(z) == ForeignChunk(x.format, x.chunks[z], x.stat)
           Q(f) == f \in Seq(Cell) /\ FmtChunksIn(f, V)
<1>1. /\ x.stat \in Stats /\ x.size \in Nat /\ x.chunks \in Seq(ForeignChunks)
      /\ x.tag \in {"none", "ape", "apes", "id3"} /\ x.state = "whole"
      /\ x.format \in {"wav", "w64"}
  BY SourceIs
<1>2. /\ n \in Nat
      /\ up[0] = WaveHeader(x.format, U32MAX)
      /\ \A z \in 1..n : up[z] = up[z - 1] \o ch(z) /\ x.chunks[z] \in ForeignChunks
  BY <1>1, ForeignSteps
<1>3. ASSUME NEW z \in 1..n PROVE Q(ch(z))
  BY <1>1, <1>2, ForeignFields, FieldsWider
<1>4. ASSUME NEW f, NEW g, Q(f), Q(g) PROVE Q(f \o g)
  BY <1>4, FmtJoined, JoinedLen
<1>5. Q(up[0])
  <2>1. WaveHeader(x.format, U32MAX) \in Seq(Fields(WaveIds \ {"fmt"}))
    BY <1>1, WaveHeaderFields, U32Assumption
  <2> QED
    BY <1>2, <2>1, FmtNoneOf
<1>13. n \in Nat
  BY <1>2
<1> HIDE DEF Q, up, n, ch
<1> DEFINE T == {z \in Nat : z <= n => Q(up[z])}
<1>6. 0 \in T
  BY <1>5
<1>7. ASSUME NEW z \in Nat, z \in T PROVE z + 1 \in T
  <2> SUFFICES ASSUME z + 1 <= n PROVE Q(up[z + 1])
    OBVIOUS
  <2>1. z + 1 \in 1..n /\ (z + 1) - 1 = z /\ z <= n
    BY <1>13
  <2>2. up[z + 1] = up[z] \o ch(z + 1)
    BY <1>2, <2>1
  <2> QED
    BY <1>3, <1>4, <1>7, <2>1, <2>2
<1> HIDE DEF T
<1>8. Q(up[n])
  <2>1. n \in T
    BY <1>2, <1>6, <1>7, Induction
  <2> QED
    BY <1>2, <2>1 DEF T
<1>9. Q(ChunkHeader(x.format, "data", x.size))
  <2>1. "data" \in WaveIds \ {"fmt"}
    BY DEF WaveIds
  <2> QED
    BY <1>1, <2>1, IdsAre, ChunkHeaderFields, FmtNoneOf DEF Q
<1>10. Q(TagBytes(x.tag)) /\ Q(Raw(x.size))
  BY <1>1, TagFields, RawFields, FmtNoneOf DEF Q
<1>11. Image(x) = TagBytes(x.tag) \o (up[n] \o ChunkHeader(x.format, "data", x.size)) \o Raw(x.size)
  BY <1>1, KeptIs, HeadIs DEF up, n
<1>12. Q(Image(x))
  BY <1>4, <1>8, <1>9, <1>10, <1>11
<1> QED
  BY <1>12 DEF Q

\* The fmt chunk of a file that says its samples are not PCM is the only one.
LEMMA ImageFloat ==
  ASSUME NEW x \in Sources, x.maker = "foreign", NEW j \in DOMAIN x.chunks, x.chunks[j] = "float"
  PROVE  FmtChunksIn(Image(x), {3})
<1>1. /\ x.stat \in Stats /\ x.format \in {"wav", "w64"} /\ x.chunks \in Seq(ForeignChunks)
      /\ \A z, l \in DOMAIN x.chunks : x.chunks[z] = "float" /\ x.chunks[l] \in FmtChunks => z = l
  BY SourceIs
<1>2. DOMAIN x.chunks = 1..Len(x.chunks)
  BY <1>1, LenProperties
<1>3. {3} \in SUBSET Nat
  OBVIOUS
<1>4. ASSUME NEW z \in 1..Len(x.chunks) PROVE FmtChunksIn(ForeignChunk(x.format, x.chunks[z], x.stat), {3})
  <2>1. CASE x.chunks[z] \in {"list", "odd", "back"}
    <3>1. ForeignChunk(x.format, x.chunks[z], x.stat) \in Seq(Fields(WaveIds \ {"fmt"}))
      BY <1>1, <2>1, OtherChunkFields
    <3> QED
      BY <1>3, <3>1, FmtNoneOf
  <2>2. CASE x.chunks[z] \in FmtChunks
    BY <1>1, <1>2, <2>2, FmtFloat
  <2>3. x.chunks[z] \in ForeignChunks
    BY <1>1, <1>2, ElementOfSeq
  <2> QED
    BY <2>1, <2>2, <2>3 DEF ForeignChunks
<1> QED
  BY <1>3, <1>4, ForeignFmt

\* Every fmt chunk of a file has one of three formats, and an extensible one
\* its second struct.
LEMMA ChunkFmt ==
  ASSUME NEW k \in {"wav", "w64"}, NEW x \in Stats, NEW c \in ForeignChunks
  PROVE  FmtChunksIn(ForeignChunk(k, c, x), Formats)
<1>1. /\ Formats \in SUBSET Nat /\ {FMT_PCM} \subseteq Formats /\ {3} \subseteq Formats
      /\ {FMT_EXTENSIBLE} \subseteq Formats
  BY DEF Formats, FMT_PCM, FMT_EXTENSIBLE
<1>2. FmtBody \in Nat /\ FmtBody + 2 \in Nat /\ FmtBody + WfxTail \in Nat /\ FmtBody + WfxTail + 2 \in Nat
  BY DEF FmtBody, WfxTail
<1>3. WfxTail - 2 \in {WfxTail - 2, WfxTail} /\ WfxTail \in {WfxTail - 2, WfxTail}
  OBVIOUS
<1>4. \A n \in Nat : FmtChunksIn(ChunkHeader(k, "fmt", n) \o fill_waveformatex_body(x, FMT_PCM), Formats)
  BY <1>1, FmtPlain, FmtWider
<1>5. \A n \in Nat, size \in {WfxTail - 2, WfxTail} :
        FmtChunksIn(ChunkHeader(k, "fmt", n) \o fill_waveformatex_body(x, FMT_EXTENSIBLE)
                      \o fill_waveformatextensible(x, size), Formats)
  BY <1>1, FmtExtensible, FmtWider
<1>6. CASE c \in {"list", "odd", "back"}
  <2>1. ForeignChunk(k, c, x) \in Seq(Fields(WaveIds \ {"fmt"}))
    BY <1>6, OtherChunkFields
  <2> QED
    BY <1>1, <2>1, FmtNoneOf
<1>7. CASE c = "pcm"
  BY <1>2, <1>4, <1>7, ForeignIs
<1>8. CASE c = "ext"
  BY <1>2, <1>3, <1>5, <1>8, ForeignIs
<1>9. CASE c = "float"
  BY <1>1, <1>9, FmtFloat, FmtWider
<1>10. CASE c = "pcm18"
  <2> DEFINE f == ChunkHeader(k, "fmt", FmtBody + 2) \o fill_waveformatex_body(x, FMT_PCM)
  <2>1. Num(0, 2) \in Seq(Cell) /\ FmtChunksIn(Num(0, 2), Formats)
    BY <1>1, NumFields, FmtNoneOf
  <2>2. f \in Seq(Cell) /\ FmtChunksIn(f, Formats)
    <3>1. ChunkHeader(k, "fmt", FmtBody + 2) \in Seq(Cell)
      BY <1>2, IdsAre, ChunkHeaderIs
    <3>2. fill_waveformatex_body(x, FMT_PCM) \in Seq(Cell)
      BY BodyIs DEF FMT_PCM
    <3> QED
      BY <1>2, <1>4, <3>1, <3>2, JoinedLen
  <2>3. ForeignChunk(k, c, x) = f \o Num(0, 2)
    BY <1>10, ForeignIs
  <2> HIDE DEF f
  <2> QED
    BY <1>1, <2>1, <2>2, <2>3, FmtJoined
<1>11. CASE c = "ext42"
  <2> DEFINE g == ChunkHeader(k, "fmt", FmtBody + WfxTail + 2) \o fill_waveformatex_body(x, FMT_EXTENSIBLE)
             f == g \o fill_waveformatextensible(x, WfxTail)
  <2>1. Raw(2) \in Seq(Cell) /\ FmtChunksIn(Raw(2), Formats)
    BY <1>1, RawFields, FmtNoneOf
  <2>2. f \in Seq(Cell) /\ FmtChunksIn(f, Formats)
    <3>1. ChunkHeader(k, "fmt", FmtBody + WfxTail + 2) \in Seq(Cell)
      BY <1>2, IdsAre, ChunkHeaderIs
    <3>2. fill_waveformatex_body(x, FMT_EXTENSIBLE) \in Seq(Cell)
      BY BodyIs DEF FMT_EXTENSIBLE
    <3>3. fill_waveformatextensible(x, WfxTail) \in Seq(Cell)
      BY TailIs DEF WfxTail
    <3>4. g \in Seq(Cell)
      BY <3>1, <3>2, JoinedLen
    <3>5. f \in Seq(Cell)
      BY <3>3, <3>4, JoinedLen
    <3> QED
      BY <1>2, <1>3, <1>5, <3>5
  <2>3. ForeignChunk(k, c, x) = f \o Raw(2)
    BY <1>11, ForeignIs
  <2> HIDE DEF f
  <2> QED
    BY <1>1, <2>1, <2>2, <2>3, FmtJoined
<1> QED
  BY <1>6, <1>7, <1>8, <1>9, <1>10, <1>11 DEF ForeignChunks, FmtChunks

LEMMA HeadFmt ==
  ASSUME NEW x \in Stats, NEW size \in Nat
  PROVE  /\ FmtChunksIn(write_wav_header(x, size), Formats)
         /\ FmtChunksIn(write_w64_header(x, size), Formats)
<1> DEFINE n == FmtBody + WfxTail
           b == fill_waveformatex_body(x, FMT_EXTENSIBLE)
           e == fill_waveformatextensible(x, WfxTail - 2)
           F(k) == ChunkHeader(k, "fmt", n) \o b \o e
           Q(f) == f \in Seq(Cell) /\ FmtChunksIn(f, Formats)
<1>1. Formats \in SUBSET Nat /\ {FMT_EXTENSIBLE} \subseteq Formats
  BY DEF Formats, FMT_PCM, FMT_EXTENSIBLE
<1>2. n \in Nat /\ WfxTail - 2 \in Nat /\ FMT_EXTENSIBLE \in Nat /\ WfxTail - 2 \in {WfxTail - 2, WfxTail}
  BY DEF FmtBody, WfxTail, FMT_EXTENSIBLE
<1>3. ASSUME NEW f, NEW g, Q(f), Q(g) PROVE Q(f \o g)
  BY <1>1, <1>3, FmtJoined, JoinedLen
<1>4. b \in Seq(Cell) /\ e \in Seq(Cell)
  BY <1>2, BodyIs, TailIs
<1>5. ASSUME NEW k \in {"wav", "w64"}
      PROVE  /\ ChunkHeader(k, "fmt", n) \in Seq(Cell) /\ ChunkHeader(k, "fmt", n) \o b \in Seq(Cell)
             /\ Q(F(k))
  <2>1. ChunkHeader(k, "fmt", n) \in Seq(Cell)
    BY <1>2, IdsAre, ChunkHeaderIs
  <2>2. FmtChunksIn(F(k), Formats)
    BY <1>1, <1>2, FmtExtensible, FmtWider
  <2>3. ChunkHeader(k, "fmt", n) \o b \in Seq(Cell)
    BY <1>4, <2>1, JoinedLen
  <2>4. F(k) \in Seq(Cell)
    BY <1>4, <2>3, JoinedLen
  <2> QED
    BY <2>1, <2>2, <2>3, <2>4
<1>6. riff_size(size) \in Nat /\ data_field(size) \in Nat /\ size + WriteTemplate("w64") \in Nat
  <2>1. WriteTemplate("w64") \in Nat
    BY DEF WriteTemplate, RiffChunk, RiffHeader, FmtBody, WfxTail
  <2> QED
    BY <2>1, SizesAre
<1> DEFINE w == WaveHeader("wav", riff_size(size))
           v == WaveHeader("w64", size + WriteTemplate("w64"))
<1>7. Q(w) /\ Q(v)
  BY <1>1, <1>6, WaveHeaderFields, FmtNoneOf
<1>8. Q(Id("data", 4)) /\ Q(Num(data_field(size), 4)) /\ Q(ChunkHeader("w64", "data", size))
  <2>1. "data" \in WaveIds \ {"fmt"} /\ "data" \in Ids
    BY IdsAre DEF WaveIds
  <2> QED
    BY <1>1, <1>6, <2>1, IdFields, NumFields, ChunkHeaderFields, FmtNoneOf
<1>9. write_wav_header(x, size) = w \o F("wav") \o Id("data", 4) \o Num(data_field(size), 4)
  <2> DEFINE c == ChunkHeader("wav", "fmt", n)
             cb == c \o b
  <2>1. w \in Seq(Cell) /\ c \in Seq(Cell) /\ cb \in Seq(Cell)
    BY <1>5, <1>7
  <2>2. write_wav_header(x, size) = w \o c \o b \o e \o Id("data", 4) \o Num(data_field(size), 4)
    BY DEF write_wav_header
  <2> HIDE DEF w, c, b, e
  <2>3. (w \o c) \o b = w \o cb
    BY <1>4, <2>1, ConcatAssociative
  <2> HIDE DEF cb
  <2>4. (w \o cb) \o e = w \o (cb \o e)
    BY <1>4, <2>1, ConcatAssociative
  <2>5. w \o c \o b \o e = w \o (cb \o e)
    BY <2>3, <2>4
  <2> QED
    BY <2>2, <2>5 DEF cb, c
<1>10. write_w64_header(x, size) = v \o F("w64") \o ChunkHeader("w64", "data", size)
  <2> DEFINE c == ChunkHeader("w64", "fmt", n)
             cb == c \o b
  <2>1. v \in Seq(Cell) /\ c \in Seq(Cell) /\ cb \in Seq(Cell)
    BY <1>5, <1>7
  <2>2. write_w64_header(x, size) = v \o c \o b \o e \o ChunkHeader("w64", "data", size)
    BY DEF write_w64_header
  <2> HIDE DEF v, c, b, e
  <2>3. (v \o c) \o b = v \o cb
    BY <1>4, <2>1, ConcatAssociative
  <2> HIDE DEF cb
  <2>4. (v \o cb) \o e = v \o (cb \o e)
    BY <1>4, <2>1, ConcatAssociative
  <2>5. v \o c \o b \o e = v \o (cb \o e)
    BY <2>3, <2>4
  <2> QED
    BY <2>2, <2>5 DEF cb, c
<1>11. Q(F("wav")) /\ Q(F("w64"))
  BY <1>5
<1> HIDE DEF Q, F, w, v
<1>12. Q(write_wav_header(x, size)) /\ Q(write_w64_header(x, size))
  BY <1>3, <1>7, <1>8, <1>9, <1>10, <1>11
<1> QED
  BY <1>12 DEF Q

LEMMA ImageFmt ==
  ASSUME NEW x \in Sources
  PROVE  FmtChunksIn(Image(x), Formats)
<1> DEFINE Q(f) == f \in Seq(Cell) /\ FmtChunksIn(f, Formats)
<1>1. Formats \in SUBSET Nat
  BY DEF Formats, FMT_PCM, FMT_EXTENSIBLE
<1>2. /\ x.stat \in Stats /\ x.size \in Nat /\ x.format \in {"wav", "w64", "tta1"}
      /\ x.tag \in {"none", "ape", "apes", "id3"}
      /\ x.state \in {"whole", "unfinished", "damaged"}
      /\ x.maker = "own" \/ x.maker = "foreign"
      /\ x.maker = "foreign" => x.format \in {"wav", "w64"} /\ x.chunks \in Seq(ForeignChunks)
      /\ x.state = "damaged" => x.format = "tta1"
  BY SourceIs
<1>3. CASE x.maker = "foreign"
  <2>1. ASSUME NEW z \in 1..Len(x.chunks) PROVE x.chunks[z] \in ForeignChunks
    BY <1>2, <1>3, ElementOfSeq
  <2> QED
    BY <1>1, <1>2, <1>3, <2>1, ChunkFmt, ForeignFmt
<1>4. CASE x.maker = "own"
  <2>1. Q(KeptHeader(x))
    <3>1. CASE x.state = "whole" /\ x.format \in {"wav", "w64"}
      <4>1. KeptHeader(x) = HeadOf(x)
        BY <3>1, KeptIs
      <4>2. HeadOf(x) \in Seq(Cell)
        BY HeadFields, FieldsOf, FieldsWider
      <4>3. FmtChunksIn(HeadOf(x), Formats)
        BY <1>2, <1>4, <3>1, HeadIs, HeadFmt
      <4> QED
        BY <4>1, <4>2, <4>3
    <3>3. CASE x.state = "whole" /\ x.format = "tta1"
      BY <1>1, <3>3, KeptIs, HeadFields, FmtNoneOf
    <3>4. CASE x.state = "damaged"
      BY <1>1, <3>4, DamagedHead, FmtNoneOf
    <3>5. CASE x.state = "unfinished"
      <4>1. Len(HeadOf(x)) \in Nat
        BY HeadFields, LenProperties
      <4>2. KeptHeader(x) = Zero(Len(HeadOf(x)))
        BY <3>5, KeptIs
      <4> QED
        BY <1>1, <4>1, <4>2, RawFields, FmtNoneOf
    <3> QED
      BY <1>2, <3>1, <3>3, <3>4, <3>5
  <2>2. Q(TagBytes(x.tag)) /\ Q(Raw(x.size))
    BY <1>1, <1>2, TagFields, RawFields, FmtNoneOf
  <2>3. ASSUME NEW f, NEW g, Q(f), Q(g) PROVE Q(f \o g)
    BY <1>1, <2>3, FmtJoined, JoinedLen
  <2> HIDE DEF Q
  <2>4. Q(Image(x))
    <3>1. Image(x) = TagBytes(x.tag) \o KeptHeader(x) \o Raw(x.size)
      BY KeptIs
    <3>2. Q(TagBytes(x.tag) \o KeptHeader(x))
      BY <2>1, <2>2, <2>3, Zenon
    <3>3. Q(TagBytes(x.tag) \o KeptHeader(x) \o Raw(x.size))
      BY <2>2, <2>3, <3>2, Zenon
    <3> QED
      BY <3>1, <3>3
  <2> QED
    BY <2>4 DEF Q
<1> QED
  BY <1>2, <1>3, <1>4

\* No byte of the header is a sample.
LEMMA TTA1BodySolid ==
  ASSUME NEW x \in Stats, NEW n \in Nat, NEW z \in 1..18
  PROVE  TTA1Body(x, n)[z][1] # "raw"
<1> DEFINE Solid == {c \in PlainCell : c[1] # "raw"}
           m == IF n > U32MAX THEN U32MAX ELSE n
<1>1. ASSUME NEW v \in Nat, NEW w \in Nat PROVE Num(v, w) \in Seq(Solid)
  <2>1. \A k \in Nat : <<"num", v, k, w>> \in Solid
    BY DEF PlainCell
  <2>2. Num(v, w) \in [1..w -> Solid]
    BY <2>1 DEF Num, Cells
  <2> QED
    BY <2>2, SeqDef
<1>2. Id("TTA1", 4) \in Seq(Solid)
  <2>1. \A k \in Nat : <<"id", "TTA1", k, 4>> \in Solid
    BY IdsAre DEF PlainCell
  <2>2. Id("TTA1", 4) \in [1..4 -> Solid]
    BY <2>1 DEF Id, Cells
  <2> QED
    BY <2>2, SeqDef
<1>3. x.nchan \in Nat /\ x.samplebits \in Nat /\ x.samplerate \in Nat /\ m \in Nat /\ FMT_PCM \in Nat
  BY U32Assumption DEF Stats, FMT_PCM
<1>4. TTA1Body(x, n) = Id("TTA1", 4) \o Num(FMT_PCM, 2) \o Num(x.nchan, 2)
                        \o Num(x.samplebits, 2) \o Num(x.samplerate, 4) \o Num(m, 4)
  BY DEF TTA1Body
<1> HIDE DEF Solid, m
<1>5. TTA1Body(x, n) \in Seq(Solid)
  <2>1. /\ Num(FMT_PCM, 2) \in Seq(Solid) /\ Num(x.nchan, 2) \in Seq(Solid)
        /\ Num(x.samplebits, 2) \in Seq(Solid) /\ Num(x.samplerate, 4) \in Seq(Solid)
        /\ Num(m, 4) \in Seq(Solid)
    BY <1>1, <1>3
  <2>2. Id("TTA1", 4) \o Num(FMT_PCM, 2) \o Num(x.nchan, 2) \o Num(x.samplebits, 2)
          \o Num(x.samplerate, 4) \o Num(m, 4) \in Seq(Solid)
    BY <1>2, <2>1, JoinedFields
  <2> QED
    BY <1>4, <2>2
<1>6. Len(TTA1Body(x, n)) = 18
  BY TTA1BodyFields
<1>7. TTA1Body(x, n)[z] \in Solid
  BY <1>5, <1>6, ElementOfSeq
<1> QED
  BY <1>7 DEF Solid

\* Where a header of TTA1 is damaged its checksum does not hold: t, d and r are
\* the tag, the damaged header and the rest, b is what the checksum is of.
DamagedAt(t, d, r, b, at, f, was, p) ==
  /\ t \in Seq(PlainCell) /\ d \in Seq(Cell) /\ r \in Seq(PlainCell)
  /\ b \in Seq(PlainCell) /\ Len(b) = 18 /\ \A z \in 1..18 : b[z][1] # "raw"
  /\ at \in 1..22 /\ Len(d) = 22 /\ d[at][1] = "raw"
  /\ \A z \in 1..18 : z # at => d[z] = b[z]
  /\ \A k \in 1..4 : 18 + k # at => d[18 + k][1] = "crc" /\ d[18 + k][2] = b /\ d[18 + k][3] = k
  /\ f \in Seq(Cell) /\ Len(f) = Len(t) + 22 + Len(r) /\ Len(t) \in Nat /\ Len(r) \in Nat
  /\ \A z \in 1..Len(t) : f[z] = t[z]
  /\ \A z \in 1..22 : f[Len(t) + z] = d[z]
  /\ \A z \in 1..Len(r) : f[Len(t) + 22 + z] = r[z]
  /\ p \in Nat /\ p + 22 <= Len(f)
  /\ \A z \in 1..18 : was[z] = f[p + z]
  /\ \A k \in 1..4 : f[p + 18 + k][1] = "crc" /\ f[p + 18 + k][2] = was /\ f[p + 18 + k][3] = k

LEMMA CrcDamaged ==
  ASSUME NEW t, NEW d, NEW r, NEW b, NEW at, NEW f, NEW was, NEW p,
         DamagedAt(t, d, r, b, at, f, was, p)
  PROVE  FALSE
<1> USE DEF DamagedAt
<1>9. \A e \in PlainCell : e[1] # "crc"
  BY DEF PlainCell
<1> DEFINE j == p + 19
<1>10. j \in Nat /\ f[j][1] = "crc" /\ f[j][2] = was /\ f[j][3] = 1 /\ j <= Len(f)
  <2>1. 1 \in 1..4 /\ p + 18 + 1 = j /\ j \in Nat /\ j <= Len(f)
    OBVIOUS
  <2> HIDE DEF j
  <2> QED
    BY <2>1
<1>11. j = p + 19
  OBVIOUS
<1> HIDE DEF j
<1>12. j > Len(t)
  <2> SUFFICES ASSUME j <= Len(t) PROVE FALSE
    BY <1>10
  <2>1. j \in 1..Len(t)
    BY <1>10, <1>11
  <2>2. t[j] \in PlainCell
    BY <2>1, ElementOfSeq
  <2> QED
    BY <1>9, <1>10, <2>1, <2>2
<1>13. j <= Len(t) + 22
  <2> SUFFICES ASSUME j > Len(t) + 22 PROVE FALSE
    BY <1>10
  <2> DEFINE l == j - (Len(t) + 22)
  <2>1. l \in 1..Len(r) /\ Len(t) + 22 + l = j
    BY <1>10
  <2> HIDE DEF l
  <2>2. r[l] \in PlainCell
    BY <2>1, ElementOfSeq
  <2>3. f[j] = r[l]
    BY <2>1
  <2> QED
    BY <1>9, <1>10, <2>2, <2>3
<1> DEFINE z == j - Len(t)
<1>14. z \in 1..22 /\ Len(t) + z = j
  <2>1. \A a, e \in Nat : a > e /\ a <= e + 22 => a - e \in 1..22 /\ e + (a - e) = a
    OBVIOUS
  <2> QED
    BY <1>10, <1>12, <1>13, <2>1, Zenon
<1> HIDE DEF z
<1>15. d[z][1] = "crc" /\ d[z][2] = was /\ d[z][3] = 1
  <2>1. f[j] = d[z]
    BY <1>14
  <2> QED
    BY <1>10, <2>1
<1>16. z # at
  BY <1>15
<1>17. z \notin 1..18
  <2> SUFFICES ASSUME z \in 1..18 PROVE FALSE
    OBVIOUS
  <2>1. b[z] \in PlainCell
    BY ElementOfSeq
  <2>2. d[z] = b[z]
    BY <1>16
  <2> QED
    BY <1>9, <1>15, <2>1, <2>2
<1>18. was = b /\ p = Len(t) /\ z = 19
  <2> DEFINE k == z - 18
  <2>1. k \in 1..4 /\ 18 + k = z
    BY <1>14, <1>17
  <2> HIDE DEF k
  <2>2. d[18 + k][2] = b /\ d[18 + k][3] = k
    BY <1>16, <2>1
  <2>3. was = b /\ k = 1
    BY <1>15, <2>1, <2>2
  <2> QED
    BY <1>11, <1>14, <2>1, <2>3
<1>19. f[p + at][1] = "raw"
  <2>1. f[Len(t) + at] = d[at]
    OBVIOUS
  <2> QED
    BY <1>18, <2>1
<1>20. CASE at \in 1..18
  <2>1. was[at] = f[p + at]
    BY <1>20, Zenon
  <2>2. b[at][1] = "raw"
    BY <1>18, <1>19, <2>1, Zenon
  <2> QED
    BY <1>20, <2>2, Zenon
<1>21. CASE at \in 19..22
  <2> DEFINE k == at - 18
  <2>1. k \in 1..4 /\ p + 18 + k = p + at
    BY <1>21
  <2> HIDE DEF k
  <2>2. f[p + 18 + k][1] = "crc"
    BY <2>1
  <2> QED
    BY <1>19, <2>1, <2>2
<1> QED
  BY <1>20, <1>21

LEMMA DamagedFails ==
  ASSUME NEW x \in Sources, x.state = "damaged", NEW p \in Nat, p + TTA1Header <= Len(Image(x)),
         At(Image(x), p + 18, 4) = Cells("crc", At(Image(x), p, 18), 4)
  PROVE  FALSE
<1> DEFINE f == Image(x)
           t == TagBytes(x.tag)
           d == KeptHeader(x)
           h == HeadOf(x)
           r == Raw(x.size)
           b == TTA1Body(x.stat, x.size)
           c == Cells("crc", b, 4)
           was == At(f, p, 18)
           q == p + 18
           g == At(f, q, 4)
<1>1. /\ x.stat \in Stats /\ x.size \in Nat /\ x.maker = "own" /\ x.format = "tta1" /\ x.at \in 1..22
  <2>1. x.format = "tta1" /\ x.at \in 1..TTA1Header /\ x.stat \in Stats /\ x.size \in Nat
    BY SourceIs
  <2>2. x.maker = "own"
    BY <2>1, SourceIs
  <2> QED
    BY <2>1, <2>2 DEF TTA1Header
<1>2. /\ t \in Seq(Fields(TagIds)) /\ r \in Seq(Fields({})) /\ d \in Seq(Cell)
  BY ImageFields
<1>3. f = t \o d \o r
  BY KeptIs
<1>4. t \in Seq(PlainCell) /\ r \in Seq(PlainCell)
  BY <1>2, FieldsWider
<1>5. h = b \o c /\ b \in Seq(Fields({"TTA1"})) /\ Len(b) = 18
  BY <1>1, HeadIs, TTA1BodyFields
<1>6. b \in Seq(PlainCell) /\ b \in Seq(Cell)
  BY <1>5, FieldsWider
<1>7. c \in Seq(Headed({})) /\ Len(c) = 4 /\ \A k \in 1..4 : c[k] = <<"crc", b, k, 4>>
  BY <1>6, CrcFields
<1>8. c \in Seq(Cell)
  BY <1>7, FieldsWider
<1>9. \A z \in 1..18 : b[z][1] # "raw"
  BY <1>1, TTA1BodySolid
<1>10. Len(d) = 22 /\ d[x.at] = <<"raw", 1, 1, 1>> /\ \A z \in 1..22 : z # x.at => d[z] = h[z]
  BY DamagedHead DEF TTA1Header
<1>11. p + 22 <= Len(f)
  BY DEF TTA1Header
<1>12. \A k \in 1..4 : g[k] = <<"crc", was, k, 4>>
  <2>1. g = Cells("crc", was, 4)
    OBVIOUS
  <2> HIDE DEF g, was
  <2> QED
    BY <2>1 DEF Cells
<1>12a. f \in Seq(Cell)
  BY ImageFields
<1> HIDE DEF f, t, d, h, r, b, c
<1>12b. /\ \A z \in 1..18 : was[z] = f[p + z]
        /\ \A k \in 1..4 : g[k] = f[q + k]
  <2>1. Len(f) \in Nat
    BY <1>12a, LenProperties
  <2>2. p + 18 <= Len(f) /\ q \in Nat /\ q + 4 <= Len(f)
    BY <1>11, <2>1
  <2> HIDE DEF q
  <2>3. \A m, n \in Nat : m + n <= Len(f) => \A z \in 1..n : At(f, m, n)[z] = f[m + z]
    BY <1>12a, AtIs
  <2>4. 18 \in Nat /\ 4 \in Nat
    OBVIOUS
  <2> QED
    BY <2>2, <2>3, <2>4, Zenon
<1> HIDE DEF was, g
<1>12c. \A k \in 1..4 : f[p + 18 + k][1] = "crc" /\ f[p + 18 + k][2] = was /\ f[p + 18 + k][3] = k
  <2> SUFFICES ASSUME NEW k \in 1..4
               PROVE  f[q + k][1] = "crc" /\ f[q + k][2] = was /\ f[q + k][3] = k
    OBVIOUS
  <2> HIDE DEF q
  <2>1. f[q + k] = <<"crc", was, k, 4>>
    BY <1>12, <1>12b
  <2> QED
    BY <2>1
<1>12d. /\ Len(f) = Len(t) + 22 + Len(r) /\ Len(t) \in Nat /\ Len(r) \in Nat
        /\ \A z \in 1..Len(t) : f[z] = t[z]
        /\ \A z \in 1..22 : f[Len(t) + z] = d[z]
        /\ \A z \in 1..Len(r) : f[Len(t) + 22 + z] = r[z]
  <2>1. t \in Seq(Cell) /\ r \in Seq(Cell)
    BY <1>2, FieldsWider
  <2>2. /\ Len(f) = Len(t) + Len(d) + Len(r) /\ Len(t) \in Nat /\ Len(r) \in Nat
        /\ \A z \in 1..Len(t) : f[z] = t[z]
        /\ \A z \in 1..Len(d) : f[Len(t) + z] = d[z]
        /\ \A z \in 1..Len(r) : f[Len(t) + Len(d) + z] = r[z]
    BY <1>2, <1>3, <2>1, ThreeParts
  <2>3. Len(d) = 22
    BY <1>10
  <2> QED
    BY <2>2, <2>3, Zenon
<1>13. d[x.at][1] = "raw"
  BY <1>10
<1>14. /\ \A z \in 1..Len(b) : h[z] = b[z]
       /\ \A k \in 1..Len(c) : h[Len(b) + k] = c[k]
  BY <1>5, <1>6, <1>8, Joined
<1>15. \A z \in 1..18 : z # x.at => d[z] = b[z]
  <2>1. \A z \in 1..18 : z \in 1..22 /\ z \in 1..Len(b)
    BY <1>5
  <2>2. \A z \in 1..18 : h[z] = b[z]
    BY <1>14, <2>1
  <2> QED
    BY <1>10, <2>1, <2>2
<1>16. ASSUME NEW k \in 1..4, 18 + k # x.at
       PROVE  d[18 + k][1] = "crc" /\ d[18 + k][2] = b /\ d[18 + k][3] = k
  <2>1. h[18 + k] = c[k]
    BY <1>5, <1>7, <1>14
  <2>2. 18 + k \in 1..22
    OBVIOUS
  <2>3. d[18 + k] = <<"crc", b, k, 4>>
    BY <1>7, <1>10, <1>16, <2>1, <2>2
  <2> QED
    BY <2>3
<1>17. DamagedAt(t, d, r, b, x.at, f, was, p)
  BY <1>1, <1>2, <1>4, <1>5, <1>6, <1>9, <1>10, <1>11, <1>12a, <1>12b, <1>12c, <1>12d, <1>13, <1>15,
     <1>16, Zenon DEF DamagedAt
<1> QED
  BY <1>17, CrcDamaged

-----------------------------------------------------------------------------
(* What the checks prove of a file *)

LEMMA FileIs ==
  ASSUME Types
  PROVE  src \in Sources /\ file \in Seq(Cell) /\ Len(file) \in Nat
<1>1. src \in Sources /\ file = Image(src)
  BY DEF Types
<1>2. Image(src) \in Seq(Cell)
  BY <1>1, ImageFields
<1> QED
  BY <1>1, <1>2, LenProperties

LEMMA NumAtIs ==
  ASSUME Types, NEW p \in Nat, NEW n \in Nat \ {0}, p + n <= Len(file)
  PROVE  NumAt(p, n) \in NumsAt(file, p, n) /\ NumAt(p, n) \in Nat
<1>1. NumsAt(file, p, n) \subseteq Nat /\ NumsAt(file, p, n) # {}
  BY FileIs, NumsType
<1> QED
  BY <1>1 DEF NumAt

\* What a step goes on with: a result, or a fault.
LEMMA TakeIs ==
  ASSUME Types, NEW results, NEW n \in Nat, NEW ok, NEW mismatch, Take(results, n, ok, mismatch)
  PROVE  \/ \E r \in results :
              /\ fc' = r[1] /\ pos' = r[2]
              /\ r[1] = "OK" => check' = ok
              /\ r[1] = "MISMATCH" => check' = mismatch
              /\ r[1] = "AGAIN" => check' = check
              /\ r[1] \notin {"OK", "MISMATCH", "AGAIN"} => check' = "failed"
         \/ fc' # "OK" /\ check' = "failed" /\ pos' \in Nat
<1>1. PICK r \in results \cup Faults(n) :
        /\ fc' = r[1] /\ pos' = r[2]
        /\ check' = CASE r[1] = "OK"       -> ok
                      [] r[1] = "MISMATCH" -> mismatch
                      [] r[1] = "AGAIN"    -> check
                      [] OTHER             -> "failed"
  BY Zenon DEF Take
<1>2. /\ r[1] = "OK" => check' = ok
      /\ r[1] = "MISMATCH" => check' = mismatch
      /\ r[1] = "AGAIN" => check' = check
      /\ r[1] \notin {"OK", "MISMATCH", "AGAIN"} => check' = "failed"
  <2>1. ASSUME r[1] = "OK" PROVE check' = ok
    BY <1>1, <2>1, Zenon
  <2>2. ASSUME r[1] = "MISMATCH" PROVE check' = mismatch
    BY <1>1, <2>2, Zenon
  <2>3. ASSUME r[1] = "AGAIN" PROVE check' = check
    BY <1>1, <2>3, Zenon
  <2>4. ASSUME r[1] # "OK", r[1] # "MISMATCH", r[1] # "AGAIN" PROVE check' = "failed"
    BY <1>1, <2>4, Zenon
  <2> QED
    BY <2>1, <2>2, <2>3, <2>4
<1>3. CASE r \in results
  BY <1>1, <1>2, <1>3
<1>4. CASE r \in Faults(n)
  <2>1. r \in {<<"READ_ERROR", pos>>, <<"SEEK_ERROR", pos + n>>}
    BY <1>4 DEF Faults
  <2>2. r[1] \in {"READ_ERROR", "SEEK_ERROR"} /\ r[2] \in Nat
    BY <2>1 DEF Types
  <2> QED
    BY <1>1, <1>2, <2>2
<1> QED
  BY <1>1, <1>3, <1>4

\* A check that fails keeps the invariant.
LEMMA Failing ==
  ASSUME SafeInv, check' = "failed", Types', src' = src, file' = file, use' = use
  PROVE  SafeInv'
BY DEF SafeInv, UseInv, FoundInv, StatInv, Got

LEMMA ApeStep ==
  ASSUME SafeInv, apetag_skip
  PROVE  SafeInv'
<1>1. Types /\ check = "ape" /\ check' = "id3" /\ file \in Seq(Cell) /\ Len(file) \in Nat
  BY FileIs DEF SafeInv, apetag_skip
<1>2. PICK r \in ApeResults \cup Faults(ApeTagHF) : pos' = r[2]
  BY DEF apetag_skip
<1>3. pos \in Nat /\ ApeTagHF = 32
  BY <1>1 DEF Types, ApeTagHF
<1>4. r[2] \in Nat
  <2>1. CASE r \in Faults(ApeTagHF)
    <3>1. r \in {<<"READ_ERROR", pos>>, <<"SEEK_ERROR", pos + ApeTagHF>>}
      BY <2>1 DEF Faults
    <3> QED
      BY <1>3, <3>1
  <2>2. CASE r \in ApeResults /\ Short(pos, ApeTagHF)
    BY <1>1, <2>2 DEF ApeResults, TooShort
  <2>3. CASE r \in ApeResults /\ ~Short(pos, ApeTagHF)
    <3> DEFINE q == pos + 12
    <3>1. q \in Nat /\ q + 4 <= Len(file) /\ 4 \in Nat \ {0}
      BY <1>1, <1>3, <2>3 DEF Short
    <3> HIDE DEF q
    <3>2. NumAt(q, 4) \in Nat
      BY <1>1, <3>1, NumAtIs
    <3>3. r[2] = pos + ApeTagHF + NumAt(q, 4) \/ r[2] = pos
      BY <2>3 DEF ApeResults, q
    <3> QED
      BY <1>3, <3>2, <3>3
  <2> QED
    BY <1>2, <2>1, <2>2, <2>3
<1>5. /\ src' = src /\ file' = file /\ use' = use /\ want' = want /\ kind' = kind /\ stat' = stat
  BY DEF apetag_skip
<1>6. use # "raw"
  BY <1>1 DEF SafeInv, UseInv
<1> QED
  BY <1>1, <1>2, <1>4, <1>5, <1>6 DEF SafeInv, Types, UseInv, FoundInv, StatInv, Got

LEMMA ID3Step ==
  ASSUME SafeInv, id3tag_skip
  PROVE  SafeInv'
<1>1. Types /\ check = "id3" /\ file \in Seq(Cell) /\ Len(file) \in Nat
  BY FileIs DEF SafeInv, id3tag_skip
<1>2. PICK r \in ID3Results \cup Faults(ID3TagHeader) :
        LET retval == metatags_retval(fc0, r[1])
        IN  /\ pos' = r[2]
            /\ check' = CASE retval = "OK" -> "ape"
                          [] retval = "MISMATCH" -> (IF use = "encode" THEN "wav" ELSE "tta1")
                          [] OTHER -> "failed"
  BY Zenon DEF id3tag_skip
<1>3. pos \in Nat /\ ID3TagHeader = 10
  BY <1>1 DEF Types, ID3TagHeader
<1>4. r[2] \in Nat
  <2>1. CASE r \in Faults(ID3TagHeader)
    <3>1. r \in {<<"READ_ERROR", pos>>, <<"SEEK_ERROR", pos + ID3TagHeader>>}
      BY <2>1 DEF Faults
    <3> QED
      BY <1>3, <3>1
  <2>2. CASE r \in ID3Results /\ Short(pos, ID3TagHeader)
    BY <1>1, <2>2 DEF ID3Results, TooShort
  <2>3. CASE r \in ID3Results /\ ~Short(pos, ID3TagHeader)
    <3> DEFINE v(k) == NumAt(pos + k, 1)
               len  == id3syncsafeint(v(6), v(7), v(8), v(9))
    <3>1. ASSUME NEW k \in 6..9 PROVE v(k) \in Nat
      <4> DEFINE q == pos + k
      <4>1. q \in Nat /\ q + 1 <= Len(file) /\ 1 \in Nat \ {0}
        BY <1>1, <1>3, <2>3 DEF Short
      <4> HIDE DEF q
      <4>2. NumAt(q, 1) \in Nat
        BY <1>1, <4>1, NumAtIs
      <4> QED
        BY <4>2 DEF q
    <3>2. v(6) \in Nat /\ v(7) \in Nat /\ v(8) \in Nat /\ v(9) \in Nat
      <4>1. 6 \in 6..9 /\ 7 \in 6..9 /\ 8 \in 6..9 /\ 9 \in 6..9
        OBVIOUS
      <4> HIDE DEF v
      <4> QED
        BY <3>1, <4>1
    <3>3. r[2] = pos + ID3TagHeader + len \/ r[2] = pos
      BY <2>3 DEF ID3Results
    <3> HIDE DEF v
    <3>4. len \in Nat
      BY <3>2 DEF id3syncsafeint
    <3> HIDE DEF len
    <3> QED
      BY <1>3, <3>3, <3>4
  <2> QED
    BY <1>2, <2>1, <2>2, <2>3
<1>5. /\ src' = src /\ file' = file /\ use' = use /\ want' = want /\ kind' = kind /\ stat' = stat
  BY DEF id3tag_skip
<1>6. use \in {"encode", "decode"}
  BY <1>1 DEF SafeInv, UseInv, Types
<1>7. \/ check' \in {"ape", "failed"}
      \/ check' = "wav" /\ use = "encode"
      \/ check' = "tta1" /\ use = "decode"
  <2> DEFINE a == metatags_retval(fc0, r[1])
  <2>1. check' = CASE a = "OK" -> "ape"
                   [] a = "MISMATCH" -> (IF use = "encode" THEN "wav" ELSE "tta1")
                   [] OTHER -> "failed"
    BY <1>2
  <2> HIDE DEF a
  <2>2. ASSUME a = "OK" PROVE check' = "ape"
    BY <2>1, <2>2, Zenon
  <2>3. ASSUME a = "MISMATCH" PROVE check' = IF use = "encode" THEN "wav" ELSE "tta1"
    BY <2>1, <2>3, Zenon
  <2>4. ASSUME a # "OK", a # "MISMATCH" PROVE check' = "failed"
    BY <2>1, <2>4, Zenon
  <2> QED
    BY <1>6, <2>2, <2>3, <2>4
<1> QED
  BY <1>1, <1>2, <1>4, <1>5, <1>6, <1>7 DEF SafeInv, Types, UseInv, FoundInv, StatInv, Got

\* An id that was read is in the file.
LEMMA IdRead ==
  ASSUME Types, NEW p \in Nat, NEW s \in Ids, NEW n \in {4, 8, 16}, p + n <= Len(file), HasId(file, p, s, n)
  PROVE  Begins(file, p, s, n) /\ file[p + 1] = <<"id", s, 1, n>> /\ p + 1 \in 1..Len(file)
<1>1. file \in Seq(Cell) /\ Len(file) \in Nat
  BY FileIs
<1>2. n \in Nat \ {0} /\ 1 \in 1..n
  OBVIOUS
<1>3. Has(file, p, Id(s, n))
  BY <1>1, <1>2, IdFound
<1>4. Len(Id(s, n)) = n /\ Id(s, n)[1] = <<"id", s, 1, n>>
  BY <1>2, IdIs
<1>5. file[p + 1] = <<"id", s, 1, n>>
  BY <1>2, <1>3, <1>4 DEF Has
<1> QED
  BY <1>1, <1>2, <1>3, <1>5 DEF Begins

\* A file that is taken for one with chunks has the id of their container.
LEMMA WaveRead ==
  ASSUME Types, NEW k \in {"wav", "w64"}, NEW r \in WaveResults(k)
  PROVE  /\ r[2] \in Nat /\ r[1] \in {"OK", "MISMATCH", "MALFORMED"}
         /\ r[1] = "OK" => ~Free(file, "RIFF")
<1>1. pos \in Nat /\ Len(file) \in Nat
  BY FileIs DEF Types
<1>2. RiffChunk(k) \in Nat /\ idlen(k) \in {4, 8, 16} /\ idlen(k) <= RiffChunk(k)
  BY DEF RiffChunk, idlen
<1>3. CASE Short(pos, RiffChunk(k))
  BY <1>1, <1>3 DEF WaveResults, TooShort
<1>4. CASE ~Short(pos, RiffChunk(k))
  <2>1. \/ r = <<"OK", pos + RiffChunk(k)>> /\ HasId(file, pos, "RIFF", idlen(k))
        \/ r = <<"MISMATCH", pos>>
    BY <1>4 DEF WaveResults
  <2>2. pos + idlen(k) <= Len(file)
    BY <1>1, <1>2, <1>4 DEF Short
  <2>3. ASSUME HasId(file, pos, "RIFF", idlen(k)) PROVE ~Free(file, "RIFF")
    <3>1. "RIFF" \in Ids
      BY DEF Ids, WaveIds
    <3>2. file[pos + 1] = <<"id", "RIFF", 1, idlen(k)>> /\ pos + 1 \in 1..Len(file)
      BY <1>1, <1>2, <2>2, <2>3, <3>1, IdRead
    <3> QED
      BY <3>2 DEF Free
  <2> QED
    BY <1>1, <1>2, <2>1, <2>3
<1> QED
  BY <1>3, <1>4

LEMMA WaveStep ==
  ASSUME SafeInv, filecheck_wav \/ filecheck_w64
  PROVE  SafeInv'
<1>1. Types /\ check \in {"wav", "w64"} /\ use = "encode"
  BY DEF SafeInv, UseInv, filecheck_wav, filecheck_w64
<1>2. src' = src /\ file' = file /\ use' = use /\ stat' = stat /\ want' = "fmt"
  BY DEF filecheck_wav, filecheck_w64
<1>3. ASSUME NEW k \in {"wav", "w64"}, kind' = k, NEW n \in Nat, NEW miss \in {"w64", "failed"},
             Take(WaveResults(k), n, "find", miss)
      PROVE  SafeInv'
  <2>1. \/ \E r \in WaveResults(k) :
             /\ pos' = r[2]
             /\ r[1] = "OK" => check' = "find"
             /\ r[1] = "MISMATCH" => check' = miss
             /\ r[1] \notin {"OK", "MISMATCH", "AGAIN"} => check' = "failed"
        \/ check' = "failed" /\ pos' \in Nat
    BY <1>1, <1>3, TakeIs
  <2>2. pos' \in Nat /\ (check' \in {"w64", "failed"} \/ (check' = "find" /\ ~Free(file, "RIFF")))
    <3>1. ASSUME NEW r \in WaveResults(k)
          PROVE  /\ r[2] \in Nat /\ r[1] \in {"OK", "MISMATCH", "MALFORMED"}
                 /\ r[1] = "OK" => ~Free(file, "RIFF")
      BY <1>1, WaveRead
    <3> QED
      BY <2>1, <3>1
  <2> QED
    BY <1>1, <1>2, <1>3, <2>2 DEF SafeInv, Types, UseInv, FoundInv, StatInv, Got
<1>4. RiffChunk("wav") \in Nat /\ RiffChunk("w64") \in Nat
  BY DEF RiffChunk
<1> QED
  BY <1>3, <1>4 DEF filecheck_wav, filecheck_w64

LEMMA KindIs ==
  ASSUME Types
  PROVE  /\ RiffHeader(kind) \in Nat /\ idlen(kind) \in {4, 16} /\ HeaderOf(idlen(kind)) = RiffHeader(kind)
         /\ idlen(kind) + (IF kind = "wav" THEN 4 ELSE 8) <= RiffHeader(kind)
BY DEF Types, RiffHeader, idlen, HeaderOf

\* What is read of the size of a chunk.
LEMMA BodyLensAre ==
  ASSUME Types, NEW p \in Nat, p + RiffHeader(kind) <= Len(file)
  PROVE  BodyLens(p) \subseteq Int /\ BodyLens(p) # {}
<1> DEFINE n == IF kind = "wav" THEN 4 ELSE 8
           q == p + idlen(kind)
<1>1. /\ n \in Nat \ {0} /\ q \in Nat /\ q + n <= Len(file) /\ RiffHeader(kind) \in Nat
      /\ file \in Seq(Cell)
  BY KindIs, FileIs
<1>2. BodyLens(p) = {IF kind = "wav" THEN v ELSE v - RiffHeader(kind) : v \in NumsAt(file, q, n)}
  BY DEF BodyLens
<1> HIDE DEF n, q
<1>3. NumsAt(file, q, n) \subseteq Nat /\ NumsAt(file, q, n) # {}
  BY <1>1, NumsType
<1> QED
  BY <1>1, <1>2, <1>3

\* The seek over a body ends in the file or behind it, and a small size is the
\* distance.
LEMMA SkipIs ==
  ASSUME NEW p \in Nat, NEW len \in Int
  PROVE  /\ Skip(p, len)[1] \in {"SEEK_ERROR", "AGAIN"} /\ Skip(p, len)[2] \in Nat
         /\ len >= 0 /\ 2 * len <= U64MAX => Skip(p, len) = <<"AGAIN", p + len>>
<1>1. off_t(len) \in Int /\ (2 * len <= U64MAX => off_t(len) = len)
  BY U64Assumption DEF off_t
<1>2. CASE p + off_t(len) < 0
  BY <1>1, <1>2 DEF Skip
<1>3. CASE ~(p + off_t(len) < 0)
  BY <1>1, <1>3 DEF Skip
<1> QED
  BY <1>2, <1>3

LEMMA FindStep ==
  ASSUME SafeInv, find_subchunk
  PROVE  SafeInv'
<1>1. Types /\ check = "find" /\ use = "encode" /\ ~Free(file, "RIFF") /\ pos \in Nat /\ Len(file) \in Nat
  BY FileIs DEF SafeInv, UseInv, FoundInv, Types, find_subchunk
<1>2. /\ src' = src /\ file' = file /\ use' = use /\ stat' = stat /\ want' = want /\ kind' = kind
      /\ Take(FindResults, RiffHeader(kind), IF want = "fmt" THEN "fmt" ELSE "data", "failed")
  BY DEF find_subchunk
<1>3. RiffHeader(kind) \in Nat /\ idlen(kind) \in {4, 8, 16} /\ idlen(kind) <= RiffHeader(kind) /\ idlen(kind) \in {4, 16}
  BY <1>1, KindIs
<1>4. \/ \E r \in FindResults :
           /\ fc' = r[1] /\ pos' = r[2]
           /\ r[1] = "OK" => check' = IF want = "fmt" THEN "fmt" ELSE "data"
           /\ r[1] = "MISMATCH" => check' = "failed"
           /\ r[1] = "AGAIN" => check' = check
           /\ r[1] \notin {"OK", "MISMATCH", "AGAIN"} => check' = "failed"
      \/ fc' # "OK" /\ check' = "failed" /\ pos' \in Nat
  BY <1>1, <1>2, <1>3, TakeIs
<1>5. ASSUME NEW r \in FindResults
      PROVE  \/ r[1] \in {"MALFORMED", "SEEK_ERROR"} /\ r[2] \in Nat
             \/ r[1] = "AGAIN" /\ r[2] \in Nat
             \/ r[1] = "OK" /\ r[2] = pos /\ pos + RiffHeader(kind) <= Len(file) /\ HasId(file, pos, want, idlen(kind))
  <2>1. CASE Short(pos, RiffHeader(kind))
    BY <1>1, <2>1 DEF FindResults, TooShort
  <2>2. CASE ~Short(pos, RiffHeader(kind))
    <3>1. pos + RiffHeader(kind) <= Len(file)
      BY <1>1, <1>3, <2>2 DEF Short
    <3>2. BodyLens(pos) \subseteq Int
      BY <1>1, <3>1, BodyLensAre
    <3>3. PICK len \in BodyLens(pos) :
            r = IF len <= 0 THEN <<"MALFORMED", pos + RiffHeader(kind)>>
                ELSE IF HasId(file, pos, want, idlen(kind)) THEN <<"OK", pos>>
                ELSE Skip(pos + RiffHeader(kind), len)
      BY <2>2 DEF FindResults
    <3>4. CASE len <= 0 \/ HasId(file, pos, want, idlen(kind))
      BY <1>1, <1>3, <3>1, <3>2, <3>3, <3>4
    <3>5. CASE ~(len <= 0 \/ HasId(file, pos, want, idlen(kind)))
      <4>1. r = Skip(pos + RiffHeader(kind), len)
        BY <3>3, <3>5
      <4>2. len \in Int /\ pos + RiffHeader(kind) \in Nat
        BY <1>1, <1>3, <3>2
      <4>3. r[1] \in {"SEEK_ERROR", "AGAIN"} /\ r[2] \in Nat
        BY <4>1, <4>2, SkipIs
      <4> QED
        BY <4>3
    <3> QED
      BY <3>4, <3>5
  <2> QED
    BY <2>1, <2>2
<1>6. \/ check' \in {"find", "failed"} /\ pos' \in Nat
      \/ /\ check' = (IF want = "fmt" THEN "fmt" ELSE "data") /\ pos' = pos
         /\ pos + RiffHeader(kind) <= Len(file) /\ Begins(file, pos, want, idlen(kind))
  <2>1. CASE fc' # "OK" /\ check' = "failed" /\ pos' \in Nat
    BY <2>1
  <2>2. ASSUME NEW r \in FindResults, pos' = r[2],
               r[1] = "OK" => check' = IF want = "fmt" THEN "fmt" ELSE "data",
               r[1] = "AGAIN" => check' = check,
               r[1] \notin {"OK", "MISMATCH", "AGAIN"} => check' = "failed",
               r[1] = "OK"
        PROVE  /\ check' = (IF want = "fmt" THEN "fmt" ELSE "data") /\ pos' = pos
               /\ pos + RiffHeader(kind) <= Len(file) /\ Begins(file, pos, want, idlen(kind))
    <3>1. want \in Ids
      BY <1>1 DEF Types, Ids, WaveIds
    <3>2. /\ r[2] = pos /\ pos + RiffHeader(kind) <= Len(file) /\ HasId(file, pos, want, idlen(kind))
      BY <1>5, <2>2
    <3>3. pos + idlen(kind) <= Len(file)
      BY <1>1, <1>3, <3>2
    <3> QED
      BY <1>1, <1>3, <2>2, <3>1, <3>2, <3>3, IdRead
  <2>3. ASSUME NEW r \in FindResults, pos' = r[2],
               r[1] = "AGAIN" => check' = check,
               r[1] \notin {"OK", "MISMATCH", "AGAIN"} => check' = "failed",
               r[1] # "OK"
        PROVE  check' \in {"find", "failed"} /\ pos' \in Nat
    BY <1>1, <1>5, <2>3
  <2> QED
    BY <1>4, <2>1, <2>2, <2>3
<1>7. ASSUME NEW p PROVE FmtRead(p)' = FmtRead(p)
  BY <1>2 DEF FmtRead
<1>8. CASE check' \in {"find", "failed"} /\ pos' \in Nat
  BY <1>1, <1>2, <1>7, <1>8 DEF SafeInv, Types, UseInv, FoundInv, StatInv, Got
<1>9. CASE /\ check' = (IF want = "fmt" THEN "fmt" ELSE "data") /\ pos' = pos
           /\ pos + RiffHeader(kind) <= Len(file) /\ Begins(file, pos, want, idlen(kind))
  <2>1. CASE want = "fmt"
    BY <1>1, <1>2, <1>7, <1>9, <2>1 DEF SafeInv, Types, UseInv, FoundInv, StatInv, Got
  <2>2. CASE want = "data"
    BY <1>1, <1>2, <1>7, <1>9, <2>2 DEF SafeInv, Types, UseInv, FoundInv, StatInv, Got
  <2> QED
    BY <1>1, <2>1, <2>2 DEF Types
<1> QED
  BY <1>6, <1>8, <1>9

\* Where the id of a fmt chunk was read there is such a chunk.
LEMMA FmtOnly ==
  ASSUME Types, NEW V, FmtChunksIn(file, V), NEW p \in Nat, NEW n \in {4, 16}, Begins(file, p, "fmt", n)
  PROVE  \E v \in V : FmtAt(file, p, n, v)
<1>1. file \in Seq(Cell) /\ Len(file) \in Nat
  BY FileIs
<1>2. 1 \in 1..n /\ n \in Nat \ {0} /\ "fmt" \in Ids
  BY DEF Ids, WaveIds
<1>3. Len(Id("fmt", n)) = n /\ Id("fmt", n)[1] = <<"id", "fmt", 1, n>>
  BY <1>2, IdIs
<1>4. file[p + 1] = <<"id", "fmt", 1, n>> /\ p + 1 \in 1..Len(file)
  BY <1>1, <1>2, <1>3 DEF Begins, Has
<1>5. (p + 1) - 1 = p
  OBVIOUS
<1> DEFINE z == p + 1
<1>6. z \in 1..Len(file) /\ file[z][1] = "id" /\ file[z][2] = "fmt" /\ file[z][3] = 1 /\ file[z][4] = n
  BY <1>4
<1>7. \E v \in V : FmtAt(file, z - 1, file[z][4], v)
  BY <1>6 DEF FmtChunksIn
<1> QED
  BY <1>5, <1>6, <1>7

LEMMA FmtThere ==
  ASSUME Types, NEW p \in Nat, NEW n \in {4, 16}, Begins(file, p, "fmt", n)
  PROVE  \E v \in Formats : FmtAt(file, p, n, v)
<1>1. FmtChunksIn(file, Formats)
  BY ImageFmt DEF Types
<1> QED
  BY <1>1, FmtOnly

LEMMA FmtStep ==
  ASSUME SafeInv, read_subchunk_fmt
  PROVE  SafeInv'
<1> DEFINE p == pos + RiffHeader(kind)
           format == NumAt(p, 2)
           result == IF Short(p, FmtBody) THEN TooShort
                     ELSE IF format \notin {FMT_PCM, FMT_EXTENSIBLE}
                            THEN <<"UNSUPPORTED_DATATYPE", p + FmtBody>>
                     ELSE <<"OK", p + FmtBody>>
           next == IF format = FMT_PCM THEN "find" ELSE "wfx"
           read == [stat EXCEPT !.nchan      = NumAt(p + 2, 2),
                                !.samplerate = NumAt(p + 4, 4),
                                !.samplebits = NumAt(p + 14, 2)]
<1>1. /\ Types /\ check = "fmt" /\ use = "encode" /\ ~Free(file, "RIFF") /\ pos \in Nat /\ Len(file) \in Nat
      /\ Begins(file, pos, "fmt", idlen(kind)) /\ p <= Len(file)
  BY FileIs DEF SafeInv, UseInv, FoundInv, Types, read_subchunk_fmt
<1>2. src' = src /\ file' = file /\ use' = use /\ kind' = kind /\ want' = "data"
  BY DEF read_subchunk_fmt
<1>3. Take({result}, FmtBody, next, "failed") /\ stat' = IF fc' # "OK" THEN stat ELSE read
  BY DEF read_subchunk_fmt
<1>4. RiffHeader(kind) \in Nat /\ idlen(kind) \in {4, 16} /\ HeaderOf(idlen(kind)) = RiffHeader(kind)
  BY <1>1, KindIs
<1>5. FmtBody = 16 /\ FmtBody \in Nat /\ p \in Nat
  BY <1>1, <1>4 DEF FmtBody
<1>6. p + FmtBody \in Nat
  BY <1>5
<1> HIDE DEF p, format, read
<1>7. \/ check' = "failed" /\ pos' \in Nat /\ fc' # "OK"
      \/ /\ check' = next /\ pos' = p + FmtBody /\ fc' = "OK"
         /\ format \in {FMT_PCM, FMT_EXTENSIBLE} /\ ~Short(p, FmtBody)
  <2>1. \/ /\ fc' = result[1] /\ pos' = result[2]
           /\ result[1] = "OK" => check' = next
           /\ result[1] \notin {"OK", "MISMATCH", "AGAIN"} => check' = "failed"
        \/ fc' # "OK" /\ check' = "failed" /\ pos' \in Nat
    <3> HIDE DEF result, next
    <3> QED
      BY <1>1, <1>3, <1>5, TakeIs
  <2>2. CASE Short(p, FmtBody)
    BY <1>1, <2>1, <2>2 DEF TooShort
  <2>3. CASE ~Short(p, FmtBody) /\ format \notin {FMT_PCM, FMT_EXTENSIBLE}
    BY <1>6, <2>1, <2>3
  <2>4. CASE ~Short(p, FmtBody) /\ format \in {FMT_PCM, FMT_EXTENSIBLE}
    BY <2>1, <2>4
  <2> QED
    BY <2>2, <2>3, <2>4
<1>8. CASE check' = "failed" /\ pos' \in Nat /\ fc' # "OK"
  <2>1. Types'
    BY <1>1, <1>2, <1>3, <1>8 DEF Types
  <2> QED
    BY <1>2, <1>8, <2>1, Failing
<1>9. CASE /\ check' = next /\ pos' = p + FmtBody /\ fc' = "OK"
           /\ format \in {FMT_PCM, FMT_EXTENSIBLE} /\ ~Short(p, FmtBody)
  <2>1. p + FmtBody <= Len(file)
    BY <1>1, <1>6, <1>9 DEF Short
  <2>2. stat' \in ReadStats
    <3>1. ASSUME NEW k \in Nat, NEW n \in Nat \ {0}, k + n <= 16 PROVE NumAt(p + k, n) \in Nat
      <4> DEFINE q == p + k
      <4>1. q \in Nat /\ q + n <= Len(file)
        BY <1>1, <1>5, <2>1, <3>1
      <4> HIDE DEF q
      <4>2. NumAt(q, n) \in Nat
        BY <1>1, <4>1, NumAtIs
      <4> QED
        BY <4>2 DEF q
    <3> DEFINE a == NumAt(p + 2, 2)
               b == NumAt(p + 4, 4)
               c == NumAt(p + 14, 2)
    <3>2. a \in Nat /\ b \in Nat /\ c \in Nat
      <4>1. 2 \in Nat /\ 4 \in Nat /\ 14 \in Nat /\ 2 + 2 <= 16 /\ 4 + 4 <= 16 /\ 14 + 2 <= 16
            /\ 2 \in Nat \ {0} /\ 4 \in Nat \ {0}
        OBVIOUS
      <4> QED
        BY <3>1, <4>1, Zenon
    <3>3. stat' = [stat EXCEPT !.nchan = a, !.samplerate = b, !.samplebits = c]
      BY <1>3, <1>9 DEF read
    <3> HIDE DEF a, b, c
    <3>4. stat \in ReadStats
      BY <1>1 DEF Types
    <3> QED
      BY <3>2, <3>3, <3>4 DEF ReadStats
  <2>3. FmtAt(file, pos, idlen(kind), format)
    <3>1. PICK v \in Formats : FmtAt(file, pos, idlen(kind), v)
      BY <1>1, <1>4, FmtThere
    <3>2. v \in Nat /\ 2 \in Nat \ {0} /\ file \in Seq(Cell)
      BY <1>1, FileIs DEF Formats, FMT_PCM, FMT_EXTENSIBLE
    <3>3. Has(file, p, Num(v, 2))
      BY <1>4, <3>1 DEF FmtAt, p
    <3>4. NumsAt(file, p, 2) = {v}
      BY <1>5, <3>2, <3>3, NumFound
    <3>5. format \in NumsAt(file, p, 2)
      BY <3>4 DEF format, NumAt
    <3> QED
      BY <3>1, <3>4, <3>5
  <2>4. FmtRead(pos)
    BY <1>1, <1>4, <1>9, <2>3 DEF FmtRead
  <2>5. pos \in 0..Len(file)
    BY <1>1, <1>4, <1>5 DEF p
  <2>6. (\E k \in 0..Len(file) : FmtRead(k))'
    BY <1>2, <2>4, <2>5 DEF FmtRead
  <2>7. Types'
    BY <1>1, <1>2, <1>6, <1>9, <2>2 DEF Types
  <2>8. CASE format = FMT_PCM
    BY <1>1, <1>2, <1>9, <2>6, <2>7, <2>8 DEF SafeInv, UseInv, FoundInv, StatInv, Got
  <2>9. CASE format # FMT_PCM
    <3>1. format = FMT_EXTENSIBLE /\ check' = "wfx"
      BY <1>9, <2>9
    <3>2. (\E k \in 0..Len(file) : /\ pos = k + RiffHeader(kind) + FmtBody
                                  /\ Begins(file, k, "fmt", idlen(kind))
                                  /\ FmtAt(file, k, idlen(kind), FMT_EXTENSIBLE))'
      BY <1>1, <1>2, <1>9, <2>3, <2>5, <3>1 DEF p
    <3> QED
      BY <1>1, <1>2, <1>9, <2>6, <2>7, <3>1, <3>2 DEF SafeInv, UseInv, FoundInv, StatInv, Got
  <2> QED
    BY <2>8, <2>9
<1> QED
  BY <1>7, <1>8, <1>9

LEMMA WfxStep ==
  ASSUME SafeInv, read_subchunk_wfx
  PROVE  SafeInv'
<1> DEFINE size == NumAt(pos, 2)
           result == IF Short(pos, WfxTail) THEN TooShort
                     ELSE IF ~HasId(file, pos + 8, "PCM", 16)
                            THEN <<"UNSUPPORTED_DATATYPE", pos + WfxTail>>
                     ELSE IF size = 0 THEN <<"MALFORMED", pos + WfxTail>>
                     ELSE <<"OK", pos + WfxTail + (WfxTail - (size + 2))>>
<1>1. /\ Types /\ check = "wfx" /\ use = "encode" /\ ~Free(file, "RIFF") /\ pos \in Nat /\ Len(file) \in Nat
      /\ file \in Seq(Cell)
  BY FileIs DEF SafeInv, UseInv, FoundInv, Types, read_subchunk_wfx
<1>2. /\ src' = src /\ file' = file /\ use' = use /\ kind' = kind /\ want' = want /\ stat' = stat
      /\ Take({result}, WfxTail, "find", "failed")
  BY DEF read_subchunk_wfx
<1>3. PICK k \in 0..Len(file) : /\ pos = k + RiffHeader(kind) + FmtBody
                                /\ Begins(file, k, "fmt", idlen(kind))
                                /\ FmtAt(file, k, idlen(kind), FMT_EXTENSIBLE)
  BY <1>1 DEF SafeInv, FoundInv
<1>4. idlen(kind) \in {4, 16} /\ HeaderOf(idlen(kind)) = RiffHeader(kind)
  BY <1>1, KindIs
<1>5. size \in {22, 24}
  <2>1. PICK v \in {WfxTail - 2, WfxTail} : Has(file, pos, Num(v, 2))
    BY <1>3, <1>4 DEF FmtAt
  <2>2. v \in Nat /\ v \in {22, 24} /\ 2 \in Nat \ {0}
    BY DEF WfxTail
  <2>3. NumsAt(file, pos, 2) = {v}
    BY <1>1, <2>1, <2>2, NumFound
  <2> QED
    BY <2>2, <2>3 DEF NumAt
<1>6. WfxTail = 24 /\ WfxTail \in Nat
  BY DEF WfxTail
<1> HIDE DEF size
<1>7. result[2] \in Nat /\ result[1] \in {"MALFORMED", "UNSUPPORTED_DATATYPE", "OK"}
  BY <1>1, <1>5, <1>6 DEF TooShort
<1>8. check' \in {"find", "failed"} /\ pos' \in Nat
  <2> HIDE DEF result
  <2>1. \/ /\ fc' = result[1] /\ pos' = result[2]
           /\ result[1] = "OK" => check' = "find"
           /\ result[1] \notin {"OK", "MISMATCH", "AGAIN"} => check' = "failed"
        \/ fc' # "OK" /\ check' = "failed" /\ pos' \in Nat
    BY <1>1, <1>2, <1>6, TakeIs
  <2> QED
    BY <1>7, <2>1
<1>9. \E p \in 0..Len(file) : FmtRead(p)
  BY <1>3, <1>4 DEF FmtRead
<1>10. (\E p \in 0..Len(file) : FmtRead(p))'
  BY <1>2, <1>9 DEF FmtRead
<1> QED
  BY <1>1, <1>2, <1>8, <1>10 DEF SafeInv, Types, UseInv, FoundInv, StatInv, Got

LEMMA DataStep ==
  ASSUME SafeInv, read_data
  PROVE  SafeInv'
<1> DEFINE end == pos + RiffHeader(kind)
           len == CHOOSE n \in BodyLens(pos) : TRUE
<1>1. /\ Types /\ check = "data" /\ use = "encode" /\ ~Free(file, "RIFF") /\ pos \in Nat /\ Len(file) \in Nat
      /\ end <= Len(file) /\ want = "data" /\ \E p \in 0..Len(file) : FmtRead(p)
  BY FileIs DEF SafeInv, UseInv, FoundInv, Types, read_data
<1>2. /\ src' = src /\ file' = file /\ use' = use /\ kind' = kind /\ want' = want
      /\ Take({<<"OK", end>>}, RiffHeader(kind), "bounds", "failed")
      /\ stat' = IF fc' # "OK" THEN stat ELSE [stat EXCEPT !.off = pos', !.size = len]
  BY DEF read_data
<1>3. RiffHeader(kind) \in Nat
  BY <1>1, KindIs
<1>4. end \in Nat /\ len \in Int
  <2>1. BodyLens(pos) \subseteq Int /\ BodyLens(pos) # {}
    BY <1>1, BodyLensAre
  <2> QED
    BY <1>1, <1>3, <2>1
<1> HIDE DEF end, len
<1>5. \/ fc' = "OK" /\ pos' = end /\ check' = "bounds"
      \/ fc' # "OK" /\ check' = "failed" /\ pos' \in Nat
  BY <1>1, <1>2, <1>3, TakeIs
<1>6. stat' \in ReadStats /\ (check' = "bounds" => stat'.off = end) /\ pos' \in Nat
  <2>1. stat \in ReadStats
    BY <1>1 DEF Types
  <2> QED
    BY <1>2, <1>4, <1>5, <2>1 DEF ReadStats
<1>7. Types'
  BY <1>1, <1>2, <1>5, <1>6 DEF Types
<1>8. (\E p \in 0..Len(file) : FmtRead(p))'
  BY <1>1, <1>2 DEF FmtRead
<1> QED
  BY <1>1, <1>2, <1>5, <1>6, <1>7, <1>8 DEF SafeInv, UseInv, FoundInv, StatInv, Got

LEMMA TTA1Step ==
  ASSUME SafeInv, filecheck_tta1
  PROVE  SafeInv'
<1> DEFINE end    == pos + TTA1Header
           result == IF Short(pos, TTA1Header) THEN TooShort
                     ELSE IF ~HasId(file, pos, "TTA1", 4) THEN <<"MISMATCH", pos>>
                     ELSE IF ~HeaderCrcHolds(pos) THEN <<"CORRUPTED", end>>
                     ELSE IF NumAt(pos + 4, 2) # FMT_PCM THEN <<"UNSUPPORTED_DATATYPE", end>>
                     ELSE <<"OK", end>>
           read == [nchan      |-> NumAt(pos + 6, 2),
                    samplebits |-> NumAt(pos + 8, 2),
                    samplerate |-> NumAt(pos + 10, 4),
                    off        |-> end,
                    size       |-> NumAt(pos + 14, 4)]
<1>1. Types /\ check = "tta1" /\ use = "decode" /\ pos \in Nat /\ Len(file) \in Nat
  BY FileIs DEF SafeInv, UseInv, Types, filecheck_tta1
<1>2. src' = src /\ file' = file /\ use' = use /\ kind' = kind /\ want' = want
  BY DEF filecheck_tta1
<1>3. Take({result}, TTA1Header, "bounds", "failed") /\ stat' = IF fc' # "OK" THEN stat ELSE read
  BY DEF filecheck_tta1
<1>4. TTA1Header = 22 /\ TTA1Header \in Nat /\ end \in Nat
  BY <1>1 DEF TTA1Header
<1> HIDE DEF end, read
<1>5. \/ check' = "failed" /\ pos' \in Nat /\ fc' # "OK"
      \/ /\ check' = "bounds" /\ pos' = end /\ fc' = "OK"
         /\ ~Short(pos, TTA1Header) /\ HasId(file, pos, "TTA1", 4) /\ HeaderCrcHolds(pos)
  <2>1. \/ /\ fc' = result[1] /\ pos' = result[2]
           /\ result[1] = "OK" => check' = "bounds"
           /\ result[1] = "MISMATCH" => check' = "failed"
           /\ result[1] \notin {"OK", "MISMATCH", "AGAIN"} => check' = "failed"
        \/ fc' # "OK" /\ check' = "failed" /\ pos' \in Nat
    <3> HIDE DEF result
    <3> QED
      BY <1>1, <1>3, <1>4, TakeIs
  <2>2. CASE Short(pos, TTA1Header)
    BY <1>1, <2>1, <2>2 DEF TooShort
  <2>3. CASE ~Short(pos, TTA1Header)
    BY <1>1, <1>4, <2>1, <2>3
  <2> QED
    BY <2>2, <2>3
<1>6. CASE check' = "failed" /\ pos' \in Nat /\ fc' # "OK"
  <2>1. Types'
    BY <1>1, <1>2, <1>3, <1>6 DEF Types
  <2> QED
    BY <1>2, <1>6, <2>1, Failing
<1>7. CASE /\ check' = "bounds" /\ pos' = end /\ fc' = "OK"
           /\ ~Short(pos, TTA1Header) /\ HasId(file, pos, "TTA1", 4) /\ HeaderCrcHolds(pos)
  <2>1. end <= Len(file)
    BY <1>1, <1>4, <1>7 DEF Short, end
  <2>2. ASSUME NEW k \in Nat, NEW n \in Nat \ {0}, k + n <= 22 PROVE NumAt(pos + k, n) \in Nat
    <3> DEFINE q == pos + k
    <3>1. q \in Nat /\ q + n <= Len(file)
      BY <1>1, <1>4, <2>1, <2>2 DEF end
    <3> HIDE DEF q
    <3>2. NumAt(q, n) \in Nat
      BY <1>1, <3>1, NumAtIs
    <3> QED
      BY <3>2 DEF q
  <2> DEFINE a == NumAt(pos + 6, 2)
             b == NumAt(pos + 8, 2)
             c == NumAt(pos + 10, 4)
             d == NumAt(pos + 14, 4)
  <2>3. a \in Nat /\ b \in Nat /\ c \in Nat /\ d \in Nat
    <3>1. /\ 6 \in Nat /\ 8 \in Nat /\ 10 \in Nat /\ 14 \in Nat
          /\ 6 + 2 <= 22 /\ 8 + 2 <= 22 /\ 10 + 4 <= 22 /\ 14 + 4 <= 22
          /\ 2 \in Nat \ {0} /\ 4 \in Nat \ {0}
      OBVIOUS
    <3> QED
      BY <2>2, <3>1, Zenon
  <2>4. stat' = [nchan |-> a, samplebits |-> b, samplerate |-> c, off |-> end, size |-> d]
    BY <1>3, <1>7 DEF read
  <2> HIDE DEF a, b, c, d
  <2>5. stat' \in ReadStats /\ stat'.off = end
    BY <1>4, <2>3, <2>4 DEF ReadStats
  <2>6. TTA1Read(pos) /\ pos \in 0..Len(file)
    <3>1. "TTA1" \in Ids /\ 4 \in {4, 8, 16} /\ pos + 4 <= Len(file) /\ pos + TTA1Header <= Len(file)
      BY <1>1, <1>4, <2>1 DEF Ids, end
    <3>2. pos \in 0..Len(file)
      BY <1>1, <1>4, <3>1
    <3>3. Begins(file, pos, "TTA1", 4)
      BY <1>1, <1>7, <3>1, IdRead
    <3> QED
      BY <1>7, <3>1, <3>2, <3>3 DEF TTA1Read
  <2>7. (\E p \in 0..Len(file) : TTA1Read(p))'
    BY <1>2, <2>6 DEF TTA1Read, HeaderCrcHolds
  <2>8. Types'
    BY <1>1, <1>2, <1>4, <1>7, <2>5 DEF Types
  <2> QED
    BY <1>1, <1>2, <1>7, <2>1, <2>5, <2>7, <2>8 DEF SafeInv, UseInv, FoundInv, StatInv, Got
<1> QED
  BY <1>5, <1>6, <1>7

LEMMA RawStep ==
  ASSUME SafeInv, rawpcm_statcopy
  PROVE  SafeInv'
<1>1. Types /\ check = "raw" /\ use = "raw" /\ Len(file) \in Nat
  BY FileIs DEF SafeInv, UseInv, rawpcm_statcopy
<1>2. /\ src' = src /\ file' = file /\ use' = use /\ kind' = kind /\ want' = want
      /\ stat' = [RawStat EXCEPT !.off = 0, !.size = Len(file)] /\ pos' = Len(file) /\ check' = "rest"
  BY DEF rawpcm_statcopy
<1>3. stat' \in ReadStats /\ stat'.samplebits = RawStat.samplebits
  <2>1. RawStat \in ReadStats
    BY RawStatAssumption DEF Stats, ReadStats
  <2> DEFINE n == Len(file)
  <2>2. stat' = [RawStat EXCEPT !.off = 0, !.size = n] /\ n \in Nat
    BY <1>1, <1>2
  <2> HIDE DEF n
  <2>3. ASSUME NEW r \in ReadStats PROVE [r EXCEPT !.off = 0, !.size = n] \in ReadStats
    <3>1. ASSUME NEW m \in Nat, NEW k \in Int PROVE [r EXCEPT !.off = m, !.size = k] \in ReadStats
      BY DEF ReadStats
    <3>2. 0 \in Nat /\ n \in Int
      BY <2>2
    <3> QED
      BY <3>1, <3>2, Zenon
  <2>4. ASSUME NEW r \in ReadStats PROVE [r EXCEPT !.off = 0, !.size = n].samplebits = r.samplebits
    BY DEF ReadStats
  <2> QED
    BY <2>1, <2>2, <2>3, <2>4
<1>4. samplebytes(stat') \in 1..3
  BY <1>3, RawStatAssumption DEF samplebytes
<1>5. Types'
  BY <1>1, <1>2, <1>3 DEF Types
<1> QED
  BY <1>1, <1>2, <1>4, <1>5 DEF SafeInv, UseInv, FoundInv, StatInv, Got

LEMMA BoundsStep ==
  ASSUME SafeInv, check_bounds
  PROVE  SafeInv'
<1>1. Types /\ check = "bounds" /\ use # "raw"
  BY DEF SafeInv, UseInv, check_bounds
<1>2. /\ src' = src /\ file' = file /\ use' = use /\ kind' = kind /\ want' = want /\ stat' = stat /\ pos' = pos
      /\ (check' = "rest" /\ InBounds(stat)) \/ check' = "failed"
  BY DEF check_bounds
<1>3. Types'
  BY <1>1, <1>2 DEF Types
<1>4. InBounds(stat) => samplebytes(stat) \in 1..3
  BY <1>1 DEF Types, ReadStats, InBounds, SAMPLEBITS_MAX, samplebytes
<1>5. CASE check' = "failed"
  BY <1>2, <1>3, <1>5, Failing
<1>6. CASE check' = "rest" /\ InBounds(stat)
  <2>1. ASSUME NEW p PROVE FmtRead(p)' = FmtRead(p) /\ TTA1Read(p)' = TTA1Read(p)
    BY <1>2 DEF FmtRead, TTA1Read, HeaderCrcHolds
  <2>2. /\ use = "encode" => ~Free(file, "RIFF") /\ \E p \in 0..Len(file) : FmtRead(p)
        /\ use = "decode" => \E p \in 0..Len(file) : TTA1Read(p)
        /\ stat.off <= Len(file)
    BY <1>1 DEF SafeInv, FoundInv, StatInv, Got
  <2> QED
    BY <1>1, <1>2, <1>3, <1>4, <1>6, <2>1, <2>2 DEF SafeInv, UseInv, FoundInv, StatInv, Got
<1> QED
  BY <1>2, <1>5, <1>6

LEMMA StatsStep ==
  ASSUME SafeInv, filestats_get
  PROVE  SafeInv'
<1>1. Types /\ check = "rest"
  BY DEF SafeInv, filestats_get
<1>2. /\ src' = src /\ file' = file /\ use' = use /\ kind' = kind /\ want' = want /\ stat' = stat /\ pos' = pos
      /\ check' = IF NErrors(stat) = 0 THEN "accepted" ELSE "failed"
  BY DEF filestats_get
<1>3. Types'
  BY <1>1, <1>2 DEF Types
<1>4. CASE check' = "failed"
  BY <1>2, <1>3, <1>4, Failing
<1>5. CASE check' = "accepted" /\ NErrors(stat) = 0
  <2>1. ASSUME NEW p PROVE FmtRead(p)' = FmtRead(p) /\ TTA1Read(p)' = TTA1Read(p)
    BY <1>2 DEF FmtRead, TTA1Read, HeaderCrcHolds
  <2>2. /\ use = "encode" => ~Free(file, "RIFF") /\ \E p \in 0..Len(file) : FmtRead(p)
        /\ use = "decode" => \E p \in 0..Len(file) : TTA1Read(p)
        /\ use # "raw" => stat.off <= Len(file)
        /\ samplebytes(stat) \in 1..3
    BY <1>1 DEF SafeInv, FoundInv, StatInv, Got
  <2> QED
    BY <1>1, <1>2, <1>3, <1>5, <2>1, <2>2 DEF SafeInv, UseInv, FoundInv, StatInv, Got
<1> QED
  BY <1>2, <1>4, <1>5

\* The inductive invariant of the file checks, its part about safety: whatever a
\* check has passed is in the file, whichever way the sizes in the file have led
\* the stream and whatever has failed (filestats_get, cli/open.c).
THEOREM CheckedSafely == CheckSpec => []SafeInv
<1>1. CheckInit => SafeInv
  <2> SUFFICES ASSUME CheckInit PROVE SafeInv
    OBVIOUS
  <2>1. Unset \in ReadStats
    BY DEF Unset, ReadStats
  <2>2. Types
    BY <2>1 DEF CheckInit, Types
  <2> QED
    BY <2>2 DEF CheckInit, SafeInv, UseInv, FoundInv, StatInv, Got
<1>2. SafeInv /\ [CheckNext]_checkVars => SafeInv'
  <2> SUFFICES ASSUME SafeInv, [CheckNext]_checkVars PROVE SafeInv'
    OBVIOUS
  <2>1. CASE apetag_skip
    BY <2>1, ApeStep
  <2>2. CASE id3tag_skip
    BY <2>2, ID3Step
  <2>3. CASE filecheck_wav \/ filecheck_w64
    BY <2>3, WaveStep
  <2>4. CASE find_subchunk
    BY <2>4, FindStep
  <2>5. CASE read_subchunk_fmt
    BY <2>5, FmtStep
  <2>6. CASE read_subchunk_wfx
    BY <2>6, WfxStep
  <2>7. CASE read_data
    BY <2>7, DataStep
  <2>8. CASE filecheck_tta1
    BY <2>8, TTA1Step
  <2>9. CASE rawpcm_statcopy
    BY <2>9, RawStep
  <2>10. CASE check_bounds
    BY <2>10, BoundsStep
  <2>11. CASE filestats_get
    BY <2>11, StatsStep
  <2>12. CASE UNCHANGED checkVars
    <3>1. /\ src' = src /\ file' = file /\ use' = use /\ check' = check /\ pos' = pos
          /\ want' = want /\ kind' = kind /\ stat' = stat
      BY <2>12 DEF checkVars
    <3>2. ASSUME NEW p PROVE FmtRead(p)' = FmtRead(p) /\ TTA1Read(p)' = TTA1Read(p)
      BY <3>1 DEF FmtRead, TTA1Read, HeaderCrcHolds
    <3> QED
      BY <3>1, <3>2 DEF SafeInv, Types, UseInv, FoundInv, StatInv, Got
  <2> QED
    BY <2>1, <2>2, <2>3, <2>4, <2>5, <2>6, <2>7, <2>8, <2>9, <2>10, <2>11, <2>12 DEF CheckNext
<1> QED
  BY <1>1, <1>2, PTL DEF CheckSpec

\* What is accepted has bytes per sample, channels and a frame length the codec
\* can work with, and its data begins within the file (filestats_get, cli/open.c).
THEOREM AcceptsOnlyCodable == CheckSpec => []AcceptedIsCodable
<1>1. SafeInv => AcceptedIsCodable
  <2> SUFFICES ASSUME SafeInv, check = "accepted" PROVE AcceptedIsCodable
    BY DEF AcceptedIsCodable
  <2>1. /\ samplebytes(stat) \in 1..3 /\ NErrors(stat) = 0 /\ stat \in ReadStats
        /\ use # "raw" => stat.off <= Len(file)
    BY DEF SafeInv, StatInv, Types, Got
  <2> DEFINE E == {e \in 1..3 :
                     \/ e = 1 /\ ~libttaR_test_nchan(stat.nchan)
                     \/ e = 2 /\ libttaR_nsamples_perframe_tta1(stat.samplerate) = 0
                     \/ e = 3 /\ samplebytes(stat) = 0}
  <2>2. E = {}
    <3>1. IsFiniteSet(E)
      <4>1. IsFiniteSet(1..3)
        <5>1. 1 \in Int /\ 3 \in Int
          OBVIOUS
        <5> QED
          BY <5>1, FS_Interval
      <4> QED
        BY <4>1, FS_Subset
    <3>2. Cardinality(E) = 0
      BY <2>1 DEF NErrors
    <3> HIDE DEF E
    <3> QED
      BY <3>1, <3>2, FS_EmptySet
  <2>3. libttaR_test_nchan(stat.nchan) /\ libttaR_nsamples_perframe_tta1(stat.samplerate) # 0
    <3>1. 1 \notin E /\ 2 \notin E
      BY <2>2
    <3> QED
      BY <3>1
  <2>4. libttaR_nsamples_perframe_tta1(stat.samplerate) \in Nat
    BY <2>1 DEF libttaR_nsamples_perframe_tta1, ReadStats
  <2> QED
    BY <2>1, <2>3, <2>4 DEF AcceptedIsCodable
<1> QED
  BY <1>1, CheckedSafely, PTL

\* No file is accepted whose header was only reserved or is damaged, that is of
\* the format of the other mode, or that has samples of another type
\* (filecheck_wav, filecheck_w64, filecheck_tta1).
THEOREM NeverAcceptsUnfinished == CheckSpec => []RefusesUnfinished
<1>1. SafeInv => RefusesUnfinished
  <2> SUFFICES ASSUME SafeInv, check = "accepted", use # "raw"
               PROVE  /\ src.state = "whole" /\ Asked
                      /\ src.maker = "foreign" => \A z \in DOMAIN src.chunks : src.chunks[z] # "float"
    BY DEF RefusesUnfinished
  <2>1. /\ Types /\ src \in Sources /\ file = Image(src) /\ use \in {"encode", "decode"}
        /\ use = "encode" => ~Free(file, "RIFF") /\ \E p \in 0..Len(file) : FmtRead(p)
        /\ use = "decode" => \E p \in 0..Len(file) : TTA1Read(p)
    BY DEF SafeInv, Types, FoundInv, Got
  <2>2. /\ src.state \in {"whole", "unfinished", "damaged"} /\ src.format \in {"wav", "w64", "tta1"}
        /\ src.maker = "foreign" => src.format \in {"wav", "w64"}
        /\ src.format = "tta1" \/ src.state # "whole"      => Free(file, "RIFF")
        /\ src.format # "tta1" \/ src.state = "unfinished" => Free(file, "TTA1")
    BY <2>1, SourceIs, ImageFields
  <2>3. CASE use = "encode"
    <3>1. src.format # "tta1" /\ src.state = "whole"
      BY <2>1, <2>2, <2>3
    <3>2. Asked
      BY <2>3, <3>1 DEF Asked
    <3>3. ASSUME src.maker = "foreign", NEW z \in DOMAIN src.chunks, src.chunks[z] = "float" PROVE FALSE
      <4>1. FmtChunksIn(file, {3})
        BY <2>1, <3>3, ImageFloat
      <4>2. PICK p \in 0..Len(file) : FmtRead(p)
        BY <2>1, <2>3
      <4>3. PICK n \in {4, 16}, v \in {FMT_PCM, FMT_EXTENSIBLE} : Begins(file, p, "fmt", n) /\ FmtAt(file, p, n, v)
        BY <4>2 DEF FmtRead
      <4>4. file \in Seq(Cell) /\ Len(file) \in Nat /\ p \in Nat
        BY <2>1, <4>2, FileIs
      <4>5. FmtAt(file, p, n, 3)
        BY <2>1, <4>1, <4>3, <4>4, FmtOnly
      <4> DEFINE q == p + HeaderOf(n)
      <4>6. q \in Nat
        BY <4>4 DEF HeaderOf
      <4>7. Has(file, q, Num(v, 2)) /\ Has(file, q, Num(3, 2))
        BY <4>3, <4>5 DEF FmtAt
      <4> HIDE DEF q
      <4>8. v \in Nat /\ v # 3 /\ 3 \in Nat /\ 2 \in Nat \ {0}
        BY DEF FMT_PCM, FMT_EXTENSIBLE
      <4>9. NumsAt(file, q, 2) = {v}
        BY <4>4, <4>6, <4>7, <4>8, NumFound
      <4>10. NumsAt(file, q, 2) = {3}
        BY <4>4, <4>6, <4>7, <4>8, NumFound
      <4> QED
        BY <4>8, <4>9, <4>10
    <3> QED
      BY <3>1, <3>2, <3>3
  <2>4. CASE use = "decode"
    <3>1. PICK p \in 0..Len(file) : TTA1Read(p)
      BY <2>1, <2>4
    <3>2. ~Free(file, "TTA1")
      <4>1. Begins(file, p, "TTA1", 4)
        BY <3>1 DEF TTA1Read
      <4>2. Len(Id("TTA1", 4)) = 4 /\ Id("TTA1", 4)[1] = <<"id", "TTA1", 1, 4>> /\ 1 \in 1..4
        <5>1. "TTA1" \in Ids /\ 4 \in Nat \ {0} /\ 1 \in 1..4
          BY DEF Ids
        <5> QED
          BY <5>1, IdIs
      <4>3. file[p + 1] = <<"id", "TTA1", 1, 4>>
        BY <4>1, <4>2 DEF Begins, Has
      <4>4. p + 1 \in 1..Len(file)
        BY <2>1, <4>1, <4>2, FileIs DEF Begins, Has
      <4> QED
        BY <4>3, <4>4 DEF Free
    <3>3. src.format = "tta1" /\ src.state # "unfinished"
      BY <2>2, <3>2
    <3>4. src.state # "damaged"
      <4> SUFFICES ASSUME src.state = "damaged" PROVE FALSE
        OBVIOUS
      <4>1. p \in Nat /\ p + TTA1Header <= Len(file) /\ HeaderCrcHolds(p)
        BY <3>1 DEF TTA1Read
      <4> QED
        BY <2>1, <4>1, DamagedFails DEF HeaderCrcHolds
    <3> QED
      BY <2>2, <2>4, <3>3, <3>4 DEF Asked
  <2> QED
    BY <2>1, <2>3, <2>4
<1> QED
  BY <1>1, CheckedSafely, PTL

-----------------------------------------------------------------------------
(* Where the chunks of a file are *)

\* What is in a part of a file is in the file.
LEMMA HasInside ==
  ASSUME NEW f \in Seq(Cell), NEW p \in Nat, NEW g \in Seq(Cell), NEW q \in Nat, NEW h \in Seq(Cell),
         Has(f, p, g), Has(g, q, h)
  PROVE  Has(f, p + q, h) /\ p + q \in Nat
<1>1. Len(f) \in Nat /\ Len(g) \in Nat /\ Len(h) \in Nat
  BY LenProperties
<1>2. p + Len(g) <= Len(f) /\ q + Len(h) <= Len(g)
  BY DEF Has
<1>3. p + q \in Nat /\ (p + q) + Len(h) <= Len(f)
  BY <1>1, <1>2
<1>4. ASSUME NEW z \in 1..Len(h) PROVE f[(p + q) + z] = h[z]
  <2>1. q + z \in 1..Len(g) /\ p + (q + z) = (p + q) + z
    BY <1>1, <1>2
  <2>2. f[p + (q + z)] = g[q + z]
    BY <2>1 DEF Has
  <2>3. g[q + z] = h[z]
    BY DEF Has
  <2> QED
    BY <2>1, <2>2, <2>3
<1> QED
  BY <1>3, <1>4 DEF Has

HeadAt(f, k, p, s, n) ==
  /\ p + RiffHeader(k) <= Len(f)
  /\ Has(f, p, Id(s, idlen(k)))
  /\ Has(f, p + idlen(k), Num(SizeField(k, n), RiffHeader(k) - idlen(k)))

BodyAt(f, p, v, s) ==
  /\ p + 16 <= Len(f)
  /\ Has(f, p, Num(v, 2)) /\ Has(f, p + 2, Num(s.nchan, 2))
  /\ Has(f, p + 4, Num(s.samplerate, 4)) /\ Has(f, p + 14, Num(s.samplebits, 2))

TailAt(f, p) ==
  /\ p + 24 <= Len(f)
  /\ Has(f, p, Num(22, 2)) /\ Has(f, p + 8, Id("PCM", 16))

LEMMA HeadHas ==
  ASSUME NEW f \in Seq(Cell), NEW p \in Nat, NEW k \in {"wav", "w64"}, NEW s \in Ids, NEW n \in Nat,
         Has(f, p, ChunkHeader(k, s, n))
  PROVE  HeadAt(f, k, p, s, n)
<1> DEFINE g == ChunkHeader(k, s, n)
           a == Id(s, idlen(k))
           v == SizeField(k, n)
           m == RiffHeader(k) - idlen(k)
           b == Num(v, m)
           il == idlen(k)
<1>1. g \in Seq(Cell) /\ Len(g) = RiffHeader(k) /\ Has(g, 0, a) /\ Has(g, il, b)
  BY ChunkHeaderIs
<1>2. il \in Nat \ {0} /\ m \in Nat /\ v \in Nat
  BY DEF idlen, RiffHeader, SizeField
<1>3. a \in Seq(Cell) /\ b \in Seq(Cell)
  BY <1>2, IdIs, NumIs
<1>4. p + RiffHeader(k) <= Len(f)
  BY <1>1 DEF Has
<1> HIDE DEF g, a, b, v, m, il
<1>5. Has(f, p, g)
  BY DEF g
<1>6. Has(f, p + 0, a) /\ Has(f, p + il, b)
  <2>1. 0 \in Nat
    OBVIOUS
  <2>2. Has(f, p + 0, a)
    BY <1>1, <1>3, <1>5, <2>1, HasInside
  <2>3. Has(f, p + il, b)
    BY <1>1, <1>2, <1>3, <1>5, HasInside
  <2> QED
    BY <2>2, <2>3
<1>7. p + 0 = p
  OBVIOUS
<1> QED
  BY <1>4, <1>6, <1>7 DEF HeadAt, a, b, v, m, il

LEMMA BodyHas ==
  ASSUME NEW f \in Seq(Cell), NEW p \in Nat, NEW x \in Stats, NEW v \in Nat,
         Has(f, p, fill_waveformatex_body(x, v))
  PROVE  BodyAt(f, p, v, x)
<1> DEFINE g == fill_waveformatex_body(x, v)
           a == Num(v, 2)
           b == Num(x.nchan, 2)
           c == Num(x.samplerate, 4)
           d == Num(x.samplebits, 2)
<1>1. g \in Seq(Cell) /\ Len(g) = 16 /\ Has(g, 0, a) /\ Has(g, 2, b) /\ Has(g, 4, c) /\ Has(g, 14, d)
  BY BodyIs
<1>2. x.nchan \in Nat /\ x.samplerate \in Nat /\ x.samplebits \in Nat
  BY DEF Stats
<1>3. a \in Seq(Cell) /\ b \in Seq(Cell) /\ c \in Seq(Cell) /\ d \in Seq(Cell)
  <2>1. 2 \in Nat /\ 4 \in Nat
    OBVIOUS
  <2> QED
    BY <1>2, <2>1, NumIs
<1>4. p + 16 <= Len(f)
  BY <1>1 DEF Has
<1> HIDE DEF g, a, b, c, d
<1>5. Has(f, p, g)
  BY DEF g
<1>6. \A q \in Nat, h \in Seq(Cell) : Has(g, q, h) => Has(f, p + q, h)
  BY <1>1, <1>5, HasInside
<1>7. 0 \in Nat /\ 2 \in Nat /\ 4 \in Nat /\ 14 \in Nat /\ p + 0 = p
  OBVIOUS
<1>8. Has(f, p + 0, a) /\ Has(f, p + 2, b) /\ Has(f, p + 4, c) /\ Has(f, p + 14, d)
  BY <1>1, <1>3, <1>6, <1>7, Zenon
<1> QED
  BY <1>4, <1>7, <1>8 DEF BodyAt, a, b, c, d

LEMMA TailHas ==
  ASSUME NEW f \in Seq(Cell), NEW p \in Nat, NEW x \in Stats,
         Has(f, p, fill_waveformatextensible(x, WfxTail - 2))
  PROVE  TailAt(f, p)
<1> DEFINE g == fill_waveformatextensible(x, 22)
           a == Num(22, 2)
           b == Id("PCM", 16)
<1>1. g \in Seq(Cell) /\ Len(g) = 24 /\ Has(g, 0, a) /\ Has(g, 8, b)
  <2>1. 22 \in Nat
    OBVIOUS
  <2> QED
    BY <2>1, TailIs
<1>2. WfxTail - 2 = 22
  BY DEF WfxTail
<1>3. a \in Seq(Cell) /\ b \in Seq(Cell)
  <2>1. 2 \in Nat /\ 22 \in Nat /\ 16 \in Nat \ {0} /\ "PCM" \in Ids /\ 16 \in Nat
    BY DEF Ids, WaveIds
  <2> QED
    BY <2>1, NumIs, IdIs
<1>4. Has(f, p, g)
  BY <1>2
<1>5. p + 24 <= Len(f)
  BY <1>1, <1>4 DEF Has
<1> HIDE DEF g, a, b
<1>6. \A q \in Nat, h \in Seq(Cell) : Has(g, q, h) => Has(f, p + q, h)
  BY <1>1, <1>4, HasInside
<1>7. 0 \in Nat /\ 8 \in Nat /\ p + 0 = p
  OBVIOUS
<1>8. Has(f, p + 0, a) /\ Has(f, p + 8, b)
  BY <1>1, <1>3, <1>6, <1>7, Zenon
<1> QED
  BY <1>5, <1>7, <1>8 DEF TailAt, a, b

ChunkAt(f, k, p, c, s) ==
  /\ HeadAt(f, k, p, IF c = "list" THEN "LIST" ELSE "fmt", BodyLen(k, c))
  /\ p + RiffHeader(k) + BodyLen(k, c) <= Len(f)
  /\ c # "list" => BodyAt(f, p + RiffHeader(k), IF c = "pcm" THEN FMT_PCM ELSE FMT_EXTENSIBLE, s)
  /\ c = "ext" => TailAt(f, p + RiffHeader(k) + FmtBody)

LEMMA BodyLenIs ==
  ASSUME NEW k
  PROVE  /\ BodyLen(k, "list") = ListBody(k) /\ BodyLen(k, "pcm") = FmtBody
         /\ BodyLen(k, "ext") = FmtBody + WfxTail
BY DEF BodyLen

LEMMA PlainIs ==
  ASSUME NEW k, NEW x
  PROVE  /\ PlainChunk(k, "pcm", x) = ChunkHeader(k, "fmt", FmtBody) \o fill_waveformatex_body(x, FMT_PCM)
         /\ PlainChunk(k, "ext", x) = ChunkHeader(k, "fmt", FmtBody + WfxTail)
                                        \o fill_waveformatex_body(x, FMT_EXTENSIBLE)
                                        \o fill_waveformatextensible(x, WfxTail - 2)
         /\ PlainChunk(k, "list", x) = ChunkHeader(k, "LIST", ListBody(k))
                                         \o ChunkHeader(k, "data", 5) \o Raw(ListBody(k) - RiffHeader(k))
BY DEF PlainChunk

LEMMA PlainHas ==
  ASSUME NEW f \in Seq(Cell), NEW p \in Nat, NEW k \in {"wav", "w64"}, NEW c \in Plain, NEW x \in Stats,
         Has(f, p, PlainChunk(k, c, x))
  PROVE  ChunkAt(f, k, p, c, x)
<1> DEFINE h(id, n) == ChunkHeader(k, id, n)
           b(v) == fill_waveformatex_body(x, v)
           e    == fill_waveformatextensible(x, WfxTail - 2)
           hl   == RiffHeader(k)
<1>1. hl \in Nat /\ FMT_PCM \in Nat /\ FMT_EXTENSIBLE \in Nat /\ FmtBody \in Nat /\ FmtBody = 16
      /\ FmtBody + WfxTail \in Nat /\ WfxTail = 24 /\ WfxTail - 2 \in Nat /\ 12 \in Nat
      /\ "fmt" \in Ids /\ "LIST" \in Ids /\ "data" \in Ids
  BY DEF RiffHeader, FMT_PCM, FMT_EXTENSIBLE, FmtBody, WfxTail, Ids, WaveIds
<1>2. ASSUME NEW id \in Ids, NEW n \in Nat PROVE h(id, n) \in Seq(Cell) /\ Len(h(id, n)) = hl
  BY ChunkHeaderIs
<1>3. ASSUME NEW v \in Nat PROVE b(v) \in Seq(Cell) /\ Len(b(v)) = FmtBody
  BY <1>1, BodyIs
<1>4. e \in Seq(Cell) /\ Len(e) = 24
  BY <1>1, TailIs
<1>5. CASE c = "list"
  <2> DEFINE n  == ListBody(k)
             g  == h("LIST", n)
             r1 == h("data", 5)
             r2 == Raw(n - hl)
             g1 == g \o r1
  <2>1. PlainChunk(k, c, x) = g1 \o r2
    BY <1>5, PlainIs
  <2>2. n \in Nat /\ n - hl \in Nat /\ hl + (n - hl) = n /\ 5 \in Nat
    BY DEF ListBody, RiffHeader
  <2>3. g \in Seq(Cell) /\ Len(g) = hl /\ r1 \in Seq(Cell) /\ Len(r1) = hl
    BY <1>1, <1>2, <2>2
  <2>4. r2 \in Seq(Cell) /\ Len(r2) = n - hl
    BY <2>2, RawIs
  <2> HIDE DEF g, r1, r2, n, hl
  <2>5. g1 \in Seq(Cell) /\ Len(g1) = Len(g) + Len(r1)
    BY <2>3, JoinedLen
  <2>6. Len(PlainChunk(k, c, x)) = hl + n
    <3>1. Len(g1 \o r2) = Len(g1) + Len(r2)
      BY <2>4, <2>5, JoinedLen
    <3> QED
      BY <1>1, <2>1, <2>2, <2>3, <2>4, <2>5, <3>1
  <2>7. Has(f, p, g)
    <3>1. Has(f, p, g1)
      <4> HIDE DEF g1
      <4> QED
        BY <2>1, <2>4, <2>5, HasParts
    <3> QED
      BY <2>3, <3>1, HasParts
  <2>8. p + hl + n <= Len(f)
    BY <1>1, <2>2, <2>6 DEF Has
  <2>9. HeadAt(f, k, p, "LIST", n)
    BY <1>1, <2>2, <2>7, HeadHas DEF g
  <2> QED
    BY <1>5, <2>8, <2>9, BodyLenIs DEF ChunkAt, n, hl
<1>6. CASE c = "pcm"
  <2> DEFINE g == h("fmt", FmtBody)
             d == b(FMT_PCM)
  <2>1. PlainChunk(k, c, x) = g \o d
    BY <1>6, PlainIs
  <2>2. g \in Seq(Cell) /\ Len(g) = hl /\ d \in Seq(Cell) /\ Len(d) = FmtBody
    BY <1>1, <1>2, <1>3
  <2> HIDE DEF g, d
  <2>3. Has(f, p, g) /\ Has(f, p + hl, d)
    BY <2>1, <2>2, HasParts
  <2>4. HeadAt(f, k, p, "fmt", FmtBody)
    BY <1>1, <2>3, HeadHas DEF g
  <2>5. BodyAt(f, p + hl, FMT_PCM, x) /\ p + hl + FmtBody <= Len(f)
    <3>1. p + hl \in Nat
      BY <1>1
    <3>2. BodyAt(f, p + hl, FMT_PCM, x)
      BY <1>1, <2>3, <3>1, BodyHas DEF d
    <3> QED
      BY <1>1, <3>1, <3>2 DEF BodyAt
  <2> QED
    BY <1>6, <2>4, <2>5, BodyLenIs DEF ChunkAt
<1>7. CASE c = "ext"
  <2> DEFINE n == FmtBody + WfxTail
             g == h("fmt", n)
             d == b(FMT_EXTENSIBLE)
             gd == g \o d
  <2>1. PlainChunk(k, c, x) = gd \o e
    BY <1>7, PlainIs
  <2>2. g \in Seq(Cell) /\ Len(g) = hl /\ d \in Seq(Cell) /\ Len(d) = FmtBody
    BY <1>1, <1>2, <1>3
  <2> HIDE DEF g, d, e
  <2>3. gd \in Seq(Cell) /\ Len(gd) = Len(g) + Len(d)
    BY <2>2, JoinedLen
  <2>4. Has(f, p, gd) /\ Has(f, p + Len(gd), e)
    <3> HIDE DEF gd
    <3> QED
      BY <1>4, <2>1, <2>3, HasParts
  <2>5. Has(f, p, g) /\ Has(f, p + Len(g), d)
    BY <2>2, <2>4, HasParts
  <2>6. p + Len(gd) = p + hl + FmtBody /\ p + hl \in Nat /\ p + hl + FmtBody \in Nat
    <3> HIDE DEF gd, hl
    <3>1. Len(gd) = hl + FmtBody
      BY <2>2, <2>3
    <3>2. p + (hl + FmtBody) = p + hl + FmtBody /\ p + hl \in Nat /\ p + hl + FmtBody \in Nat
      BY <1>1
    <3> QED
      BY <3>1, <3>2
  <2>7. HeadAt(f, k, p, "fmt", n)
    BY <1>1, <2>5, HeadHas DEF g
  <2>8. BodyAt(f, p + hl, FMT_EXTENSIBLE, x)
    BY <1>1, <2>2, <2>5, <2>6, BodyHas DEF d
  <2>9. TailAt(f, p + hl + FmtBody)
    BY <2>4, <2>6, TailHas DEF e
  <2>10. p + hl + n <= Len(f)
    <3>1. p + hl + FmtBody + 24 <= Len(f)
      BY <2>9 DEF TailAt
    <3> QED
      BY <1>1, <3>1
  <2> QED
    BY <1>7, <2>7, <2>8, <2>9, <2>10, BodyLenIs DEF ChunkAt
<1> QED
  BY <1>5, <1>6, <1>7 DEF Plain

\* What the program writes is a container, a fmt chunk and the header of the data.
LEMMA WrittenIs ==
  ASSUME NEW x \in Stats, NEW size \in Nat
  PROVE  /\ write_wav_header(x, size) = WaveHeader("wav", riff_size(size)) \o PlainChunk("wav", "ext", x)
                                          \o ChunkHeader("wav", "data", data_field(size))
         /\ write_w64_header(x, size) = WaveHeader("w64", size + WriteTemplate("w64"))
                                          \o PlainChunk("w64", "ext", x) \o ChunkHeader("w64", "data", size)
<1> DEFINE n == FmtBody + WfxTail
           b == fill_waveformatex_body(x, FMT_EXTENSIBLE)
           e == fill_waveformatextensible(x, WfxTail - 2)
<1>1. n \in Nat /\ WfxTail - 2 \in Nat /\ FMT_EXTENSIBLE \in Nat /\ "fmt" \in Ids /\ "data" \in Ids
  BY DEF FmtBody, WfxTail, FMT_EXTENSIBLE, Ids, WaveIds
<1>2. b \in Seq(Cell) /\ e \in Seq(Cell)
  BY <1>1, BodyIs, TailIs
<1>3. riff_size(size) \in Nat /\ data_field(size) \in Nat /\ size + WriteTemplate("w64") \in Nat
  BY SizesAre DEF WriteTemplate, RiffChunk, RiffHeader, FmtBody, WfxTail
<1>4. ASSUME NEW k \in {"wav", "w64"}, NEW m \in Nat
      PROVE  WaveHeader(k, m) \in Seq(Cell) /\ ChunkHeader(k, "fmt", n) \in Seq(Cell)
  BY <1>1, ChunkHeaderIs, WaveHeaderFields, FieldsWider
<1>5. write_wav_header(x, size) = WaveHeader("wav", riff_size(size)) \o PlainChunk("wav", "ext", x)
                                    \o ChunkHeader("wav", "data", data_field(size))
  <2> DEFINE w == WaveHeader("wav", riff_size(size))
             c == ChunkHeader("wav", "fmt", n)
             d == Id("data", 4)
             s == Num(data_field(size), 4)
             g == w \o (c \o b \o e)
  <2>1. w \in Seq(Cell) /\ c \in Seq(Cell)
    BY <1>3, <1>4
  <2>2. d \in Seq(Cell) /\ s \in Seq(Cell)
    <3>1. 4 \in Nat \ {0} /\ 4 \in Nat
      OBVIOUS
    <3> QED
      BY <1>1, <1>3, <3>1, IdIs, NumIs
  <2>3. write_wav_header(x, size) = w \o c \o b \o e \o d \o s
    BY DEF write_wav_header
  <2>4. ChunkHeader("wav", "data", data_field(size)) = d \o s
    BY DEF ChunkHeader, SizeField
  <2>5. PlainChunk("wav", "ext", x) = c \o b \o e
    BY PlainIs
  <2> HIDE DEF w, c, b, e, d, s
  <2>6. w \o c \o b \o e = g
    <3> DEFINE cb == c \o b
    <3>1. cb \in Seq(Cell)
      BY <1>2, <2>1, JoinedLen
    <3>2. (w \o c) \o b = w \o cb
      BY <1>2, <2>1, ConcatAssociative
    <3> HIDE DEF cb
    <3>3. (w \o cb) \o e = w \o (cb \o e)
      BY <1>2, <2>1, <3>1, ConcatAssociative
    <3>4. w \o c \o b \o e = w \o (cb \o e)
      BY <3>2, <3>3
    <3> QED
      BY <3>4 DEF cb
  <2>7. g \in Seq(Cell)
    <3>1. c \o b \in Seq(Cell)
      BY <1>2, <2>1, JoinedLen
    <3>2. c \o b \o e \in Seq(Cell)
      BY <1>2, <3>1, JoinedLen
    <3> QED
      BY <2>1, <3>2, JoinedLen
  <2> HIDE DEF g
  <2>8. (g \o d) \o s = g \o (d \o s)
    BY <2>2, <2>7, ConcatAssociative
  <2>9. write_wav_header(x, size) = (g \o d) \o s
    BY <2>3, <2>6
  <2> QED
    BY <2>4, <2>5, <2>8, <2>9 DEF g, w
<1>6. write_w64_header(x, size) = WaveHeader("w64", size + WriteTemplate("w64"))
                                    \o PlainChunk("w64", "ext", x) \o ChunkHeader("w64", "data", size)
  <2> DEFINE w == WaveHeader("w64", size + WriteTemplate("w64"))
             c == ChunkHeader("w64", "fmt", n)
             d == ChunkHeader("w64", "data", size)
  <2>1. w \in Seq(Cell) /\ c \in Seq(Cell)
    BY <1>3, <1>4
  <2>2. write_w64_header(x, size) = w \o c \o b \o e \o d
    BY DEF write_w64_header
  <2>3. PlainChunk("w64", "ext", x) = c \o b \o e
    BY PlainIs
  <2> HIDE DEF w, c, b, e, d
  <2>4. w \o c \o b \o e = w \o (c \o b \o e)
    <3> DEFINE cb == c \o b
    <3>1. cb \in Seq(Cell)
      BY <1>2, <2>1, JoinedLen
    <3>2. (w \o c) \o b = w \o cb
      BY <1>2, <2>1, ConcatAssociative
    <3> HIDE DEF cb
    <3>3. (w \o cb) \o e = w \o (cb \o e)
      BY <1>2, <2>1, <3>1, ConcatAssociative
    <3>4. w \o c \o b \o e = w \o (cb \o e)
      BY <3>2, <3>3
    <3> QED
      BY <3>4 DEF cb
  <2> QED
    BY <2>2, <2>3, <2>4 DEF w, d
<1> QED
  BY <1>5, <1>6

LEMMA PlainSeq ==
  ASSUME NEW k \in {"wav", "w64"}, NEW c \in Plain, NEW x \in Stats
  PROVE  /\ PlainChunk(k, c, x) \in Seq(Cell)
         /\ Len(PlainChunk(k, c, x)) = RiffHeader(k) + BodyLen(k, c) /\ BodyLen(k, c) \in Nat \ {0}
<1> DEFINE hl == RiffHeader(k)
<1>1. /\ FMT_PCM \in Nat /\ FMT_EXTENSIBLE \in Nat /\ FmtBody \in Nat /\ FmtBody + WfxTail \in Nat
      /\ WfxTail - 2 \in Nat /\ 12 \in Nat /\ "fmt" \in Ids /\ "LIST" \in Ids /\ "data" \in Ids
      /\ 4 \in Nat \ {0} /\ 4 \in Nat /\ 5 \in Nat
  BY DEF FMT_PCM, FMT_EXTENSIBLE, FmtBody, WfxTail, Ids, WaveIds
<1>2. hl \in Nat /\ FmtBody = 16 /\ WfxTail = 24
  BY DEF RiffHeader, FmtBody, WfxTail
<1>3. ASSUME NEW id \in Ids, NEW n \in Nat
      PROVE  ChunkHeader(k, id, n) \in Seq(Cell) /\ Len(ChunkHeader(k, id, n)) = hl
  BY ChunkHeaderIs
<1>4. CASE c = "list"
  <2> DEFINE n  == ListBody(k)
             g  == ChunkHeader(k, "LIST", n)
             r1 == ChunkHeader(k, "data", 5)
             r2 == Raw(n - hl)
             g1 == g \o r1
  <2>1. n \in Nat \ {0} /\ n - hl \in Nat
    BY DEF ListBody, RiffHeader
  <2>2. g \in Seq(Cell) /\ Len(g) = hl /\ r1 \in Seq(Cell) /\ Len(r1) = hl
    BY <1>1, <1>3, <2>1
  <2>3. r2 \in Seq(Cell) /\ Len(r2) = n - hl
    BY <2>1, RawIs
  <2>4. PlainChunk(k, c, x) = g1 \o r2
    BY <1>4, PlainIs
  <2>5. BodyLen(k, c) = n
    BY <1>4, BodyLenIs
  <2> HIDE DEF g, r1, r2, n, hl
  <2>6. g1 \in Seq(Cell) /\ Len(g1) = Len(g) + Len(r1)
    BY <2>2, JoinedLen
  <2> HIDE DEF g1
  <2>7. g1 \o r2 \in Seq(Cell) /\ Len(g1 \o r2) = Len(g1) + Len(r2)
    BY <2>3, <2>6, JoinedLen
  <2>8. Len(g1 \o r2) = hl + n
    BY <1>2, <2>1, <2>2, <2>3, <2>6, <2>7
  <2> QED
    BY <2>1, <2>4, <2>5, <2>7, <2>8 DEF hl
<1>5. CASE c = "pcm"
  <2> DEFINE g == ChunkHeader(k, "fmt", FmtBody)
             d == fill_waveformatex_body(x, FMT_PCM)
  <2>1. g \in Seq(Cell) /\ Len(g) = hl /\ d \in Seq(Cell) /\ Len(d) = FmtBody
    BY <1>1, <1>2, <1>3, BodyIs
  <2>2. PlainChunk(k, c, x) = g \o d
    BY <1>5, PlainIs
  <2> HIDE DEF g, d, hl
  <2>3. g \o d \in Seq(Cell) /\ Len(g \o d) = Len(g) + Len(d)
    BY <2>1, JoinedLen
  <2>4. BodyLen(k, c) = FmtBody
    BY <1>5, BodyLenIs
  <2>5. FmtBody \in Nat \ {0}
    BY <1>2
  <2>6. Len(PlainChunk(k, c, x)) = hl + FmtBody /\ PlainChunk(k, c, x) \in Seq(Cell)
    BY <2>1, <2>2, <2>3
  <2> QED
    BY <2>4, <2>5, <2>6 DEF hl
<1>6. CASE c = "ext"
  <2> DEFINE n == FmtBody + WfxTail
             g == ChunkHeader(k, "fmt", n)
             d == fill_waveformatex_body(x, FMT_EXTENSIBLE)
             e == fill_waveformatextensible(x, WfxTail - 2)
  <2>1. /\ g \in Seq(Cell) /\ Len(g) = hl /\ d \in Seq(Cell) /\ Len(d) = FmtBody
        /\ e \in Seq(Cell) /\ Len(e) = WfxTail
    BY <1>1, <1>2, <1>3, BodyIs, TailIs
  <2>2. PlainChunk(k, c, x) = g \o d \o e
    BY <1>6, PlainIs
  <2> HIDE DEF g, d, e, hl
  <2>3. g \o d \in Seq(Cell) /\ Len(g \o d) = Len(g) + Len(d)
    BY <2>1, JoinedLen
  <2>4. g \o d \o e \in Seq(Cell) /\ Len(g \o d \o e) = Len(g \o d) + Len(e)
    BY <2>1, <2>3, JoinedLen
  <2> DEFINE l1 == Len(g \o d)
             l2 == Len(g \o d \o e)
  <2>5. l1 = hl + FmtBody /\ l2 = l1 + WfxTail
    BY <2>1, <2>3, <2>4
  <2> HIDE DEF l1, l2
  <2>6. l2 = hl + n /\ n \in Nat \ {0}
    BY <1>2, <2>5
  <2>7. Len(PlainChunk(k, c, x)) = l2 /\ PlainChunk(k, c, x) \in Seq(Cell)
    BY <2>2, <2>4 DEF l2
  <2>8. BodyLen(k, c) = n
    BY <1>6, BodyLenIs
  <2> QED
    BY <2>6, <2>7, <2>8 DEF hl
<1> QED
  BY <1>4, <1>5, <1>6 DEF Plain

\* A file of chunks, part by part.
Chunked(x) ==
  /\ x \in Sources /\ x.format # "tta1" /\ x.state = "whole"
  /\ x.maker = "foreign" => \A m \in 1..Len(x.chunks) : x.chunks[m] \in Plain

LEMMA PlainForeign ==
  ASSUME NEW k, NEW x, NEW c \in Plain
  PROVE  ForeignChunk(k, c, x) = PlainChunk(k, c, x)
<1>1. CASE c = "pcm"
  <2> DEFINE d == ChunkHeader(k, "fmt", FmtBody) \o fill_waveformatex_body(x, FMT_PCM)
  <2>1. ForeignChunk(k, "pcm", x) = d
    BY ForeignIs
  <2>2. PlainChunk(k, "pcm", x) = d
    BY PlainIs
  <2> HIDE DEF d
  <2> QED
    BY <1>1, <2>1, <2>2
<1>2. CASE c = "ext"
  <2> DEFINE d == ChunkHeader(k, "fmt", FmtBody + WfxTail)
                    \o fill_waveformatex_body(x, FMT_EXTENSIBLE)
                    \o fill_waveformatextensible(x, WfxTail - 2)
  <2>1. ForeignChunk(k, "ext", x) = d
    BY ForeignIs
  <2>2. PlainChunk(k, "ext", x) = d
    BY PlainIs
  <2> HIDE DEF d
  <2> QED
    BY <1>2, <2>1, <2>2
<1>3. CASE c = "list"
  <2> DEFINE d == ChunkHeader(k, "LIST", ListBody(k))
                    \o ChunkHeader(k, "data", 5) \o Raw(ListBody(k) - RiffHeader(k))
  <2>1. ForeignChunk(k, "list", x) = d
    BY ForeignIs
  <2>2. PlainChunk(k, "list", x) = d
    BY PlainIs
  <2> HIDE DEF d
  <2> QED
    BY <1>3, <2>1, <2>2
<1> QED
  BY <1>1, <1>2, <1>3 DEF Plain

LEMMA PartsAre ==
  ASSUME NEW x, Chunked(x)
  PROVE  /\ Len(ChunksOf(x)) \in Nat /\ x.format \in {"wav", "w64"}
         /\ Around(x) \in Nat /\ Inside(x) \in Nat
         /\ \A m \in 1..Len(ChunksOf(x)) :
              /\ ChunksOf(x)[m] \in Plain
              /\ PlainChunk(x.format, ChunksOf(x)[m], x.stat) \in Seq(Cell)
              /\ Len(PlainChunk(x.format, ChunksOf(x)[m], x.stat)) = RiffHeader(x.format) + BodyLen(x.format, ChunksOf(x)[m])
              /\ UpTo(x, m) = UpTo(x, m - 1) \o PlainChunk(x.format, ChunksOf(x)[m], x.stat)
         /\ UpTo(x, 0) = WaveHeader(x.format, Around(x))
         /\ \A m \in 0..Len(ChunksOf(x)) : UpTo(x, m) \in Seq(Cell)
         /\ HeadOf(x) = UpTo(x, Len(ChunksOf(x))) \o ChunkHeader(x.format, "data", Inside(x))
<1>1. /\ x \in Sources /\ x.stat \in Stats /\ x.size \in Nat /\ x.format \in {"wav", "w64"}
      /\ x.maker = "own" \/ x.maker = "foreign"
      /\ x.maker = "foreign" => x.format \in {"wav", "w64"} /\ x.chunks \in Seq(ForeignChunks)
  BY SourceIs DEF Chunked
<1>2. CASE x.maker = "foreign"
  <2>1. ChunksOf(x) = x.chunks /\ Around(x) = U32MAX /\ Inside(x) = x.size
        /\ \A m : UpTo(x, m) = ForeignUpTo(x.format, x.chunks, x.stat)[m]
    BY <1>1, <1>2 DEF ChunksOf, Around, Inside, UpTo
  <2>2. /\ ForeignUpTo(x.format, x.chunks, x.stat)[0] = WaveHeader(x.format, U32MAX)
        /\ \A m \in 1..Len(x.chunks) :
             ForeignUpTo(x.format, x.chunks, x.stat)[m]
               = ForeignUpTo(x.format, x.chunks, x.stat)[m - 1] \o ForeignChunk(x.format, x.chunks[m], x.stat)
        /\ \A m \in 0..Len(x.chunks) : ForeignUpTo(x.format, x.chunks, x.stat)[m] \in Seq(Fields(WaveIds))
        /\ Len(x.chunks) \in Nat
    BY <1>1, <1>2, ForeignSteps
  <2>3. \A m \in 1..Len(x.chunks) : x.chunks[m] \in Plain
    BY <1>2 DEF Chunked
  <2>4. \A c \in Plain : ForeignChunk(x.format, c, x.stat) = PlainChunk(x.format, c, x.stat)
    BY PlainForeign
  <2>5. \A m \in 1..Len(x.chunks) :
          /\ PlainChunk(x.format, x.chunks[m], x.stat) \in Seq(Cell)
          /\ Len(PlainChunk(x.format, x.chunks[m], x.stat)) = RiffHeader(x.format) + BodyLen(x.format, x.chunks[m])
    BY <1>1, <2>3, PlainSeq
  <2>6. HeadOf(x) = ForeignUpTo(x.format, x.chunks, x.stat)[Len(x.chunks)] \o ChunkHeader(x.format, "data", x.size)
    BY <1>1, <1>2, HeadIs
  <2>7. \A m \in 0..Len(x.chunks) : ForeignUpTo(x.format, x.chunks, x.stat)[m] \in Seq(Cell)
    BY <2>2, FieldsWider
  <2> QED
    BY <1>1, <2>1, <2>2, <2>3, <2>4, <2>5, <2>6, <2>7, U32Assumption
<1>3. CASE x.maker = "own"
  <2> DEFINE k == x.format
             w == WaveHeader(k, Around(x))
             g == PlainChunk(k, "ext", x.stat)
             d == ChunkHeader(k, "data", Inside(x))
  <2>1. /\ x.maker # "foreign"
        /\ ChunksOf(x) = <<"ext">> /\ UpTo(x, 0) = w /\ UpTo(x, 1) = w \o g
    BY <1>3 DEF ChunksOf, UpTo
  <2>2. Len(ChunksOf(x)) = 1 /\ ChunksOf(x)[1] = "ext"
    BY <2>1
  <2>3. Around(x) \in Nat /\ Inside(x) \in Nat /\ HeadOf(x) = w \o g \o d
    <3>1. CASE k = "wav"
      <4>1. Around(x) = riff_size(x.size) /\ Inside(x) = data_field(x.size)
        BY <2>1, <3>1 DEF Around, Inside
      <4>2. HeadOf(x) = write_wav_header(x.stat, x.size)
        BY <1>1, <1>3, <3>1, HeadIs
      <4>3. riff_size(x.size) \in Nat /\ data_field(x.size) \in Nat
        BY <1>1, SizesAre
      <4>4. HeadOf(x) = w \o g \o d
        BY <1>1, <3>1, <4>1, <4>2, WrittenIs
      <4> QED
        BY <4>1, <4>3, <4>4
    <3>2. CASE k = "w64"
      <4>1. Around(x) = x.size + WriteTemplate("w64") /\ Inside(x) = x.size
        BY <2>1, <3>2 DEF Around, Inside
      <4>2. HeadOf(x) = write_w64_header(x.stat, x.size)
        BY <1>1, <1>3, <3>2, HeadIs
      <4>3. x.size + WriteTemplate("w64") \in Nat
        BY <1>1 DEF WriteTemplate, RiffChunk, RiffHeader, FmtBody, WfxTail
      <4> QED
        BY <1>1, <3>2, <4>1, <4>2, <4>3, WrittenIs
    <3> QED
      BY <1>1, <3>1, <3>2
  <2>4. "ext" \in Plain /\ g \in Seq(Cell) /\ Len(g) = RiffHeader(k) + BodyLen(k, "ext")
    BY <1>1, PlainSeq DEF Plain
  <2>5. w \in Seq(Cell) /\ w \o g \in Seq(Cell)
    <3>1. w \in Seq(Cell)
      BY <1>1, <2>3, WaveHeaderFields, FieldsWider
    <3> QED
      BY <2>4, <3>1, JoinedLen
  <2>6. \A m \in 1..1 : m = 1 /\ m - 1 = 0
    OBVIOUS
  <2>7. \A m \in 0..1 : m = 0 \/ m = 1
    OBVIOUS
  <2> HIDE DEF w, g, d
  <2>8. \A m \in 1..1 : ChunksOf(x)[m] \in Plain /\ PlainChunk(k, ChunksOf(x)[m], x.stat) \in Seq(Cell)
                        /\ Len(PlainChunk(k, ChunksOf(x)[m], x.stat)) = RiffHeader(k) + BodyLen(k, ChunksOf(x)[m])
                        /\ UpTo(x, m) = UpTo(x, m - 1) \o PlainChunk(k, ChunksOf(x)[m], x.stat)
    BY <2>1, <2>2, <2>4, <2>6 DEF g
  <2>9. \A m \in 0..1 : UpTo(x, m) \in Seq(Cell)
    BY <2>1, <2>5, <2>7
  <2>10. HeadOf(x) = UpTo(x, 1) \o d
    BY <2>1, <2>3
  <2> QED
    BY <1>1, <2>1, <2>2, <2>3, <2>8, <2>9, <2>10 DEF w, d
<1> QED
  BY <1>1, <1>2, <1>3

\* In a whole file the header is behind the tags.
LEMMA HeaderThere ==
  ASSUME Types, src.state = "whole"
  PROVE  /\ HeadOf(src) \in Seq(Cell) /\ TagBytes(src.tag) \in Seq(Cell) /\ Start \in Nat
         /\ Has(file, 0, TagBytes(src.tag)) /\ Has(file, Start, HeadOf(src))
         /\ Start + Len(HeadOf(src)) <= Len(file) /\ DataStart = Start + Len(HeadOf(src))
<1> DEFINE t == TagBytes(src.tag)
           h == HeadOf(src)
           r == Raw(src.size)
           th == t \o h
<1>1. src \in Sources /\ file \in Seq(Cell) /\ file = Image(src)
  BY FileIs DEF Types
<1>2. file = th \o r
  BY <1>1, KeptIs
<1>3. h \in Seq(Cell)
  BY <1>1, HeadFields, FieldsWider
<1>4. t \in Seq(Cell)
  BY <1>1, ImageFields, FieldsWider
<1>5. r \in Seq(Cell)
  BY <1>1, SourceIs, RawIs
<1>6. Len(t) = Start /\ Start \in Nat
  BY <1>4, LenProperties DEF Start
<1> HIDE DEF t, h, r
<1>7. th \in Seq(Cell)
  BY <1>3, <1>4, JoinedLen
<1>8. Has(file, 0, th)
  <2>1. Has(file, 0, th \o r)
    BY <1>1, <1>2, HasAll
  <2> HIDE DEF th
  <2> QED
    BY <1>1, <1>5, <1>7, <2>1, HasParts
<1>9. Has(file, 0, t) /\ Has(file, 0 + Len(t), h)
  BY <1>1, <1>3, <1>4, <1>8, HasParts
<1>10. 0 + Len(t) = Start
  BY <1>6
<1>11. Has(file, Start, h)
  BY <1>9, <1>10
<1>12. Start + Len(h) <= Len(file)
  BY <1>11 DEF Has
<1>13. DataStart = Start + Len(h)
  BY DEF DataStart, Start, h
<1> QED
  BY <1>3, <1>4, <1>6, <1>9, <1>11, <1>12, <1>13 DEF t, h

\* The header of the container.
LEMMA ContainerHas ==
  ASSUME NEW f \in Seq(Cell), NEW p \in Nat, NEW k \in {"wav", "w64"}, NEW n \in Nat,
         Has(f, p, WaveHeader(k, n))
  PROVE  /\ Len(WaveHeader(k, n)) = RiffChunk(k) /\ p + RiffChunk(k) <= Len(f)
         /\ Has(f, p, Id("RIFF", idlen(k))) /\ Has(f, p + RiffHeader(k), Id("WAVE", idlen(k)))
<1> DEFINE il == idlen(k)
           m == RiffHeader(k) - idlen(k)
           a == Id("RIFF", il)
           b == Num(n, m)
           c == Id("WAVE", il)
           ab == a \o b
           w == WaveHeader(k, n)
<1>1. il \in Nat /\ m \in Nat /\ "RIFF" \in Ids /\ "WAVE" \in Ids
  BY DEF idlen, RiffHeader, Ids, WaveIds
<1>2. il + m = RiffHeader(k) /\ RiffHeader(k) + il = RiffChunk(k)
  BY DEF idlen, RiffHeader, RiffChunk
<1>3. w = ab \o c
  <2>1. CASE k = "wav"
    <3>1. il = 4 /\ m = 4
      BY <2>1 DEF idlen, RiffHeader
    <3> QED
      BY <2>1, <3>1 DEF WaveHeader
  <2>2. CASE k = "w64"
    <3>1. il = 16 /\ m = 8
      BY <2>2 DEF idlen, RiffHeader
    <3> QED
      BY <2>2, <3>1 DEF WaveHeader
  <2> QED
    BY <2>1, <2>2
<1>4. a \in Seq(Cell) /\ b \in Seq(Cell) /\ c \in Seq(Cell) /\ Len(a) = il /\ Len(b) = m /\ Len(c) = il
  BY <1>1, IdIs, NumIs
<1>5. Has(f, p, w)
  OBVIOUS
<1> HIDE DEF a, b, c, w, il, m
<1>6. ab \in Seq(Cell) /\ Len(ab) = Len(a) + Len(b)
  BY <1>4, JoinedLen
<1> HIDE DEF ab
<1>7. Len(w) = Len(ab) + Len(c)
  BY <1>3, <1>4, <1>6, JoinedLen
<1>8. Has(f, p, ab) /\ Has(f, p + Len(ab), c)
  BY <1>3, <1>4, <1>5, <1>6, HasParts
<1>9. Has(f, p, a)
  BY <1>4, <1>8, HasParts DEF ab
<1>10. Len(ab) = RiffHeader(k) /\ Len(w) = RiffChunk(k)
  BY <1>2, <1>4, <1>6, <1>7
<1>11. p + RiffChunk(k) <= Len(f)
  BY <1>5, <1>10 DEF Has
<1> QED
  BY <1>8, <1>9, <1>10, <1>11 DEF a, c, w, il

\* Where the chunks of a file begin and end.
LEMMA Layout ==
  ASSUME Types, Chunked(src), NEW k, k = src.format
  PROVE  /\ NChunks \in Nat /\ Start \in Nat /\ k \in {"wav", "w64"} /\ Inside(src) \in Nat
         /\ \A m \in 0..NChunks : Bound(m) \in Nat
         /\ Bound(0) = Start + RiffChunk(k) /\ Start + RiffChunk(k) <= Len(file)
         /\ Has(file, Start, Id("RIFF", idlen(k))) /\ Has(file, Start + RiffHeader(k), Id("WAVE", idlen(k)))
         /\ \A m \in 1..NChunks :
              /\ Chunk(m) \in Plain /\ ChunkAt(file, k, Bound(m - 1), Chunk(m), src.stat)
              /\ Bound(m) = Bound(m - 1) + (RiffHeader(k) + BodyLen(k, Chunk(m)))
              /\ BodyLen(k, Chunk(m)) \in Nat \ {0}
         /\ HeadAt(file, k, Bound(NChunks), "data", Inside(src))
         /\ DataStart = Bound(NChunks) + RiffHeader(k)
<1> DEFINE n == NChunks
           h == ChunkHeader(k, "data", Inside(src))
           w == WaveHeader(k, Around(src))
           c(m) == PlainChunk(k, Chunk(m), src.stat)
           u(m) == UpTo(src, m)
<1>1. src \in Sources /\ file \in Seq(Cell) /\ Len(file) \in Nat /\ src.stat \in Stats /\ src.state = "whole"
  BY FileIs, SourceIs DEF Chunked
<1>2. /\ n \in Nat /\ k \in {"wav", "w64"} /\ Around(src) \in Nat /\ Inside(src) \in Nat
      /\ \A m \in 1..n : /\ Chunk(m) \in Plain /\ c(m) \in Seq(Cell)
                         /\ Len(c(m)) = RiffHeader(k) + BodyLen(k, Chunk(m))
                         /\ u(m) = u(m - 1) \o c(m)
      /\ u(0) = w
      /\ \A m \in 0..n : u(m) \in Seq(Cell)
      /\ HeadOf(src) = u(n) \o h
  BY PartsAre DEF NChunks, Chunk
<1>3. \A m \in 1..n : BodyLen(k, Chunk(m)) \in Nat \ {0}
  BY <1>1, <1>2, PlainSeq
<1>4. Start \in Nat /\ Has(file, Start, u(n) \o h) /\ DataStart = Start + Len(HeadOf(src))
  BY <1>1, <1>2, HeaderThere
<1>5. h \in Seq(Cell) /\ Len(h) = RiffHeader(k) /\ "data" \in Ids
  BY <1>2, ChunkHeaderIs DEF Ids, WaveIds
<1>6. \A m \in 0..n : Bound(m) = Start + Len(u(m)) /\ Len(u(m)) \in Nat /\ Bound(m) \in Nat
  BY <1>2, <1>4, LenProperties DEF Bound
<1>7. n \in 0..n /\ 0 \in 0..n /\ \A m \in 1..n : m \in 0..n /\ m - 1 \in 0..n
  BY <1>2
<1> HIDE DEF h, w, c, u, n
<1>8. Has(file, Start, u(n)) /\ Has(file, Bound(n), h)
  BY <1>1, <1>2, <1>4, <1>5, <1>6, <1>7, HasParts
<1>9. \A m \in 0..n : Has(file, Start, u(m))
  <2> DEFINE T == {j \in Nat : j <= n => Has(file, Start, u(n - j))}
  <2>1. 0 \in T
    <3>1. n - 0 = n
      BY <1>2
    <3> QED
      BY <1>8, <3>1
  <2>2. ASSUME NEW j \in Nat, j \in T PROVE j + 1 \in T
    <3>1. SUFFICES ASSUME j + 1 <= n PROVE Has(file, Start, u(n - (j + 1)))
      OBVIOUS
    <3>2. n - j \in 1..n /\ (n - j) - 1 = n - (j + 1) /\ j <= n
      BY <1>2, <3>1
    <3>3. u(n - j) = u(n - (j + 1)) \o c(n - j) /\ c(n - j) \in Seq(Cell)
      BY <1>2, <3>2
    <3>4. u(n - (j + 1)) \in Seq(Cell)
      BY <1>2, <1>7, <3>2
    <3>5. Has(file, Start, u(n - j))
      BY <2>2, <3>2
    <3> QED
      BY <1>1, <1>4, <3>3, <3>4, <3>5, HasParts
  <2>3. Nat \subseteq T
    <3> HIDE DEF T
    <3> QED
      BY <2>1, <2>2, Induction
  <2>4. TAKE m \in 0..n
  <2>5. n - m \in Nat /\ n - m <= n /\ n - (n - m) = m
    BY <1>2
  <2> QED
    BY <2>3, <2>5
<1>10. /\ Bound(0) = Start + RiffChunk(k) /\ Start + RiffChunk(k) <= Len(file)
       /\ Has(file, Start, Id("RIFF", idlen(k))) /\ Has(file, Start + RiffHeader(k), Id("WAVE", idlen(k)))
  <2>1. Has(file, Start, w)
    BY <1>2, <1>7, <1>9
  <2>2. /\ Len(w) = RiffChunk(k) /\ Start + RiffChunk(k) <= Len(file)
        /\ Has(file, Start, Id("RIFF", idlen(k))) /\ Has(file, Start + RiffHeader(k), Id("WAVE", idlen(k)))
    BY <1>1, <1>2, <1>4, <2>1, ContainerHas DEF w
  <2> QED
    BY <1>2, <1>6, <1>7, <2>2
<1>11. ASSUME NEW m \in 1..n
       PROVE  /\ ChunkAt(file, k, Bound(m - 1), Chunk(m), src.stat)
              /\ Bound(m) = Bound(m - 1) + (RiffHeader(k) + BodyLen(k, Chunk(m)))
  <2>1. m \in 0..n /\ m - 1 \in 0..n
    BY <1>7
  <2>2. Has(file, Start, u(m - 1) \o c(m)) /\ u(m - 1) \in Seq(Cell) /\ c(m) \in Seq(Cell)
    BY <1>2, <1>9, <2>1
  <2>3. Has(file, Bound(m - 1), c(m)) /\ Bound(m - 1) \in Nat
    BY <1>1, <1>4, <1>6, <2>1, <2>2, HasParts
  <2>4. ChunkAt(file, k, Bound(m - 1), Chunk(m), src.stat)
    BY <1>1, <1>2, <2>3, PlainHas DEF c
  <2>5. Len(u(m)) = Len(u(m - 1)) + Len(c(m))
    BY <1>2, <2>2, JoinedLen
  <2>6. Bound(m) = Start + Len(u(m)) /\ Bound(m - 1) = Start + Len(u(m - 1)) /\ Len(u(m - 1)) \in Nat
    BY <1>6, <2>1
  <2>7. Len(c(m)) = RiffHeader(k) + BodyLen(k, Chunk(m)) /\ Len(c(m)) \in Nat
    BY <1>2, <2>2, LenProperties
  <2> DEFINE x == Len(u(m - 1))
             y == Len(c(m))
  <2>8. Bound(m) = Start + (x + y) /\ Bound(m - 1) = Start + x /\ x \in Nat /\ y \in Nat
    BY <2>5, <2>6, <2>7
  <2> HIDE DEF x, y
  <2>9. Bound(m) = Bound(m - 1) + y
    BY <1>4, <2>8
  <2> QED
    BY <2>4, <2>7, <2>9 DEF y
<1>12. HeadAt(file, k, Bound(n), "data", Inside(src))
  <2>1. Bound(n) \in Nat
    BY <1>6, <1>7
  <2> QED
    BY <1>1, <1>2, <1>5, <1>8, <2>1, HeadHas DEF h
<1>13. DataStart = Bound(n) + RiffHeader(k)
  <2>1. u(n) \in Seq(Cell)
    BY <1>2, <1>7
  <2>2. Len(HeadOf(src)) = Len(u(n)) + Len(h)
    BY <1>2, <1>5, <2>1, JoinedLen
  <2> DEFINE x == Len(u(n))
             y == RiffHeader(k)
  <2>3. y \in Nat
    BY DEF RiffHeader
  <2>4. DataStart = Start + (x + y) /\ Bound(n) = Start + x /\ x \in Nat
    BY <1>4, <1>5, <1>6, <1>7, <2>2
  <2> HIDE DEF x, y
  <2>5. DataStart = Bound(n) + y
    BY <1>4, <2>3, <2>4
  <2> QED
    BY <2>5 DEF y
<1> QED
  BY <1>2, <1>3, <1>4, <1>6, <1>10, <1>11, <1>12, <1>13 DEF n

\* An APE tag has its id first and its size at offset 12.
LEMMA ApeTagIs ==
  ASSUME NEW n \in Nat
  PROVE  /\ ApeTag(n) \in Seq(Cell) /\ Len(ApeTag(n)) = 64 + n
         /\ Has(ApeTag(n), 0, Id("APETAGEX", 8)) /\ Has(ApeTag(n), 12, Num(n + ApeTagHF, 4))
<1> DEFINE p1 == Id("APETAGEX", 8)
           p2 == Num(2000, 4)
           p3 == Num(n + ApeTagHF, 4)
           p4 == Num(1, 4)
           p5 == Num(0, 4)
           p6 == Zero(8)
           p7 == Raw(n)
           p8 == Raw(24)
<1>1. p1 \in Seq(Cell) /\ Len(p1) = 8
  <2>1. 8 \in Nat /\ "APETAGEX" \in Ids
    BY DEF Ids, TagIds
  <2> QED
    BY <2>1, IdIs
<1>2. p2 \in Seq(Cell) /\ Len(p2) = 4 /\ p4 \in Seq(Cell) /\ Len(p4) = 4 /\ p5 \in Seq(Cell) /\ Len(p5) = 4
  <2>1. \A v \in Nat : Num(v, 4) \in Seq(Cell) /\ Len(Num(v, 4)) = 4
    <3>1. 4 \in Nat
      OBVIOUS
    <3> QED
      BY <3>1, NumIs
  <2>2. 2000 \in Nat /\ 1 \in Nat /\ 0 \in Nat
    OBVIOUS
  <2> QED
    BY <2>1, <2>2
<1>3. p3 \in Seq(Cell) /\ Len(p3) = 4
  <2>1. 4 \in Nat /\ n + ApeTagHF \in Nat
    BY DEF ApeTagHF
  <2> QED
    BY <2>1, NumIs
<1>4. p6 \in Seq(Cell) /\ Len(p6) = 8
  <2>1. 8 \in Nat
    OBVIOUS
  <2> QED
    BY <2>1, ZeroIs
<1>5. p7 \in Seq(Cell) /\ Len(p7) = n /\ p8 \in Seq(Cell) /\ Len(p8) = 24
  <2>1. 24 \in Nat
    OBVIOUS
  <2> QED
    BY <2>1, RawIs
<1>6. ApeTag(n) = p1 \o p2 \o p3 \o p4 \o p5 \o p6 \o p7 \o p1 \o p8
  BY DEF ApeTag
<1> HIDE DEF p1, p2, p3, p4, p5, p6, p7, p8
<1> DEFINE q2 == p1 \o p2
           q3 == q2 \o p3
           q4 == q3 \o p4
           q5 == q4 \o p5
           q6 == q5 \o p6
           q7 == q6 \o p7
           q8 == q7 \o p1
           q9 == q8 \o p8
<1>7. ApeTag(n) = q9
  BY <1>6
<1>8. q2 \in Seq(Cell) /\ Len(q2) = Len(p1) + Len(p2)
  BY <1>1, <1>2, JoinedLen
<1> HIDE DEF q2
<1>9. q3 \in Seq(Cell) /\ Len(q3) = Len(q2) + Len(p3)
  BY <1>3, <1>8, JoinedLen
<1> HIDE DEF q3
<1>10. q4 \in Seq(Cell) /\ Len(q4) = Len(q3) + Len(p4)
  BY <1>2, <1>9, JoinedLen
<1> HIDE DEF q4
<1>11. q5 \in Seq(Cell) /\ Len(q5) = Len(q4) + Len(p5)
  BY <1>2, <1>10, JoinedLen
<1> HIDE DEF q5
<1>12. q6 \in Seq(Cell) /\ Len(q6) = Len(q5) + Len(p6)
  BY <1>4, <1>11, JoinedLen
<1> HIDE DEF q6
<1>13. q7 \in Seq(Cell) /\ Len(q7) = Len(q6) + Len(p7)
  BY <1>5, <1>12, JoinedLen
<1> HIDE DEF q7
<1>14. q8 \in Seq(Cell) /\ Len(q8) = Len(q7) + Len(p1)
  BY <1>1, <1>13, JoinedLen
<1> HIDE DEF q8
<1>15. q9 \in Seq(Cell) /\ Len(q9) = Len(q8) + Len(p8)
  BY <1>5, <1>14, JoinedLen
<1> HIDE DEF q9
<1>16. Has(q9, 0, q9) /\ 0 \in Nat
  BY <1>15, HasAll
<1>17. Has(q9, 0, q8)
  BY <1>5, <1>14, <1>15, <1>16, HasParts DEF q9
<1>18. Has(q9, 0, q7)
  BY <1>1, <1>13, <1>15, <1>16, <1>17, HasParts DEF q8
<1>19. Has(q9, 0, q6)
  BY <1>5, <1>12, <1>15, <1>16, <1>18, HasParts DEF q7
<1>20. Has(q9, 0, q5)
  BY <1>4, <1>11, <1>15, <1>16, <1>19, HasParts DEF q6
<1>21. Has(q9, 0, q4)
  BY <1>2, <1>10, <1>15, <1>16, <1>20, HasParts DEF q5
<1>22. Has(q9, 0, q3)
  BY <1>2, <1>9, <1>15, <1>16, <1>21, HasParts DEF q4
<1>23. Has(q9, 0, q2) /\ Has(q9, 0 + Len(q2), p3)
  BY <1>3, <1>8, <1>15, <1>16, <1>22, HasParts DEF q3
<1>24. Has(q9, 0, p1)
  BY <1>1, <1>2, <1>15, <1>16, <1>23, HasParts DEF q2
<1>25. Len(q9) = 64 + n
  <2> DEFINE l2 == Len(q2)
             l3 == Len(q3)
             l4 == Len(q4)
             l5 == Len(q5)
             l6 == Len(q6)
             l7 == Len(q7)
             l8 == Len(q8)
             l9 == Len(q9)
  <2>1. l2 = 8 + 4 /\ l3 = l2 + 4 /\ l4 = l3 + 4 /\ l5 = l4 + 4 /\ l6 = l5 + 8
        /\ l7 = l6 + n /\ l8 = l7 + 8 /\ l9 = l8 + 24
    BY <1>1, <1>2, <1>3, <1>4, <1>5, <1>8, <1>9, <1>10, <1>11, <1>12, <1>13, <1>14, <1>15
  <2> HIDE DEF l2, l3, l4, l5, l6, l7, l8, l9
  <2>2. l9 = 64 + n
    BY <2>1
  <2> QED
    BY <2>2 DEF l9
<1>26. 0 + Len(q2) = 12
  BY <1>1, <1>2, <1>8
<1>27. Has(q9, 12, p3)
  BY <1>23, <1>26
<1> QED
  BY <1>7, <1>15, <1>24, <1>25, <1>27 DEF p1, p3

\* A tag begins at p, and next is behind it.
TagAt(p, next) ==
  /\ p \in Nat /\ p + ApeTagHF <= Len(file) /\ Has(file, p, Id("APETAGEX", 8))
  /\ \E n \in Nat : Has(file, p + 12, Num(n, 4)) /\ next = p + ApeTagHF + n

LEMMA TagHas ==
  ASSUME Types, NEW p \in Nat, NEW n \in Nat, Has(file, p, ApeTag(n))
  PROVE  TagAt(p, p + (64 + n))
<1> DEFINE t == ApeTag(n)
           a == Id("APETAGEX", 8)
           b == Num(n + ApeTagHF, 4)
<1>1. t \in Seq(Cell) /\ Len(t) = 64 + n /\ Has(t, 0, a) /\ Has(t, 12, b)
  BY ApeTagIs
<1>2. a \in Seq(Cell) /\ b \in Seq(Cell) /\ n + ApeTagHF \in Nat /\ 0 \in Nat /\ 12 \in Nat
  <2>1. 8 \in Nat /\ 4 \in Nat /\ n + ApeTagHF \in Nat /\ "APETAGEX" \in Ids
    BY DEF ApeTagHF, Ids, TagIds
  <2> QED
    BY <2>1, IdIs, NumIs
<1>3. file \in Seq(Cell) /\ Len(file) \in Nat
  BY FileIs
<1>4. Has(file, p, t)
  OBVIOUS
<1>5. p + (64 + n) <= Len(file)
  BY <1>1, <1>4 DEF Has
<1>6. p + ApeTagHF <= Len(file)
  BY <1>3, <1>5 DEF ApeTagHF
<1>7. p + ApeTagHF + (n + ApeTagHF) = p + (64 + n)
  BY DEF ApeTagHF
<1> HIDE DEF t, a, b
<1>8. Has(file, p + 0, a)
  BY <1>1, <1>2, <1>3, <1>4, HasInside
<1>9. Has(file, p + 12, b)
  BY <1>1, <1>2, <1>3, <1>4, HasInside
<1>10. p + 0 = p
  OBVIOUS
<1>11. Has(file, p, a)
  BY <1>8, <1>10
<1> QED
  BY <1>2, <1>6, <1>7, <1>9, <1>11 DEF TagAt, a, b

\* In front of the header there are tags, one behind the other.
LEMMA TagsThere ==
  ASSUME Types, src.state = "whole", src.tag # "id3"
  PROVE  /\ 0 \in TagBounds(src.tag) /\ TagBounds(src.tag) \subseteq 0..Start /\ Start \in Nat
         /\ \A p \in TagBounds(src.tag) : p # Start => \E q \in TagBounds(src.tag) : TagAt(p, q)
<1> DEFINE tag == src.tag
<1>1. src \in Sources /\ tag \in {"none", "ape", "apes", "id3"}
  BY SourceIs DEF Types
<1>2. Start \in Nat /\ Start = Len(TagBytes(tag)) /\ Has(file, 0, TagBytes(tag)) /\ file \in Seq(Cell) /\ 0 \in Nat
  BY HeaderThere, FileIs DEF Start
<1>3. CASE tag = "none"
  <2>1. TagBytes(tag) = <<>> /\ TagBounds(tag) = {0}
    BY <1>3 DEF TagBytes, TagBounds
  <2>2. Start = 0
    BY <1>2, <2>1
  <2> QED
    BY <2>1, <2>2
<1>4. CASE tag = "ape"
  <2>1. TagBytes(tag) = ApeTag(3) /\ TagBounds(tag) = {0, 67}
    BY <1>4 DEF TagBytes, TagBounds
  <2>2. 3 \in Nat /\ 0 + (64 + 3) = 67
    OBVIOUS
  <2>3. Len(ApeTag(3)) = 64 + 3 /\ TagAt(0, 0 + (64 + 3))
    BY <1>2, <2>1, <2>2, ApeTagIs, TagHas
  <2>4. Start = 67
    BY <1>2, <2>1, <2>3
  <2>5. TagAt(0, 67)
    BY <2>2, <2>3
  <2>6. 0 \in TagBounds(tag) /\ 67 \in TagBounds(tag)
    BY <2>1
  <2>7. \A p \in TagBounds(tag) : p = 0 \/ p = Start
    BY <2>1, <2>4
  <2>8. TagBounds(tag) \subseteq 0..Start
    BY <2>1, <2>4
  <2> QED
    BY <1>2, <2>5, <2>6, <2>7, <2>8
<1>5. CASE tag = "apes"
  <2> DEFINE a == ApeTag(0)
             b == ApeTag(2)
  <2>1. TagBytes(tag) = a \o b /\ TagBounds(tag) = {0, 64, 130}
    BY <1>5 DEF TagBytes, TagBounds
  <2>2. 2 \in Nat /\ 64 \in Nat /\ 0 + (64 + 0) = 64 /\ 64 + (64 + 2) = 130
    OBVIOUS
  <2>3. a \in Seq(Cell) /\ b \in Seq(Cell) /\ Len(a) = 64 /\ Len(b) = 66
    <3>1. 64 + 0 = 64 /\ 64 + 2 = 66
      OBVIOUS
    <3>2. a \in Seq(Cell) /\ b \in Seq(Cell) /\ Len(a) = 64 + 0 /\ Len(b) = 64 + 2
      BY <1>2, <2>2, ApeTagIs
    <3> QED
      BY <3>1, <3>2
  <2>4. Has(file, 0, a) /\ Has(file, 64, b)
    <3> HIDE DEF a, b
    <3>1. Has(file, 0, a) /\ Has(file, 0 + Len(a), b)
      BY <1>2, <2>1, <2>3, HasParts
    <3>2. 0 + Len(a) = 64
      BY <2>3
    <3> QED
      BY <3>1, <3>2
  <2>5. TagAt(0, 64) /\ TagAt(64, 130)
    <3>1. TagAt(0, 0 + (64 + 0)) /\ TagAt(64, 64 + (64 + 2))
      BY <1>2, <2>2, <2>4, TagHas
    <3> QED
      BY <2>2, <3>1
  <2>6. Start = 130
    <3> HIDE DEF a, b
    <3>1. Len(a \o b) = Len(a) + Len(b)
      BY <2>3, JoinedLen
    <3> QED
      BY <1>2, <2>1, <2>3, <3>1
  <2>7. 0 \in TagBounds(tag) /\ 64 \in TagBounds(tag) /\ 130 \in TagBounds(tag)
    BY <2>1
  <2>8. \A p \in TagBounds(tag) : p = 0 \/ p = 64 \/ p = Start
    BY <2>1, <2>6
  <2>9. TagBounds(tag) \subseteq 0..Start
    BY <2>1, <2>6
  <2> QED
    BY <1>2, <2>5, <2>7, <2>8, <2>9
<1> QED
  BY <1>1, <1>3, <1>4, <1>5

\* The fields of the header of a TTA1 file.
LEMMA TTA1BodyIs ==
  ASSUME NEW x \in Stats, NEW n \in Nat
  PROVE  /\ TTA1Body(x, n) \in Seq(Cell) /\ TTA1Body(x, n) \in Seq(PlainCell) /\ Len(TTA1Body(x, n)) = 18
         /\ Has(TTA1Body(x, n), 0, Id("TTA1", 4)) /\ Has(TTA1Body(x, n), 4, Num(FMT_PCM, 2))
         /\ Has(TTA1Body(x, n), 6, Num(x.nchan, 2)) /\ Has(TTA1Body(x, n), 8, Num(x.samplebits, 2))
         /\ Has(TTA1Body(x, n), 10, Num(x.samplerate, 4))
         /\ Has(TTA1Body(x, n), 14, Num(IF n > U32MAX THEN U32MAX ELSE n, 4))
<1> DEFINE m == IF n > U32MAX THEN U32MAX ELSE n
           p1 == Id("TTA1", 4)
           p2 == Num(FMT_PCM, 2)
           p3 == Num(x.nchan, 2)
           p4 == Num(x.samplebits, 2)
           p5 == Num(x.samplerate, 4)
           p6 == Num(m, 4)
           b == TTA1Body(x, n)
<1>1. /\ x.nchan \in Nat /\ x.samplebits \in Nat /\ x.samplerate \in Nat /\ FMT_PCM \in Nat /\ m \in Nat
  BY U32Assumption DEF Stats, FMT_PCM
<1> HIDE DEF m
<1>2. p1 \in Seq(Cell) /\ Len(p1) = 4
  <2>1. 4 \in Nat /\ "TTA1" \in Ids
    BY DEF Ids
  <2> QED
    BY <2>1, IdIs
<1>3. p2 \in Seq(Cell) /\ Len(p2) = 2 /\ p3 \in Seq(Cell) /\ Len(p3) = 2 /\ p4 \in Seq(Cell) /\ Len(p4) = 2
  <2>1. 2 \in Nat
    OBVIOUS
  <2> QED
    BY <1>1, <2>1, NumIs
<1>4. p5 \in Seq(Cell) /\ Len(p5) = 4 /\ p6 \in Seq(Cell) /\ Len(p6) = 4
  <2>1. 4 \in Nat
    OBVIOUS
  <2> QED
    BY <1>1, <2>1, NumIs
<1>5. b = p1 \o p2 \o p3 \o p4 \o p5 \o p6
  BY DEF TTA1Body, m
<1>6. b \in Seq(PlainCell) /\ b \in Seq(Cell) /\ Len(b) = 18
  BY TTA1BodyFields, FieldsWider
<1> HIDE DEF p1, p2, p3, p4, p5, p6, b
<1> DEFINE q2 == p1 \o p2
           q3 == q2 \o p3
           q4 == q3 \o p4
           q5 == q4 \o p5
<1>7. b = q5 \o p6
  BY <1>5
<1>8. q2 \in Seq(Cell) /\ Len(q2) = Len(p1) + Len(p2)
  BY <1>2, <1>3, JoinedLen
<1> HIDE DEF q2
<1>9. q3 \in Seq(Cell) /\ Len(q3) = Len(q2) + Len(p3)
  BY <1>3, <1>8, JoinedLen
<1> HIDE DEF q3
<1>10. q4 \in Seq(Cell) /\ Len(q4) = Len(q3) + Len(p4)
  BY <1>3, <1>9, JoinedLen
<1> HIDE DEF q4
<1>11. q5 \in Seq(Cell) /\ Len(q5) = Len(q4) + Len(p5)
  BY <1>4, <1>10, JoinedLen
<1> HIDE DEF q5
<1>12. Has(b, 0, b) /\ 0 \in Nat
  BY <1>6, HasAll
<1>13. Has(b, 0, q5) /\ Has(b, 0 + Len(q5), p6)
  BY <1>4, <1>6, <1>7, <1>11, <1>12, HasParts
<1>14. Has(b, 0, q4) /\ Has(b, 0 + Len(q4), p5)
  BY <1>4, <1>6, <1>10, <1>12, <1>13, HasParts DEF q5
<1>15. Has(b, 0, q3) /\ Has(b, 0 + Len(q3), p4)
  BY <1>3, <1>6, <1>9, <1>12, <1>14, HasParts DEF q4
<1>16. Has(b, 0, q2) /\ Has(b, 0 + Len(q2), p3)
  BY <1>3, <1>6, <1>8, <1>12, <1>15, HasParts DEF q3
<1>17. Has(b, 0, p1) /\ Has(b, 0 + Len(p1), p2)
  BY <1>2, <1>3, <1>6, <1>12, <1>16, HasParts DEF q2
<1>18. 0 + Len(p1) = 4 /\ 0 + Len(q2) = 6 /\ 0 + Len(q3) = 8 /\ 0 + Len(q4) = 10 /\ 0 + Len(q5) = 14
  <2> DEFINE l2 == Len(q2)
             l3 == Len(q3)
             l4 == Len(q4)
             l5 == Len(q5)
  <2>1. l2 = 4 + 2 /\ l3 = l2 + 2 /\ l4 = l3 + 2 /\ l5 = l4 + 4
    BY <1>2, <1>3, <1>4, <1>8, <1>9, <1>10, <1>11
  <2> HIDE DEF l2, l3, l4, l5
  <2>2. 0 + l2 = 6 /\ 0 + l3 = 8 /\ 0 + l4 = 10 /\ 0 + l5 = 14
    BY <2>1
  <2> QED
    BY <1>2, <2>2 DEF l2, l3, l4, l5
<1>19. Has(b, 4, p2) /\ Has(b, 6, p3) /\ Has(b, 8, p4) /\ Has(b, 10, p5) /\ Has(b, 14, p6)
  BY <1>13, <1>14, <1>15, <1>16, <1>17, <1>18
<1> QED
  BY <1>6, <1>17, <1>19 DEF p1, p2, p3, p4, p5, p6, b, m

TTA1Fits(p, x, n) ==
  /\ p + TTA1Header <= Len(file) /\ HasId(file, p, "TTA1", 4) /\ HeaderCrcHolds(p)
  /\ NumAt(p + 4, 2) = FMT_PCM /\ NumAt(p + 6, 2) = x.nchan /\ NumAt(p + 8, 2) = x.samplebits
  /\ NumAt(p + 10, 4) = x.samplerate /\ NumAt(p + 14, 4) = n

LEMMA NumAtHas ==
  ASSUME Types, NEW p \in Nat, NEW v \in Nat, NEW n \in Nat \ {0}, Has(file, p, Num(v, n))
  PROVE  NumAt(p, n) = v
BY FileIs, NumFound DEF NumAt

LEMMA TTA1There ==
  ASSUME Types, src.state = "whole", src.format = "tta1", src.maker = "own"
  PROVE  /\ TTA1Fits(Start, src.stat, Inside(src)) /\ DataStart = Start + TTA1Header
         /\ Has(file, Start, Id("TTA1", 4))
<1> DEFINE x == src.stat
           b == TTA1Body(x, src.size)
           c == Cells("crc", b, 4)
           h == HeadOf(src)
<1>1. src \in Sources /\ x \in Stats /\ src.size \in Nat /\ file \in Seq(Cell) /\ Len(file) \in Nat
  BY FileIs, SourceIs
<1>2. h = b \o c
  BY <1>1, HeadIs, TTA1BodyFields
<1>3. Start \in Nat /\ Has(file, Start, h) /\ DataStart = Start + Len(h) /\ Start + Len(h) <= Len(file)
  BY HeaderThere
<1>4. Len(h) = TTA1Header
  BY <1>1, HeadFields
<1>5. /\ b \in Seq(Cell) /\ b \in Seq(PlainCell) /\ Len(b) = 18
      /\ Has(b, 0, Id("TTA1", 4)) /\ Has(b, 4, Num(FMT_PCM, 2))
      /\ Has(b, 6, Num(x.nchan, 2)) /\ Has(b, 8, Num(x.samplebits, 2))
      /\ Has(b, 10, Num(x.samplerate, 4)) /\ Has(b, 14, Num(Inside(src), 4))
  <2>1. Inside(src) = IF src.size > U32MAX THEN U32MAX ELSE src.size
    BY DEF Inside
  <2> QED
    BY <1>1, <2>1, TTA1BodyIs
<1>6. c \in Seq(Cell) /\ Len(c) = 4
  <2>1. 4 \in Nat
    OBVIOUS
  <2>2. c \in Seq(Headed({"TTA1"})) /\ Len(c) = 4
    BY <1>5, <2>1, CrcFields
  <2> QED
    BY <2>2, FieldsWider
<1>7. /\ x.nchan \in Nat /\ x.samplebits \in Nat /\ x.samplerate \in Nat /\ FMT_PCM \in Nat /\ Inside(src) \in Nat
  BY <1>1, U32Assumption DEF Stats, FMT_PCM, Inside
<1> HIDE DEF x, b, c, h
<1>8. Has(file, Start, b) /\ Has(file, Start + Len(b), c)
  BY <1>1, <1>2, <1>3, <1>5, <1>6, HasParts
<1>9. At(file, Start, 18) = b
  BY <1>1, <1>3, <1>5, <1>8, HasAt
<1>10. At(file, Start + 18, 4) = c
  <2>1. Start + 18 \in Nat
    BY <1>3
  <2>2. Has(file, Start + 18, c)
    BY <1>5, <1>8
  <2> QED
    BY <1>1, <1>6, <2>1, <2>2, HasAt
<1>11. HeaderCrcHolds(Start)
  BY <1>9, <1>10 DEF HeaderCrcHolds, c
<1>12. \A q \in Nat, g \in Seq(Cell) : Has(b, q, g) => Has(file, Start + q, g) /\ Start + q \in Nat
  BY <1>1, <1>3, <1>5, <1>8, HasInside
<1>13. /\ Id("TTA1", 4) \in Seq(Cell) /\ Num(FMT_PCM, 2) \in Seq(Cell) /\ Num(x.nchan, 2) \in Seq(Cell)
       /\ Num(x.samplebits, 2) \in Seq(Cell) /\ Num(x.samplerate, 4) \in Seq(Cell)
       /\ Num(Inside(src), 4) \in Seq(Cell)
  <2>1. \A v \in Nat : Num(v, 2) \in Seq(Cell)
    <3>1. 2 \in Nat
      OBVIOUS
    <3> QED
      BY <3>1, NumIs
  <2>2. \A v \in Nat : Num(v, 4) \in Seq(Cell)
    <3>1. 4 \in Nat
      OBVIOUS
    <3> QED
      BY <3>1, NumIs
  <2>3. Id("TTA1", 4) \in Seq(Cell)
    <3>1. 4 \in Nat /\ "TTA1" \in Ids
      BY DEF Ids
    <3> QED
      BY <3>1, IdIs
  <2> QED
    BY <1>7, <2>1, <2>2, <2>3
<1>14. 0 \in Nat /\ 4 \in Nat /\ 6 \in Nat /\ 8 \in Nat /\ 10 \in Nat /\ 14 \in Nat /\ Start + 0 = Start
  BY <1>3
<1>15. /\ Has(file, Start + 0, Id("TTA1", 4)) /\ Has(file, Start + 4, Num(FMT_PCM, 2))
       /\ Has(file, Start + 6, Num(x.nchan, 2)) /\ Has(file, Start + 8, Num(x.samplebits, 2))
       /\ Has(file, Start + 10, Num(x.samplerate, 4)) /\ Has(file, Start + 14, Num(Inside(src), 4))
       /\ Start + 4 \in Nat /\ Start + 6 \in Nat /\ Start + 8 \in Nat /\ Start + 10 \in Nat /\ Start + 14 \in Nat
  BY <1>5, <1>12, <1>13, <1>14, Zenon
<1>16. Has(file, Start, Id("TTA1", 4))
  BY <1>14, <1>15
<1>17. HasId(file, Start, "TTA1", 4)
  <2>1. 4 \in Nat \ {0} /\ "TTA1" \in Ids
    BY DEF Ids
  <2> QED
    BY <1>1, <1>3, <1>16, <2>1, IdFound
<1>18. /\ NumAt(Start + 4, 2) = FMT_PCM /\ NumAt(Start + 6, 2) = x.nchan /\ NumAt(Start + 8, 2) = x.samplebits
       /\ NumAt(Start + 10, 4) = x.samplerate /\ NumAt(Start + 14, 4) = Inside(src)
  <2>1. \A p \in Nat, v \in Nat : Has(file, p, Num(v, 2)) => NumAt(p, 2) = v
    <3>1. 2 \in Nat \ {0}
      OBVIOUS
    <3> QED
      BY <3>1, NumAtHas
  <2>2. \A p \in Nat, v \in Nat : Has(file, p, Num(v, 4)) => NumAt(p, 4) = v
    <3>1. 4 \in Nat \ {0}
      OBVIOUS
    <3> QED
      BY <3>1, NumAtHas
  <2> QED
    BY <1>7, <1>15, <2>1, <2>2, Zenon
<1> QED
  BY <1>3, <1>4, <1>11, <1>16, <1>17, <1>18 DEF TTA1Fits, x

\* What a regular file begins with.
LEMMA RegularFile ==
  ASSUME Types, Regular
  PROVE  /\ src \in Sources /\ src.state = "whole" /\ src.tag # "id3" /\ Start \in Nat
         /\ src.format # "tta1" => Chunked(src) /\ use = "encode"
         /\ src.format = "tta1" => src.maker = "own" /\ use = "decode"
         /\ \E s \in Ids, n \in {4, 16} :
              s \notin TagIds /\ Has(file, Start, Id(s, n))
         /\ Start + ApeTagHF <= Len(file)
<1>1. /\ src \in Sources /\ src.state = "whole" /\ src.tag # "id3"
      /\ src.format \in {"wav", "w64", "tta1"}
      /\ src.maker = "own" \/ src.maker = "foreign"
      /\ src.maker = "foreign" => src.format \in {"wav", "w64"}
      /\ Len(file) \in Nat /\ file \in Seq(Cell)
  <2>1. src \in Sources /\ file \in Seq(Cell) /\ Len(file) \in Nat
    BY FileIs
  <2> QED
    BY <2>1, SourceIs DEF Regular
<1>2. Start \in Nat
  BY <1>1, HeaderThere
<1>3. src.format # "tta1" => Chunked(src) /\ use = "encode"
  BY <1>1 DEF Chunked, Regular, Asked
<1>4. src.format = "tta1" => src.maker = "own" /\ use = "decode"
  BY <1>1 DEF Regular, Asked
<1>5. CASE src.format = "tta1"
  <2>1. Has(file, Start, Id("TTA1", 4))
    BY <1>1, <1>4, <1>5, TTA1There
  <2>2. "TTA1" \in Ids /\ "TTA1" \notin TagIds
    BY DEF Ids, TagIds
  <2>3. Start + ApeTagHF <= Len(file)
    <3>1. Len(file) - Start >= ApeTagHF
      BY <1>4, <1>5 DEF Regular
    <3> QED
      BY <1>1, <1>2, <3>1 DEF ApeTagHF
  <2> QED
    BY <1>1, <1>2, <1>3, <1>4, <2>1, <2>2, <2>3
<1>6. CASE src.format # "tta1"
  <2> DEFINE k == src.format
  <2>1. Chunked(src)
    BY <1>3, <1>6
  <2>2. /\ NChunks \in Nat /\ k \in {"wav", "w64"}
        /\ \A m \in 0..NChunks : Bound(m) \in Nat
        /\ Bound(0) = Start + RiffChunk(k)
        /\ Has(file, Start, Id("RIFF", idlen(k)))
        /\ \A m \in 1..NChunks :
             /\ Chunk(m) \in Plain /\ ChunkAt(file, k, Bound(m - 1), Chunk(m), src.stat)
             /\ Bound(m) = Bound(m - 1) + (RiffHeader(k) + BodyLen(k, Chunk(m)))
             /\ BodyLen(k, Chunk(m)) \in Nat \ {0}
    BY <2>1, Layout
  <2>3. "RIFF" \in Ids /\ "RIFF" \notin TagIds /\ idlen(k) \in {4, 16}
    BY <2>2 DEF Ids, WaveIds, TagIds, idlen
  <2>4. Start + ApeTagHF <= Len(file)
    <3>1. CASE src.maker = "own"
      <4>1. Len(file) - Start >= ApeTagHF
        BY <3>1 DEF Regular
      <4> QED
        BY <1>1, <1>2, <4>1 DEF ApeTagHF
    <3>2. CASE src.maker = "foreign"
      <4>1. \E m \in 1..NChunks : Chunk(m) # "list"
        BY <3>2 DEF Regular, NChunks, Chunk, ChunksOf
      <4>2. PICK m \in 1..NChunks : Chunk(m) # "list"
        BY <4>1
      <4>3. BodyAt(file, Bound(m - 1) + RiffHeader(k), IF Chunk(m) = "pcm" THEN FMT_PCM ELSE FMT_EXTENSIBLE, src.stat)
        BY <2>2, <4>2 DEF ChunkAt
      <4>4. Bound(m - 1) + RiffHeader(k) + 16 <= Len(file)
        BY <4>3 DEF BodyAt
      <4>5. \A j \in Nat : j <= NChunks => Bound(j) >= Start + RiffChunk(k)
        <5> DEFINE T == {j \in Nat : j <= NChunks => Bound(j) >= Start + RiffChunk(k)}
        <5>1. RiffHeader(k) \in Nat /\ RiffChunk(k) \in Nat
          BY DEF RiffHeader, RiffChunk
        <5>2. 0 \in T
          BY <1>2, <2>2, <5>1
        <5>3. ASSUME NEW j \in Nat, j \in T PROVE j + 1 \in T
          <6>1. SUFFICES ASSUME j + 1 <= NChunks PROVE Bound(j + 1) >= Start + RiffChunk(k)
            OBVIOUS
          <6>2. j + 1 \in 1..NChunks /\ (j + 1) - 1 = j /\ j \in 0..NChunks /\ j <= NChunks
            BY <2>2, <6>1
          <6>3. Bound(j + 1) = Bound(j) + (RiffHeader(k) + BodyLen(k, Chunk(j + 1))) /\ BodyLen(k, Chunk(j + 1)) \in Nat
            BY <2>2, <6>2
          <6>4. Bound(j) >= Start + RiffChunk(k) /\ Bound(j) \in Nat
            BY <2>2, <5>3, <6>2
          <6> QED
            BY <1>2, <5>1, <6>3, <6>4
        <5>4. Nat \subseteq T
          <6> HIDE DEF T
          <6> QED
            BY <5>2, <5>3, Induction
        <5> QED
          BY <5>4
      <4>6. m - 1 \in Nat /\ m - 1 <= NChunks /\ m - 1 \in 0..NChunks
        BY <2>2
      <4>7. Bound(m - 1) >= Start + RiffChunk(k) /\ Bound(m - 1) \in Nat
        BY <2>2, <4>5, <4>6
      <4>8. RiffChunk(k) + RiffHeader(k) + 16 >= ApeTagHF /\ RiffHeader(k) \in Nat /\ RiffChunk(k) \in Nat
        BY DEF RiffHeader, RiffChunk, ApeTagHF
      <4> QED
        BY <1>1, <1>2, <4>4, <4>7, <4>8 DEF ApeTagHF
    <3> QED
      BY <1>1, <3>1, <3>2
  <2> QED
    BY <1>1, <1>2, <1>3, <1>4, <2>2, <2>3, <2>4
<1> QED
  BY <1>5, <1>6

-----------------------------------------------------------------------------
(* The course of the checks over a regular file *)

LEMMA SameFile ==
  ASSUME src' = src
  PROVE  /\ Start' = Start /\ DataStart' = DataStart /\ NChunks' = NChunks
         /\ \A m : Bound(m)' = Bound(m) /\ Chunk(m)' = Chunk(m)
BY DEF Start, DataStart, NChunks, Bound, Chunk

LEMMA RegularBefore ==
  ASSUME CourseInv, src' = src, file' = file, use' = use, faulted => faulted', Regular'
  PROVE  Regular /\ Course /\ ~faulted'
BY SameFile DEF CourseInv, Regular, Asked

LEMMA NoFault ==
  ASSUME NEW R, NEW n, NEW r \in R \cup Faults(n), r[1] \notin IOErrors
  PROVE  r \in R
BY DEF Faults, IOErrors

\* Nothing fails, so a check has the result that the bytes call for.
LEMMA TakeRegular ==
  ASSUME ~faulted', NEW result, NEW n, NEW ok, NEW mismatch, Take({result}, n, ok, mismatch)
  PROVE  /\ fc' = result[1] /\ pos' = result[2]
         /\ result[1] = "OK" => check' = ok
         /\ result[1] = "MISMATCH" => check' = mismatch
         /\ result[1] = "AGAIN" => check' = check
<1>1. PICK r \in {result} \cup Faults(n) :
        /\ fc' = r[1] /\ pos' = r[2]
        /\ faulted' = (faulted \/ r[1] \in IOErrors)
        /\ check' = CASE r[1] = "OK"       -> ok
                      [] r[1] = "MISMATCH" -> mismatch
                      [] r[1] = "AGAIN"    -> check
                      [] OTHER             -> "failed"
  BY DEF Take
<1>2. r[1] \notin IOErrors
  BY <1>1
<1>3. r = result
  BY <1>2 DEF Faults, IOErrors
<1> QED
  BY <1>1, <1>3

\* Where the first bytes of a header are no tag begins.
LEMMA NoTag ==
  ASSUME Types, NEW p \in Nat, p + ApeTagHF <= Len(file), NEW s \in Ids, NEW n \in {4, 8, 16},
         Has(file, p, Id(s, n))
  PROVE  /\ s # "APETAGEX" => ~HasId(file, p, "APETAGEX", 8)
         /\ s # "ID3" => ~HasId(file, p, "ID3", 3)
<1>1. file \in Seq(Cell) /\ Len(file) \in Nat /\ n \in Nat \ {0}
  BY FileIs
<1>2. p + 8 <= Len(file) /\ p + 3 <= Len(file) /\ "APETAGEX" \in Ids /\ "ID3" \in Ids
      /\ 8 \in Nat \ {0} /\ 3 \in Nat \ {0}
  BY <1>1 DEF ApeTagHF, Ids, TagIds
<1>3. ASSUME s # "APETAGEX" PROVE ~HasId(file, p, "APETAGEX", 8)
  <2>1. <<s, n>> # <<"APETAGEX", 8>>
    BY <1>3
  <2> QED
    BY <1>1, <1>2, <2>1, OtherId
<1>4. ASSUME s # "ID3" PROVE ~HasId(file, p, "ID3", 3)
  <2>1. <<s, n>> # <<"ID3", 3>>
    BY <1>4
  <2> QED
    BY <1>1, <1>2, <2>1, OtherId
<1> QED
  BY <1>3, <1>4

\* What the tag skipper finds in front of a regular file.
LEMMA TagFound ==
  ASSUME Types, Regular, pos \in TagBounds(src.tag)
  PROVE  /\ pos + ApeTagHF <= Len(file) /\ ~HasId(file, pos, "ID3", 3) /\ pos \in Nat /\ Len(file) \in Nat
         /\ \/ pos = Start /\ ~HasId(file, pos, "APETAGEX", 8)
            \/ /\ HasId(file, pos, "APETAGEX", 8)
               /\ pos + ApeTagHF + NumAt(pos + 12, 4) \in TagBounds(src.tag)
<1>1. src.state = "whole" /\ src.tag # "id3" /\ Start + ApeTagHF <= Len(file) /\ Start \in Nat
  BY RegularFile
<1>2. file \in Seq(Cell) /\ Len(file) \in Nat /\ pos \in Nat
  BY FileIs DEF Types
<1>3. CASE pos = Start
  <2>1. PICK s \in Ids, n \in {4, 16} : s \notin TagIds /\ Has(file, Start, Id(s, n))
    BY RegularFile
  <2>2. s # "APETAGEX" /\ s # "ID3" /\ n \in {4, 8, 16}
    BY <2>1 DEF TagIds
  <2>3. ~HasId(file, Start, "APETAGEX", 8) /\ ~HasId(file, Start, "ID3", 3)
    BY <1>1, <2>1, <2>2, NoTag
  <2> QED
    BY <1>1, <1>2, <1>3, <2>3
<1>4. CASE pos # Start
  <2>1. PICK q \in TagBounds(src.tag) : TagAt(pos, q)
    BY <1>1, <1>4, TagsThere
  <2>2. PICK n \in Nat : Has(file, pos + 12, Num(n, 4)) /\ q = pos + ApeTagHF + n
    BY <2>1 DEF TagAt
  <2>3. pos + ApeTagHF <= Len(file) /\ Has(file, pos, Id("APETAGEX", 8))
    BY <2>1 DEF TagAt
  <2>4. "APETAGEX" \in Ids /\ "APETAGEX" # "ID3" /\ 8 \in {4, 8, 16} /\ 8 \in Nat \ {0} /\ 4 \in Nat \ {0}
        /\ pos + 12 \in Nat
    BY <1>2 DEF Ids, TagIds
  <2>5. ~HasId(file, pos, "ID3", 3)
    BY <1>2, <2>3, <2>4, NoTag
  <2>6. HasId(file, pos, "APETAGEX", 8)
    BY <1>2, <2>3, <2>4, IdFound
  <2>7. NumAt(pos + 12, 4) = n
    BY <2>2, <2>4, NumAtHas
  <2> QED
    BY <1>2, <2>1, <2>2, <2>3, <2>5, <2>6, <2>7
<1> QED
  BY <1>3, <1>4

LEMMA ApeCourse ==
  ASSUME SafeInv, CourseInv, apetag_skip
  PROVE  CourseInv'
<1> SUFFICES ASSUME Regular' PROVE Course'
  BY DEF CourseInv
<1>1. src' = src /\ file' = file /\ use' = use /\ check = "ape" /\ check' = "id3"
  BY DEF apetag_skip
<1>2. PICK r \in ApeResults \cup Faults(ApeTagHF) :
        fc0' = r[1] /\ pos' = r[2] /\ faulted' = (faulted \/ r[1] \in IOErrors)
  BY DEF apetag_skip
<1>3. Regular /\ Course /\ ~faulted' /\ Types
  BY <1>1, <1>2, RegularBefore DEF SafeInv
<1>4. r \in ApeResults
  <2>1. r[1] \notin IOErrors
    BY <1>2, <1>3
  <2> QED
    BY <2>1, NoFault
<1>5. pos \in TagBounds(src.tag)
  BY <1>1, <1>3 DEF Course
<1>6. ~Short(pos, ApeTagHF)
  BY <1>3, <1>5, TagFound DEF Short, ApeTagHF
<1>7. pos' \in TagBounds(src.tag) /\ (fc0' = "OK" \/ (fc0' = "MISMATCH" /\ pos' = Start))
  <2>1. \/ r = <<"OK", pos + ApeTagHF + NumAt(pos + 12, 4)>> /\ HasId(file, pos, "APETAGEX", 8)
        \/ r = <<"MISMATCH", pos>> /\ ~HasId(file, pos, "APETAGEX", 8)
    BY <1>4, <1>6 DEF ApeResults
  <2>2. \/ pos = Start /\ ~HasId(file, pos, "APETAGEX", 8)
        \/ HasId(file, pos, "APETAGEX", 8) /\ pos + ApeTagHF + NumAt(pos + 12, 4) \in TagBounds(src.tag)
    BY <1>3, <1>5, TagFound
  <2> QED
    BY <1>2, <1>5, <2>1, <2>2
<1> QED
  BY <1>1, <1>7, SameFile DEF Course, Got

LEMMA ID3Course ==
  ASSUME SafeInv, CourseInv, id3tag_skip
  PROVE  CourseInv'
<1> SUFFICES ASSUME Regular' PROVE Course'
  BY DEF CourseInv
<1>1. src' = src /\ file' = file /\ use' = use /\ check = "id3"
  BY DEF id3tag_skip
<1>2. PICK r \in ID3Results \cup Faults(ID3TagHeader) :
        /\ pos' = r[2] /\ faulted' = (faulted \/ r[1] \in IOErrors)
        /\ check' = CASE metatags_retval(fc0, r[1]) = "OK" -> "ape"
                      [] metatags_retval(fc0, r[1]) = "MISMATCH" -> (IF use = "encode" THEN "wav" ELSE "tta1")
                      [] OTHER -> "failed"
  BY DEF id3tag_skip
<1>3. Regular /\ Course /\ ~faulted' /\ Types
  BY <1>1, <1>2, RegularBefore DEF SafeInv
<1>4. r \in ID3Results
  <2>1. r[1] \notin IOErrors
    BY <1>2, <1>3
  <2> QED
    BY <2>1, NoFault
<1>5. pos \in TagBounds(src.tag) /\ (fc0 = "OK" \/ (fc0 = "MISMATCH" /\ pos = Start))
  BY <1>1, <1>3 DEF Course
<1>6. r = <<"MISMATCH", pos>>
  <2>1. ~Short(pos, ID3TagHeader) /\ ~HasId(file, pos, "ID3", 3)
    BY <1>3, <1>5, TagFound DEF Short, ApeTagHF, ID3TagHeader
  <2> QED
    BY <1>4, <2>1 DEF ID3Results
<1>7. CASE fc0 = "OK"
  <2>1. metatags_retval(fc0, r[1]) = "OK"
    BY <1>7 DEF metatags_retval
  <2>2. check' = "ape" /\ pos' = pos
    BY <1>2, <1>6, <2>1
  <2> QED
    BY <1>1, <1>5, <2>2, SameFile DEF Course, Got
<1>8. CASE fc0 = "MISMATCH" /\ pos = Start
  <2>1. metatags_retval(fc0, r[1]) = "MISMATCH"
    BY <1>6, <1>8 DEF metatags_retval
  <2>2. check' \in {"wav", "tta1"} /\ pos' = Start
    BY <1>2, <1>6, <1>8, <2>1
  <2> QED
    BY <1>1, <2>2, SameFile DEF Course, Got
<1> QED
  BY <1>5, <1>7, <1>8

LEMMA WaveCourse ==
  ASSUME SafeInv, CourseInv, filecheck_wav \/ filecheck_w64
  PROVE  CourseInv'
<1> SUFFICES ASSUME Regular' PROVE Course'
  BY DEF CourseInv
<1>1. /\ src' = src /\ file' = file /\ use' = use /\ want' = "fmt"
      /\ faulted => faulted'
  BY DEF filecheck_wav, filecheck_w64, Take
<1>2. Regular /\ Course /\ ~faulted' /\ Types
  BY <1>1, RegularBefore DEF SafeInv
<1>3. check \in {"wav", "w64"} /\ use = "encode" /\ pos = Start /\ (check = "w64" => src.format = "w64")
  BY <1>2 DEF filecheck_wav, filecheck_w64, SafeInv, UseInv, Course
<1>4. Chunked(src) /\ Start \in Nat
  BY <1>2, <1>3, RegularFile
<1> DEFINE f == src.format
<1>5. /\ f \in {"wav", "w64"} /\ NChunks \in Nat /\ Bound(0) = Start + RiffChunk(f) /\ Start + RiffChunk(f) <= Len(file)
      /\ Has(file, Start, Id("RIFF", idlen(f))) /\ Has(file, Start + RiffHeader(f), Id("WAVE", idlen(f)))
  BY <1>2, <1>4, Layout
<1>6. file \in Seq(Cell) /\ Len(file) \in Nat /\ "RIFF" \in Ids /\ "WAVE" \in Ids
  BY <1>2, FileIs DEF Ids, WaveIds
<1>7. ASSUME NEW k \in {"wav", "w64"}, check = k, kind' = k, NEW miss, k = "wav" => miss = "w64",
             Take(WaveResults(k), RiffChunk(k), "find", miss)
      PROVE  Course'
  <2>1. idlen(k) \in Nat \ {0} /\ idlen(f) \in Nat \ {0} /\ RiffHeader(k) \in Nat /\ RiffHeader(f) \in Nat
        /\ RiffChunk(k) \in Nat /\ RiffChunk(f) \in Nat
        /\ idlen(k) <= RiffChunk(k) /\ RiffChunk("wav") <= RiffChunk(f)
    BY DEF idlen, RiffHeader, RiffChunk
  <2>2. CASE k = f
    <3>1. ~Short(pos, RiffChunk(k))
      BY <1>3, <1>4, <1>5, <1>6, <2>1, <2>2 DEF Short
    <3>2. Start + RiffHeader(f) \in Nat
      BY <1>4, <2>1
    <3>3. HasId(file, pos, "RIFF", idlen(k)) /\ HasId(file, pos + RiffHeader(k), "WAVE", idlen(k))
      BY <1>3, <1>4, <1>5, <1>6, <2>1, <2>2, <3>2, IdFound
    <3> DEFINE r == <<"OK", pos + RiffChunk(k)>>
    <3>4. WaveResults(k) = {r} /\ r[1] = "OK" /\ r[2] = pos + RiffChunk(k)
      BY <3>1, <3>3 DEF WaveResults
    <3>5. check' = "find" /\ pos' = pos + RiffChunk(k)
      <4> HIDE DEF r
      <4>1. Take({r}, RiffChunk(k), "find", miss)
        BY <1>7, <3>4
      <4> QED
        BY <1>2, <3>4, <4>1, TakeRegular
    <3>6. pos' = Bound(0)
      BY <1>3, <1>5, <2>2, <3>5
    <3>7. 0 \in 0..NChunks /\ \A z \in 1..0 : FALSE
      BY <1>5
    <3> QED
      BY <1>1, <1>7, <2>2, <3>5, <3>6, <3>7, SameFile DEF Course, Got
  <2>3. CASE k # f
    <3>1. k = "wav" /\ f = "w64"
      BY <1>3, <1>5, <1>7, <2>3
    <3>2. ~Short(pos, RiffChunk(k))
      BY <1>3, <1>4, <1>5, <1>6, <2>1, <3>1 DEF Short
    <3>3. ~HasId(file, pos, "RIFF", idlen(k))
      <4>1. pos + idlen(k) <= Len(file)
        BY <1>3, <1>4, <1>6, <2>1, <3>2 DEF Short
      <4>2. <<"RIFF", idlen(f)>> # <<"RIFF", idlen(k)>>
        BY <3>1 DEF idlen
      <4> QED
        BY <1>3, <1>4, <1>5, <1>6, <2>1, <4>1, <4>2, OtherId
    <3> DEFINE r == <<"MISMATCH", pos>>
    <3>4. WaveResults(k) = {r} /\ r[1] = "MISMATCH" /\ r[2] = pos
      BY <3>2, <3>3 DEF WaveResults
    <3>5. check' = "w64" /\ pos' = pos
      <4> HIDE DEF r
      <4>1. Take({r}, RiffChunk(k), "find", miss) /\ miss = "w64"
        BY <1>7, <3>1, <3>4
      <4> QED
        BY <1>2, <3>4, <4>1, TakeRegular
    <3> QED
      BY <1>1, <1>3, <3>1, <3>5, SameFile DEF Course, Got
  <2> QED
    BY <2>2, <2>3
<1> QED
  BY <1>7 DEF filecheck_wav, filecheck_w64

LEMMA HeadRead ==
  ASSUME Types, NEW p \in Nat, NEW s \in Ids, NEW n \in Nat, HeadAt(file, kind, p, s, n)
  PROVE  /\ ~Short(p, RiffHeader(kind)) /\ BodyLens(p) = {n} /\ RiffHeader(kind) \in Nat
         /\ \A t \in Ids : HasId(file, p, t, idlen(kind)) <=> t = s
<1> DEFINE il == idlen(kind)
           m == RiffHeader(kind) - idlen(kind)
           v == SizeField(kind, n)
<1>1. file \in Seq(Cell) /\ Len(file) \in Nat /\ kind \in {"wav", "w64"}
  BY FileIs DEF Types
<1>2. il \in Nat \ {0} /\ m \in Nat \ {0} /\ m = (IF kind = "wav" THEN 4 ELSE 8) /\ v \in Nat
      /\ RiffHeader(kind) \in Nat /\ il <= RiffHeader(kind)
  BY <1>1 DEF idlen, RiffHeader, SizeField
<1>3. p + RiffHeader(kind) <= Len(file) /\ Has(file, p, Id(s, il)) /\ Has(file, p + il, Num(v, m))
  BY DEF HeadAt
<1>4. (IF kind = "wav" THEN v ELSE v - RiffHeader(kind)) = n
  BY <1>1, <1>2 DEF SizeField
<1>5. BodyLens(p) = {IF kind = "wav" THEN w ELSE w - RiffHeader(kind) : w \in NumsAt(file, p + il, m)}
  BY <1>2 DEF BodyLens
<1> HIDE DEF il, m, v
<1>6. NumsAt(file, p + il, m) = {v}
  <2>1. p + il \in Nat
    BY <1>2
  <2> QED
    BY <1>1, <1>2, <1>3, <2>1, NumFound
<1>7. BodyLens(p) = {n}
  BY <1>4, <1>5, <1>6
<1>8. ASSUME NEW t \in Ids PROVE HasId(file, p, t, il) <=> t = s
  <2>1. HasId(file, p, s, il)
    BY <1>1, <1>2, <1>3, IdFound
  <2>2. ASSUME t # s PROVE ~HasId(file, p, t, il)
    <3>1. <<s, il>> # <<t, il>> /\ p + il <= Len(file)
      BY <1>1, <1>2, <1>3, <2>2
    <3> QED
      BY <1>1, <1>2, <1>3, <3>1, OtherId
  <2> QED
    BY <2>1, <2>2
<1>9. ~Short(p, RiffHeader(kind))
  BY <1>1, <1>2, <1>3 DEF Short
<1> QED
  BY <1>2, <1>7, <1>8, <1>9 DEF il

LEMMA FindCourse ==
  ASSUME SafeInv, CourseInv, find_subchunk
  PROVE  CourseInv'
<1> SUFFICES ASSUME Regular' PROVE Course'
  BY DEF CourseInv
<1>1. /\ src' = src /\ file' = file /\ use' = use /\ want' = want /\ kind' = kind /\ stat' = stat
      /\ check = "find" /\ Take(FindResults, RiffHeader(kind), IF want = "fmt" THEN "fmt" ELSE "data", "failed")
      /\ faulted => faulted'
  BY DEF find_subchunk, Take
<1>2. Regular /\ Course /\ ~faulted' /\ Types
  BY <1>1, RegularBefore DEF SafeInv
<1>3. /\ use = "encode" /\ kind = src.format /\ want \in {"fmt", "data"}
      /\ want = "data" => StatRead
  BY <1>1, <1>2 DEF SafeInv, UseInv, Course, Types
<1>4. PICK m \in 0..NChunks : pos = Bound(m) /\ (want = "fmt" => \A z \in 1..m : Chunk(z) = "list")
  BY <1>1, <1>2 DEF Course
<1>5. Chunked(src) /\ src.size > 0 /\ src \in Sources
  BY <1>2, <1>3, RegularFile DEF Regular
<1>6. /\ NChunks \in Nat /\ Inside(src) \in Nat /\ kind \in {"wav", "w64"}
      /\ \A z \in 0..NChunks : Bound(z) \in Nat
      /\ \A z \in 1..NChunks :
           /\ Chunk(z) \in Plain /\ ChunkAt(file, kind, Bound(z - 1), Chunk(z), src.stat)
           /\ Bound(z) = Bound(z - 1) + (RiffHeader(kind) + BodyLen(kind, Chunk(z)))
           /\ BodyLen(kind, Chunk(z)) \in Nat \ {0}
      /\ HeadAt(file, kind, Bound(NChunks), "data", Inside(src))
  BY <1>2, <1>3, <1>5, Layout
<1>7. "fmt" \in Ids /\ "data" \in Ids /\ "LIST" \in Ids /\ pos \in Nat
  BY <1>4, <1>6 DEF Ids, WaveIds
\* What is found where a chunk begins.
<1>8. ASSUME NEW s \in Ids, NEW n \in Nat \ {0}, HeadAt(file, kind, pos, s, n)
      PROVE  /\ s = want => pos' = pos /\ check' = IF want = "fmt" THEN "fmt" ELSE "data"
             /\ s # want /\ 2 * n <= U64MAX => pos' = pos + (RiffHeader(kind) + n) /\ check' = "find"
  <2>1. ~Short(pos, RiffHeader(kind)) /\ BodyLens(pos) = {n} /\ RiffHeader(kind) \in Nat
        /\ (HasId(file, pos, want, idlen(kind)) <=> want = s)
    BY <1>2, <1>3, <1>7, <1>8, HeadRead
  <2> DEFINE result == IF n <= 0 THEN <<"MALFORMED", pos + RiffHeader(kind)>>
                       ELSE IF HasId(file, pos, want, idlen(kind)) THEN <<"OK", pos>>
                       ELSE Skip(pos + RiffHeader(kind), n)
  <2>2. FindResults = {result}
    BY <2>1 DEF FindResults
  <2>3. result = IF want = s THEN <<"OK", pos>> ELSE Skip(pos + RiffHeader(kind), n)
    BY <2>1
  <2>6. 2 * n <= U64MAX => Skip(pos + RiffHeader(kind), n) = <<"AGAIN", pos + RiffHeader(kind) + n>>
    <3>1. pos + RiffHeader(kind) \in Nat /\ n \in Int /\ n >= 0
      BY <1>7, <2>1
    <3> HIDE DEF result
    <3> QED
      BY <3>1, SkipIs
  <2>4. pos + RiffHeader(kind) + n = pos + (RiffHeader(kind) + n)
    BY <1>7, <2>1
  <2> HIDE DEF result
  <2>5. /\ pos' = result[2]
        /\ result[1] = "OK" => check' = IF want = "fmt" THEN "fmt" ELSE "data"
        /\ result[1] = "AGAIN" => check' = check
    BY <1>1, <1>2, <2>2, TakeRegular
  <2> QED
    BY <1>1, <2>3, <2>4, <2>5, <2>6
<1>9. CASE m < NChunks
  <2>1. m + 1 \in 1..NChunks /\ (m + 1) - 1 = m /\ m + 1 \in 0..NChunks
    BY <1>6, <1>9
  <2> DEFINE c == Chunk(m + 1)
             s == IF c = "list" THEN "LIST" ELSE "fmt"
             n == BodyLen(kind, c)
  <2>2. /\ c \in Plain /\ HeadAt(file, kind, pos, s, n) /\ n \in Nat \ {0}
        /\ Bound(m + 1) = pos + (RiffHeader(kind) + n)
    BY <1>4, <1>6, <2>1 DEF ChunkAt
  <2>3. s \in Ids
    BY <1>7
  <2>4. CASE s = want
    <3>1. pos' = pos /\ check' = "fmt" /\ c # "list"
      <4>1. want = "fmt" /\ c # "list"
        BY <1>3, <2>4
      <4> QED
        BY <1>8, <2>2, <2>3, <2>4, <4>1
    <3>2. pos' = Bound((m + 1) - 1)
      BY <1>4, <2>1, <3>1
    <3> QED
      BY <1>1, <1>3, <2>1, <3>1, <3>2, SameFile DEF Course, Got
  <2>5. CASE s # want
    <3>1. pos' = Bound(m + 1) /\ check' = "find"
      <4>1. 2 * n <= U64MAX
        BY <1>6, <2>2, BodyLenIs, U64Assumption DEF Plain, ListBody, FmtBody, WfxTail
      <4> QED
        BY <1>8, <2>2, <2>3, <2>5, <4>1
    <3>2. want = "fmt" => \A z \in 1..(m + 1) : Chunk(z) = "list"
      <4>1. want = "fmt" => c = "list"
        BY <2>5
      <4>2. \A z \in 1..(m + 1) : z \in 1..m \/ z = m + 1
        BY <1>6
      <4> QED
        BY <1>4, <4>1, <4>2
    <3>3. want = "data" => StatRead'
      BY <1>1, <1>3 DEF StatRead
    <3> QED
      BY <1>1, <1>3, <2>1, <3>1, <3>2, <3>3, SameFile DEF Course, Got
  <2> QED
    BY <2>4, <2>5
<1>10. CASE m = NChunks
  <2>1. want = "data"
    <3>1. SUFFICES ASSUME want = "fmt", \A z \in 1..NChunks : Chunk(z) = "list" PROVE FALSE
      BY <1>3, <1>4, <1>10
    <3>2. CASE src.maker = "foreign"
      <4>1. \E z \in 1..NChunks : Chunk(z) # "list"
        BY <1>2, <3>2 DEF Regular, NChunks, Chunk, ChunksOf
      <4> QED
        BY <3>1, <4>1
    <3>3. CASE src.maker # "foreign"
      <4>1. ChunksOf(src) = <<"ext">>
        BY <3>3 DEF ChunksOf
      <4>2. NChunks = 1 /\ Chunk(1) = "ext" /\ 1 \in 1..1
        BY <4>1 DEF NChunks, Chunk
      <4> QED
        BY <3>1, <4>2
    <3> QED
      BY <3>2, <3>3
  <2>2. Inside(src) \in Nat \ {0}
    BY <1>5, <1>6, U32Assumption DEF Inside, data_field
  <2>3. pos' = pos /\ check' = "data"
    BY <1>4, <1>6, <1>7, <1>8, <1>10, <2>1, <2>2
  <2>4. StatRead'
    BY <1>1, <1>3, <2>1 DEF StatRead
  <2> QED
    BY <1>1, <1>3, <1>4, <1>10, <2>1, <2>3, <2>4, SameFile DEF Course, Got
<1> QED
  BY <1>4, <1>6, <1>9, <1>10

LEMMA FmtCourse ==
  ASSUME SafeInv, CourseInv, read_subchunk_fmt
  PROVE  CourseInv'
<1> SUFFICES ASSUME Regular' PROVE Course'
  BY DEF CourseInv
<1>1. /\ src' = src /\ file' = file /\ use' = use /\ want' = "data" /\ kind' = kind /\ check = "fmt"
      /\ faulted => faulted'
  BY DEF read_subchunk_fmt, Take
<1>2. Regular /\ Course /\ ~faulted' /\ Types
  BY <1>1, RegularBefore DEF SafeInv
<1>3. use = "encode" /\ kind = src.format
  BY <1>1, <1>2 DEF SafeInv, UseInv, Course
<1>4. PICK m \in 1..NChunks : pos = Bound(m - 1) /\ Chunk(m) # "list"
  BY <1>1, <1>2 DEF Course
<1>5. Chunked(src) /\ src \in Sources /\ src.stat \in Stats
  BY <1>2, <1>3, RegularFile, SourceIs
<1> DEFINE p == pos + RiffHeader(kind)
           x == src.stat
           v == IF Chunk(m) = "pcm" THEN FMT_PCM ELSE FMT_EXTENSIBLE
<1>6. /\ NChunks \in Nat /\ \A z \in 0..NChunks : Bound(z) \in Nat
      /\ Chunk(m) \in Plain /\ ChunkAt(file, kind, Bound(m - 1), Chunk(m), x)
      /\ Bound(m) = Bound(m - 1) + (RiffHeader(kind) + BodyLen(kind, Chunk(m)))
  BY <1>2, <1>3, <1>5, Layout
<1>7. m - 1 \in 0..NChunks /\ m \in 0..NChunks
  BY <1>6
<1>8. RiffHeader(kind) \in Nat /\ pos \in Nat /\ p \in Nat /\ Len(file) \in Nat
  BY <1>2, <1>4, <1>6, <1>7, KindIs, FileIs
<1>9. BodyAt(file, p, v, x)
  BY <1>4, <1>6 DEF ChunkAt
<1>10. /\ ~Short(p, FmtBody) /\ NumAt(p, 2) = v /\ NumAt(p + 2, 2) = x.nchan
       /\ NumAt(p + 4, 4) = x.samplerate /\ NumAt(p + 14, 2) = x.samplebits
  <2>1. /\ p + 16 <= Len(file) /\ Has(file, p, Num(v, 2)) /\ Has(file, p + 2, Num(x.nchan, 2))
        /\ Has(file, p + 4, Num(x.samplerate, 4)) /\ Has(file, p + 14, Num(x.samplebits, 2))
    BY <1>9 DEF BodyAt
  <2>2. v \in Nat /\ x.nchan \in Nat /\ x.samplerate \in Nat /\ x.samplebits \in Nat
        /\ p + 2 \in Nat /\ p + 4 \in Nat /\ p + 14 \in Nat
    BY <1>5, <1>8 DEF FMT_PCM, FMT_EXTENSIBLE, Stats
  <2>3. \A q \in Nat, w \in Nat : Has(file, q, Num(w, 2)) => NumAt(q, 2) = w
    <3>1. 2 \in Nat \ {0}
      OBVIOUS
    <3> QED
      BY <1>2, <3>1, NumAtHas
  <2>4. \A q \in Nat, w \in Nat : Has(file, q, Num(w, 4)) => NumAt(q, 4) = w
    <3>1. 4 \in Nat \ {0}
      OBVIOUS
    <3> QED
      BY <1>2, <3>1, NumAtHas
  <2>5. ~Short(p, FmtBody)
    BY <1>8, <2>1 DEF Short, FmtBody
  <2> HIDE DEF p, v, x
  <2>6. NumAt(p, 2) = v /\ NumAt(p + 2, 2) = x.nchan /\ NumAt(p + 14, 2) = x.samplebits
    BY <1>8, <2>1, <2>2, <2>3, Zenon
  <2>7. NumAt(p + 4, 4) = x.samplerate
    BY <2>1, <2>2, <2>4, Zenon
  <2> QED
    BY <2>5, <2>6, <2>7
<1>11. v \in {FMT_PCM, FMT_EXTENSIBLE} /\ (v = FMT_PCM <=> Chunk(m) = "pcm")
  BY DEF FMT_PCM, FMT_EXTENSIBLE
<1> DEFINE r == IF Short(p, FmtBody) THEN TooShort
                ELSE IF NumAt(p, 2) \notin {FMT_PCM, FMT_EXTENSIBLE}
                       THEN <<"UNSUPPORTED_DATATYPE", p + FmtBody>>
                ELSE <<"OK", p + FmtBody>>
<1>12. r[1] = "OK" /\ r[2] = p + FmtBody
  BY <1>10, <1>11
<1>13. /\ Take({r}, FmtBody, IF NumAt(p, 2) = FMT_PCM THEN "find" ELSE "wfx", "failed")
       /\ stat' = IF fc' # "OK" THEN stat
                  ELSE [stat EXCEPT !.nchan      = NumAt(p + 2, 2),
                                    !.samplerate = NumAt(p + 4, 4),
                                    !.samplebits = NumAt(p + 14, 2)]
  BY DEF read_subchunk_fmt
<1> HIDE DEF p, v, r
<1>14. fc' = "OK" /\ pos' = p + FmtBody /\ check' = IF NumAt(p, 2) = FMT_PCM THEN "find" ELSE "wfx"
  BY <1>2, <1>12, <1>13, TakeRegular
<1>15. StatRead'
  <2>1. stat \in ReadStats
    BY <1>2 DEF Types
  <2>2. stat' = [stat EXCEPT !.nchan = x.nchan, !.samplerate = x.samplerate, !.samplebits = x.samplebits]
    BY <1>10, <1>13, <1>14
  <2>3. stat'.nchan = x.nchan /\ stat'.samplerate = x.samplerate /\ stat'.samplebits = x.samplebits
    BY <2>1, <2>2 DEF ReadStats
  <2> QED
    BY <1>1, <2>3 DEF StatRead
<1>16. CASE Chunk(m) = "pcm"
  <2>1. check' = "find"
    BY <1>10, <1>11, <1>14, <1>16
  <2>2. pos' = Bound(m)
    <3>1. BodyLen(kind, Chunk(m)) = FmtBody /\ FmtBody \in Nat
      BY <1>16, BodyLenIs DEF FmtBody
    <3> QED
      BY <1>4, <1>6, <1>8, <1>14, <3>1 DEF p
  <2> QED
    BY <1>1, <1>3, <1>7, <1>15, <2>1, <2>2, SameFile DEF Course, Got
<1>17. CASE Chunk(m) = "ext"
  <2>1. check' = "wfx"
    <3>1. v # FMT_PCM
      BY <1>11, <1>17
    <3> QED
      BY <1>10, <1>14, <3>1
  <2>2. pos' = Bound(m - 1) + RiffHeader(kind) + FmtBody
    BY <1>4, <1>14 DEF p
  <2> QED
    BY <1>1, <1>3, <1>15, <1>17, <2>1, <2>2, SameFile DEF Course, Got
<1> QED
  BY <1>4, <1>6, <1>16, <1>17 DEF Plain

LEMMA WfxCourse ==
  ASSUME SafeInv, CourseInv, read_subchunk_wfx
  PROVE  CourseInv'
<1> SUFFICES ASSUME Regular' PROVE Course'
  BY DEF CourseInv
<1> DEFINE r == IF Short(pos, WfxTail) THEN TooShort
                ELSE IF ~HasId(file, pos + 8, "PCM", 16)
                       THEN <<"UNSUPPORTED_DATATYPE", pos + WfxTail>>
                ELSE IF NumAt(pos, 2) = 0 THEN <<"MALFORMED", pos + WfxTail>>
                ELSE <<"OK", pos + WfxTail + (WfxTail - (NumAt(pos, 2) + 2))>>
<1>1. /\ src' = src /\ file' = file /\ use' = use /\ want' = want /\ kind' = kind /\ stat' = stat
      /\ check = "wfx" /\ Take({r}, WfxTail, "find", "failed")
      /\ faulted => faulted'
  BY DEF read_subchunk_wfx, Take
<1> HIDE DEF r
<1>2. Regular /\ Course /\ ~faulted' /\ Types
  BY <1>1, RegularBefore DEF SafeInv
<1>3. use = "encode" /\ kind = src.format /\ want = "data" /\ StatRead
  BY <1>1, <1>2 DEF SafeInv, UseInv, Course
<1>4. PICK m \in 1..NChunks : pos = Bound(m - 1) + RiffHeader(kind) + FmtBody /\ Chunk(m) = "ext"
  BY <1>1, <1>2 DEF Course
<1>5. Chunked(src) /\ src \in Sources
  BY <1>2, <1>3, RegularFile
<1>6. /\ NChunks \in Nat /\ \A z \in 0..NChunks : Bound(z) \in Nat
      /\ ChunkAt(file, kind, Bound(m - 1), Chunk(m), src.stat)
      /\ Bound(m) = Bound(m - 1) + (RiffHeader(kind) + BodyLen(kind, Chunk(m)))
  BY <1>2, <1>3, <1>5, Layout
<1>7. m - 1 \in 0..NChunks /\ m \in 0..NChunks
  BY <1>6
<1>8. RiffHeader(kind) \in Nat /\ pos \in Nat /\ Len(file) \in Nat /\ Bound(m - 1) \in Nat /\ file \in Seq(Cell)
  BY <1>2, <1>6, <1>7, KindIs, FileIs DEF Types
<1>9. pos + 24 <= Len(file) /\ Has(file, pos, Num(22, 2)) /\ Has(file, pos + 8, Id("PCM", 16))
  BY <1>4, <1>6 DEF ChunkAt, TailAt
<1>10. NumAt(pos, 2) = 22 /\ HasId(file, pos + 8, "PCM", 16)
  <2>1. 22 \in Nat /\ 2 \in Nat \ {0} /\ 16 \in Nat \ {0} /\ "PCM" \in Ids /\ pos + 8 \in Nat
    BY <1>8 DEF Ids, WaveIds
  <2> QED
    BY <1>2, <1>8, <1>9, <2>1, NumAtHas, IdFound
<1>11. r[1] = "OK" /\ r[2] = pos + WfxTail
  <2>1. ~Short(pos, WfxTail)
    BY <1>8, <1>9 DEF Short, WfxTail
  <2>2. pos + WfxTail + (WfxTail - (22 + 2)) = pos + WfxTail
    BY <1>8 DEF WfxTail
  <2> QED
    BY <1>10, <2>1, <2>2 DEF r
<1>12. check' = "find" /\ pos' = pos + WfxTail
  BY <1>1, <1>2, <1>11, TakeRegular
<1>13. pos' = Bound(m)
  <2>1. BodyLen(kind, Chunk(m)) = FmtBody + WfxTail /\ FmtBody \in Nat /\ WfxTail \in Nat
    BY <1>4, BodyLenIs DEF FmtBody, WfxTail
  <2> QED
    BY <1>4, <1>6, <1>8, <1>12, <2>1
<1>14. StatRead'
  BY <1>1, <1>3 DEF StatRead
<1> QED
  BY <1>1, <1>3, <1>7, <1>12, <1>13, <1>14, SameFile DEF Course, Got

LEMMA DataCourse ==
  ASSUME SafeInv, CourseInv, read_data
  PROVE  CourseInv'
<1> SUFFICES ASSUME Regular' PROVE Course'
  BY DEF CourseInv
<1> DEFINE r == <<"OK", pos + RiffHeader(kind)>>
<1>1. /\ src' = src /\ file' = file /\ use' = use /\ want' = want /\ kind' = kind
      /\ check = "data" /\ Take({r}, RiffHeader(kind), "bounds", "failed")
      /\ faulted => faulted'
      /\ stat' = IF fc' # "OK" THEN stat
                 ELSE [stat EXCEPT !.off = pos', !.size = CHOOSE n \in BodyLens(pos) : TRUE]
  BY DEF read_data, Take
<1>2. Regular /\ Course /\ ~faulted' /\ Types
  BY <1>1, RegularBefore DEF SafeInv
<1>3. use = "encode" /\ kind = src.format /\ pos = Bound(NChunks) /\ StatRead /\ stat \in ReadStats
  BY <1>1, <1>2 DEF SafeInv, UseInv, Course, Types
<1>4. Chunked(src) /\ src \in Sources
  BY <1>2, <1>3, RegularFile
<1>5. /\ NChunks \in Nat /\ \A z \in 0..NChunks : Bound(z) \in Nat
      /\ Inside(src) \in Nat
      /\ HeadAt(file, kind, Bound(NChunks), "data", Inside(src))
      /\ DataStart = Bound(NChunks) + RiffHeader(kind)
  BY <1>2, <1>3, <1>4, Layout
<1>6. BodyLens(pos) = {Inside(src)}
  <2>1. "data" \in Ids /\ Bound(NChunks) \in Nat
    BY <1>5 DEF Ids, WaveIds
  <2> QED
    BY <1>2, <1>3, <1>5, <2>1, HeadRead
<1>7. fc' = "OK" /\ pos' = pos + RiffHeader(kind) /\ check' = "bounds"
  <2>1. r[1] = "OK" /\ r[2] = pos + RiffHeader(kind)
    OBVIOUS
  <2> HIDE DEF r
  <2> QED
    BY <1>1, <1>2, <2>1, TakeRegular
<1>8. stat' = [stat EXCEPT !.off = DataStart, !.size = Inside(src)]
  <2>1. (CHOOSE n \in BodyLens(pos) : TRUE) = Inside(src)
    BY <1>6
  <2> QED
    BY <1>1, <1>3, <1>5, <1>7, <2>1
<1>9. stat'.off = DataStart /\ stat'.size = Inside(src) /\ stat'.nchan = stat.nchan
      /\ stat'.samplerate = stat.samplerate /\ stat'.samplebits = stat.samplebits
  BY <1>3, <1>8 DEF ReadStats
<1>10. StatRead' /\ Inside(src)' = Inside(src)
  BY <1>1, <1>3, <1>9 DEF StatRead
<1> QED
  BY <1>1, <1>7, <1>9, <1>10, SameFile DEF Course, Got

LEMMA TTA1Course ==
  ASSUME SafeInv, CourseInv, filecheck_tta1
  PROVE  CourseInv'
<1> SUFFICES ASSUME Regular' PROVE Course'
  BY DEF CourseInv
<1> DEFINE end == pos + TTA1Header
           r == IF Short(pos, TTA1Header) THEN TooShort
                ELSE IF ~HasId(file, pos, "TTA1", 4) THEN <<"MISMATCH", pos>>
                ELSE IF ~HeaderCrcHolds(pos) THEN <<"CORRUPTED", end>>
                ELSE IF NumAt(pos + 4, 2) # FMT_PCM THEN <<"UNSUPPORTED_DATATYPE", end>>
                ELSE <<"OK", end>>
           got == [nchan      |-> NumAt(pos + 6, 2),
                   samplebits |-> NumAt(pos + 8, 2),
                   samplerate |-> NumAt(pos + 10, 4),
                   off        |-> end,
                   size       |-> NumAt(pos + 14, 4)]
<1>1. /\ src' = src /\ file' = file /\ use' = use
      /\ check = "tta1" /\ Take({r}, TTA1Header, "bounds", "failed")
      /\ faulted => faulted'
      /\ stat' = IF fc' # "OK" THEN stat ELSE got
  BY DEF filecheck_tta1, Take
<1>2. Regular /\ Course /\ ~faulted' /\ Types
  BY <1>1, RegularBefore DEF SafeInv
<1>3. use = "decode" /\ pos = Start
  BY <1>1, <1>2 DEF SafeInv, UseInv, Course
<1>4. src.format = "tta1" /\ src.maker = "own" /\ src.state = "whole" /\ Start \in Nat
  BY <1>2, <1>3, RegularFile
<1>5. TTA1Fits(Start, src.stat, Inside(src)) /\ DataStart = Start + TTA1Header
  BY <1>2, <1>4, TTA1There
<1>6. r[1] = "OK" /\ r[2] = DataStart
  <2>1. ~Short(pos, TTA1Header)
    BY <1>2, <1>3, <1>4, <1>5, FileIs DEF Short, TTA1Fits, TTA1Header
  <2>2. HasId(file, pos, "TTA1", 4) /\ HeaderCrcHolds(pos) /\ NumAt(pos + 4, 2) = FMT_PCM
    BY <1>3, <1>5 DEF TTA1Fits
  <2> QED
    BY <1>3, <1>5, <2>1, <2>2
<1>7. /\ got.nchan = src.stat.nchan /\ got.samplerate = src.stat.samplerate
      /\ got.samplebits = src.stat.samplebits /\ got.off = DataStart /\ got.size = Inside(src)
  BY <1>3, <1>5 DEF TTA1Fits
<1> HIDE DEF r, got
<1>8. fc' = "OK" /\ check' = "bounds"
  BY <1>1, <1>2, <1>6, TakeRegular
<1>9. stat' = got
  BY <1>1, <1>8
<1>10. StatRead' /\ Inside(src)' = Inside(src) /\ stat'.off = DataStart /\ stat'.size = Inside(src)
  BY <1>1, <1>7, <1>9 DEF StatRead
<1> QED
  BY <1>1, <1>8, <1>10, SameFile DEF Course, Got

LEMMA RawCourse ==
  ASSUME SafeInv, CourseInv, rawpcm_statcopy
  PROVE  CourseInv'
<1>1. use' = "raw"
  BY DEF rawpcm_statcopy, SafeInv, UseInv
<1>2. ~Regular'
  BY <1>1 DEF Regular, Asked
<1> QED
  BY <1>2 DEF CourseInv

LEMMA BoundsCourse ==
  ASSUME SafeInv, CourseInv, check_bounds
  PROVE  CourseInv'
<1> SUFFICES ASSUME Regular' PROVE Course'
  BY DEF CourseInv
<1>1. /\ src' = src /\ file' = file /\ use' = use /\ stat' = stat /\ check = "bounds" /\ faulted' = faulted
  BY DEF check_bounds
<1>2. Regular /\ Course
  BY <1>1, RegularBefore
<1>3. StatRead /\ stat.off = DataStart /\ stat.size = Inside(src)
  BY <1>1, <1>2 DEF Course, Got
<1>4. InBounds(stat)
  BY <1>2, <1>3 DEF Regular, Supported, InBounds, StatRead
<1>5. check' = "rest"
  BY <1>4 DEF check_bounds
<1>6. StatRead' /\ Inside(src)' = Inside(src)
  BY <1>1, <1>3 DEF StatRead
<1> QED
  BY <1>1, <1>3, <1>5, <1>6, SameFile DEF Course, Got

LEMMA StatsCourse ==
  ASSUME SafeInv, CourseInv, filestats_get
  PROVE  CourseInv'
<1> SUFFICES ASSUME Regular' PROVE Course'
  BY DEF CourseInv
<1>1. /\ src' = src /\ file' = file /\ use' = use /\ stat' = stat /\ check = "rest" /\ faulted' = faulted
  BY DEF filestats_get
<1>2. Regular /\ Course
  BY <1>1, RegularBefore
<1>3. StatRead /\ stat.off = DataStart /\ stat.size = Inside(src)
  BY <1>1, <1>2 DEF Course, Got
<1>4. NErrors(stat) = NErrors(src.stat)
  BY <1>3 DEF NErrors, StatRead, samplebytes
<1>5. check' = "accepted"
  BY <1>2, <1>4 DEF filestats_get, Regular, Supported
<1>6. StatRead' /\ Inside(src)' = Inside(src)
  BY <1>1, <1>3 DEF StatRead
<1> QED
  BY <1>1, <1>3, <1>5, <1>6, SameFile DEF Course, Got

\* Over a regular file the stream goes from tag to tag and from chunk to
\* chunk, and the checks succeed (filestats_get, cli/open.c).
THEOREM FollowsTheChunks == CheckSpec => []CourseInv
<1>1. CheckInit => CourseInv
  <2> SUFFICES ASSUME CheckInit, Regular PROVE Course
    BY DEF CourseInv
  <2>1. check = "ape" /\ pos = 0 /\ src \in Sources
    BY DEF CheckInit, Regular, Asked
  <2>2. src.tag \in {"none", "ape", "apes"}
    BY <2>1, SourceIs DEF Regular
  <2>3. 0 \in TagBounds(src.tag)
    BY <2>2 DEF TagBounds
  <2> QED
    BY <2>1, <2>3 DEF Course, Got
<1>2. SafeInv /\ CourseInv /\ [CheckNext]_checkVars => CourseInv'
  <2> SUFFICES ASSUME SafeInv, CourseInv, [CheckNext]_checkVars PROVE CourseInv'
    OBVIOUS
  <2>1. CASE UNCHANGED checkVars
    <3> SUFFICES ASSUME Regular' PROVE Course'
      BY DEF CourseInv
    <3>1. /\ src' = src /\ file' = file /\ use' = use /\ faulted' = faulted /\ check' = check /\ pos' = pos
          /\ fc0' = fc0 /\ want' = want /\ kind' = kind /\ stat' = stat
      BY <2>1 DEF checkVars
    <3>2. Course
      BY <3>1, RegularBefore
    <3>3. StatRead' = StatRead /\ Inside(src)' = Inside(src)
      BY <3>1 DEF StatRead
    <3> QED
      BY <3>1, <3>2, <3>3, SameFile DEF Course, Got
  <2>2. CASE CheckNext
    BY <2>2, ApeCourse, ID3Course, WaveCourse, FindCourse, FmtCourse, WfxCourse, DataCourse,
       TTA1Course, RawCourse, BoundsCourse, StatsCourse DEF CheckNext
  <2> QED
    BY <2>1, <2>2
<1>3. CheckSpec => []SafeInv
  BY CheckedSafely
<1> QED
  BY <1>1, <1>2, <1>3, PTL DEF CheckSpec

\* Both together: the inductive invariant of the checks.
THEOREM FileCheckInvariant == CheckSpec => []CheckInv
BY CheckedSafely, FollowsTheChunks, PTL DEF CheckInv

\* The stats of an accepted file, as far as the course of the checks tells.
LEMMA StatOf ==
  ASSUME Types, Got, Course
  PROVE  stat = [src.stat EXCEPT !.off = DataStart, !.size = Inside(src)]
<1>1. stat \in ReadStats /\ src.stat \in Stats
  BY SourceIs DEF Types
<1>2. StatRead /\ stat.off = DataStart /\ stat.size = Inside(src)
  BY DEF Course
<1>3. stat = [nchan |-> stat.nchan, samplebits |-> stat.samplebits, samplerate |-> stat.samplerate,
              off |-> stat.off, size |-> stat.size]
  BY <1>1 DEF ReadStats
<1> QED
  BY <1>1, <1>2, <1>3 DEF StatRead, Stats

\* The samples of the files of other programs are found behind chunks of even
\* lengths whose fmt chunk ends with the structs that are read
\* (filecheck_wav_find_subchunk and filecheck_w64_find_subchunk, cli/formats).
THEOREM DataIsFound == CheckSpec => []FindsTheData
<1>1. SafeInv /\ CourseInv => FindsTheData
  <2> SUFFICES ASSUME SafeInv, CourseInv,
                      Checked /\ ~faulted /\ Asked /\ src.maker = "foreign" /\ PlainChunks,
                      src.tag # "id3" /\ src.size > 0 /\ Supported(src.stat)
               PROVE  IF \E z \in DOMAIN src.chunks : src.chunks[z] # "list"
                        THEN check = "accepted" /\ stat = [src.stat EXCEPT !.off = DataStart, !.size = src.size]
                        ELSE check = "failed"
    BY DEF FindsTheData
  <2>1. /\ Types /\ src \in Sources /\ src.state = "whole" /\ src.format \in {"wav", "w64"} /\ src.stat \in Stats
        /\ src.chunks \in Seq(ForeignChunks)
    BY SourceIs DEF SafeInv, Types
  <2>2. DOMAIN src.chunks = 1..Len(src.chunks)
    BY <2>1
  <2>3. CASE \E z \in DOMAIN src.chunks : src.chunks[z] # "list"
    <3>1. Regular
      BY <2>1, <2>2, <2>3 DEF Regular, PlainChunks, Plain
    <3>2. Course
      BY <3>1 DEF CourseInv
    <3>3. check = "accepted"
      BY <3>2 DEF Checked, Course
    <3>4. Inside(src) = src.size
      BY DEF Inside
    <3>5. stat = [src.stat EXCEPT !.off = DataStart, !.size = Inside(src)]
      BY <2>1, <3>2, <3>3, StatOf DEF Got
    <3> QED
      BY <2>3, <3>3, <3>4, <3>5
  <2>4. CASE \A z \in DOMAIN src.chunks : src.chunks[z] = "list"
    <3>1. FmtChunksIn(file, {})
      <4>1. \A z \in 1..Len(src.chunks) : FmtChunksIn(ForeignChunk(src.format, src.chunks[z], src.stat), {})
        <5>1. ForeignChunk(src.format, "list", src.stat) \in Seq(Fields(WaveIds \ {"fmt"}))
          BY <2>1, OtherChunkFields
        <5>2. FmtChunksIn(ForeignChunk(src.format, "list", src.stat), {})
          BY <5>1, FmtNoneOf
        <5> QED
          BY <2>2, <2>4, <5>2
      <4> QED
        BY <2>1, <4>1, ForeignFmt DEF Types
    <3>2. SUFFICES ASSUME check # "failed" PROVE FALSE
      BY <2>4
    <3>3. check = "accepted" /\ use = "encode"
      BY <2>1, <3>2 DEF Checked, Asked
    <3>4. PICK p \in 0..Len(file) : FmtRead(p)
      BY <3>3 DEF SafeInv, FoundInv, Got
    <3>5. PICK n \in {4, 16} : Begins(file, p, "fmt", n)
      BY <3>4 DEF FmtRead
    <3>6. p \in Nat
      BY <3>5 DEF Begins
    <3>7. \E v \in {} : FmtAt(file, p, n, v)
      BY <2>1, <3>1, <3>5, <3>6, FmtOnly
    <3> QED
      BY <3>7
  <2> QED
    BY <2>3, <2>4
<1> QED
  BY <1>1, CheckedSafely, FollowsTheChunks, PTL

\* What one mode of the program wrote the other reads (write_wav_header and
\* its like, cli/formats, and filestats_get, cli/open.c).
THEOREM WrittenIsRead == CheckSpec => []ReadsWhatItWrites
<1>1. SafeInv /\ CourseInv => ReadsWhatItWrites
  <2> SUFFICES ASSUME SafeInv, CourseInv,
                      Checked /\ ~faulted /\ Asked /\ src.state = "whole" /\ src.maker = "own",
                      src.tag # "id3" /\ src.size > 0 /\ Supported(src.stat),
                      Len(file) - Len(TagBytes(src.tag)) >= ApeTagHF
               PROVE  /\ check = "accepted"
                      /\ stat = [src.stat EXCEPT !.off = DataStart, !.size = stat.size]
                      /\ \/ stat.size = src.size
                         \/ /\ stat.size = U32MAX /\ src.size > U32MAX
                            /\ src.format = "wav" => WarnsOfSize(src.size)
    BY DEF ReadsWhatItWrites
  <2>1. Types /\ src \in Sources /\ src.size \in Nat /\ src.format \in {"wav", "w64", "tta1"}
    BY SourceIs DEF SafeInv, Types
  <2>2. Regular
    BY DEF Regular, Start
  <2>3. Course
    BY <2>2 DEF CourseInv
  <2>4. check = "accepted"
    BY <2>3 DEF Checked, Course
  <2>5. stat = [src.stat EXCEPT !.off = DataStart, !.size = Inside(src)] /\ stat.size = Inside(src)
    BY <2>1, <2>3, <2>4, StatOf DEF Got, Course
  <2>6. \/ Inside(src) = src.size
        \/ /\ Inside(src) = U32MAX /\ src.size > U32MAX
           /\ src.format = "wav" => WarnsOfSize(src.size)
    BY <2>1, U32Assumption DEF Inside, data_field, WarnsOfSize, WriteTemplate, RiffChunk, RiffHeader, FmtBody, WfxTail
  <2> QED
    BY <2>4, <2>5, <2>6
<1> QED
  BY <1>1, CheckedSafely, FollowsTheChunks, PTL

=============================================================================
