----------------------------- MODULE FileCheck -----------------------------
(***************************************************************************)
(* How a file is recognised before it is coded: filestats_get and          *)
(* filecheck_codecfmt (cli/open.c) with the tag skipper and the checks of  *)
(* the formats (cli/formats/*_check.c).  One step is one read of the file  *)
(* and the seek that follows it; pos is the offset of the stream, and a    *)
(* read or a seek may fail once (a fault).                                 *)
(***************************************************************************)
EXTENDS Headers, FiniteSets

CONSTANTS
  Sources,  \* the files: see Image
  RawStat,  \* what the options say of raw PCM
  BuiltFor  \* the loops the library is built with: "1ch", "2ch", "mch"

\* What the fields of a FileStats can be, and the files: those this program
\* writes, and those of other programs, which have one fmt chunk if it says
\* that the samples are not PCM.
Stats == [nchan : Nat, samplebits : Nat, samplerate : Nat, off : Nat, size : Nat]

FmtChunks == {"pcm", "ext", "float", "pcm18", "ext42"}

\* A W64 file has only chunks of lengths that are multiples of eight; the
\* size of "back" is that of 56 bytes before its start, taken for an off_t.
ChunksIn(format) ==
  IF format = "wav" THEN FmtChunks \cup {"list", "odd"}
                    ELSE {"pcm", "ext", "float", "list", "back"}

IsSource(x) ==
  /\ x.stat \in Stats /\ x.size \in Nat /\ x.size <= U64MAX - WriteTemplate("w64")
  /\ x.tag \in {"none", "ape", "apes", "id3"}
  /\ \/ /\ x.maker = "own" /\ x.format \in {"wav", "w64", "tta1"}
        /\ \/ x.state \in {"whole", "unfinished"}
           \/ x.state = "damaged" /\ x.format = "tta1" /\ x.at \in 1..TTA1Header
     \/ /\ x.maker = "foreign" /\ x.format \in {"wav", "w64"} /\ x.state = "whole"
        /\ x.chunks \in Seq(ChunksIn(x.format))
        /\ \A i, j \in DOMAIN x.chunks :
             x.chunks[i] = "float" /\ x.chunks[j] \in FmtChunks => i = j

ASSUME SourcesAssumption == \A x \in Sources : IsSource(x)
ASSUME RawStatAssumption == RawStat \in Stats /\ samplebytes(RawStat) \in 1..3

VARIABLES
  src,      \* the file, described
  file,     \* its bytes
  use,      \* "encode", "decode", or "raw": encode with --rawpcm
  check,    \* what is read next
  pos,      \* offset in the file
  fc0,      \* what apetag_skip returned
  fc,       \* what the last check returned
  want,     \* subchunk searched for
  kind,     \* format of the chunks: "wav" or "w64"
  stat,     \* struct FileStats
  faulted   \* whether a read or a seek failed

checkVars == <<src, file, use, check, pos, fc0, fc, want, kind, stat, faulted>>

-----------------------------------------------------------------------------
(***************************************************************************)
(* The bytes of a file.  maker is "own" for what this program writes (raw  *)
(* samples behind it), "foreign" for chunks in the order of src.chunks.    *)
(* An unfinished file has its header only reserved; a damaged TTA1 header  *)
(* has one byte changed.                                                   *)
(***************************************************************************)
ListBody(k) == IF k = "wav" THEN 12 ELSE 32  \* it looks like a data chunk

ForeignChunk(k, c, s) ==
  CASE c = "pcm"  -> ChunkHeader(k, "fmt", FmtBody) \o fill_waveformatex_body(s, FMT_PCM)
    [] c = "ext"  -> ChunkHeader(k, "fmt", FmtBody + WfxTail)
                       \o fill_waveformatex_body(s, FMT_EXTENSIBLE)
                       \o fill_waveformatextensible(s, WfxTail - 2)
    [] c = "float" -> ChunkHeader(k, "fmt", FmtBody) \o fill_waveformatex_body(s, 3)
    [] c = "pcm18" -> ChunkHeader(k, "fmt", FmtBody + 2)
                       \o fill_waveformatex_body(s, FMT_PCM) \o Num(0, 2)
    [] c = "ext42" -> ChunkHeader(k, "fmt", FmtBody + WfxTail + 2)
                       \o fill_waveformatex_body(s, FMT_EXTENSIBLE)
                       \o fill_waveformatextensible(s, WfxTail) \o Raw(2)
    [] c = "list" -> ChunkHeader(k, "LIST", ListBody(k))
                       \o ChunkHeader(k, "data", 5) \o Raw(ListBody(k) - RiffHeader(k))
    [] c = "odd"  -> ChunkHeader(k, "LIST", 5) \o Raw(6)
    [] c = "back" -> ChunkHeader(k, "LIST", U64MAX - 79)

ForeignUpTo(k, chunks, s) ==
  LET cat[i \in 0..Len(chunks)] ==
        IF i = 0 THEN WaveHeader(k, U32MAX) ELSE cat[i - 1] \o ForeignChunk(k, chunks[i], s)
  IN  cat

ForeignHead(k, chunks, s) == ForeignUpTo(k, chunks, s)[Len(chunks)]

HeadOf(x) ==
  CASE x.maker = "foreign" -> ForeignHead(x.format, x.chunks, x.stat)
                                \o ChunkHeader(x.format, "data", x.size)
    [] x.maker = "own" /\ x.format = "wav"  -> write_wav_header(x.stat, x.size)
    [] x.maker = "own" /\ x.format = "w64"  -> write_w64_header(x.stat, x.size)
    [] x.maker = "own" /\ x.format = "tta1" -> write_tta1_header(x.stat, x.size)

TagBytes(tag) == CASE tag = "none" -> <<>>
                   [] tag = "ape"  -> ApeTag(3)
                   [] tag = "apes" -> ApeTag(0) \o ApeTag(2)
                   [] tag = "id3"  -> ID3Tag(9)

Image(x) ==
  LET head == HeadOf(x)
      kept == CASE x.state = "whole"      -> head
                [] x.state = "unfinished" -> Zero(Len(head))
                [] x.state = "damaged"    -> [head EXCEPT ![x.at] = <<"raw", 1, 1, 1>>]
  IN  TagBytes(x.tag) \o kept \o Raw(x.size)

-----------------------------------------------------------------------------
Unset == [nchan |-> 0, samplebits |-> 0, samplerate |-> 0, off |-> 0, size |-> 0]

CheckInit ==
  /\ src \in Sources
  /\ file = Image(src)
  /\ use \in {"encode", "decode", "raw"}
  /\ check = IF use = "raw" THEN "raw" ELSE "ape"
  /\ pos = 0 /\ fc0 = "OK" /\ fc = "OK" /\ want = "fmt" /\ kind = "wav"
  /\ stat = Unset /\ faulted = FALSE

IOErrors == {"READ_ERROR", "SEEK_ERROR"}

\* The end of the file is met by a read of n bytes at p.
Short(p, n) == p + n > Len(file)
TooShort    == <<"MALFORMED", Len(file)>>

\* The number at p, in a struct whose start was recognised.
NumAt(p, n) == CHOOSE v \in NumsAt(file, p, n) : TRUE

\* A fault leaves the stream before or behind the n bytes of the read.
Faults(n) ==
  IF faulted THEN {} ELSE {<<"READ_ERROR", pos>>, <<"SEEK_ERROR", pos + n>>}

\* The step takes a result: goes on at ok, at mismatch, or to the error.
Take(results, n, ok, mismatch) ==
  \E r \in results \cup Faults(n) :
    /\ fc' = r[1] /\ pos' = r[2]
    /\ faulted' = (faulted \/ r[1] \in IOErrors)
    /\ check' = CASE r[1] = "OK"       -> ok
                  [] r[1] = "MISMATCH" -> mismatch
                  [] r[1] = "AGAIN"    -> check
                  [] OTHER             -> "failed"

-----------------------------------------------------------------------------
\* Mutant of ApeResults: the stream is set back behind a tag as well.
ApeResultsInPlace ==
  IF Short(pos, ApeTagHF) THEN {TooShort}
  ELSE {<<IF HasId(file, pos, "APETAGEX", 8) THEN "OK" ELSE "MISMATCH", pos>>}

ApeResults ==
  IF Short(pos, ApeTagHF) THEN {TooShort}
  ELSE IF HasId(file, pos, "APETAGEX", 8)
         THEN {<<"OK", pos + ApeTagHF + NumAt(pos + 12, 4)>>}
         ELSE {<<"MISMATCH", pos>>}

apetag_skip ==
  /\ check = "ape"
  /\ \E r \in ApeResults \cup Faults(ApeTagHF) :
       /\ fc0' = r[1] /\ pos' = r[2]
       /\ faulted' = (faulted \/ r[1] \in IOErrors)
  /\ check' = "id3"
  /\ UNCHANGED <<src, file, use, fc, want, kind, stat>>

id3syncsafeint(x0, x1, x2, x3) == x0 + 128 * x1 + 128^2 * x2 + 128^3 * x3

ID3Results ==
  IF Short(pos, ID3TagHeader) THEN {TooShort}
  ELSE IF HasId(file, pos, "ID3", 3)
         THEN {<<"OK", pos + ID3TagHeader +
                       id3syncsafeint(NumAt(pos + 6, 1), NumAt(pos + 7, 1),
                                      NumAt(pos + 8, 1), NumAt(pos + 9, 1))>>}
         ELSE {<<"MISMATCH", pos>>}

\* Either tag found is reason enough to look again.
metatags_retval(a, b) ==
  IF a = "OK" \/ b = "OK" THEN "OK" ELSE IF a # "MISMATCH" THEN a ELSE b

id3tag_skip ==
  /\ check = "id3"
  /\ \E r \in ID3Results \cup Faults(ID3TagHeader) :
       LET retval == metatags_retval(fc0, r[1])
       IN  /\ fc' = retval /\ pos' = r[2]
           /\ faulted' = (faulted \/ r[1] \in IOErrors)
           /\ check' = CASE retval = "OK" -> "ape"
                         [] retval = "MISMATCH" -> (IF use = "encode" THEN "wav" ELSE "tta1")
                         [] OTHER -> "failed"
  /\ UNCHANGED <<src, file, use, fc0, want, kind, stat>>

-----------------------------------------------------------------------------
idlen(k) == IF k = "wav" THEN 4 ELSE 16

WaveResults(k) ==
  LET n == RiffChunk(k)
  IN  IF Short(pos, n) THEN {TooShort}
      ELSE IF HasId(file, pos, "RIFF", idlen(k)) /\ HasId(file, pos + RiffHeader(k), "WAVE", idlen(k))
             THEN {<<"OK", pos + n>>} ELSE {<<"MISMATCH", pos>>}

filecheck_wav ==
  /\ check = "wav"
  /\ Take(WaveResults("wav"), RiffChunk("wav"), "find", "w64")
  /\ kind' = "wav" /\ want' = "fmt"
  /\ UNCHANGED <<src, file, use, fc0, stat>>

filecheck_w64 ==
  /\ check = "w64"
  /\ Take(WaveResults("w64"), RiffChunk("w64"), "find", "failed")
  /\ kind' = "w64" /\ want' = "fmt"
  /\ UNCHANGED <<src, file, use, fc0, stat>>

\* The number of bytes behind the header of a chunk, or none if the chunk is
\* taken for malformed.
BodyLens(p) ==
  {IF kind = "wav" THEN v ELSE v - RiffHeader(kind) :
     v \in NumsAt(file, p + idlen(kind), IF kind = "wav" THEN 4 ELSE 8)}

\* A size of the file taken for an offset.
off_t(v) == IF 2 * v > U64MAX THEN v - U64MAX - 1 ELSE v

\* The seek over a body of len bytes: nothing comes before the file's start.
Skip(p, len) == IF p + off_t(len) < 0 THEN <<"SEEK_ERROR", p>> ELSE <<"AGAIN", p + off_t(len)>>

\* Mutant of FindResults: the body is skipped from the start of the header.
FindResultsShort ==
  IF Short(pos, RiffHeader(kind)) THEN {TooShort}
  ELSE {IF len <= 0 THEN <<"MALFORMED", pos + RiffHeader(kind)>>
        ELSE IF HasId(file, pos, want, idlen(kind)) THEN <<"OK", pos>>
        ELSE Skip(pos, len) : len \in BodyLens(pos)}

FindResults ==
  IF Short(pos, RiffHeader(kind)) THEN {TooShort}
  ELSE {IF len <= 0 THEN <<"MALFORMED", pos + RiffHeader(kind)>>
        ELSE IF HasId(file, pos, want, idlen(kind)) THEN <<"OK", pos>>
        ELSE Skip(pos + RiffHeader(kind), len) : len \in BodyLens(pos)}

find_subchunk ==
  /\ check = "find"
  /\ Take(FindResults, RiffHeader(kind), IF want = "fmt" THEN "fmt" ELSE "data", "failed")
  /\ UNCHANGED <<src, file, use, fc0, want, kind, stat>>

\* The body of the fmt chunk, and its tail if the format is extensible.
read_subchunk_fmt ==
  /\ check = "fmt"
  /\ LET p      == pos + RiffHeader(kind)
         format == NumAt(p, 2)
         result == IF Short(p, FmtBody) THEN TooShort
                   ELSE IF format \notin {FMT_PCM, FMT_EXTENSIBLE}
                          THEN <<"UNSUPPORTED_DATATYPE", p + FmtBody>>
                   ELSE <<"OK", p + FmtBody>>
     IN  /\ Take({result}, FmtBody, IF format = FMT_PCM THEN "find" ELSE "wfx", "failed")
         /\ stat' = IF fc' # "OK" THEN stat
                    ELSE [stat EXCEPT !.nchan      = NumAt(p + 2, 2),
                                      !.samplerate = NumAt(p + 4, 4),
                                      !.samplebits = NumAt(p + 14, 2)]
  /\ want' = "data"
  /\ UNCHANGED <<src, file, use, fc0, kind>>

\* A tail of another size than the struct's is meant to be skipped to its
\* end, but the stream moves by the difference in the other direction.
read_subchunk_wfx ==
  /\ check = "wfx"
  /\ LET size   == NumAt(pos, 2)
         result == IF Short(pos, WfxTail) THEN TooShort
                   ELSE IF ~HasId(file, pos + 8, "PCM", 16)
                          THEN <<"UNSUPPORTED_DATATYPE", pos + WfxTail>>
                   ELSE IF size = 0 THEN <<"MALFORMED", pos + WfxTail>>
                   ELSE <<"OK", pos + WfxTail + (WfxTail - (size + 2))>>
     IN  Take({result}, WfxTail, "find", "failed")
  /\ UNCHANGED <<src, file, use, fc0, want, kind, stat>>

read_data ==
  /\ check = "data"
  /\ Take({<<"OK", pos + RiffHeader(kind)>>}, RiffHeader(kind), "bounds", "failed")
  /\ stat' = IF fc' # "OK" THEN stat
             ELSE [stat EXCEPT !.off = pos', !.size = CHOOSE n \in BodyLens(pos) : TRUE]
  /\ UNCHANGED <<src, file, use, fc0, want, kind>>

-----------------------------------------------------------------------------
\* Mutant of HeaderCrcHolds: the checksum is not compared.
HeaderCrcAny(p) == TRUE

HeaderCrcHolds(p) == At(file, p + 18, 4) = Cells("crc", At(file, p, 18), 4)

filecheck_tta1 ==
  /\ check = "tta1"
  /\ LET end    == pos + TTA1Header
         result == IF Short(pos, TTA1Header) THEN TooShort
                   ELSE IF ~HasId(file, pos, "TTA1", 4) THEN <<"MISMATCH", pos>>
                   ELSE IF ~HeaderCrcHolds(pos) THEN <<"CORRUPTED", end>>
                   ELSE IF NumAt(pos + 4, 2) # FMT_PCM THEN <<"UNSUPPORTED_DATATYPE", end>>
                   ELSE <<"OK", end>>
     IN  /\ Take({result}, TTA1Header, "bounds", "failed")
         /\ stat' = IF fc' # "OK" THEN stat
                    ELSE [nchan      |-> NumAt(pos + 6, 2),
                          samplebits |-> NumAt(pos + 8, 2),
                          samplerate |-> NumAt(pos + 10, 4),
                          off        |-> end,
                          size       |-> NumAt(pos + 14, 4)]
  /\ UNCHANGED <<src, file, use, fc0, want, kind>>

\* encode --rawpcm: the options for the stats, the whole file for the samples.
rawpcm_statcopy ==
  /\ check = "raw"
  /\ stat' = [RawStat EXCEPT !.off = 0, !.size = Len(file)]
  /\ pos' = Len(file)
  /\ check' = "rest"
  /\ UNCHANGED <<src, file, use, fc0, fc, want, kind, faulted>>

-----------------------------------------------------------------------------
SAMPLEBITS_MAX == 24

\* Mutant of InBounds: the resolution is not checked.
AnyBits(s) == s.nchan # 0 /\ s.samplerate # 0

InBounds(s) ==
  /\ s.nchan # 0 /\ s.samplerate # 0
  /\ s.samplebits # 0 /\ s.samplebits <= SAMPLEBITS_MAX

check_bounds ==
  /\ check = "bounds"
  /\ IF InBounds(stat) THEN check' = "rest" /\ fc' = fc
                       ELSE check' = "failed" /\ fc' = "UNSUPPORTED_RESOLUTION"
  /\ UNCHANGED <<src, file, use, pos, fc0, want, kind, stat, faulted>>

libttaR_nsamples_perframe_tta1(samplerate) == (samplerate * 256) \div 245

libttaR_test_nchan(nchan) ==
  /\ nchan # 0
  /\ \/ "mch" \in BuiltFor
     \/ nchan = 1 /\ "1ch" \in BuiltFor
     \/ nchan = 2 /\ "2ch" \in BuiltFor

\* The errors filestats_get counts after the format is known.
NErrors(s) ==
  Cardinality({e \in 1..3 :
    \/ e = 1 /\ ~libttaR_test_nchan(s.nchan)
    \/ e = 2 /\ libttaR_nsamples_perframe_tta1(s.samplerate) = 0
    \/ e = 3 /\ samplebytes(s) = 0})

filestats_get ==
  /\ check = "rest"
  /\ check' = IF NErrors(stat) = 0 THEN "accepted" ELSE "failed"
  /\ UNCHANGED <<src, file, use, pos, fc0, fc, want, kind, stat, faulted>>

Checked == check \in {"accepted", "failed"}

CheckNext ==
  \/ apetag_skip \/ id3tag_skip
  \/ filecheck_wav \/ filecheck_w64 \/ find_subchunk
  \/ read_subchunk_fmt \/ read_subchunk_wfx \/ read_data
  \/ filecheck_tta1 \/ rawpcm_statcopy
  \/ check_bounds \/ filestats_get

CheckSpec == CheckInit /\ [][CheckNext]_checkVars /\ WF_checkVars(CheckNext)
-----------------------------------------------------------------------------
\* Where the samples or the frames of the file are, behind tags and headers.
DataStart == Len(TagBytes(src.tag)) + Len(HeadOf(src))

Asked == use = (IF src.format = "tta1" THEN "decode" ELSE "encode")

Supported(s) == InBounds(s) /\ NErrors(s) = 0

\* What one mode of the program wrote the other reads, with APE tags in front
\* or not: the resolution, where the data is and how long it is, unless the
\* writer warned that the size does not fit.  Empty files are not read back:
\* a chunk of size 0 is malformed, and so is a file shorter than a tag header.
ReadsWhatItWrites ==
  /\ Checked /\ ~faulted /\ Asked /\ src.state = "whole" /\ src.maker = "own"
  /\ src.tag # "id3" /\ src.size > 0 /\ Supported(src.stat)
  /\ Len(file) - Len(TagBytes(src.tag)) >= ApeTagHF
  => /\ check = "accepted"
     /\ stat = [src.stat EXCEPT !.off = DataStart, !.size = stat.size]
     /\ \/ stat.size = src.size
        \/ stat.size = U32MAX /\ src.size > U32MAX /\ (src.format = "wav" => WarnsOfSize(src.size))

\* The samples of a file another program wrote are found behind any number of
\* chunks in any order, and never inside one, if every chunk has an even length
\* and the fmt chunk ends with the structs that are read of it (PlainChunks).
PlainChunks == \A i \in DOMAIN src.chunks : src.chunks[i] \in {"pcm", "ext", "list"}

FindsTheData ==
  /\ Checked /\ ~faulted /\ Asked /\ src.maker = "foreign" /\ PlainChunks
  /\ src.tag # "id3" /\ src.size > 0 /\ Supported(src.stat)
  => IF \E i \in DOMAIN src.chunks : src.chunks[i] # "list"
       THEN check = "accepted" /\ stat = [src.stat EXCEPT !.off = DataStart, !.size = src.size]
       ELSE check = "failed"

\* A file whose header was only reserved when the program died, whose TTA1
\* header is damaged, that is not of the mode's format, or that holds another
\* type of samples is not accepted, whatever fails on the way.
RefusesUnfinished ==
  check = "accepted" /\ use # "raw" =>
    /\ src.state = "whole" /\ Asked
    /\ src.maker = "foreign" => \A i \in DOMAIN src.chunks : src.chunks[i] # "float"

\* What is accepted can be coded: the codec's bytes per sample, a channel
\* count the library has a loop for, and frames of at least one sample.
AcceptedIsCodable ==
  check = "accepted" =>
    /\ samplebytes(stat) \in 1..3
    /\ libttaR_test_nchan(stat.nchan)
    /\ libttaR_nsamples_perframe_tta1(stat.samplerate) > 0
    /\ use # "raw" => stat.off <= Len(file)

\* The size of the W64 chunk at hand is skipped backwards.
SeeksBack ==
  check = "find" /\ ~Short(pos, RiffHeader(kind)) /\ \E len \in BodyLens(pos) : off_t(len) < 0

\* Every check comes to an end, whatever the sizes in the chunks and the tags
\* and wherever they lead, unless W64 chunks lead back for ever: the size of
\* each has its top bit set (fseeko takes it for a negative offset).
CheckEnds == <>[]~SeeksBack => <>Checked

\* A tag or a chunk that is skipped is skipped to its end, unless the read or
\* the seek fails (id3tag_skip: "seek to end of tag", with the most significant
\* byte of an ID3v2 size first; filecheck_w64_find_subchunk: "seek to end of
\* current subchunk").
ID3Ahead == check = "id3" /\ ~Short(pos, ID3TagHeader) /\ HasId(file, pos, "ID3", 3)

ID3Len(p) == 128^3 * NumAt(p, 1) + 128^2 * NumAt(p + 1, 1) + 128 * NumAt(p + 2, 1) + NumAt(p + 3, 1)

SkipsToTheEnd ==
  [][faulted' = faulted =>
       /\ ID3Ahead => pos' = pos + ID3TagHeader + ID3Len(pos + 6)
       /\ check = "find" /\ fc' = "AGAIN" =>
            pos' \in {pos + RiffHeader(kind) + len : len \in BodyLens(pos)}]_checkVars

=============================================================================
