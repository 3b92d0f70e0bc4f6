---------------------------- MODULE FileCheckInv ----------------------------
(***************************************************************************)
(* The inductive invariant of FileCheck: what the checks that were passed  *)
(* prove of the file, and, for a file that is whole, where the stream is.  *)
(***************************************************************************)
EXTENDS FileCheck

\* The ids and the cells of a file.
WaveIds == {"RIFF", "WAVE", "fmt", "PCM", "data", "LIST"}
TagIds  == {"APETAGEX", "ID3"}
Ids     == WaveIds \cup TagIds \cup {"TTA1"}

PlainCell == ({"id"} \X Ids \X Nat \X Nat) \cup ({"num", "raw", "zero"} \X Nat \X Nat \X Nat)
Cell      == PlainCell \cup ({"crc"} \X Seq(PlainCell) \X Nat \X Nat)

\* f has the cells g at offset p.
Has(f, p, g) ==
  p \in Nat /\ p + Len(g) <= Len(f) /\ \A i \in 1..Len(g) : f[p + i] = g[i]

\* No id of f is s.
Free(f, s) == \A i \in 1..Len(f) : ~(f[i][1] = "id" /\ f[i][2] = s)

\* An id of n bytes begins at offset p.
Begins(f, p, s, n) == p \in Nat /\ n \in {4, 8, 16} /\ Has(f, p, Id(s, n))

\* The size of the header of a chunk whose id has n bytes.
HeaderOf(n) == IF n = 4 THEN 8 ELSE 24

\* A fmt chunk of format v, with its tail if v is extensible.
FmtAt(f, p, n, v) ==
  /\ p + HeaderOf(n) + FmtBody <= Len(f)
  /\ Has(f, p + HeaderOf(n), Num(v, 2))
  /\ v = FMT_EXTENSIBLE =>
       \E size \in {WfxTail - 2, WfxTail} : Has(f, p + HeaderOf(n) + FmtBody, Num(size, 2))

\* Wherever the id of a fmt chunk begins there is one, of a format in V.
FmtChunksIn(f, V) ==
  \A i \in 1..Len(f) :
    f[i][1] = "id" /\ f[i][2] = "fmt" /\ f[i][3] = 1 => \E v \in V : FmtAt(f, i - 1, f[i][4], v)

-----------------------------------------------------------------------------
\* A fmt chunk was read and accepted; the header of TTA1 was.
FmtRead(p) ==
  \E n \in {4, 16}, v \in {FMT_PCM, FMT_EXTENSIBLE} :
    Begins(file, p, "fmt", n) /\ FmtAt(file, p, n, v)

TTA1Read(p) ==
  p + TTA1Header <= Len(file) /\ Begins(file, p, "TTA1", 4) /\ HeaderCrcHolds(p)

\* The stats are complete.
Got == check \in {"bounds", "rest", "accepted"}

\* The stats while they are read: of the size it is known only that it is a
\* number, for the size of a W64 chunk may be less than that of its header.
ReadStats == [nchan : Nat, samplebits : Nat, samplerate : Nat, off : Nat, size : Int]

Types ==
  /\ src \in Sources /\ file = Image(src)
  /\ use \in {"encode", "decode", "raw"}
  /\ check \in {"ape", "id3", "wav", "w64", "find", "fmt", "wfx", "data", "tta1", "raw",
                "bounds", "rest", "accepted", "failed"}
  /\ pos \in Nat /\ stat \in ReadStats
  /\ want \in {"fmt", "data"} /\ kind \in {"wav", "w64"}

\* Which checks belong to which use.
UseInv ==
  /\ check \in {"wav", "w64", "find", "fmt", "wfx", "data"} => use = "encode"
  /\ check = "tta1" => use = "decode"
  /\ check = "raw" => use = "raw"
  /\ use = "raw" => check \in {"raw", "rest", "accepted", "failed"}

\* What was found in the file.
FoundInv ==
  /\ check \in {"find", "fmt", "wfx", "data"} \/ (Got /\ use = "encode") => ~Free(file, "RIFF")
  /\ check \in {"fmt", "data"} => pos + RiffHeader(kind) <= Len(file)
  /\ check = "fmt" => Begins(file, pos, "fmt", idlen(kind))
  /\ check = "wfx" => \E p \in 0..Len(file) :
                       /\ pos = p + RiffHeader(kind) + FmtBody
                       /\ Begins(file, p, "fmt", idlen(kind))
                       /\ FmtAt(file, p, idlen(kind), FMT_EXTENSIBLE)
  /\ \/ want = "data" /\ check \in {"find", "wfx", "data"}
     \/ Got /\ use = "encode"
     => \E p \in 0..Len(file) : FmtRead(p)
  /\ check = "data" => want = "data"
  /\ Got /\ use = "decode" => \E p \in 0..Len(file) : TTA1Read(p)

\* What the stats were checked for.
StatInv ==
  /\ Got /\ use # "raw" => stat.off <= Len(file)
  /\ check \in {"rest", "accepted"} => samplebytes(stat) \in 1..3
  /\ check = "accepted" => NErrors(stat) = 0

SafeInv == Types /\ UseInv /\ FoundInv /\ StatInv

-----------------------------------------------------------------------------
(***************************************************************************)
(* The course of the reads over a file that is meant to be accepted: the   *)
(* stream is always where a tag or a chunk begins.                         *)
(***************************************************************************)

\* The chunks in front of the data, those of other programs limited to the
\* ones that end where the program takes them to end.
Plain == {"pcm", "ext", "list"}

BodyLen(k, c) == CASE c = "list" -> ListBody(k) [] c = "pcm" -> FmtBody [] c = "ext" -> FmtBody + WfxTail

PlainChunk(k, c, s) ==
  CASE c = "pcm"  -> ChunkHeader(k, "fmt", FmtBody) \o fill_waveformatex_body(s, FMT_PCM)
    [] c = "ext"  -> ChunkHeader(k, "fmt", FmtBody + WfxTail)
                       \o fill_waveformatex_body(s, FMT_EXTENSIBLE)
                       \o fill_waveformatextensible(s, WfxTail - 2)
    [] c = "list" -> ChunkHeader(k, "LIST", ListBody(k))
                       \o ChunkHeader(k, "data", 5) \o Raw(ListBody(k) - RiffHeader(k))

ChunksOf(x) == IF x.maker = "foreign" THEN x.chunks ELSE <<"ext">>

\* The size in the header of the container, and in that of the data.
Around(x) == IF x.maker = "foreign" THEN U32MAX
             ELSE IF x.format = "wav" THEN riff_size(x.size) ELSE x.size + WriteTemplate("w64")

Inside(x) == IF x.maker = "foreign" \/ x.format = "w64" THEN x.size
             ELSE IF x.format = "wav" THEN data_field(x.size)
             ELSE IF x.size > U32MAX THEN U32MAX ELSE x.size

\* The file up to its m-th chunk, without the tags.
UpTo(x, m) ==
  IF x.maker = "foreign" THEN ForeignUpTo(x.format, x.chunks, x.stat)[m]
  ELSE IF m = 0 THEN WaveHeader(x.format, Around(x))
  ELSE WaveHeader(x.format, Around(x)) \o PlainChunk(x.format, "ext", x.stat)

\* Where the tags and the chunks end.
TagBounds(tag) == CASE tag = "none" -> {0}
                    [] tag = "ape"  -> {0, 67}
                    [] tag = "apes" -> {0, 64, 130}

Start    == Len(TagBytes(src.tag))
Bound(m) == Start + Len(UpTo(src, m))
NChunks  == Len(ChunksOf(src))
Chunk(m) == ChunksOf(src)[m]

\* Every read succeeds, and the file is one of those that are to be accepted.
Regular ==
  /\ ~faulted /\ Asked /\ src.state = "whole" /\ src.tag # "id3" /\ src.size > 0
  /\ Supported(src.stat)
  /\ src.maker = "own" => Len(file) - Start >= ApeTagHF
  /\ src.maker = "foreign" =>
       /\ \A m \in 1..Len(src.chunks) : src.chunks[m] \in Plain
       /\ \E m \in 1..Len(src.chunks) : src.chunks[m] # "list"

StatRead ==
  /\ stat.nchan = src.stat.nchan
  /\ stat.samplerate = src.stat.samplerate
  /\ stat.samplebits = src.stat.samplebits

Course ==
  /\ check # "failed"
  /\ check \in {"ape", "id3"} => pos \in TagBounds(src.tag)
  /\ check = "id3" => fc0 = "OK" \/ (fc0 = "MISMATCH" /\ pos = Start)
  /\ check \in {"wav", "w64", "tta1"} => pos = Start
  /\ check = "w64" => src.format = "w64"
  /\ check \in {"find", "fmt", "wfx", "data"} => kind = src.format
  /\ check = "find" =>
       \E m \in 0..NChunks :
         pos = Bound(m) /\ (want = "fmt" => \A k \in 1..m : Chunk(k) = "list")
  /\ check = "fmt" => \E m \in 1..NChunks : pos = Bound(m - 1) /\ Chunk(m) # "list"
  /\ check = "wfx" => /\ want = "data"
                      /\ \E m \in 1..NChunks : /\ pos = Bound(m - 1) + RiffHeader(kind) + FmtBody
                                               /\ Chunk(m) = "ext"
  /\ check = "data" => pos = Bound(NChunks)
  /\ check \in {"wfx", "data"} \/ (check = "find" /\ want = "data") \/ Got => StatRead
  /\ Got => stat.off = DataStart /\ stat.size = Inside(src)

CourseInv == Regular => Course

\* All of it: whatever a check has passed is in the file, wherever the sizes
\* in the file have led the stream, and over a file that is meant to be
\* accepted the stream is where a tag or a chunk begins (filestats_get,
\* cli/open.c).
CheckInv == SafeInv /\ CourseInv

=============================================================================
