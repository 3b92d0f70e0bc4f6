------------------------------ MODULE Headers ------------------------------
(***************************************************************************)
(* The headers the program writes and reads (cli/formats).  A file is a    *)
(* sequence of byte cells: a cell is <<kind, value, k, n>>, the k-th of    *)
(* the n bytes of a field, so that a field is read only where it begins.   *)
(* The sizes of the structs are those of the code, UINT32_MAX and          *)
(* UINT64_MAX are small.                                                   *)
(***************************************************************************)
EXTENDS Integers, Sequences

CONSTANTS
  U32MAX,  \* UINT32_MAX: the largest size a RIFF header or a sample count a
           \* TTA1 header can hold
  U64MAX   \* UINT64_MAX: the largest size in a W64 header

ASSUME U32Assumption == U32MAX \in Nat /\ U32MAX > 100
ASSUME U64Assumption == U64MAX \in Nat /\ U64MAX > 10000 /\ U64MAX > 2 * U32MAX

Cells(kind, v, n) == [k \in 1..n |-> <<kind, v, k, n>>]
Id(s, n)  == Cells("id", s, n)
Num(v, n) == Cells("num", v, n)
Raw(n)    == Cells("raw", 0, n)   \* samples, and whatever else is no header
Zero(n)   == Cells("zero", 0, n)  \* reserved by ftruncate

\* The n cells of f from offset pos on, which counts from 0.
At(f, pos, n)     == SubSeq(f, pos + 1, pos + n)
HasId(f, pos, s, n) == At(f, pos, n) = Id(s, n)

\* What an integer of n bytes at pos is read as: its value if one begins
\* there, and anything if not; of eight bytes it may have its top bit set.
JunkNumbers(n) ==
  {0, 3, 30, 4000} \cup (IF n = 8 THEN {U64MAX - 55, U64MAX - 3999} ELSE {})

NumsAt(f, pos, n) ==
  LET c == At(f, pos, n)
  IN  IF c[1][1] = "num" /\ c = Num(c[1][2], n) THEN {c[1][2]}
      ELSE IF c[1][1] = "zero" THEN {0} ELSE JunkNumbers(n)

-----------------------------------------------------------------------------
\* Sizes of struct RiffHeader and Riff64Header, and of the larger ones.
RiffHeader(kind) == IF kind = "wav" THEN 8 ELSE 24
RiffChunk(kind)  == IF kind = "wav" THEN 12 ELSE 40
FmtBody    == 16
WfxTail    == 24
WriteTemplate(kind) == RiffChunk(kind) + 2 * RiffHeader(kind) + FmtBody + WfxTail
TTA1Header == 22
ApeTagHF   == 32
ID3TagHeader == 10

\* A chunk's size does not count the chunk's header in RIFF, and does in W64.
SizeField(kind, bodylen) == IF kind = "wav" THEN bodylen ELSE bodylen + RiffHeader(kind)

ChunkHeader(kind, id, bodylen) ==
  IF kind = "wav" THEN Id(id, 4) \o Num(SizeField(kind, bodylen), 4)
                  ELSE Id(id, 16) \o Num(SizeField(kind, bodylen), 8)

WaveHeader(kind, size) ==
  IF kind = "wav" THEN Id("RIFF", 4) \o Num(size, 4) \o Id("WAVE", 4)
                  ELSE Id("RIFF", 16) \o Num(size, 8) \o Id("WAVE", 16)

-----------------------------------------------------------------------------
\* Writing.  s is what struct FileStats says of the samples.
samplebytes(s) == (s.samplebits + 7) \div 8

fill_waveformatex_body(s, format) ==
  Num(format, 2) \o Num(s.nchan, 2) \o Num(s.samplerate, 4)
    \o Num((s.samplerate * s.nchan * samplebytes(s)) % (U32MAX + 1), 4)
    \o Num(s.nchan * samplebytes(s), 2) \o Num(s.samplebits, 2)

\* size is WfxTail less the field itself in what the program writes.
fill_waveformatextensible(s, size) ==
  Num(size, 2) \o Num(s.samplebits, 2) \o Num(0, 4) \o Id("PCM", 16)

FMT_PCM == 1
FMT_EXTENSIBLE == 65534

\* The size of the RIFF chunk; the last sizes before it is cut to UINT32_MAX
\* wrap (the test takes off 12 bytes where 8 are added).
riff_size(data_size) ==
  IF data_size >= U32MAX - WriteTemplate("wav") + RiffChunk("wav") THEN U32MAX
  ELSE (data_size + WriteTemplate("wav") - RiffHeader("wav")) % (U32MAX + 1)

\* Mutant of data_field: the size is cut to its low bits.
data_field_wrapping(data_size) == data_size % (U32MAX + 1)

data_field(data_size) == IF data_size >= U32MAX THEN U32MAX ELSE data_size

write_wav_header(s, data_size) ==
  WaveHeader("wav", riff_size(data_size))
    \o ChunkHeader("wav", "fmt", FmtBody + WfxTail)
    \o fill_waveformatex_body(s, FMT_EXTENSIBLE)
    \o fill_waveformatextensible(s, WfxTail - 2)
    \o Id("data", 4) \o Num(data_field(data_size), 4)

\* The warnings of write_wav_header.
WarnsOfSize(data_size) ==
  data_size > U32MAX - WriteTemplate("wav") + RiffChunk("wav")

write_w64_header(s, data_size) ==
  WaveHeader("w64", data_size + WriteTemplate("w64"))
    \o ChunkHeader("w64", "fmt", FmtBody + WfxTail)
    \o fill_waveformatex_body(s, FMT_EXTENSIBLE)
    \o fill_waveformatextensible(s, WfxTail - 2)
    \o ChunkHeader("w64", "data", data_size)

\* The checksum is a field that holds what it is computed from.
write_tta1_header(s, nsamples) ==
  LET body == Id("TTA1", 4) \o Num(FMT_PCM, 2) \o Num(s.nchan, 2)
                \o Num(s.samplebits, 2) \o Num(s.samplerate, 4)
                \o Num(IF nsamples > U32MAX THEN U32MAX ELSE nsamples, 4)
  IN  body \o Cells("crc", body, 4)

-----------------------------------------------------------------------------
\* An APE tag at the start of a file: size counts the items and the footer.
ApeTag(items) ==
  Id("APETAGEX", 8) \o Num(2000, 4) \o Num(items + ApeTagHF, 4) \o Num(1, 4)
    \o Num(0, 4) \o Zero(8) \o Raw(items) \o Id("APETAGEX", 8) \o Raw(24)

\* An ID3 tag: the size without the header, seven bits to a byte, the most
\* significant first.
ID3Tag(len) ==
  Id("ID3", 3) \o Num(3, 2) \o Num(0, 1)
    \o Num(0, 1) \o Num(0, 1) \o Num(len \div 128, 1) \o Num(len % 128, 1) \o Raw(len)

=============================================================================
